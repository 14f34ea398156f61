----------------------------- MODULE Suggestions -----------------------------
(***************************************************************************)
(* What the pages of apps/reconciliation suggest: candidates.py looks for  *)
(* runs of funds that meet an invoice to the cent, presenters.py spreads   *)
(* open amounts over each other.  Items are the open amounts of records in *)
(* the order of their dates, as sequences of natural numbers.              *)
(***************************************************************************)
EXTENDS Integers, Sequences, Functions

Least(a, b) == IF a <= b THEN a ELSE b
At(items, k) == IF k \in DOMAIN items THEN items[k] ELSE 0

Total(items, S) == SumFunctionOnSet(items, S)

(* Mutant: total is not reset for the next start. *)
ContiguousWindowsCarried(items, target) ==
  LET n == Len(items)
      from[w \in (1..n) \X (1..n + 1) \X Nat] ==
        LET i == w[1]
            j == w[2]
            total == w[3] + items[j]
            others == IF i = n THEN {} ELSE from[<<i + 1, i + 1, total>>]
        IN IF j > n THEN IF i = n THEN {} ELSE from[<<i + 1, i + 1, w[3]>>]
           ELSE (IF total = target THEN {<<i, j>>} ELSE {})
                  \cup (IF total > target THEN others ELSE from[<<i, j + 1, total>>])
  IN IF n = 0 THEN {} ELSE from[<<1, 1, 0>>]

(* _contiguous_windows: from every start the window grows until its total  *)
(* exceeds the target; each time it equals the target it is yielded.       *)
ContiguousWindows(items, target) ==
  LET n == Len(items)
      from[w \in (1..n) \X (1..n + 1) \X Nat] ==
        LET i == w[1]
            j == w[2]
            total == w[3] + items[j]
        IN IF j > n THEN {}
           ELSE (IF total = target THEN {<<i, j>>} ELSE {})
                  \cup (IF total > target THEN {} ELSE from[<<i, j + 1, total>>])
  IN UNION {from[<<i, i, 0>>] : i \in 1..n}

(* transaction_candidates: the exact windows, or else everything that is   *)
(* available as a partial candidate.                                       *)
Candidates(items, target) ==
  LET exact == ContiguousWindows(items, target)
      all == Total(items, DOMAIN items)
  IN IF target <= 0 THEN {}
     ELSE IF exact # {}
     THEN {[first |-> w[1], last |-> w[2], total |-> target, difference |-> 0] : w \in exact}
     ELSE IF items = <<>> THEN {}
     ELSE {[first |-> 1, last |-> Len(items), total |-> Least(target, all),
            difference |-> IF target > all THEN target - all ELSE 0]}

(* direct_allocation_rows: each item gives what the invoice still lacks.   *)
DirectAllocationRows(items, target) ==
  LET remaining[k \in 0..Len(items)] ==
        IF k = 0 THEN target ELSE remaining[k - 1] - Least(remaining[k - 1], items[k])
  IN [k \in DOMAIN items |-> Least(remaining[k - 1], items[k])]

(* Mutant: what a fund has given is not taken from it. *)
AllocationPlanUnspent(invoices, funds) ==
  LET plan[w \in Nat \X Nat \X Nat \X Nat] ==
        LET i == w[1]
            j == w[2]
            due == w[3]
            left == w[4]
            amount == Least(due, left)
        IN IF i > Len(invoices) \/ j > Len(funds) THEN {}
           ELSE IF due = 0 THEN plan[<<i + 1, j, At(invoices, i + 1), left>>]
           ELSE IF left = 0 THEN plan[<<i, j + 1, due, At(funds, j + 1)>>]
           ELSE {<<i, j, amount>>} \cup plan[<<i, j, due - amount, left>>]
  IN plan[<<1, 1, At(invoices, 1), At(funds, 1)>>]

(* _allocation_plan: the first invoice that lacks something takes it from  *)
(* the first fund that has something left.                                 *)
AllocationPlan(invoices, funds) ==
  LET plan[w \in Nat \X Nat \X Nat \X Nat] ==
        LET i == w[1]
            j == w[2]
            due == w[3]
            left == w[4]
            amount == Least(due, left)
        IN IF i > Len(invoices) \/ j > Len(funds) THEN {}
           ELSE IF due = 0 THEN plan[<<i + 1, j, At(invoices, i + 1), left>>]
           ELSE IF left = 0 THEN plan[<<i, j + 1, due, At(funds, j + 1)>>]
           ELSE {<<i, j, amount>>} \cup plan[<<i, j, due - amount, left - amount>>]
  IN plan[<<1, 1, At(invoices, 1), At(funds, 1)>>]
=============================================================================
