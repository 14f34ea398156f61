---------------------- MODULE ReconciliationProperties ----------------------
(***************************************************************************)
(* What concurrent reconciliation requests must never do to the ledger.    *)
(***************************************************************************)
EXTENDS Reconciliation

Labels == {"idle", "page", "lock_batch", "lock_invoices", "lock_funds", "check_items",
           "lock_allocations", "lock_recs", "sum_invoices", "sum_funds", "commit"}

(* The shapes of all variables. *)
TypeOK ==
  /\ recs \in Seq([allocations : SUBSET Allocations, batch : DOMAIN batches \cup {None}])
  /\ reversed \subseteq DOMAIN recs
  /\ cancelled \subseteq Invoices
  /\ batches \in Seq([items : SUBSET Records, status : {"draft", "confirmed"}, version : {1, 2}])
  /\ pc \in [Sessions -> Labels]
  /\ \A s \in Sessions : /\ pc[s] = "idle" => req[s] = Idle /\ held[s] = {} /\ want[s] = {}
                         /\ DOMAIN read[s] \subseteq Records

(* The open amounts a transaction decided on are still the open amounts    *)
(* when it commits, because it holds the rows they depend on.              *)
DecisionsAreCurrent ==
  \A s \in Sessions : pc[s] = "commit" /\ Creates(s) =>
    \A x \in RecordsOf(req[s].plan) : read[s][x] = Open(x)

(* What a user confirms is what the page showed, not what another user     *)
(* left of it in the meantime: also a form that is posted twice counts once. *)
ShownAmountsAreCurrent ==
  [][\A s \in Sessions :
       pc[s] = "commit" /\ req[s].kind = "direct" /\ recs' # recs /\ held'[s] = {} /\ held[s] # {} =>
         \A x \in RecordsOf(req[s].plan) : req[s].shown[x] = Open(x)]_vars

(* The plans that settle some records to the cent.  No pair can be given   *)
(* more than the amount of a record.                                       *)
ExactPlans(items) ==
  LET pairs == (items \cap Invoices) \X (items \cap Funds)
      amounts == UNION {0..Face[x] : x \in items}
      plan(typed) == {[invoice |-> p[1], fund |-> p[2], amount |-> typed[p]] :
                        p \in {p \in pairs : typed[p] > 0}}
  IN {A \in {plan(typed) : typed \in [pairs -> amounts]} :
        \A x \in items : Requested(A, x) = Open(x)}

(* presenters.py, candidates.py: the candidate windows are all that meet   *)
(* the target and no others; a plan and the rows of the workbench spread   *)
(* all that both sides have and never more; and a draft is offered for     *)
(* confirmation exactly if some plan settles it, with such a plan.         *)
Lists(n, S) == UNION {[1..k -> S] : k \in 0..n}

WindowsAreExact(items, target) ==
  ContiguousWindows(items, target) =
    {w \in (DOMAIN items) \X (DOMAIN items) : w[1] <= w[2] /\ Total(items, w[1]..w[2]) = target}

CandidatesAreExact(items, target) ==
  /\ (Candidates(items, target) = {}) <=> (items = <<>>)
  /\ \A c \in Candidates(items, target) :
       /\ c.total + c.difference = target /\ c.total <= Total(items, c.first..c.last)
       /\ (c.difference = 0) <=> Total(items, DOMAIN items) >= target

PlanIsExact(invoices, funds) ==
  LET plan == AllocationPlan(invoices, funds)
      given(side, k) == SumFunction([p \in {p \in plan : p[side] = k} |-> p[3]])
      sum(side, items) == SumFunction([k \in DOMAIN items |-> given(side, k)])
      most == Least(Total(invoices, DOMAIN invoices), Total(funds, DOMAIN funds))
  IN /\ \A k \in DOMAIN invoices : given(1, k) <= invoices[k]
     /\ \A k \in DOMAIN funds : given(2, k) <= funds[k]
     /\ \A p \in plan : p[3] > 0
     /\ sum(1, invoices) = most /\ sum(2, funds) = most

RowsAreExact(items, target) ==
  LET row == DirectAllocationRows(items, target)
  IN /\ \A k \in DOMAIN items : row[k] \in 0..items[k]
     /\ Total(row, DOMAIN items) = Least(target, Total(items, DOMAIN items))

OffersAreExact(b) ==
  LET items == batches[b].items IN
  /\ CanConfirm(b) => SettlementPlan(b) \in ExactPlans(items)
  /\ batches[b].status = "draft" /\ (\A x \in items : ~Occupied(x)) /\ ExactPlans(items) # {} =>
       CanConfirm(b)

SmallListsAreExact ==
  /\ \A items \in Lists(4, 0..3), target \in 1..7 :
       /\ WindowsAreExact(items, target) /\ CandidatesAreExact(items, target)
       /\ RowsAreExact(items, target)
  /\ \A invoices, funds \in Lists(3, 0..3) : PlanIsExact(invoices, funds)

(* The invoices of a candidate may be reconciled with the fund as they are. *)
InvoiceCandidatesFit(f, period) ==
  LET items == Available(f, period)
      plan(w) == {[invoice |-> items[k], fund |-> f, amount |-> Open(items[k])] : k \in w[1]..w[2]}
  IN \A w \in InvoiceCandidates(f, period) :
       Fits(plan(w)) /\ InvoicesOf(plan(w)) \cap cancelled = {} /\ Requested(plan(w), f) = Open(f)

TransactionCandidatesFit(i, period) ==
  LET items == Available(i, period)
  IN \A c \in TransactionCandidates(i, period) :
       \A k \in c.first..c.last : items[k] \in period /\ Fits({[invoice |-> i, fund |-> items[k]]})

(* Abort and LeavePage change no row, so every ledger that can be reached   *)
(* is also reached with all sessions idle: looking there misses nothing.    *)
SuggestionsAreExact ==
  /\ SmallListsAreExact
  /\ (\A s \in Sessions : pc[s] = "idle") =>
       /\ \A b \in DOMAIN batches : OffersAreExact(b)
       /\ \A period \in Periods : /\ \A f \in Funds : InvoiceCandidatesFit(f, period)
                                   /\ \A i \in Invoices : TransactionCandidatesFit(i, period)

(* Tables are locked in one order everywhere, so transactions only block   *)
(* each other for good over rows of one table.                             *)
Table(row) == IF row \in Invoices THEN 2 ELSE IF row \in Funds THEN 3
              ELSE IF row[1] = "batch" THEN 1 ELSE IF row[1] = "allocation" THEN 4 ELSE 5

DeadlocksStayInOneTable ==
  \A s, other \in Sessions :
    WaitsFor(s, other) /\ WaitsFor(other, s) =>
      \A row \in want[s], mine \in want[other] : Table(row) = Table(mine)

(* Every request that entered its transaction is answered.                 *)
EveryRequestEnds == \A s \in Sessions : InTransaction(s) ~> ~InTransaction(s)

(* tests/reconciliation/test_task12_amendments.py:99 -- a settlement draft *)
(* excludes every partially occupied record.                               *)
DraftsExcludeOccupied ==
  \A s \in Sessions : pc[s] = "commit" /\ req[s].kind = "draft" =>
    \A x \in req[s].items : ~Occupied(x)
=============================================================================
