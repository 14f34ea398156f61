--------------------------- MODULE Reconciliation ---------------------------
(***************************************************************************)
(* apps/reconciliation: the transactions that create, settle and reverse   *)
(* reconciliations, statement by statement, in several web workers at      *)
(* once.  Every read sees what is committed when the statement runs; every *)
(* write becomes visible with the commit, the last step of a request.      *)
(***************************************************************************)
EXTENDS Ledger, RowLocks, Suggestions

CONSTANTS
  Calendar,     \* all records in the order of their dates
  Amounts,      \* the amounts a user may type
  Corrections,  \* the invoices that one import may void or red-flag
  MaxRecs,      \* bound on reconciliations
  MaxBatches    \* bound on settlement batches

ASSUME CalendarAssumption ==
  Calendar \in Seq(Records) /\ Range(Calendar) = Records /\ IsInjective(Calendar)
ASSUME AmountsAssumption == Amounts \subseteq Nat \ {0}
ASSUME CorrectionsAssumption == Corrections \subseteq SUBSET Invoices
ASSUME BoundsAssumption == MaxRecs \in Nat /\ MaxBatches \in Nat

VARIABLES
  pc,     \* per session: "idle", "page" or the statement under way
  req,    \* per session: the request, as the form or the page gives it
  read    \* per session: the open amounts its transaction has read

vars == <<ledger, locks, pc, req, read>>

(* Rows other than records. *)
BatchRow(b) == <<"batch", b>>
AllocationRow(r, a) == <<"allocation", r, a>>
RecRow(r) == <<"rec", r>>

ASSUME RowsAreDistinct ==
  /\ Records \cap ({"batch", "rec"} \X Nat) = {}
  /\ Records \cap ({"allocation"} \X Nat \X Allocations) = {}

Idle == [kind |-> "idle"]
Nothing == [x \in {} |-> 0]

Creates(s) == req[s].kind \in {"direct", "confirm"}
InTransaction(s) == pc[s] \notin {"idle", "page"}

Init == /\ LedgerInit /\ LocksInit
        /\ pc = [s \in Sessions |-> "idle"]
        /\ req = [s \in Sessions |-> Idle]
        /\ read = [s \in Sessions |-> Nothing]

-----------------------------------------------------------------------------
(* The pages.                                                              *)

ShowPage(s, page) ==
  /\ pc[s] = "idle"
  /\ pc' = [pc EXCEPT ![s] = "page"] /\ req' = [req EXCEPT ![s] = page]
  /\ UNCHANGED <<ledger, locks, read>>

(* transaction_candidates and invoice_candidates: what is open of the same *)
(* party within some dates, in their order.                                *)
Listed(S) ==
  LET list[k \in 0..Len(Calendar)] ==
        IF k = 0 THEN <<>>
        ELSE IF Calendar[k] \in S THEN Append(list[k - 1], Calendar[k]) ELSE list[k - 1]
  IN list[Len(Calendar)]

Available(x, period) ==
  LET side == (IF x \in Invoices THEN Funds ELSE Invoices \ cancelled) \cap period
  IN Listed({y \in side : Open(y) > 0 /\ \E party \in Parties : {x, y} \subseteq party})

OpenOf(items) == [k \in DOMAIN items |-> Open(items[k])]

TransactionCandidates(i, period) == Candidates(OpenOf(Available(i, period)), Open(i))

InvoiceCandidates(f, period) ==
  IF Open(f) <= 0 THEN {} ELSE ContiguousWindows(OpenOf(Available(f, period)), Open(f))

(* The workbench shows an open invoice and open funds of its counterparty; *)
(* the user types an amount for some of them.  The form carries the open   *)
(* amounts that were shown.                                                *)
Workbench(s) ==
  \E i \in Invoices \ cancelled, F \in (SUBSET Funds) \ {{}} :
    \E typed \in [F -> Amounts], partial \in BOOLEAN :
      LET A == {[invoice |-> i, fund |-> f, amount |-> typed[f]] : f \in F}
      IN /\ Fits(A) /\ \A x \in RecordsOf(A) : Open(x) > 0
         /\ ShowPage(s, [kind |-> "direct", plan |-> A, partial |-> partial,
                         shown |-> [x \in RecordsOf(A) |-> Open(x)]])

(* settlement_context: a page lists the items of a batch by date; what     *)
(* somebody else has a claim on counts nothing, and its page may only be   *)
(* confirmed if the rest fits to the cent.                                 *)
Taken(b, x) == \E p \in Touching(x) : recs[p[1]].batch # b
Left(b, S) == [k \in DOMAIN Listed(S) |-> LET x == Listed(S)[k] IN IF Taken(b, x) THEN 0 ELSE Open(x)]

SettlementPlan(b) ==
  LET items == batches[b].items
      I == items \cap Invoices
      F == items \cap Funds
  IN {[invoice |-> Listed(I)[p[1]], fund |-> Listed(F)[p[2]], amount |-> p[3]] :
        p \in AllocationPlan(Left(b, I), Left(b, F))}

CanConfirm(b) ==
  LET items == batches[b].items
      total(S) == Total(Left(b, S), DOMAIN Listed(S))
  IN /\ SettlementPlan(b) # {}
     /\ total(items \cap Invoices) = total(items \cap Funds)
     /\ \A x \in items : ~Taken(b, x)

SettlementDetail(s, b) ==
  /\ batches[b].status # "confirmed" /\ CanConfirm(b)
  /\ ShowPage(s, [kind |-> "confirm", plan |-> SettlementPlan(b), batch |-> b,
                  version |-> batches[b].version])

LeavePage(s) ==
  /\ pc[s] = "page"
  /\ pc' = [pc EXCEPT ![s] = "idle"] /\ req' = [req EXCEPT ![s] = Idle]
  /\ UNCHANGED <<ledger, locks, read>>

-----------------------------------------------------------------------------
(* The ways through a transaction.                                         *)

Statement(s, label, rows) ==
  /\ SelectForUpdate(s, rows)
  /\ pc' = [pc EXCEPT ![s] = label]
  /\ UNCHANGED <<ledger, read>>

Begin(s, request, label, rows) ==
  /\ req' = [req EXCEPT ![s] = request]
  /\ Statement(s, label, rows)

Continue(s, label, rows) == Statement(s, label, rows) /\ UNCHANGED req

Finished(s, label) == pc[s] = label /\ want[s] = {}

Leave(s, label, request) ==
  /\ EndTransaction(s)
  /\ pc' = [pc EXCEPT ![s] = label] /\ req' = [req EXCEPT ![s] = request]
  /\ read' = [read EXCEPT ![s] = Nothing]

(* Mutant: an error leaves the transaction open, with its locks. *)
RejectKeepingLocks(s) ==
  /\ pc' = [pc EXCEPT ![s] = "idle"] /\ req' = [req EXCEPT ![s] = Idle]
  /\ read' = [read EXCEPT ![s] = Nothing]
  /\ UNCHANGED <<ledger, locks>>

(* ValidationError: everything is rolled back.                             *)
Reject(s) == Leave(s, "idle", Idle) /\ UNCHANGED ledger

(* A commit; the browser may post the same form once more.                 *)
Commit(s) ==
  \/ Leave(s, "idle", Idle)
  \/ req[s].kind = "direct" /\ Leave(s, "page", req[s])

(* Room for one more reconciliation, whatever the transactions under way do. *)
RoomForRec == Len(recs) + Cardinality({s \in Sessions : InTransaction(s) /\ Creates(s)}) < MaxRecs
RoomForBatch ==
  Len(batches) + Cardinality({s \in Sessions : InTransaction(s) /\ req[s].kind = "draft"}) < MaxBatches

-----------------------------------------------------------------------------
(* The requests and their first statement.                                 *)

DirectConfirm(s) ==
  /\ pc[s] = "page" /\ req[s].kind = "direct" /\ RoomForRec
  /\ Continue(s, "lock_invoices", InvoicesOf(req[s].plan))

SettlementConfirm(s) ==
  /\ pc[s] = "page" /\ req[s].kind = "confirm" /\ RoomForRec
  /\ Continue(s, "lock_batch", {BatchRow(req[s].batch)})

(* Mutant: a reversal locks nothing before it looks for an earlier one. *)
ReverseUnlocked(s, r) ==
  /\ pc[s] = "idle"
  /\ Begin(s, [kind |-> "reverse", rec |-> r, plan |-> recs[r].allocations], "lock_recs", {})

ReverseRequest(s, r) ==
  /\ pc[s] = "idle"
  /\ Begin(s, [kind |-> "reverse", rec |-> r, plan |-> recs[r].allocations],
           "lock_invoices", InvoicesOf(recs[r].allocations))

(* create_settlement_batch selects the invoices nobody has a claim on.     *)
SettlementCreate(s, party, period) ==
  /\ pc[s] = "idle" /\ RoomForBatch
  /\ Begin(s, [kind |-> "draft", scope |-> party \cap period, items |-> {}], "lock_invoices",
           {i \in (party \cap period \cap Invoices) \ cancelled : ~Occupied(i)})

(* confirm_batch of an import whose rows void or red-flag posted invoices; *)
(* rows that repeat a status were dropped as duplicates when staged.       *)
CancelInvoices(s, N) ==
  /\ pc[s] = "idle" /\ N # {}
  /\ Begin(s, [kind |-> "cancel", invoices |-> N], "lock_invoices", N)

-----------------------------------------------------------------------------
(* The statements that follow.  Each action ends one statement and starts  *)
(* the next.                                                               *)

(* Mutant: invoices and funds of the batch are locked in one go. *)
BatchLockedAtOnce(s) ==
  /\ Finished(s, "lock_batch")
  /\ Continue(s, "lock_funds", RecordsOf(req[s].plan))

NoPairTwice(A) == \A a, c \in A : a.invoice = c.invoice /\ a.fund = c.fund => a = c

(* _validate_batch_version; the plan names each pair once and is complete. *)
BatchLocked(s) ==
  LET batch == batches[req[s].batch]
      plan == req[s].plan
  IN /\ Finished(s, "lock_batch")
     /\ IF /\ batch.status = "draft" /\ batch.version = req[s].version
           /\ NoPairTwice(plan) /\ plan # {}
           /\ InvoicesOf(plan) = batch.items \cap Invoices
           /\ FundsOf(plan) = batch.items \cap Funds
        THEN Continue(s, "lock_invoices", InvoicesOf(req[s].plan))
        ELSE Reject(s)

(* Mutant: voided and red-flagged invoices are not refused. *)
InvoicesLockedAnyStatus(s) ==
  /\ Finished(s, "lock_invoices") /\ (Creates(s) \/ req[s].kind = "reverse")
  /\ Continue(s, "lock_funds", FundsOf(req[s].plan))

(* Mutant: the funds are read without FOR UPDATE. *)
InvoicesLockedOnly(s) ==
  /\ Finished(s, "lock_invoices") /\ (Creates(s) \/ req[s].kind = "reverse")
  /\ IF Creates(s) /\ ~Sound(req[s].plan)
     THEN Reject(s)
     ELSE Continue(s, "lock_funds", {})

(* The rows come with the status that _validate_allocations tests, with    *)
(* the amounts, the existence, the direction and the counterparty.         *)
InvoicesLocked(s) ==
  /\ Finished(s, "lock_invoices") /\ (Creates(s) \/ req[s].kind = "reverse")
  /\ IF Creates(s) /\ ~Sound(req[s].plan)
     THEN Reject(s)
     ELSE Continue(s, "lock_funds", FundsOf(req[s].plan))

(* _lock_existing_reconciliations locks every allocation of the records,   *)
(* active or not; a reversal locks the allocations it is about.            *)
AllocationRows(s) ==
  LET found(r) == IF req[s].kind = "reverse"
                  THEN IF r = req[s].rec THEN recs[r].allocations ELSE {}
                  ELSE {a \in recs[r].allocations :
                          \E x \in RecordsOf(req[s].plan) : Holds(a, x)}
  IN UNION {{AllocationRow(r, a) : a \in found(r)} : r \in DOMAIN recs}

FundsLocked(s) ==
  /\ Finished(s, "lock_funds") /\ (Creates(s) \/ req[s].kind = "reverse")
  /\ IF req[s].kind = "confirm"
     THEN Continue(s, "check_items", {})
     ELSE Continue(s, "lock_allocations", AllocationRows(s))

(* The rest of _validate_batch_allocations; create_reconciliation then     *)
(* locks the same invoices and funds once more, which waits for nobody.    *)
CheckItems(s) ==
  /\ Finished(s, "check_items")
  /\ IF \A x \in batches[req[s].batch].items :
           ~Occupied(x) /\ Open(x) > 0 /\ Requested(req[s].plan, x) = Open(x)
     THEN Continue(s, "lock_allocations", AllocationRows(s))
     ELSE Reject(s)

AllocationsLocked(s) ==
  /\ Finished(s, "lock_allocations")
  /\ Continue(s, "lock_recs",
       {RecRow(r) : r \in {r \in DOMAIN recs :
          \E a \in recs[r].allocations : AllocationRow(r, a) \in held[s]}})

(* A reversal looks for an earlier one.                                    *)
RecsLocked(s) ==
  /\ Finished(s, "lock_recs")
  /\ IF Creates(s) THEN Continue(s, "sum_invoices", {})
     ELSE IF req[s].rec \in reversed THEN Reject(s)
     ELSE Continue(s, "commit", {})

(* The two sums of _validate_allocations; nothing else is read before the  *)
(* decision, and nothing is read after it.                                 *)
SumInvoices(s) ==
  /\ Finished(s, "sum_invoices")
  /\ read' = [read EXCEPT ![s] = [x \in InvoicesOf(req[s].plan) |-> Open(x)]]
  /\ pc' = [pc EXCEPT ![s] = "sum_funds"]
  /\ UNCHANGED <<ledger, locks, req>>

(* Mutant: the amounts the page showed are ignored. *)
AcceptedBlindly(request, open) ==
  /\ request.kind = "direct" /\ ~request.partial =>
       \A i \in InvoicesOf(request.plan) : Requested(request.plan, i) >= open[i]
  /\ \A x \in RecordsOf(request.plan) : Requested(request.plan, x) <= open[x]

(* _validate_expected_open_amounts, the partial switch and the two limits. *)
Accepted(request, open) ==
  /\ request.kind = "direct" =>
       /\ request.shown = open
       /\ ~request.partial => \A i \in InvoicesOf(request.plan) :
                                Requested(request.plan, i) >= open[i]
  /\ \A x \in RecordsOf(request.plan) : Requested(request.plan, x) <= open[x]

SumFunds(s) ==
  LET open == [x \in RecordsOf(req[s].plan) |-> IF x \in Invoices THEN read[s][x] ELSE Open(x)]
  IN /\ Finished(s, "sum_funds")
     /\ IF Accepted(req[s], open)
        THEN /\ read' = [read EXCEPT ![s] = open]
             /\ pc' = [pc EXCEPT ![s] = "commit"]
             /\ UNCHANGED <<ledger, locks, req>>
        ELSE Reject(s)

(* create_settlement_batch: the rows it got are those that still match     *)
(* after the wait.  A row somebody changed is tested again, a row somebody *)
(* only locked is not; what is open is read in a statement of its own.     *)
DraftItems(s, table) == {x \in (held[s] \cap table) \ cancelled : Open(x) > 0}

DraftInvoicesLocked(s) ==
  /\ Finished(s, "lock_invoices") /\ req[s].kind = "draft"
  /\ LET chosen == DraftItems(s, Invoices)
     IN IF chosen = {} THEN Reject(s)
        ELSE Begin(s, [req[s] EXCEPT !.items = chosen], "lock_funds",
                   {f \in req[s].scope \cap Funds : ~Occupied(f)})

DraftFundsLocked(s) ==
  /\ Finished(s, "lock_funds") /\ req[s].kind = "draft"
  /\ LET chosen == DraftItems(s, Funds)
     IN IF chosen = {} THEN Reject(s)
        ELSE Begin(s, [req[s] EXCEPT !.items = @ \cup chosen], "commit", {})

-----------------------------------------------------------------------------
(* The commits.                                                            *)

CommitDirect(s) ==
  /\ pc[s] = "commit" /\ req[s].kind = "direct"
  /\ Record(req[s].plan, None)
  /\ UNCHANGED <<reversed, cancelled, batches>> /\ Commit(s)

(* Mutant: batch.save leaves out the status. *)
CommitConfirmStatusUnsaved(s) ==
  /\ pc[s] = "commit" /\ req[s].kind = "confirm"
  /\ Record(req[s].plan, req[s].batch)
  /\ batches' = [batches EXCEPT ![req[s].batch].version = @ + 1]
  /\ UNCHANGED <<reversed, cancelled>> /\ Commit(s)

CommitConfirm(s) ==
  /\ pc[s] = "commit" /\ req[s].kind = "confirm"
  /\ Record(req[s].plan, req[s].batch)
  /\ batches' = [batches EXCEPT ![req[s].batch] = Confirmed(@)]
  /\ UNCHANGED <<reversed, cancelled>> /\ Commit(s)

CommitReversal(s) ==
  /\ pc[s] = "commit" /\ req[s].kind = "reverse"
  /\ reversed' = reversed \cup {req[s].rec}
  /\ UNCHANGED <<recs, cancelled, batches>> /\ Commit(s)

(* Mutant: a draft starts at version 0. *)
CommitDraftUnversioned(s) ==
  /\ pc[s] = "commit" /\ req[s].kind = "draft"
  /\ batches' = Append(batches, [items |-> req[s].items, status |-> "draft", version |-> 0])
  /\ UNCHANGED <<recs, reversed, cancelled>> /\ Commit(s)

CommitDraft(s) ==
  /\ pc[s] = "commit" /\ req[s].kind = "draft"
  /\ batches' = Append(batches, [items |-> req[s].items, status |-> "draft", version |-> 1])
  /\ UNCHANGED <<recs, reversed, cancelled>> /\ Commit(s)

CommitCancel(s) ==
  /\ Finished(s, "lock_invoices") /\ req[s].kind = "cancel"
  /\ cancelled' = cancelled \cup req[s].invoices
  /\ UNCHANGED <<recs, reversed, batches>> /\ Commit(s)

(* DatabaseError: a lost connection, a killed worker, or the deadlock      *)
(* detector chose this transaction.                                        *)
Abort(s) == InTransaction(s) /\ Reject(s)

Lock(s) == \E row \in want[s] : LockRow(s, row) /\ UNCHANGED <<ledger, pc, req, read>>

(* What a transaction does on its own once it has begun.                   *)
Advance(s) ==
  \/ Lock(s) \/ BatchLocked(s) \/ InvoicesLocked(s) \/ FundsLocked(s) \/ CheckItems(s)
  \/ AllocationsLocked(s) \/ RecsLocked(s) \/ SumInvoices(s) \/ SumFunds(s)
  \/ DraftInvoicesLocked(s) \/ DraftFundsLocked(s)
  \/ CommitDirect(s) \/ CommitConfirm(s) \/ CommitReversal(s) \/ CommitDraft(s) \/ CommitCancel(s)

Request(s) ==
  \/ Workbench(s) \/ LeavePage(s) \/ DirectConfirm(s) \/ SettlementConfirm(s)
  \/ \E b \in DOMAIN batches : SettlementDetail(s, b)
  \/ \E r \in DOMAIN recs : ReverseRequest(s, r)
  \/ \E party \in Parties, period \in Periods : SettlementCreate(s, party, period)
  \/ \E N \in Corrections : CancelInvoices(s, N \ cancelled)

Next == \E s \in Sessions : Advance(s) \/ Request(s) \/ Abort(s)

Spec == Init /\ [][Next]_vars
=============================================================================
