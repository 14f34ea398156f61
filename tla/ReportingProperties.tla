------------------------ MODULE ReportingProperties ------------------------
(***************************************************************************)
(* What the reports must never say.                                        *)
(***************************************************************************)
EXTENDS Reporting, ReconciliationProperties

(* docs/superpowers/specs/2026-07-31-supplier-reconciliation-design.md:26: *)
(* the report of a past day stands.  No request whose last statement ran   *)
(* after that day changes it, whatever it reconciles, reverses or cancels. *)
Ends(s) == InTransaction(s) /\ ~InTransaction(s)'

PastReportsStand ==
  [][\A s \in Sessions, day \in Days :
       Ends(s) /\ ledger' # ledger /\ day < clock[s] =>
         \A party \in Parties : SupplierReport(party, day)' = SupplierReport(party, day)]_reportingVars

(* No day is reported on which more was allocated than there was: a        *)
(* reversal and what took its place never count on the same day, though    *)
(* each was stamped before it was committed.                               *)
NoDayOverAllocates == \A x \in Records, day \in Days : AllocatedAsOf(x, day) <= Face[x]

(* The reports of today agree: the payables and unmatched funds of the     *)
(* dashboard are the open amounts of the suppliers, the ledger ends in the *)
(* balance, the records it offers are the payables, and unless something   *)
(* is dated later the balance differs from what is open exactly by the     *)
(* allocations to cancelled invoices, which are all listed as exceptions.  *)
SupplierAgrees(party) ==
  LET summary == SupplierSummary(party, today)
      rows == SupplierLedger(party, today)
  IN /\ SumOfOpen(Payables(today) \cap party, today) = summary.invoiceOpen
     /\ SumOfOpen(UnmatchedFunds(today) \cap party, today) = summary.paymentOpen
     /\ rows # <<>> => rows[Len(rows)].balance = summary.balance
     /\ (\A x \in party : Dated[x] <= today) =>
          summary.balance - (summary.invoiceOpen - summary.paymentOpen) =
            - SumFunction([i \in RedAllocations(today) \cap party |-> AllocatedAsOf(i, today)])
     /\ {rows[k].record : k \in {k \in DOMAIN rows : rows[k].canReconcile}} =
          Payables(today) \cap party

ReportsAgree ==
  /\ \A party \in Parties : SupplierAgrees(party)
  /\ Stale(today) \cap Invoices = {i \in Payables(today) : AgingBucket(Due[i], today) = 3}
  /\ \A r \in Differences(today) : \E x \in RecordsOf(recs[r].allocations) : Open(x) > 0
=============================================================================
