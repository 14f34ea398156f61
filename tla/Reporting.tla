------------------------------ MODULE Reporting ------------------------------
(***************************************************************************)
(* apps/reporting: what the reports say of a day, today or past.  A report *)
(* reads the rows of the ledger and the moments they were made; a moment   *)
(* is taken when the row is inserted, before the transaction commits, so   *)
(* midnight may pass in between.  The records are those of suppliers:      *)
(* input invoices and outgoing payments.                                   *)
(***************************************************************************)
EXTENDS Reconciliation

CONSTANTS
  Dated,              \* the day of each record: issue_date or occurred_at
  Due,                \* the due_date of each invoice, or its issue_date
  FirstDay, LastDay,  \* the days during which the system is watched
  AgingStep           \* the days of one aging bucket: 30

Days == 0..LastDay

ASSUME DatesAssumption == Dated \in [Records -> Days] /\ Due \in [Invoices -> Nat]
ASSUME WatchAssumption == FirstDay \in Days /\ LastDay \in Nat /\ AgingStep \in Nat \ {0}

VARIABLES
  today,
  clock,       \* per session: the day of its last statement, or FirstDay without one
  created,     \* Reconciliation.created_at, in the order of recs
  reversedOn,  \* ReconciliationReversal.created_at of the reversed ones
  changedOn    \* AuditLog.created_at of invoice.status_changed, per cancelled invoice

moments == <<created, reversedOn, changedOn>>
reportingVars == <<vars, today, clock, moments>>

ReportingInit ==
  /\ Init
  /\ today = FirstDay /\ clock = [s \in Sessions |-> FirstDay]
  /\ created = <<>> /\ reversedOn = Nothing /\ changedOn = Nothing

(* The rows of a commit carry a moment between the statement before and now. *)
Stamp(day) ==
  /\ created' = IF recs' = recs THEN created ELSE Append(created, day)
  /\ reversedOn' = [r \in reversed' |-> IF r \in reversed THEN reversedOn[r] ELSE day]
  /\ changedOn' = [i \in cancelled' |-> IF i \in cancelled THEN changedOn[i] ELSE day]

(* An import stamps each invoice as soon as it has locked it. *)
Tick(s) ==
  clock' = [clock EXCEPT ![s] = IF ~InTransaction(s)' THEN FirstDay
                                ELSE IF InTransaction(s) /\ req[s].kind = "cancel" THEN @
                                ELSE today]

Timed(s, A) == A /\ Tick(s) /\ (\E day \in clock[s]..today : Stamp(day)) /\ UNCHANGED today

Midnight == today < LastDay /\ today' = today + 1 /\ UNCHANGED <<vars, clock, moments>>

TimedStep(s) == Timed(s, Advance(s)) \/ Timed(s, Request(s)) \/ Timed(s, Abort(s))

ReportingNext == Midnight \/ \E s \in Sessions : TimedStep(s)

ReportingSpec == ReportingInit /\ [][ReportingNext]_reportingVars

(* PostgreSQL queues the waiters of a row and breaks every deadlock; users *)
(* need not come, and nothing is asked of the days.                        *)
FairReportingSpec ==
  ReportingSpec /\ \A s \in Sessions :
    /\ SF_reportingVars(Timed(s, Advance(s)))
    /\ WF_reportingVars(Deadlocked(s) /\ Timed(s, Abort(s)))

-----------------------------------------------------------------------------
(* The queries.                                                            *)

(* Mutant: a reversal counts from the day after. *)
EffectiveOnItsLastDay(r, day) ==
  created[r] <= day /\ (r \in reversed => reversedOn[r] >= day)

(* _historically_valid_allocation.                                         *)
Effective(r, day) == created[r] <= day /\ (r \in reversed => reversedOn[r] > day)

(* The allocations to x of what was in effect that day.                    *)
CountedAsOf(x, day) ==
  LET effective == {r \in DOMAIN recs : Effective(r, day)}
  IN UNION {{<<r, a>> : a \in {a \in recs[r].allocations : Holds(a, x)}} : r \in effective}

(* _with_historical_open_amount.                                           *)
AllocatedAsOf(x, day) == SumFunction([p \in CountedAsOf(x, day) |-> p[2].amount])
OpenAsOf(x, day) == Face[x] - AllocatedAsOf(x, day)
SumOfOpen(S, day) == SumFunction([x \in S |-> OpenAsOf(x, day)])

(* payables_as_of and unmatched_funds_as_of: with the status of today.     *)
Payables(day) == {i \in Invoices \ cancelled : Dated[i] <= day /\ OpenAsOf(i, day) > 0}
UnmatchedFunds(day) == {f \in Funds : Dated[f] <= day /\ OpenAsOf(f, day) > 0}

AgingBucket(base, day) ==
  LET age == IF day > base THEN day - base ELSE 0
  IN CHOOSE b \in 0..3 : /\ b < 3 => age <= AgingStep * (b + 1)
                         /\ b > 0 => age > AgingStep * b

(* Mutants: the status of today, or no status. *)
SupplierInvoicesNow(party, day) == {i \in party \cap Invoices : Dated[i] <= day /\ i \notin cancelled}
SupplierInvoicesAnyStatus(party, day) == {i \in party \cap Invoices : Dated[i] <= day}

(* _supplier_invoice_records: what was cancelled after that day counts.    *)
SupplierInvoices(party, day) ==
  {i \in party \cap Invoices : Dated[i] <= day /\ (i \in cancelled => changedOn[i] > day)}
SupplierPayments(party, day) == {f \in party \cap Funds : Dated[f] <= day}

SupplierSummary(party, day) ==
  LET I == SupplierInvoices(party, day)
      F == SupplierPayments(party, day)
      invoiced == SumFunctionOnSet(Face, I)
      paid == SumFunctionOnSet(Face, F)
  IN [invoiced |-> invoiced, paid |-> paid, balance |-> invoiced - paid,
      invoiceOpen |-> SumOfOpen(I, day),
      paymentOpen |-> SumOfOpen(F, day),
      latest |-> {x \in I \cup F : \A y \in I \cup F : Dated[y] <= Dated[x]}]

(* supplier_ledger_as_of, with the balance after each row.                 *)
SupplierLedger(party, day) ==
  LET rows == Listed(SupplierInvoices(party, day) \cup SupplierPayments(party, day))
      balance[k \in 0..Len(rows)] ==
        IF k = 0 THEN 0
        ELSE IF rows[k] \in Invoices THEN balance[k - 1] + Face[rows[k]]
        ELSE balance[k - 1] - Face[rows[k]]
  IN [k \in DOMAIN rows |->
        [record |-> rows[k], balance |-> balance[k], allocated |-> AllocatedAsOf(rows[k], day),
         canReconcile |-> rows[k] \in Invoices \ cancelled /\ Open(rows[k]) > 0]]

SupplierReport(party, day) ==
  LET rows == SupplierLedger(party, day)
  IN <<SupplierSummary(party, day), [k \in DOMAIN rows |-> rows[k].allocated]>>

(* The exceptions that are about allocations.                              *)
Differences(day) ==
  {r \in DOMAIN recs :
     Effective(r, day) /\ SumOfOpen(InvoicesOf(recs[r].allocations), day) #
                            SumOfOpen(FundsOf(recs[r].allocations), day)}

RedAllocations(day) == {i \in cancelled : Dated[i] <= day /\ AllocatedAsOf(i, day) > 0}

Stale(day) ==
  {i \in Payables(day) : day - Due[i] > 3 * AgingStep}
    \cup {f \in UnmatchedFunds(day) : day - Dated[f] > 3 * AgingStep}

=============================================================================
