--------------------------- MODULE ReportingProofs ---------------------------
(***************************************************************************)
(* A reconciliation is stamped before it commits, so the day of a report   *)
(* may see it although a reversal made later was stamped earlier.  What    *)
(* keeps the days apart are the row locks: whoever has locked a record     *)
(* runs his last statement, and takes his stamp, no earlier than anything  *)
(* on record about it.                                                     *)
(***************************************************************************)
EXTENDS ReportingProperties, ReconciliationProofs

(* Every row has its moment, and no moment is to come.                     *)
MomentsFit ==
  /\ today \in Nat /\ FirstDay <= today
  /\ clock \in [Sessions -> Nat] /\ \A s \in Sessions : clock[s] <= today
  /\ created \in Seq(Nat) /\ Len(created) = Len(recs)
  /\ \A r \in DOMAIN recs : created[r] <= today
  /\ reversedOn \in [reversed -> Nat] /\ \A r \in reversed : reversedOn[r] <= today
  /\ changedOn \in [cancelled -> Nat] /\ \A i \in cancelled : changedOn[i] <= today

(* Nothing about a record is stamped after some day. *)
Settled(x, day) ==
  \A r \in DOMAIN recs :
    (\E a \in recs[r].allocations : Holds(a, x)) =>
      created[r] <= day /\ (r \in reversed => reversedOn[r] <= day)

(* A session has locked a record after everything on record about it.      *)
LocksAreLate(s) ==
  InTransaction(s) /\ req[s].kind # "cancel" =>
    \A x \in held[s] \cap Records : Settled(x, clock[s])

DayInv == MomentsFit /\ NoDayOverAllocates /\ \A s \in Sessions : LocksAreLate(s)

Step(s) == Advance(s) \/ Request(s) \/ Abort(s)

-----------------------------------------------------------------------------
(* What a step changes.                                                    *)

Gives(s) ==
  /\ pc[s] = "commit" /\ Creates(s) /\ ~InTransaction(s)'
  /\ UNCHANGED reversed /\ \E b : Record(req[s].plan, b)

TakesBack(s) ==
  /\ pc[s] = "commit" /\ req[s].kind = "reverse" /\ ~InTransaction(s)'
  /\ UNCHANGED recs /\ reversed' = reversed \cup {req[s].rec}

(* A commit ends the transaction (transaction.atomic).                     *)
LEMMA CommitEnds ==
  ASSUME Inv, NEW s \in Sessions, Commit(s)
  PROVE  ~InTransaction(s)'
<1>1. \A label, request : Leave(s, label, request) => pc'[s] = label
  BY DEF Leave, Inv, SessionTypes
<1> QED BY <1>1 DEF Commit, InTransaction

(* A step adds a reconciliation, reverses one, or leaves them alone.       *)
LEMMA StepChanges ==
  ASSUME Inv, NEW s \in Sessions, Step(s)
  PROVE  UNCHANGED <<recs, reversed>> \/ Gives(s) \/ TakesBack(s)
<1>1. CASE Quiet(s)
  BY <1>1 DEF Quiet, ledger
<1>2. CASE CommitDirect(s) \/ CommitConfirm(s)
  BY <1>2, CommitEnds DEF CommitDirect, CommitConfirm, Gives, Creates
<1>3. CASE CommitReversal(s)
  BY <1>3, CommitEnds DEF CommitReversal, TakesBack
<1>4. CASE CommitDraft(s) \/ CommitCancel(s)
  BY <1>4 DEF CommitDraft, CommitCancel
<1> QED BY <1>1, <1>2, <1>3, <1>4, StepIsQuietOrTakesEffect DEF Step, TakesEffect

(* The other sessions stand still.                                         *)
LEMMA OthersStand ==
  ASSUME Inv, NEW s \in Sessions, Step(s)
  PROVE  \A t \in Sessions \ {s} : Same(t)
BY StepIsQuietOrCommits DEF Step, Quiet, Commits, Moves

(* An import stays an import until it ends (confirm_batch).                *)
LEMMA ImportStays ==
  ASSUME Inv, NEW s \in Sessions, Step(s), InTransaction(s), req[s].kind = "cancel"
  PROVE  ~InTransaction(s)' \/ req'[s].kind = "cancel"
<1>1. pc[s] = "lock_invoices" /\ ~Creates(s)
  BY DEF InTransaction, Inv, Local, KindsFit, Creates, Planned
<1>2. CASE Lock(s)
  BY <1>2 DEF Lock
<1>3. CASE Abort(s)
  <2>1. pc'[s] = "idle"
    BY <1>3 DEF Abort, Reject, Leave, Inv, SessionTypes
  <2> QED BY <2>1 DEF InTransaction
<1>4. CASE CommitCancel(s)
  BY <1>4, CommitEnds DEF CommitCancel
<1>5. CASE Advance(s) /\ ~Lock(s) /\ ~CommitCancel(s)
  BY <1>1, <1>5 DEF Advance, BatchLocked, InvoicesLocked, FundsLocked, CheckItems, AllocationsLocked,
     RecsLocked, SumInvoices, SumFunds, DraftInvoicesLocked, DraftFundsLocked, CommitDirect,
     CommitConfirm, CommitReversal, CommitDraft, Finished
<1>6. CASE Request(s)
  BY <1>1, <1>6 DEF Request, Workbench, ShowPage, LeavePage, DirectConfirm, SettlementConfirm,
     SettlementDetail, ReverseRequest, SettlementCreate, CancelInvoices
<1> QED BY <1>2, <1>3, <1>4, <1>5, <1>6 DEF Step

(* Cancelled invoices stay cancelled.                                      *)
LEMMA CancelledStay ==
  ASSUME Inv, NEW s \in Sessions, Step(s)
  PROVE  cancelled \subseteq cancelled'
<1>1. Next
  BY DEF Next, Step
<1>2. [LedgerNext]_ledger
  BY <1>1, InvStep
<1> QED BY <1>2 DEF LedgerNext, Reconcile, Settle, Draft, Reverse, Cancel, ledger

-----------------------------------------------------------------------------
(* The moments.                                                            *)

(* One step of s, all that is inserted stamped with one day.               *)
StampedStep(s, day) ==
  /\ Step(s) /\ Tick(s) /\ Stamp(day) /\ UNCHANGED today
  /\ day \in clock[s]..today

(* A step of the reports is a midnight, or the step of a session with its  *)
(* stamp.                                                                  *)
LEMMA ReportingSteps ==
  ASSUME [ReportingNext]_reportingVars
  PROVE  \/ UNCHANGED <<vars, clock, moments>> /\ today' \in {today, today + 1}
         \/ \E s \in Sessions : \E day \in clock[s]..today : StampedStep(s, day)
<1>1. ASSUME NEW s \in Sessions, TimedStep(s)
      PROVE  \E day \in clock[s]..today : StampedStep(s, day)
  BY <1>1 DEF TimedStep, Timed, StampedStep, Step
<1>2. CASE Midnight
  BY <1>2 DEF Midnight
<1>3. CASE UNCHANGED reportingVars
  BY <1>3 DEF reportingVars
<1> QED BY <1>1, <1>2, <1>3 DEF ReportingNext

(* Requests run as without the reports.                                    *)
LEMMA ReportsOnlyRead == ReportingSpec => Spec
<1>1. ReportingInit => Init
  BY DEF ReportingInit
<1>2. [ReportingNext]_reportingVars => [Next]_vars
  BY ReportingSteps DEF StampedStep, Step, Next
<1> QED BY <1>1, <1>2, PTL DEF ReportingSpec, Spec

(* The clock of a session shows the day of its last statement.             *)
LEMMA ClockStep ==
  ASSUME Inv, MomentsFit, NEW s \in Sessions, NEW day, StampedStep(s, day)
  PROVE  /\ clock' \in [Sessions -> Nat] /\ \A t \in Sessions : clock'[t] <= today
         /\ \A t \in Sessions \ {s} : clock'[t] = clock[t]
         /\ InTransaction(s)' /\ req'[s].kind # "cancel" => clock'[s] = today
<1>0. FirstDay \in Nat
  BY WatchAssumption DEF Days
<1>1. PICK now \in {FirstDay, clock[s], today} :
        /\ clock' = [clock EXCEPT ![s] = now]
        /\ InTransaction(s)' /\ ~(InTransaction(s) /\ req[s].kind = "cancel") => now = today
  BY DEF StampedStep, Tick
<1>2. clock' \in [Sessions -> Nat] /\ \A t \in Sessions : clock'[t] <= today
  BY <1>0, <1>1 DEF MomentsFit
<1>3. \A t \in Sessions \ {s} : clock'[t] = clock[t]
  BY <1>1 DEF MomentsFit
<1>4. ASSUME InTransaction(s)', req'[s].kind # "cancel" PROVE clock'[s] = today
  <2>1. ~(InTransaction(s) /\ req[s].kind = "cancel")
    BY <1>4, ImportStays DEF StampedStep
  <2> QED BY <1>1, <1>4, <2>1 DEF MomentsFit
<1> QED BY <1>2, <1>3, <1>4

(* A reconciliation is stamped once, and its reversal once.                *)
LEMMA StampStep ==
  ASSUME Inv, MomentsFit, NEW s \in Sessions, NEW day, StampedStep(s, day)
  PROVE  /\ \A r \in DOMAIN recs : created'[r] = created[r] /\ recs'[r] = recs[r]
         /\ DOMAIN recs \subseteq DOMAIN recs' /\ reversed \subseteq reversed'
         /\ \A r \in DOMAIN recs' \ DOMAIN recs : created'[r] = day
         /\ \A r \in reversed : reversedOn'[r] = reversedOn[r]
         /\ \A r \in reversed' \ reversed : reversedOn'[r] = day
         /\ \A i \in cancelled : changedOn'[i] = changedOn[i]
         /\ \A i \in cancelled' \ cancelled : changedOn'[i] = day
         /\ cancelled \subseteq cancelled'
         /\ MomentsFit'
<1>0. day \in Nat /\ day <= today /\ today' = today /\ Stamp(day) /\ Step(s)
  BY DEF StampedStep, MomentsFit
<1>1. /\ \A r \in reversed : r \in reversed' => reversedOn'[r] = reversedOn[r]
      /\ \A r \in reversed' \ reversed : reversedOn'[r] = day
      /\ reversedOn' \in [reversed' -> Nat] /\ \A r \in reversed' : reversedOn'[r] <= today
  BY <1>0 DEF Stamp, MomentsFit
<1>2. /\ \A i \in cancelled : i \in cancelled' => changedOn'[i] = changedOn[i]
      /\ \A i \in cancelled' \ cancelled : changedOn'[i] = day
      /\ changedOn' \in [cancelled' -> Nat] /\ \A i \in cancelled' : changedOn'[i] <= today
  BY <1>0 DEF Stamp, MomentsFit
<1>3. recs \in Seq(Rows) /\ DOMAIN recs = 1..Len(recs) /\ Len(recs) \in Nat
  BY DEF Inv, LedgerTypes
<1>4. /\ reversed \subseteq reversed' /\ DOMAIN recs \subseteq DOMAIN recs'
      /\ \A r \in DOMAIN recs : created'[r] = created[r] /\ recs'[r] = recs[r]
      /\ \A r \in DOMAIN recs' \ DOMAIN recs : created'[r] = day
      /\ created' \in Seq(Nat) /\ Len(created') = Len(recs')
      /\ \A r \in DOMAIN recs' : created'[r] <= today
  <2>1. CASE recs' = recs /\ reversed \subseteq reversed'
    BY <1>0, <2>1 DEF Stamp, MomentsFit
  <2>2. CASE Gives(s)
    <3>1. PICK row : recs' = Append(recs, row)
      BY <2>2 DEF Gives, Record
    <3>2. /\ DOMAIN recs' = DOMAIN recs \cup {Len(recs) + 1} /\ Len(recs') = Len(recs) + 1
          /\ \A r \in DOMAIN recs : recs'[r] = recs[r]
      BY <1>3, <3>1
    <3>3. created' = Append(created, day)
      BY <1>0, <1>3, <3>2 DEF Stamp
    <3>4. /\ created' \in Seq(Nat) /\ Len(created') = Len(recs) + 1 /\ created'[Len(recs) + 1] = day
          /\ \A r \in DOMAIN recs : created'[r] = created[r]
      BY <1>0, <1>3, <3>3 DEF MomentsFit
    <3>5. \A r \in DOMAIN recs : created[r] <= today
      BY DEF MomentsFit
    <3>6. reversed' = reversed
      BY <2>2 DEF Gives
    <3> QED BY <1>0, <3>2, <3>4, <3>5, <3>6
  <2> QED BY <1>0, <2>1, <2>2, StepChanges DEF TakesBack
<1>5. cancelled \subseteq cancelled'
  BY <1>0, CancelledStay
<1>6. MomentsFit'
  BY <1>0, <1>1, <1>2, <1>4, ClockStep DEF MomentsFit
<1> QED BY <1>1, <1>2, <1>4, <1>5, <1>6

-----------------------------------------------------------------------------
(* What counts on a day.                                                   *)

(* Stamps before some day, and what counted by then, stay as they are.     *)
LEMMA EffectiveStays ==
  ASSUME Inv, MomentsFit, NEW s \in Sessions, NEW stamp, StampedStep(s, stamp),
         NEW day, day \in Nat
  PROVE  /\ \A r \in DOMAIN recs : Effective(r, day)' => Effective(r, day)
         /\ day < stamp => \A r \in DOMAIN recs' :
                             Effective(r, day)' <=> r \in DOMAIN recs /\ Effective(r, day)
<1>0. stamp \in Nat
  BY DEF StampedStep, MomentsFit
<1>1. /\ \A r \in DOMAIN recs : created[r] \in Nat
      /\ \A r \in reversed : r \in DOMAIN recs /\ reversedOn[r] \in Nat
  BY DEF MomentsFit, Inv, LedgerTypes
<1>2. /\ \A r \in DOMAIN recs : created'[r] = created[r]
      /\ \A r \in DOMAIN recs' \ DOMAIN recs : created'[r] = stamp
      /\ \A r \in reversed : reversedOn'[r] = reversedOn[r]
      /\ \A r \in reversed' \ reversed : reversedOn'[r] = stamp
      /\ reversed \subseteq reversed'
  BY StampStep
<1> QED BY <1>0, <1>1, <1>2 DEF Effective

(* The allocations that count on a day were recorded, in finite number.    *)
LEMMA CountedIsFinite ==
  ASSUME LedgerTypes, NEW x, NEW day
  PROVE  IsFiniteSet(CountedAsOf(x, day)) /\ \A p \in CountedAsOf(x, day) : p[2].amount \in Nat
<1>1. CountedAsOf(x, day) \in SUBSET Recorded
  BY DEF CountedAsOf, Recorded
<1> QED BY <1>1, RecordedIsFinite

(* A step changes nothing of the days before its stamp.                    *)
LEMMA PastStays ==
  ASSUME Inv, MomentsFit, NEW s \in Sessions, NEW stamp, StampedStep(s, stamp),
         NEW day, day \in Nat, day < stamp, NEW x
  PROVE  CountedAsOf(x, day)' = CountedAsOf(x, day)
<1>1. \A r \in DOMAIN recs' : Effective(r, day)' <=> r \in DOMAIN recs /\ Effective(r, day)
  BY EffectiveStays
<1>2. DOMAIN recs \subseteq DOMAIN recs' /\ \A r \in DOMAIN recs : recs'[r] = recs[r]
  BY StampStep
<1>3. {r \in DOMAIN recs' : Effective(r, day)'} = {r \in DOMAIN recs : Effective(r, day)}
  BY <1>1, <1>2
<1> DEFINE R == {r \in DOMAIN recs : Effective(r, day)}
           held1(r) == {<<r, a>> : a \in {a \in recs[r].allocations : Holds(a, x)}}
<1>4. \A r \in R : {<<r, a>> : a \in {a \in recs'[r].allocations : Holds(a, x)}} = held1(r)
  BY <1>2
<1>5. CountedAsOf(x, day)' = UNION {{<<r, a>> : a \in {a \in recs'[r].allocations : Holds(a, x)}} : r \in R}
  BY <1>3 DEF CountedAsOf, Holds
<1> QED BY <1>4, <1>5 DEF CountedAsOf

(* From its stamp on, a new reconciliation counts with all that is active, *)
(* as nothing about its records was stamped later.                         *)
LEMMA GivingCounts ==
  ASSUME Inv, Inv', DayInv, NEW s \in Sessions, NEW stamp, StampedStep(s, stamp), Gives(s),
         NEW day, day \in Nat, stamp <= day, NEW x \in RecordsOf(req[s].plan), x \in Records
  PROVE  CountedAsOf(x, day)' = Touching(x)'
<1>1. Settled(x, clock[s])
  <2>1. Planned(s) /\ InTransaction(s) /\ req[s].kind # "cancel"
    BY DEF Gives, Creates, Planned, InTransaction
  <2>2. x \in held[s]
    BY <2>1, PlanIsHeld DEF Gives
  <2> QED BY <2>1, <2>2 DEF DayInv, LocksAreLate
<1>2. clock[s] \in Nat /\ stamp \in Nat /\ clock[s] <= stamp
  BY DEF DayInv, MomentsFit, StampedStep
<1>3. /\ \A r \in DOMAIN recs : created[r] \in Nat
      /\ \A r \in reversed : r \in DOMAIN recs /\ reversedOn[r] \in Nat
  BY DEF DayInv, MomentsFit, Inv, LedgerTypes
<1>4. /\ \A r \in DOMAIN recs : created'[r] = created[r] /\ recs'[r] = recs[r]
      /\ \A r \in DOMAIN recs' \ DOMAIN recs : created'[r] = stamp
      /\ \A r \in reversed : reversedOn'[r] = reversedOn[r]
      /\ reversed' = reversed
  BY StampStep DEF DayInv, Gives
<1>5. ASSUME NEW r \in DOMAIN recs', NEW a \in recs'[r].allocations, Holds(a, x)
      PROVE  Effective(r, day)' <=> r \notin reversed'
  <2>1. CASE r \in DOMAIN recs
    <3>1. created[r] <= clock[s] /\ (r \in reversed => reversedOn[r] <= clock[s])
      BY <1>4, <1>5, <2>1, <1>1 DEF Settled
    <3> QED BY <1>2, <1>3, <1>4, <2>1, <3>1 DEF Effective
  <2>2. CASE r \notin DOMAIN recs
    BY <1>2, <1>3, <1>4, <2>2 DEF Effective
  <2> QED BY <2>1, <2>2
<1>6. \A p : p \in CountedAsOf(x, day)' <=>
        \E r \in DOMAIN recs' : \E a \in recs'[r].allocations :
          Effective(r, day)' /\ Holds(a, x) /\ p = <<r, a>>
  BY DEF CountedAsOf, Holds
<1>7. \A p : p \in Touching(x)' <=>
        \E r \in DOMAIN recs' : \E a \in recs'[r].allocations :
          r \notin reversed' /\ Holds(a, x) /\ p = <<r, a>>
  BY DEF Touching, ActiveAllocations, Active, Holds
<1> QED BY <1>5, <1>6, <1>7

(* On any day a step lets fewer allocations count, or all active ones.     *)
LEMMA CountedStep ==
  ASSUME Inv, Inv', DayInv, NEW s \in Sessions, NEW stamp, StampedStep(s, stamp),
         NEW day, day \in Nat, NEW x \in Records
  PROVE  CountedAsOf(x, day)' \subseteq CountedAsOf(x, day) \/ CountedAsOf(x, day)' = Touching(x)'
<1>0. stamp \in Nat /\ MomentsFit /\ Step(s)
  BY DEF DayInv, MomentsFit, StampedStep
<1>1. \A r \in DOMAIN recs : Effective(r, day)' => Effective(r, day)
  BY <1>0, EffectiveStays
<1>2. \A r \in DOMAIN recs : recs'[r] = recs[r]
  BY <1>0, StampStep
<1>3. ASSUME \A r \in DOMAIN recs' \ DOMAIN recs : \A a \in recs'[r].allocations : ~Holds(a, x)
      PROVE  CountedAsOf(x, day)' \subseteq CountedAsOf(x, day)
  <2> SUFFICES ASSUME NEW p \in CountedAsOf(x, day)' PROVE p \in CountedAsOf(x, day)
    OBVIOUS
  <2>1. PICK r \in DOMAIN recs' : \E a \in recs'[r].allocations :
          Effective(r, day)' /\ Holds(a, x) /\ p = <<r, a>>
    BY DEF CountedAsOf, Holds
  <2>2. r \in DOMAIN recs /\ Effective(r, day) /\ recs'[r] = recs[r]
    BY <1>1, <1>2, <1>3, <2>1
  <2> QED BY <2>1, <2>2 DEF CountedAsOf
<1>4. CASE recs' = recs
  BY <1>3, <1>4
<1>5. CASE Gives(s)
  <2>1. CASE day < stamp
    BY <1>0, <2>1, PastStays
  <2>2. CASE stamp <= day /\ x \in RecordsOf(req[s].plan)
    BY <1>5, <2>2, GivingCounts
  <2>3. CASE x \notin RecordsOf(req[s].plan)
    <3>1. \A r \in DOMAIN recs' \ DOMAIN recs : recs'[r].allocations = req[s].plan
      BY <1>5 DEF Gives, Record, Inv, LedgerTypes
    <3>2. \A a \in req[s].plan : ~Holds(a, x)
      BY <2>3 DEF RecordsOf, InvoicesOf, FundsOf, Holds
    <3> QED BY <1>3, <3>1, <3>2
  <2> QED BY <1>0, <2>1, <2>2, <2>3
<1> QED BY <1>0, <1>4, <1>5, StepChanges DEF TakesBack

(* No day over-allocates after a step: what counts less amounts to no      *)
(* more, and all that is active is never too much.                         *)
LEMMA NoDayStep ==
  ASSUME Inv, Inv', NoOverAllocation', DayInv, NEW s \in Sessions, NEW stamp, StampedStep(s, stamp)
  PROVE  NoDayOverAllocates'
<1> SUFFICES ASSUME NEW x \in Records, NEW day \in Days
             PROVE  AllocatedAsOf(x, day)' <= Face[x]
  BY DEF NoDayOverAllocates, Days
<1>1. day \in Nat /\ Face[x] \in Nat
  BY FaceAssumption DEF Days
<1>2. CASE CountedAsOf(x, day)' \subseteq CountedAsOf(x, day)
  <2>1. IsFiniteSet(CountedAsOf(x, day)) /\ \A p \in CountedAsOf(x, day) : p[2].amount \in Nat
    BY CountedIsFinite DEF Inv
  <2>2. /\ AllocatedAsOf(x, day)' \in Nat
        /\ AllocatedAsOf(x, day)' <= AllocatedAsOf(x, day)
    BY <1>2, <2>1, FewerAllocations DEF AllocatedAsOf
  <2>3. AllocatedAsOf(x, day) \in Nat
    BY <2>1, FewerAllocations DEF AllocatedAsOf
  <2>4. AllocatedAsOf(x, day) <= Face[x]
    BY DEF DayInv, NoDayOverAllocates
  <2> QED BY <1>1, <2>2, <2>3, <2>4
<1>3. CASE CountedAsOf(x, day)' = Touching(x)'
  <2>1. AllocatedAsOf(x, day)' = Allocated(x)'
    BY <1>3 DEF AllocatedAsOf, Allocated
  <2> QED BY <2>1 DEF NoOverAllocation
<1> QED BY <1>1, <1>2, <1>3, CountedStep

(* Locks stay late: nobody puts anything on record about the rows of       *)
(* somebody else, and a lock is taken today.                               *)
LEMMA LocksStayLate ==
  ASSUME Inv, DayInv, NEW s \in Sessions, NEW stamp, StampedStep(s, stamp), NEW t \in Sessions
  PROVE  LocksAreLate(t)'
<1>0. MomentsFit /\ MomentsFit' /\ Step(s) /\ LocksAreLate(t) /\ today' = today
  BY StampStep DEF DayInv, StampedStep
<1> SUFFICES ASSUME InTransaction(t)', req'[t].kind # "cancel", NEW x \in held'[t] \cap Records
             PROVE  Settled(x, clock[t])'
  BY DEF LocksAreLate
<1>1. CASE t = s
  <2>1. clock'[t] = today
    BY <1>0, <1>1, ClockStep
  <2>2. \A r \in DOMAIN recs' : created'[r] <= today
    BY <1>0 DEF MomentsFit
  <2>3. \A r \in reversed' : reversedOn'[r] <= today
    BY <1>0 DEF MomentsFit
  <2> QED BY <2>1, <2>2, <2>3 DEF Settled
<1>2. CASE t # s
  <2>1. Same(t) /\ clock'[t] = clock[t]
    BY <1>0, <1>2, OthersStand, ClockStep
  <2>2. x \in held[t] /\ Settled(x, clock[t])
    BY <1>0, <2>1 DEF Same, LocksAreLate, InTransaction
  <2>3. /\ \A r \in DOMAIN recs : created'[r] = created[r] /\ recs'[r] = recs[r]
        /\ \A r \in reversed : reversedOn'[r] = reversedOn[r]
    BY <1>0, StampStep
  <2>4. CASE UNCHANGED <<recs, reversed>>
    BY <2>1, <2>2, <2>3, <2>4 DEF Settled
  <2>5. CASE Gives(s)
    <3>1. x \notin RecordsOf(req[s].plan)
      BY <1>2, <2>2, <2>5, PlanIsHeld DEF Gives, Planned
    <3>2. \A r \in DOMAIN recs' \ DOMAIN recs : recs'[r].allocations = req[s].plan
      BY <2>5 DEF Gives, Record, Inv, LedgerTypes
    <3>3. \A a \in req[s].plan : ~Holds(a, x)
      BY <3>1 DEF RecordsOf, InvoicesOf, FundsOf, Holds
    <3>4. reversed' = reversed
      BY <2>5 DEF Gives
    <3> QED BY <2>1, <2>2, <2>3, <3>2, <3>3, <3>4 DEF Settled, Holds
  <2>6. CASE TakesBack(s)
    <3>1. x \notin RecordsOf(req[s].plan)
      BY <1>2, <2>2, <2>6, PlanIsHeld DEF TakesBack, Planned
    <3>2. req[s].plan = recs[req[s].rec].allocations
      BY <2>6 DEF TakesBack, Inv, Local, ReversalFits
    <3>3. \A a \in recs[req[s].rec].allocations : ~Holds(a, x)
      BY <3>1, <3>2 DEF RecordsOf, InvoicesOf, FundsOf, Holds
    <3>4. recs' = recs /\ reversed' = reversed \cup {req[s].rec}
      BY <2>6 DEF TakesBack
    <3> QED BY <2>1, <2>2, <2>3, <3>3, <3>4 DEF Settled, Holds
  <2> QED BY <1>0, <2>4, <2>5, <2>6, StepChanges
<1> QED BY <1>1, <1>2

(* Midnight moves nothing but the day.                                     *)
LEMMA MidnightStep ==
  ASSUME DayInv, UNCHANGED <<vars, clock, moments>>, today' \in {today, today + 1}
  PROVE  DayInv'
<1>1. /\ recs' = recs /\ reversed' = reversed /\ cancelled' = cancelled
      /\ pc' = pc /\ req' = req /\ held' = held /\ clock' = clock
      /\ created' = created /\ reversedOn' = reversedOn /\ changedOn' = changedOn
  BY DEF vars, ledger, locks, moments
<1>2. today \in Nat /\ today' \in Nat /\ today <= today'
  BY DEF DayInv, MomentsFit
<1>3. MomentsFit'
  <2>1. FirstDay \in Nat
    BY WatchAssumption DEF Days
  <2>2. /\ \A s \in Sessions : clock[s] \in Nat /\ clock[s] <= today
        /\ \A r \in DOMAIN recs : created[r] \in Nat /\ created[r] <= today
        /\ \A r \in reversed : reversedOn[r] \in Nat /\ reversedOn[r] <= today
        /\ \A i \in cancelled : changedOn[i] \in Nat /\ changedOn[i] <= today
    BY DEF DayInv, MomentsFit
  <2> QED BY <1>1, <1>2, <2>1, <2>2 DEF DayInv, MomentsFit
<1>4. \A x, day : CountedAsOf(x, day)' = CountedAsOf(x, day)
  BY <1>1 DEF CountedAsOf, Effective
<1>5. NoDayOverAllocates'
  BY <1>4 DEF DayInv, NoDayOverAllocates, AllocatedAsOf
<1>6. \A s \in Sessions : LocksAreLate(s)'
  BY <1>1 DEF DayInv, LocksAreLate, Settled, InTransaction
<1> QED BY <1>3, <1>5, <1>6 DEF DayInv

(* On the first day nothing is on record.                                  *)
LEMMA FirstDayInv == ReportingInit => DayInv
<1> SUFFICES ASSUME ReportingInit PROVE DayInv
  OBVIOUS
<1>1. /\ recs = <<>> /\ reversed = {} /\ cancelled = {} /\ pc = [s \in Sessions |-> "idle"]
      /\ today = FirstDay /\ clock = [s \in Sessions |-> FirstDay]
      /\ created = <<>> /\ reversedOn = Nothing /\ changedOn = Nothing
  BY DEF ReportingInit, Init, LedgerInit
<1>2. FirstDay \in Nat
  BY WatchAssumption DEF Days
<1>3. MomentsFit
  BY <1>1, <1>2 DEF MomentsFit, Nothing
<1>4. ASSUME NEW x \in Records, NEW day \in Days PROVE AllocatedAsOf(x, day) <= Face[x]
  <2> DEFINE f == [p \in CountedAsOf(x, day) |-> p[2].amount]
  <2>1. DOMAIN f = {}
    BY <1>1 DEF CountedAsOf
  <2> HIDE DEF f
  <2>2. SumFunction(f) = 0
    BY <2>1, SumOfNothing DEF SumFunction
  <2>3. Face[x] \in Nat
    BY FaceAssumption
  <2> QED BY <2>2, <2>3 DEF AllocatedAsOf, f
<1>5. \A s \in Sessions : LocksAreLate(s)
  BY <1>1 DEF LocksAreLate, InTransaction
<1> QED BY <1>3, <1>4, <1>5 DEF DayInv, NoDayOverAllocates

-----------------------------------------------------------------------------
(* The days are kept apart in every behaviour of the reports: every stamp  *)
(* lies in the past, and every lock is later than what it protects.        *)
THEOREM DayInvariance == ReportingSpec => []DayInv
<1>1. Inv /\ Inv' /\ NoOverAllocation' /\ DayInv /\ [ReportingNext]_reportingVars => DayInv'
  <2> SUFFICES ASSUME Inv, Inv', NoOverAllocation', DayInv, [ReportingNext]_reportingVars
               PROVE  DayInv'
    OBVIOUS
  <2>1. ASSUME NEW s \in Sessions, NEW stamp, StampedStep(s, stamp) PROVE DayInv'
    <3>1. MomentsFit'
      BY <2>1, StampStep DEF DayInv
    <3>2. NoDayOverAllocates'
      BY <2>1, NoDayStep
    <3>3. \A t \in Sessions : LocksAreLate(t)'
      BY <2>1, LocksStayLate
    <3> QED BY <3>1, <3>2, <3>3 DEF DayInv
  <2> QED BY <2>1, ReportingSteps, MidnightStep
<1>2. ReportingSpec => []Inv /\ []NoOverAllocation
  BY ReportsOnlyRead, ReconciliationInvariance, NeverOverAllocated, PTL
<1> QED BY <1>1, <1>2, FirstDayInv, PTL DEF ReportingSpec

(* No day is reported on which more was allocated than there was, however  *)
(* reconciliations and reversals are stamped (_with_historical_open_amount).*)
THEOREM NoDayOver == ReportingSpec => []NoDayOverAllocates
<1>1. DayInv => NoDayOverAllocates
  BY DEF DayInv
<1> QED BY DayInvariance, <1>1, PTL

(* What was allocated by the end of today. *)
TodayIsCurrent == \A x \in Records : AllocatedAsOf(x, today) = Allocated(x)

(* Nothing is stamped in the future, so the reports of today say what the  *)
(* requests decide by (_allocated_amounts).                                *)
THEOREM CurrentDay == ReportingSpec => []TodayIsCurrent
<1>1. Inv /\ DayInv => TodayIsCurrent
  <2> SUFFICES ASSUME Inv, DayInv, NEW x \in Records
               PROVE  AllocatedAsOf(x, today) = Allocated(x)
    BY DEF TodayIsCurrent
  <2>1. /\ today \in Nat /\ \A r \in DOMAIN recs : created[r] <= today
        /\ \A r \in reversed : reversedOn[r] \in Nat /\ reversedOn[r] <= today
    BY DEF DayInv, MomentsFit
  <2>2. \A r \in DOMAIN recs : Effective(r, today) <=> r \notin reversed
    BY <2>1 DEF Effective
  <2>3. \A p : p \in CountedAsOf(x, today) <=>
          \E r \in DOMAIN recs : \E a \in recs[r].allocations :
            Effective(r, today) /\ Holds(a, x) /\ p = <<r, a>>
    BY DEF CountedAsOf
  <2>4. \A p : p \in Touching(x) <=>
          \E r \in DOMAIN recs : \E a \in recs[r].allocations :
            r \notin reversed /\ Holds(a, x) /\ p = <<r, a>>
    BY DEF Touching, ActiveAllocations, Active
  <2>5. CountedAsOf(x, today) = Touching(x)
    BY <2>2, <2>3, <2>4
  <2> QED BY <2>5 DEF AllocatedAsOf, Allocated
<1> QED BY ReportsOnlyRead, ReconciliationInvariance, DayInvariance, <1>1, PTL

-----------------------------------------------------------------------------
(* The reports of the past.                                                *)

(* A step changes no summary of a day before its stamp.                    *)
LEMMA PastSummaryStays ==
  ASSUME Inv, DayInv, NEW s \in Sessions, NEW stamp, StampedStep(s, stamp),
         NEW day \in Days, day < stamp, NEW party
  PROVE  /\ SupplierInvoices(party, day)' = SupplierInvoices(party, day)
         /\ SupplierPayments(party, day)' = SupplierPayments(party, day)
         /\ \A x : AllocatedAsOf(x, day)' = AllocatedAsOf(x, day)
         /\ SupplierSummary(party, day)' = SupplierSummary(party, day)
<1>0. day \in Nat /\ stamp \in Nat /\ MomentsFit
  BY DEF Days, DayInv, MomentsFit, StampedStep
<1> DEFINE I == SupplierInvoices(party, day)
           F == SupplierPayments(party, day)
<1>1. I' = I
  <2>1. /\ \A i \in cancelled : changedOn'[i] = changedOn[i]
        /\ \A i \in cancelled' \ cancelled : changedOn'[i] = stamp
        /\ cancelled \subseteq cancelled'
    BY <1>0, StampStep
  <2> QED BY <1>0, <2>1 DEF SupplierInvoices
<1>2. F' = F
  BY DEF SupplierPayments
<1>3. ASSUME NEW x PROVE AllocatedAsOf(x, day)' = AllocatedAsOf(x, day)
  BY <1>0, PastStays DEF AllocatedAsOf
<1>4. ASSUME NEW x PROVE OpenAsOf(x, day)' = OpenAsOf(x, day)
  BY <1>3 DEF OpenAsOf
<1>5. SumOfOpen(I, day)' = SumOfOpen(I, day) /\ SumOfOpen(F, day)' = SumOfOpen(F, day)
  <2> HIDE DEF I, F
  <2> QED BY <1>1, <1>2, <1>4 DEF SumOfOpen
<1>6. SupplierSummary(party, day)' = SupplierSummary(party, day)
  BY <1>1, <1>2, <1>5 DEF SupplierSummary
<1> QED BY <1>1, <1>2, <1>3, <1>6

(* The column of the allocated amounts of the ledger of a supplier.        *)
Allocateds(party, day) ==
  LET rows == Listed(SupplierInvoices(party, day) \cup SupplierPayments(party, day))
  IN [k \in DOMAIN rows |-> AllocatedAsOf(rows[k], day)]

(* A step changes no report of a day before its stamp.                     *)
LEMMA PastReportStays ==
  ASSUME Inv, DayInv, NEW s \in Sessions, NEW stamp, StampedStep(s, stamp),
         NEW day \in Days, day < stamp, NEW party
  PROVE  SupplierReport(party, day)' = SupplierReport(party, day)
<1> DEFINE L == SupplierLedger(party, day)
           column == [k \in DOMAIN L |-> L[k].allocated]
<1>1. column = Allocateds(party, day)
  BY Zenon DEF SupplierLedger, Allocateds
<1>2. column' = Allocateds(party, day)'
  BY Zenon DEF SupplierLedger, Allocateds
<1>3. Allocateds(party, day)' = Allocateds(party, day)
  <2> DEFINE S == SupplierInvoices(party, day) \cup SupplierPayments(party, day)
             rows == Listed(S)
  <2>1. S' = S
    BY PastSummaryStays
  <2>2. rows' = rows
    <3> HIDE DEF S
    <3> QED BY <2>1
  <2>3. \A x : AllocatedAsOf(x, day)' = AllocatedAsOf(x, day)
    BY PastSummaryStays
  <2> HIDE DEF rows
  <2>4. [k \in DOMAIN rows |-> AllocatedAsOf(rows[k], day)]' = [k \in DOMAIN rows |-> AllocatedAsOf(rows[k], day)]
    BY <2>2, <2>3
  <2> QED BY <2>4, Zenon DEF Allocateds, rows, S
<1> QED BY <1>1, <1>2, <1>3, PastSummaryStays DEF SupplierReport

(* The report of a past day stands: a request stamps what it does no       *)
(* earlier than its last statement ran (supplier_summaries_as_of).         *)
THEOREM PastReports == ReportingSpec => PastReportsStand
<1> DEFINE Stands == \A s \in Sessions, day \in Days :
       Ends(s) /\ ledger' # ledger /\ day < clock[s] =>
         \A party \in Parties : SupplierReport(party, day)' = SupplierReport(party, day)
<1>1. Inv /\ DayInv /\ [ReportingNext]_reportingVars => Stands
  <2> SUFFICES ASSUME Inv, DayInv, [ReportingNext]_reportingVars,
                      NEW s \in Sessions, NEW day \in Days,
                      Ends(s), ledger' # ledger, day < clock[s], NEW party \in Parties
               PROVE  SupplierReport(party, day)' = SupplierReport(party, day)
    OBVIOUS
  <2>1. PICK t \in Sessions : \E stamp \in clock[t]..today : StampedStep(t, stamp)
    BY ReportingSteps DEF vars
  <2>2. t = s
    BY <2>1, OthersStand DEF StampedStep, Same, Ends, InTransaction
  <2>3. PICK stamp \in clock[s]..today : StampedStep(s, stamp)
    BY <2>1, <2>2
  <2>4. day < stamp
    BY <2>3 DEF DayInv, MomentsFit, Days
  <2> QED BY <2>3, <2>4, PastReportStays
<1>2. Inv /\ DayInv /\ [ReportingNext]_reportingVars => [Stands]_reportingVars
  BY <1>1
<1> HIDE DEF Stands
<1>3. ReportingSpec => [][Stands]_reportingVars
  BY ReportsOnlyRead, ReconciliationInvariance, DayInvariance, <1>2, PTL DEF ReportingSpec
<1> QED BY <1>3 DEF PastReportsStand, Stands

-----------------------------------------------------------------------------
(* The reports of today agree.                                            *)

(* The balance after each row of a ledger. *)
IsBalance(b, rows) ==
  b = [k \in 0..Len(rows) |->
         IF k = 0 THEN 0
         ELSE IF rows[k] \in Invoices THEN b[k - 1] + Face[rows[k]] ELSE b[k - 1] - Face[rows[k]]]

RunningBalance(rows) == CHOOSE b : IsBalance(b, rows)

(* What the invoices of S come to less its funds. *)
Balance(S) == SumFunctionOnSet(Face, S \cap Invoices) - SumFunctionOnSet(Face, S \cap Funds)

(* One more record. *)
LEMMA OneMoreBalanced ==
  ASSUME NEW S \in SUBSET Records, NEW x \in Records \ S
  PROVE  Balance(S \cup {x}) =
           IF x \in Invoices THEN Balance(S) + Face[x] ELSE Balance(S) - Face[x]
<1> DEFINE I == S \cap Invoices
           F == S \cap Funds
<1>1. IsFiniteSet(I) /\ IsFiniteSet(F) /\ IsFiniteSet({x})
  BY RecordsAreFinite, FS_Subset, FS_Singleton
<1>2. \A y \in Records : Face[y] \in Nat
  BY FaceAssumption
<1>3. SumFunctionOnSet(Face, I) \in Nat /\ SumFunctionOnSet(Face, F) \in Nat
  BY <1>1, <1>2, SumType DEF Records
<1>4. SumFunctionOnSet(Face, {x}) = Face[x]
  <2>1. SumFunctionOnSet(Face, {x}) = Face[x] + SumFunctionOnSet(Face, {x} \ {x})
    BY <1>1, <1>2, SumWithout
  <2>2. {x} \ {x} = {}
    OBVIOUS
  <2>3. SumFunctionOnSet(Face, {x} \ {x}) = 0
    BY <2>2, SumOfNothing, Zenon
  <2> QED BY <1>2, <2>1, <2>3
<1>5. CASE x \in Invoices
  <2>1. (S \cup {x}) \cap Invoices = I \cup {x} /\ (S \cup {x}) \cap Funds = F /\ I \cap {x} = {}
    BY <1>5, RecordsAreDisjoint
  <2> HIDE DEF I, F
  <2>2. SumFunctionOnSet(Face, I \cup {x}) = SumFunctionOnSet(Face, I) + SumFunctionOnSet(Face, {x})
    <3>1. \A y \in I \cup {x} : Face[y] \in Nat
      BY <1>2 DEF I
    <3> QED BY <1>1, <2>1, <3>1, SumOfUnion
  <2>3. Balance(S \cup {x}) = SumFunctionOnSet(Face, I \cup {x}) - SumFunctionOnSet(Face, F)
    BY <2>1, Zenon DEF Balance
  <2>4. Balance(S) = SumFunctionOnSet(Face, I) - SumFunctionOnSet(Face, F)
    BY DEF Balance, I, F
  <2> QED BY <1>2, <1>3, <1>4, <1>5, <2>2, <2>3, <2>4
<1>6. CASE x \notin Invoices
  <2>1. (S \cup {x}) \cap Invoices = I /\ (S \cup {x}) \cap Funds = F \cup {x} /\ F \cap {x} = {}
    BY <1>6 DEF Records
  <2> HIDE DEF I, F
  <2>2. SumFunctionOnSet(Face, F \cup {x}) = SumFunctionOnSet(Face, F) + SumFunctionOnSet(Face, {x})
    <3>1. \A y \in F \cup {x} : Face[y] \in Nat
      BY <1>2 DEF F
    <3> QED BY <1>1, <2>1, <3>1, SumOfUnion
  <2>3. Balance(S \cup {x}) = SumFunctionOnSet(Face, I) - SumFunctionOnSet(Face, F \cup {x})
    BY <2>1, Zenon DEF Balance
  <2>4. Balance(S) = SumFunctionOnSet(Face, I) - SumFunctionOnSet(Face, F)
    BY DEF Balance, I, F
  <2> QED BY <1>2, <1>3, <1>4, <1>6, <2>2, <2>3, <2>4
<1> QED BY <1>5, <1>6

(* A ledger ends in the balance of the records it lists.                   *)
LEMMA LastBalance ==
  ASSUME NEW S \in SUBSET Records, NEW rows, ListsOnce(rows, S)
  PROVE  RunningBalance(rows)[Len(rows)] = Balance(S)
<1> DEFINE n == Len(rows)
           first(k) == {rows[j] : j \in 1..k}
           w == [k \in 0..n |-> Balance(first(k))]
<1>1. /\ n \in Nat /\ DOMAIN rows = 1..n /\ \A k \in 1..n : rows[k] \in S
      /\ \A j, k \in 1..n : rows[j] = rows[k] => j = k
      /\ \A x \in S : \E k \in 1..n : rows[k] = x
  <2>1. rows \in Seq(S) /\ Range(rows) = S /\ IsInjective(rows)
    BY DEF ListsOnce
  <2>2. n \in Nat /\ DOMAIN rows = 1..n /\ \A k \in 1..n : rows[k] \in S
    BY <2>1
  <2> HIDE DEF n
  <2> QED BY <2>1, <2>2 DEF Range, IsInjective
<1> HIDE DEF n
<1>2. first(0) = {} /\ first(n) = S
  BY <1>1
<1>3. ASSUME NEW k \in 1..n
      PROVE  /\ k - 1 \in 0..n /\ rows[k] \in Records /\ rows[k] \notin first(k - 1)
             /\ first(k) = first(k - 1) \cup {rows[k]} /\ first(k - 1) \subseteq Records
  <2>1. k - 1 \in 0..n /\ 1..k = 1..(k - 1) \cup {k} /\ 1..(k - 1) \subseteq 1..n /\ k \notin 1..(k - 1)
    BY <1>1
  <2> QED BY <1>1, <2>1
<1>4. Balance({}) = 0
  <2>1. {} \cap Invoices = {} /\ {} \cap Funds = {}
    OBVIOUS
  <2>2. SumFunctionOnSet(Face, {} \cap Invoices) = 0 /\ SumFunctionOnSet(Face, {} \cap Funds) = 0
    BY <2>1, SumOfNothing, Zenon
  <2> QED BY <2>2 DEF Balance
<1>5. w[0] = 0
  <2>1. 0 \in 0..n
    BY <1>1
  <2> QED BY <1>2, <1>4, <2>1
<1>6. ASSUME NEW k \in 1..n
      PROVE  w[k] = IF rows[k] \in Invoices THEN w[k - 1] + Face[rows[k]] ELSE w[k - 1] - Face[rows[k]]
  <2>1. w[k] = Balance(first(k)) /\ w[k - 1] = Balance(first(k - 1))
    BY <1>1, <1>3
  <2> DEFINE U == first(k - 1)
  <2>2. first(k) = U \cup {rows[k]} /\ U \in SUBSET Records /\ rows[k] \in Records \ U
    BY <1>3
  <2> HIDE DEF U, first
  <2>3. Balance(U \cup {rows[k]}) =
          IF rows[k] \in Invoices THEN Balance(U) + Face[rows[k]] ELSE Balance(U) - Face[rows[k]]
    BY <2>2, OneMoreBalanced
  <2> HIDE DEF w
  <2> QED BY <2>1, <2>2, <2>3 DEF U
<1>7. IsBalance(w, rows)
  <2>1. w = [k \in 0..n |-> w[k]]
    OBVIOUS
  <2>2. \A k \in 0..n : k # 0 => k \in 1..n
    BY <1>1
  <2> HIDE DEF w
  <2>3. w = [k \in 0..n |-> IF k = 0 THEN 0
               ELSE IF rows[k] \in Invoices THEN w[k - 1] + Face[rows[k]] ELSE w[k - 1] - Face[rows[k]]]
    BY <1>5, <1>6, <2>1, <2>2
  <2> QED BY <2>3 DEF IsBalance, n
<1> DEFINE b == RunningBalance(rows)
           G == {k \in Nat : k <= n => b[k] = w[k]}
<1>8. IsBalance(b, rows)
  <2> HIDE DEF w
  <2> QED BY <1>7 DEF RunningBalance
<1> HIDE DEF b, w, first
<1>9. 0 \in G
  <2>1. 0 \in 0..Len(rows)
    BY <1>1 DEF n
  <2>2. b[0] = 0
    BY <1>8, <2>1 DEF IsBalance
  <2> QED BY <1>5, <2>2
<1>10. ASSUME NEW k \in Nat, k \in G PROVE k + 1 \in G
  <2> SUFFICES ASSUME k + 1 <= n PROVE b[k + 1] = w[k + 1]
    OBVIOUS
  <2>1. k + 1 \in 1..n /\ k + 1 \in 0..Len(rows) /\ k + 1 # 0 /\ (k + 1) - 1 = k
    BY <1>1 DEF n
  <2>2. b[k + 1] = IF rows[k + 1] \in Invoices THEN b[k] + Face[rows[k + 1]]
                   ELSE b[k] - Face[rows[k + 1]]
    BY <1>8, <2>1 DEF IsBalance
  <2>3. b[k] = w[k]
    BY <1>1, <1>10
  <2> QED BY <1>6, <2>1, <2>2, <2>3
<1>11. Nat \subseteq G
  <2> HIDE DEF G
  <2> QED BY <1>9, <1>10, Naturally
<1>12. b[n] = w[n]
  BY <1>1, <1>11
<1>13. w[n] = Balance(first(n))
  BY <1>1 DEF w
<1> QED BY <1>2, <1>12, <1>13 DEF b, n

(* What holds on every day that is being reported. *)
ReportInv == Inv /\ NoOverAllocation /\ RecsFit /\ DayInv /\ TodayIsCurrent

(* The open amounts, as one function. *)
Opens == [x \in Records |-> Open(x)]

(* The reports add up the open amounts of today.                           *)
LEMMA OpensOfToday ==
  ASSUME ReportInv
  PROVE  /\ \A x \in Records : /\ Opens[x] \in Nat /\ Opens[x] = Open(x)
                               /\ OpenAsOf(x, today) = Open(x)
                               /\ Allocated(x) \in Nat /\ Face[x] = Opens[x] + Allocated(x)
                               /\ AllocatedAsOf(x, today) = Allocated(x)
         /\ \A S \in SUBSET Records :
              IsFiniteSet(S) /\ SumOfOpen(S, today) = SumFunctionOnSet(Opens, S)
<1>1. ASSUME NEW x \in Records
      PROVE  /\ Opens[x] \in Nat /\ Opens[x] = Open(x)
             /\ OpenAsOf(x, today) = Open(x)
             /\ Allocated(x) \in Nat /\ Face[x] = Opens[x] + Allocated(x)
             /\ AllocatedAsOf(x, today) = Allocated(x)
  <2>1. Face[x] \in Nat /\ Allocated(x) \in Nat /\ Allocated(x) <= Face[x]
    BY FaceAssumption, AllocatedType DEF ReportInv, Inv, NoOverAllocation
  <2>2. Opens[x] = Face[x] - Allocated(x) /\ Open(x) = Face[x] - Allocated(x)
    BY DEF Opens, Open
  <2>3. AllocatedAsOf(x, today) = Allocated(x)
    BY DEF ReportInv, TodayIsCurrent
  <2> QED BY <2>1, <2>2, <2>3 DEF OpenAsOf
<1>2. ASSUME NEW S \in SUBSET Records
      PROVE  IsFiniteSet(S) /\ SumOfOpen(S, today) = SumFunctionOnSet(Opens, S)
  <2>1. IsFiniteSet(S)
    BY RecordsAreFinite, FS_Union, FS_Subset DEF Records
  <2> DEFINE h == [x \in S |-> OpenAsOf(x, today)]
  <2>2. DOMAIN h = S /\ \A x \in S : Opens[x] \in Nat /\ h[x] = Opens[x]
    BY <1>1
  <2> HIDE DEF h
  <2>3. SumFunction(h) = SumFunctionOnSet(Opens, S)
    BY <2>1, <2>2, SumSpelledOut
  <2> QED BY <2>1, <2>3 DEF SumOfOpen, h
<1> QED BY <1>1, <1>2

(* No status changes after today: what is cancelled does not count.        *)
LEMMA InvoicesOfToday ==
  ASSUME ReportInv, NEW party
  PROVE  SupplierInvoices(party, today) =
           {i \in party \cap Invoices : Dated[i] <= today /\ i \notin cancelled}
<1>1. today \in Nat /\ \A i \in cancelled : changedOn[i] \in Nat /\ changedOn[i] <= today
  BY DEF ReportInv, DayInv, MomentsFit
<1> QED BY <1>1 DEF SupplierInvoices

(* The dashboard and the summary of a supplier agree on what is open.      *)
LEMMA OpenAgrees ==
  ASSUME ReportInv, NEW party \in Parties
  PROVE  /\ SumOfOpen(Payables(today) \cap party, today) = SumOfOpen(SupplierInvoices(party, today), today)
         /\ SumOfOpen(UnmatchedFunds(today) \cap party, today) = SumOfOpen(SupplierPayments(party, today), today)
<1> DEFINE I == SupplierInvoices(party, today)
           F == SupplierPayments(party, today)
           P == Payables(today) \cap party
           U == UnmatchedFunds(today) \cap party
<1>1. /\ I \in SUBSET Records /\ P \in SUBSET I
      /\ F \in SUBSET Records /\ U \in SUBSET F
  BY InvoicesOfToday DEF SupplierPayments, Payables, UnmatchedFunds, Records
<1>2. /\ \A x \in I \ P : ~(OpenAsOf(x, today) > 0)
      /\ \A x \in F \ U : ~(OpenAsOf(x, today) > 0)
  BY InvoicesOfToday DEF SupplierPayments, Payables, UnmatchedFunds, Records
<1> HIDE DEF I, F, P, U
<1>3. /\ \A x \in I : Opens[x] \in Nat
      /\ \A x \in F : Opens[x] \in Nat
      /\ \A x \in I \ P : Opens[x] = 0
      /\ \A x \in F \ U : Opens[x] = 0
  BY <1>1, <1>2, OpensOfToday
<1>4. P \in SUBSET Records /\ U \in SUBSET Records
  BY <1>1
<1>5. IsFiniteSet(I) /\ IsFiniteSet(F)
  BY <1>1, OpensOfToday
<1>6. SumFunctionOnSet(Opens, I) = SumFunctionOnSet(Opens, P)
  BY <1>1, <1>3, <1>5, SumOfTheRest
<1>7. SumFunctionOnSet(Opens, F) = SumFunctionOnSet(Opens, U)
  BY <1>1, <1>3, <1>5, SumOfTheRest
<1>8. SumOfOpen(P, today) = SumOfOpen(I, today) /\ SumOfOpen(U, today) = SumOfOpen(F, today)
  BY <1>1, <1>4, <1>6, <1>7, OpensOfToday
<1> QED BY <1>8 DEF I, F, P, U

(* The balance of a supplier and what is open.                             *)
LEMMA BalanceAgrees ==
  ASSUME ReportInv, NEW party \in Parties, \A x \in party : Dated[x] <= today,
         NEW invoiced, invoiced = SumFunctionOnSet(Face, SupplierInvoices(party, today)),
         NEW paid, paid = SumFunctionOnSet(Face, SupplierPayments(party, today))
  PROVE  (invoiced - paid) - (SumOfOpen(SupplierInvoices(party, today), today)
                                - SumOfOpen(SupplierPayments(party, today), today)) =
           - SumFunction([i \in RedAllocations(today) \cap party |-> AllocatedAsOf(i, today)])
<1> DEFINE I == SupplierInvoices(party, today)
           F == SupplierPayments(party, today)
           C == party \cap cancelled
           R == RedAllocations(today) \cap party
           given == [x \in Records |-> Allocated(x)]
           sum(S) == SumFunctionOnSet(given, S)
           red == [i \in R |-> AllocatedAsOf(i, today)]
<1>0. party \subseteq Records /\ cancelled \subseteq Invoices
  BY ScopeAssumption DEF ReportInv, Inv, LedgerTypes
<1>1. /\ I \cup C = party \cap Invoices /\ I \cap C = {}
      /\ F = party \cap Funds
      /\ I \in SUBSET Records /\ F \in SUBSET Records /\ C \in SUBSET Records
  BY <1>0, InvoicesOfToday DEF SupplierPayments, Records
<1>2. R \in SUBSET C /\ \A x \in C \ R : ~(AllocatedAsOf(x, today) > 0)
  BY <1>0 DEF RedAllocations
<1>3. DOMAIN red = R /\ \A x \in R : red[x] = AllocatedAsOf(x, today)
  OBVIOUS
<1>4. \A x \in Records : given[x] \in Nat /\ given[x] = Allocated(x)
                         /\ Opens[x] \in Nat /\ Face[x] = Opens[x] + given[x]
                         /\ AllocatedAsOf(x, today) = given[x]
  BY OpensOfToday
<1> HIDE DEF I, F, C, R, given, red
<1>5. /\ IsFiniteSet(I) /\ SumOfOpen(I, today) = SumFunctionOnSet(Opens, I)
      /\ IsFiniteSet(F) /\ SumOfOpen(F, today) = SumFunctionOnSet(Opens, F)
      /\ IsFiniteSet(C)
  BY <1>1, OpensOfToday
<1>6. /\ \A x \in I : given[x] \in Nat /\ Opens[x] \in Nat /\ Face[x] = Opens[x] + given[x]
      /\ \A x \in F : given[x] \in Nat /\ Opens[x] \in Nat /\ Face[x] = Opens[x] + given[x]
      /\ \A x \in C : given[x] \in Nat
  BY <1>1, <1>4
<1>7. invoiced = SumFunctionOnSet(Opens, I) + sum(I)
  <2>1. invoiced = SumFunctionOnSet(Face, I)
    BY DEF I
  <2> HIDE DEF sum
  <2> QED BY <1>5, <1>6, <2>1, SumOfBoth DEF sum
<1>8. paid = SumFunctionOnSet(Opens, F) + sum(F)
  <2>1. paid = SumFunctionOnSet(Face, F)
    BY DEF F
  <2> QED BY <1>5, <1>6, <2>1, SumOfBoth
<1>9. sum(I) + sum(C) = sum(F)
  <2>1. sum(I \cup C) = sum(I) + sum(C)
    <3>1. \A x \in I \cup C : given[x] \in Nat
      BY <1>6
    <3> QED BY <1>1, <1>5, <3>1, SumOfUnion
  <2>2. sum(party \cap Invoices) = sum(party \cap Funds)
    BY <1>4, PartyBalances DEF ReportInv, Inv
  <2>3. sum(I \cup C) = sum(party \cap Invoices) /\ sum(F) = sum(party \cap Funds)
    BY <1>1, Zenon
  <2> HIDE DEF sum
  <2> QED BY <2>1, <2>2, <2>3
<1>10. sum(C) = SumFunction(red)
  <2>1. \A x \in C \ R : given[x] = 0
    <3> TAKE x \in C \ R
    <3>1. x \in Records
      BY <1>1
    <3> QED BY <1>2, <1>4, <3>1
  <2>2. IsFiniteSet(R) /\ \A x \in R : given[x] \in Nat /\ red[x] = given[x]
    <3>1. \A x \in R : x \in Records
      BY <1>1, <1>2
    <3> QED BY <1>2, <1>3, <1>4, <1>5, <3>1, FS_Subset
  <2>3. sum(C) = sum(R)
    BY <1>2, <1>5, <1>6, <2>1, SumOfTheRest
  <2>4. SumFunction(red) = sum(R)
    BY <1>3, <2>2, SumSpelledOut
  <2> QED BY <2>3, <2>4
<1>11. /\ SumFunctionOnSet(Opens, I) \in Nat /\ SumFunctionOnSet(Opens, F) \in Nat
       /\ sum(I) \in Nat /\ sum(F) \in Nat /\ sum(C) \in Nat
  BY <1>5, <1>6, SumType
<1>12. (invoiced - paid) - (SumOfOpen(I, today) - SumOfOpen(F, today)) = - SumFunction(red)
  <2> HIDE DEF sum
  <2> QED BY <1>5, <1>7, <1>8, <1>9, <1>10, <1>11
<1> QED BY <1>12 DEF I, F, red, R

(* The ledger of a supplier ends in his balance, and lets him reconcile    *)
(* what the dashboard calls payable.                                       *)
LEMMA LedgerAgrees ==
  ASSUME ReportInv, NEW party \in Parties, NEW rows, rows = SupplierLedger(party, today)
  PROVE  /\ rows # <<>> => rows[Len(rows)].balance =
                             SumFunctionOnSet(Face, SupplierInvoices(party, today))
                               - SumFunctionOnSet(Face, SupplierPayments(party, today))
         /\ {rows[k].record : k \in {k \in DOMAIN rows : rows[k].canReconcile}} =
              Payables(today) \cap party
<1> DEFINE I == SupplierInvoices(party, today)
           F == SupplierPayments(party, today)
           S == I \cup F
           Q == Listed(S)
           n == Len(Q)
           may(x) == x \in Invoices \ cancelled /\ Open(x) > 0
<1>1. rows = [k \in DOMAIN Q |->
                [record |-> Q[k], balance |-> RunningBalance(Q)[k],
                 allocated |-> AllocatedAsOf(Q[k], today), canReconcile |-> may(Q[k])]]
  BY Zenon DEF SupplierLedger, RunningBalance, IsBalance
<1>2. S \in SUBSET Records /\ S \cap Invoices = I /\ S \cap Funds = F
  BY InvoicesOfToday, RecordsAreDisjoint DEF SupplierPayments, Records
<1>3. ListsOnce(Q, S)
  BY <1>2, ListedOnce
<1>4. n \in Nat /\ DOMAIN Q = 1..n /\ \A x : x \in S <=> \E k \in 1..n : Q[k] = x
  <2>1. Q \in Seq(S) /\ Range(Q) = S
    BY <1>3 DEF ListsOnce
  <2> HIDE DEF S, Q
  <2>2. n \in Nat /\ DOMAIN Q = 1..n
    BY <2>1
  <2> HIDE DEF n
  <2> QED BY <2>1, <2>2 DEF Range
<1>5. RunningBalance(Q)[n] = Balance(S)
  BY <1>2, <1>3, LastBalance
<1>6. Balance(S) = SumFunctionOnSet(Face, I) - SumFunctionOnSet(Face, F)
  BY <1>2, Zenon DEF Balance
<1>7. \A x \in S : may(x) <=> x \in Payables(today) \cap party
  <2>1. \A x \in Records : OpenAsOf(x, today) = Open(x)
    BY OpensOfToday
  <2> QED BY <1>2, <2>1, InvoicesOfToday DEF Payables, SupplierPayments
<1>8. Payables(today) \cap party \subseteq S
  BY InvoicesOfToday DEF Payables
<1> HIDE DEF I, F, S, Q, n, may
<1>9. DOMAIN rows = 1..n
  BY <1>1, <1>4
<1>10. \A k \in 1..n : /\ rows[k].record = Q[k] /\ rows[k].balance = RunningBalance(Q)[k]
                       /\ rows[k].canReconcile = may(Q[k])
  <2> TAKE k \in 1..n
  <2> DEFINE can == may(Q[k])
             row == [record |-> Q[k], balance |-> RunningBalance(Q)[k],
                     allocated |-> AllocatedAsOf(Q[k], today), canReconcile |-> can]
  <2>1. rows[k] = row
    BY <1>1, <1>4
  <2> HIDE DEF can
  <2>2. row.record = Q[k] /\ row.balance = RunningBalance(Q)[k] /\ row.canReconcile = can
    OBVIOUS
  <2> HIDE DEF row
  <2> QED BY <2>1, <2>2 DEF can
<1>11. rows # <<>> => Len(rows) = n /\ n \in 1..n
  <2>1. rows = [k \in 1..n |-> rows[k]]
    BY <1>1, <1>4
  <2>2. rows \in Seq({rows[k] : k \in 1..n}) /\ Len(rows) = n
    BY <1>4, <2>1
  <2>3. n = 0 => rows = <<>>
    BY <2>2
  <2> QED BY <1>4, <2>2, <2>3
<1>12. rows # <<>> => rows[Len(rows)].balance = SumFunctionOnSet(Face, I) - SumFunctionOnSet(Face, F)
  BY <1>5, <1>6, <1>10, <1>11
<1>13. {rows[k].record : k \in {k \in DOMAIN rows : rows[k].canReconcile}} = Payables(today) \cap party
  <2>1. \A x : x \in {rows[k].record : k \in {k \in DOMAIN rows : rows[k].canReconcile}}
               <=> \E k \in 1..n : rows[k].canReconcile /\ x = rows[k].record
    BY <1>9
  <2>2. \A k \in 1..n : rows[k].canReconcile <=> Q[k] \in Payables(today) \cap party
    BY <1>4, <1>7, <1>10
  <2>3. \A x : x \in Payables(today) \cap party <=> \E k \in 1..n : rows[k].canReconcile /\ x = rows[k].record
    BY <1>4, <1>8, <1>10, <2>2
  <2> QED BY <2>1, <2>3
<1> QED BY <1>12, <1>13 DEF I, F

(* The oldest bucket begins where the buckets before it end.               *)
LEMMA OldestBucket ==
  ASSUME NEW base \in Nat, NEW day \in Nat
  PROVE  AgingBucket(base, day) = 3 <=> day - base > 3 * AgingStep
<1> DEFINE age == IF day > base THEN day - base ELSE 0
           fits(b) == /\ b < 3 => age <= AgingStep * (b + 1)
                      /\ b > 0 => age > AgingStep * b
<1>1. AgingStep \in Nat /\ age \in Nat /\ (age > 3 * AgingStep <=> day - base > 3 * AgingStep)
  BY WatchAssumption
<1>2. AgingBucket(base, day) = CHOOSE b \in 0..3 : fits(b)
  BY Zenon DEF AgingBucket
<1> HIDE DEF age
<1>3. fits(0) <=> age <= AgingStep
  BY <1>1
<1>4. fits(1) <=> age <= 2 * AgingStep /\ age > AgingStep
  BY <1>1
<1>5. fits(2) <=> age <= 3 * AgingStep /\ age > 2 * AgingStep
  BY <1>1
<1>6. fits(3) <=> age > 3 * AgingStep
  BY <1>1
<1>7. 0..3 = {0, 1, 2, 3}
  OBVIOUS
<1> HIDE DEF fits
<1>8. CASE age > 3 * AgingStep
  <2>1. \A b \in 0..3 : fits(b) <=> b = 3
    BY <1>1, <1>3, <1>4, <1>5, <1>6, <1>7, <1>8
  <2>2. (CHOOSE b \in 0..3 : fits(b)) = 3
    BY <1>7, <2>1
  <2> QED BY <1>1, <1>2, <1>8, <2>2
<1>9. CASE ~(age > 3 * AgingStep)
  <2>1. fits(0) \/ fits(1) \/ fits(2)
    BY <1>1, <1>3, <1>4, <1>5, <1>9
  <2>2. fits(CHOOSE b \in 0..3 : fits(b))
    BY <1>7, <2>1
  <2> QED BY <1>1, <1>2, <1>6, <1>9, <2>2
<1> QED BY <1>8, <1>9

(* An unequal allocation leaves something open.                            *)
LEMMA DifferenceIsOpen ==
  ASSUME ReportInv, NEW r \in Differences(today)
  PROVE  \E x \in RecordsOf(recs[r].allocations) : Open(x) > 0
<1> DEFINE I == InvoicesOf(recs[r].allocations)
           F == FundsOf(recs[r].allocations)
<1>1. I \in SUBSET Records /\ F \in SUBSET Records
  <2>1. recs[r] \in Rows
    BY DEF Differences, ReportInv, Inv, LedgerTypes
  <2> QED BY <2>1 DEF Rows, Allocations, InvoicesOf, FundsOf, Records
<1>2. SumOfOpen(I, today) # SumOfOpen(F, today)
  BY DEF Differences
<1> HIDE DEF I, F
<1>3. SUFFICES ASSUME \A x \in I \cup F : ~(Open(x) > 0) PROVE FALSE
  BY DEF I, F, RecordsOf
<1>4. ASSUME NEW S \in SUBSET Records, \A x \in S : ~(Open(x) > 0)
      PROVE  SumOfOpen(S, today) = 0
  <2>1. \A x \in S : Opens[x] \in Nat /\ Opens[x] = 0
    BY <1>4, OpensOfToday
  <2>2. IsFiniteSet(S) /\ SumOfOpen(S, today) = SumFunctionOnSet(Opens, S)
    BY OpensOfToday
  <2>3. SumFunctionOnSet(Opens, S) = SumFunctionOnSet(Opens, {})
    <3>1. {} \in SUBSET S /\ \A x \in S \ {} : Opens[x] = 0
      BY <2>1
    <3> QED BY <2>1, <2>2, <3>1, SumOfTheRest
  <2> QED BY <2>2, <2>3, SumOfNothing
<1> QED BY <1>1, <1>2, <1>3, <1>4

(* The dashboard, the supplier summaries, the supplier ledgers and the     *)
(* exception list say the same of today (queries.py), after any requests.  *)
THEOREM AgreeingReports == ReportingSpec => []ReportsAgree
<1>1. ReportInv => ReportsAgree
  <2> SUFFICES ASSUME ReportInv PROVE ReportsAgree
    OBVIOUS
  <2>1. ASSUME NEW party \in Parties PROVE SupplierAgrees(party)
    <3> DEFINE I == SupplierInvoices(party, today)
               F == SupplierPayments(party, today)
               rows == SupplierLedger(party, today)
               summary == SupplierSummary(party, today)
    <3>1. /\ summary.invoiceOpen = SumOfOpen(I, today) /\ summary.paymentOpen = SumOfOpen(F, today)
          /\ summary.balance = SumFunctionOnSet(Face, I) - SumFunctionOnSet(Face, F)
      BY DEF SupplierSummary
    <3>2. /\ SumOfOpen(Payables(today) \cap party, today) = SumOfOpen(I, today)
          /\ SumOfOpen(UnmatchedFunds(today) \cap party, today) = SumOfOpen(F, today)
      BY OpenAgrees
    <3>3. /\ rows # <<>> => rows[Len(rows)].balance = SumFunctionOnSet(Face, I) - SumFunctionOnSet(Face, F)
          /\ {rows[k].record : k \in {k \in DOMAIN rows : rows[k].canReconcile}} = Payables(today) \cap party
      BY LedgerAgrees
    <3>4. (\A x \in party : Dated[x] <= today) =>
            (SumFunctionOnSet(Face, I) - SumFunctionOnSet(Face, F))
                - (SumOfOpen(I, today) - SumOfOpen(F, today)) =
              - SumFunction([i \in RedAllocations(today) \cap party |-> AllocatedAsOf(i, today)])
      BY BalanceAgrees
    <3> HIDE DEF I, F, rows, summary
    <3> QED BY <3>1, <3>2, <3>3, <3>4, Zenon DEF SupplierAgrees, rows, summary
  <2>2. Stale(today) \cap Invoices = {i \in Payables(today) : AgingBucket(Due[i], today) = 3}
    <3>1. today \in Nat /\ \A i \in Invoices : Due[i] \in Nat
      BY DatesAssumption DEF ReportInv, DayInv, MomentsFit
    <3>2. \A i \in Invoices : AgingBucket(Due[i], today) = 3 <=> today - Due[i] > 3 * AgingStep
      BY <3>1, OldestBucket
    <3>3. Payables(today) \subseteq Invoices /\ UnmatchedFunds(today) \cap Invoices = {}
      BY RecordsAreDisjoint DEF Payables, UnmatchedFunds
    <3> QED BY <3>2, <3>3 DEF Stale
  <2>3. \A r \in Differences(today) : \E x \in RecordsOf(recs[r].allocations) : Open(x) > 0
    BY DifferenceIsOpen
  <2> QED BY <2>1, <2>2, <2>3 DEF ReportsAgree
<1>2. ReportingSpec => []RecsFit
  BY ReportsOnlyRead, RequestsImplementLedger, OnlyFittingRecs, PTL
<1>3. Inv /\ NoOverAllocation /\ RecsFit /\ DayInv /\ TodayIsCurrent => ReportInv
  BY DEF ReportInv
<1> QED BY <1>1, <1>2, <1>3, ReportsOnlyRead, ReconciliationInvariance, NeverOverAllocated,
           DayInvariance, CurrentDay, PTL
=============================================================================
