--------------------------- MODULE SystemUpdateWeb ---------------------------
(***************************************************************************)
(* The web side of an update: the pages of system-update.js in browser     *)
(* tabs, the Django views of apps/system_update with their reservations,   *)
(* and _OperationRunner of updater/http_server.py with its worker thread.  *)
(*                                                                         *)
(* Every hop fails on its own: a page loses an answer or is reloaded, Web  *)
(* restarts under its requests (the update itself replaces Web), Django    *)
(* gives up on a start that the updater runs later, the updater restarts.  *)
(* What a task does inside is UpdateManager's subject: here it is active   *)
(* until its worker, or the recovery of a restart, brings it to an end; a  *)
(* worker that cannot save its task dies and leaves it active.             *)
(***************************************************************************)
EXTENDS Integers, FiniteSets

CONSTANTS
  Tabs,       \* browser tabs of the owner
  Requests,   \* request threads of Django
  TaskIds,    \* the UUIDs that pages make up
  Releases,   \* the versions that :stable may name
  None,
  StoreFails, \* whether a save of the state file may fail under a worker
  MaxFaults   \* bound on lost answers, given up calls, restarts and reloads

ASSUME ReleasesAssumption == Releases \subseteq Nat
ASSUME NoneAssumption == None \notin Releases \cup TaskIds \cup Requests
ASSUME BoundsAssumption == MaxFaults \in Nat /\ StoreFails \in BOOLEAN

VARIABLES
  installed,  \* the version Web runs
  offer,      \* last_check: the version it found available, or None
  task,       \* state file: the one task, or None
  worker,     \* _OperationRunner: the task id whose thread is alive, or None
  late,       \* starts under way to the updater whose client has given up
  rows,       \* SystemUpdateRequest, by task id
  handler,    \* the Django requests in progress
  page,       \* the page in each tab
  faults,
  started,    \* history: the starts of which the updater created a task
  ended       \* history: <<task id, result>> of every end of a task

updater == <<installed, offer, task, worker>>
history == <<started, ended>>
vars    == <<updater, late, rows, handler, page, faults, history>>

Terminal == {"succeeded", "failed", "manual_intervention"}

Starts   == [id : TaskIds, target : Releases]
Tasks    == [id : TaskIds, target : Releases, stage : Terminal \cup {"active"},
             cleanup : {"not_run", "pending", "complete"}]
Statuses == [offer : Releases \cup {None}, task : Tasks \cup {None}]
Rows     == [target : Releases, result : Terminal \cup {"active"}]

ASSUME NoneIsNoRecord == None \notin Starts \cup Tasks \cup Statuses \cup Rows

NewTask(s) == [id |-> s.id, target |-> s.target, stage |-> "active", cleanup |-> "not_run"]
Status == [offer |-> offer, task |-> task]

Fault == faults < MaxFaults /\ faults' = faults + 1

-----------------------------------------------------------------------------
(* The browser: system-update.js.                                          *)

(* A page that loads asks for the status at once.                          *)
LoadedPage(pending) ==
  [latest |-> None, pending |-> pending, inflight |-> None, due |-> TRUE, dialog |-> None]

Idle == [pc |-> "idle", tab |-> None, start |-> None, answer |-> None]

(* _reject_active_task; canStart says the same of what a page has seen.    *)
MayReplace(t) == t # None => \/ t.stage = "failed"
                             \/ t.stage = "succeeded" /\ t.cleanup = "complete"

CanStart(status) == status # None /\ status.offer # None /\ MayReplace(status.task)
ShowsActive(status) == status # None /\ status.task # None /\ status.task.stage = "active"
ShowsEnd(status) == status.task # None /\ status.task.stage \in Terminal

(* pendingStartForTarget makes up an id that nobody has used.              *)
Used == {id \in TaskIds : \/ rows[id] # None
                          \/ \E b \in Tabs : page[b].pending # None /\ page[b].pending.id = id
                          \/ \E r \in Requests : handler[r].start # None /\ handler[r].start.id = id}

PendingStarts(pending, target) ==
  IF pending # None /\ pending.target = target THEN {pending}
  ELSE {[id |-> id, target |-> target] : id \in TaskIds \ Used}

(* Mutant: a status that shows a running task sets no timer. *)
SettledForGood(p, status) ==
  [p EXCEPT !.latest = status, !.inflight = None, !.due = FALSE,
            !.pending = IF ShowsEnd(status) THEN None ELSE @]

(* settleStatus, with reconcilePendingStart and pollDecision, of a status  *)
(* that render accepts.                                                    *)
Settled(p, status) ==
  [p EXCEPT !.latest = status, !.inflight = None, !.due = ShowsActive(status),
            !.pending = IF ShowsEnd(status) THEN None ELSE @]

(* settleStatus with an answer that render refuses, as the script of one   *)
(* release may refuse what another one answers: the page stops to poll.    *)
Unreadable(p) == [p EXCEPT !.latest = None, !.inflight = None, !.due = FALSE]

(* Mutant: a status that failed is not asked for again. *)
FailedForGood(p, start) == [p EXCEPT !.inflight = None]

(* Mutant: the page goes on waiting for a request that failed. *)
FailedInFlight(p, start) == [p EXCEPT !.due = @ \/ start = None]

(* A failed status or check is repeated, a failed start only reported.     *)
Failed(p, start) == [p EXCEPT !.inflight = None, !.due = @ \/ start = None]

Send(b, pc, start, p) ==
  \E r \in Requests :
    /\ handler[r] = Idle
    /\ handler' = [handler EXCEPT ![r] = [Idle EXCEPT !.pc = pc, !.tab = b, !.start = start]]
    /\ page' = [page EXCEPT ![b] = [p EXCEPT !.inflight = r]]

(* The timer, and the first request of a page.                             *)
RequestStatus(b) ==
  /\ page[b].inflight = None /\ page[b].due
  /\ Send(b, "status", None, [page[b] EXCEPT !.due = FALSE])
  /\ UNCHANGED <<updater, late, rows, faults, history>>

(* The refresh button, out of reach behind the modal dialog.               *)
Refresh(b) ==
  /\ page[b].inflight = None /\ page[b].dialog = None
  /\ Send(b, "status", None, page[b])
  /\ UNCHANGED <<updater, late, rows, faults, history>>

(* The timer fires during another request: nobody sets it again.           *)
TimerDropped(b) ==
  /\ page[b].inflight # None /\ page[b].due
  /\ page' = [page EXCEPT ![b].due = FALSE]
  /\ UNCHANGED <<updater, late, rows, handler, faults, history>>

CheckForUpdates(b) ==
  /\ page[b].inflight = None /\ page[b].dialog = None /\ ~ShowsActive(page[b].latest)
  /\ Send(b, "check", None, page[b])
  /\ UNCHANGED <<updater, late, rows, faults, history>>

OpenConfirmation(b) ==
  /\ page[b].inflight = None /\ CanStart(page[b].latest) /\ page[b].dialog = None
  /\ page' = [page EXCEPT ![b].dialog = page[b].latest.offer]
  /\ UNCHANGED <<updater, late, rows, handler, faults, history>>

CancelDialog(b) ==
  /\ page[b].dialog # None
  /\ page' = [page EXCEPT ![b].dialog = None]
  /\ UNCHANGED <<updater, late, rows, handler, faults, history>>

StartUpdate(b) ==
  /\ page[b].inflight = None /\ page[b].dialog # None /\ CanStart(page[b].latest)
  /\ \E s \in PendingStarts(page[b].pending, page[b].latest.offer) :
       Send(b, "reserve", s, [page[b] EXCEPT !.pending = s, !.dialog = None])
  /\ UNCHANGED <<updater, late, rows, faults, history>>

(* The request fails for the browser; Django may still work on it.         *)
LoseAnswer(b) ==
  /\ page[b].inflight # None /\ Fault
  /\ page' = [page EXCEPT ![b] = Failed(@, handler[@.inflight].start)]
  /\ UNCHANGED <<updater, late, rows, handler, history>>

(* sessionStorage keeps the pending start of the tab.                      *)
Reload(b) ==
  /\ Fault
  /\ page' = [page EXCEPT ![b] = LoadedPage(@.pending)]
  /\ UNCHANGED <<updater, late, rows, handler, history>>

-----------------------------------------------------------------------------
(* The updater: manager.check, _OperationRunner.start and _run.            *)

(* check waits for the operation lock or finds the task active.            *)
UpdaterCheck ==
  /\ MayReplace(task)
  /\ \E v \in Releases : offer' = IF v > installed THEN v ELSE None
  /\ UNCHANGED <<installed, task, worker>>

(* A start accepted: the updater has the task already, or creates it.      *)
RunnerRepeats(s) == task # None /\ task.id = s.id /\ task.target = s.target

RunnerCreates(s) ==
  /\ task # None => task.id # s.id
  /\ worker = None /\ MayReplace(task) /\ offer = s.target
  /\ task' = NewTask(s) /\ worker' = s.id
  /\ started' = started \cup {s}
  /\ UNCHANGED <<installed, offer>>

Accept(s) == \/ RunnerRepeats(s) /\ UNCHANGED <<updater, started>>
             \/ RunnerCreates(s)

(* _execute, with everything UpdateManager tells of it, ends the task ...  *)
End(stage, cleanup) ==
  /\ task' = [task EXCEPT !.stage = stage, !.cleanup = cleanup]
  /\ ended' = ended \cup {<<task.id, stage>>}
  /\ IF stage = "succeeded"
     THEN installed' = task.target /\ offer' = None
     ELSE UNCHANGED <<installed, offer>>

TaskEnds ==
  /\ worker # None /\ task.stage = "active"
  /\ \/ \E c \in {"pending", "complete"} : End("succeeded", c)
     \/ \E stage \in Terminal \ {"succeeded"} : End(stage, "not_run")
  /\ UNCHANGED <<worker, late, rows, handler, page, faults, started>>

(* ... and then the thread: until it does, starts of other tasks conflict. *)
WorkerEnds ==
  /\ worker # None /\ task.stage \in Terminal
  /\ worker' = None
  /\ UNCHANGED <<installed, offer, task, late, rows, handler, page, faults, history>>

(* _run drops any exception of execute with the worker: the task is left   *)
(* active for the recovery of the next restart.                            *)
WorkerDies ==
  /\ StoreFails /\ Fault
  /\ worker # None /\ task.stage = "active"
  /\ worker' = None
  /\ UNCHANGED <<installed, offer, task, late, rows, handler, page, history>>

(* manual_cleanup, run while the updater is stopped, completes a cleanup.   *)
ManualCleanup ==
  /\ task # None /\ task.cleanup = "pending"
  /\ task' = [task EXCEPT !.cleanup = "complete"]
  /\ worker' = None /\ late' = {}
  /\ UNCHANGED <<installed, offer, rows, handler, page, faults, history>>

(* The process dies with its connections, or an operator restarts it for a *)
(* task that its worker left; recover ends the task it finds.              *)
Abandoned == task # None /\ task.stage = "active" /\ worker = None

UpdaterRestart ==
  /\ Fault \/ (Abandoned /\ UNCHANGED faults)
  /\ worker' = None /\ late' = {}
  /\ IF task # None /\ task.stage = "active"
     THEN \/ \E c \in {"pending", "complete"} : End("succeeded", c)
          \/ \E stage \in Terminal \ {"succeeded"} : End(stage, "not_run")
     ELSE UNCHANGED <<installed, offer, task, ended>>
  /\ UNCHANGED <<rows, handler, page, started>>

(* A start arrives although its client has gone, is refused, or gets lost. *)
LateStart(s) ==
  /\ s \in late /\ late' = late \ {s}
  /\ Accept(s) \/ UNCHANGED <<updater, started>>
  /\ UNCHANGED <<rows, handler, page, faults, ended>>

-----------------------------------------------------------------------------
(* Django: views.py and client.py.                                         *)

Goto(r, pc, answer) == handler' = [handler EXCEPT ![r].pc = pc, ![r].answer = answer]

(* The response reaches the page if it still waits for it.                 *)
Respond(r, P(_)) ==
  LET b == handler[r].tab IN
  /\ handler' = [handler EXCEPT ![r] = Idle]
  /\ page' = IF page[b].inflight = r THEN [page EXCEPT ![b] = P(@)] ELSE page

RespondError(r) == Respond(r, LAMBDA p : Failed(p, handler[r].start))

(* status: ask the updater ...                                             *)
AskStatus(r) ==
  /\ handler[r].pc = "status"
  /\ \/ Goto(r, "audit", Status) /\ UNCHANGED <<page, faults>>
     \/ Fault /\ RespondError(r)
  /\ UNCHANGED <<updater, late, rows, history>>

(* Mutant: the row of whatever task is reserved takes the result. *)
AuditedAnyRow(t) ==
  IF t # None /\ t.stage \in Terminal
  THEN [id \in TaskIds |-> IF rows[id] # None /\ rows[id].result = "active"
                           THEN [rows[id] EXCEPT !.result = t.stage] ELSE rows[id]]
  ELSE rows

(* Mutant: a result that is recorded already is written again. *)
AuditedAgain(t) ==
  IF t # None /\ t.stage \in Terminal /\ rows[t.id] # None
  THEN [rows EXCEPT ![t.id].result = t.stage] ELSE rows

(* Mutant: only a success is recorded. *)
AuditedSuccess(t) ==
  IF t # None /\ t.stage = "succeeded" /\ rows[t.id] # None /\ rows[t.id].result = "active"
  THEN [rows EXCEPT ![t.id].result = t.stage] ELSE rows

(* _record_terminal_audit *)
Audited(t) ==
  IF t # None /\ t.stage \in Terminal /\ rows[t.id] # None /\ rows[t.id].result = "active"
  THEN [rows EXCEPT ![t.id].result = t.stage] ELSE rows

(* ... record the end it shows, and only then answer.                      *)
AnswerStatus(r) ==
  /\ handler[r].pc = "audit"
  /\ rows' = Audited(handler[r].answer.task)
  /\ Respond(r, LAMBDA p : Settled(p, handler[r].answer))
  /\ UNCHANGED <<updater, late, faults, history>>

(* The same answer, of either view, to a page that cannot read it.         *)
AnswerUnread(r) ==
  /\ handler[r].pc \in {"audit", "checked"} /\ Fault
  /\ rows' = IF handler[r].pc = "audit" THEN Audited(handler[r].answer.task) ELSE rows
  /\ Respond(r, Unreadable)
  /\ UNCHANGED <<updater, late, history>>

AskCheck(r) ==
  /\ handler[r].pc = "check"
  /\ \/ /\ UpdaterCheck
        /\ Goto(r, "checked", [offer |-> offer', task |-> task])
        /\ UNCHANGED page
     \/ RespondError(r) /\ UNCHANGED updater
  /\ UNCHANGED <<late, rows, faults, history>>

AnswerCheck(r) ==
  /\ handler[r].pc = "checked"
  /\ Respond(r, LAMBDA p : Settled(p, handler[r].answer))
  /\ UNCHANGED <<updater, late, rows, faults, history>>

(* Mutant: the updater is called before the reservation is committed. *)
CallsUnreserved(r) ==
  /\ handler[r].pc = "reserve"
  /\ Goto(r, "call", None)
  /\ UNCHANGED <<updater, late, rows, page, faults, history>>

(* start: _reserve_update_request commits before the updater is called.    *)
Reserve(r) ==
  LET s == handler[r].start IN
  /\ handler[r].pc = "reserve"
  /\ IF rows[s.id] = None \/ rows[s.id] = [target |-> s.target, result |-> "active"]
     THEN /\ rows' = [rows EXCEPT ![s.id] = [target |-> s.target, result |-> "active"]]
          /\ Goto(r, "call", None) /\ UNCHANGED page
     ELSE RespondError(r) /\ UNCHANGED rows
  /\ UNCHANGED <<updater, late, faults, history>>

(* _request: no answer before the deadline, or none the client accepts.    *)
(* It never repeats a call; the updater may still carry this one out.      *)
Unanswered(s) == Fault /\ late' = late \cup {s}

(* updater.start: the answer, an error, or a client that gives up.  An     *)
(* error may have any reason UpdateManager knows: an old check, a moved    *)
(* :stable, a state that cannot be saved.                                  *)
CallStart(r) ==
  LET s == handler[r].start IN
  /\ handler[r].pc = "call"
  /\ \/ Accept(s) /\ Goto(r, "accepted", task') /\ UNCHANGED <<late, faults>>
     \/ Goto(r, "reconcile", None) /\ UNCHANGED <<updater, late, started, faults>>
     \/ /\ Unanswered(s)
        /\ Goto(r, "reconcile", None) /\ UNCHANGED <<updater, started>>
  /\ UNCHANGED <<rows, page, ended>>

(* Mutant: whatever task the updater has is taken for the one started. *)
AnyTask(s) == task # None /\ task.target = s.target

MatchingTask(s) == task # None /\ task.id = s.id /\ task.target = s.target

ReconcileStart(r) ==
  /\ handler[r].pc = "reconcile"
  /\ \/ /\ MatchingTask(handler[r].start)
        /\ Goto(r, "accepted", task) /\ UNCHANGED <<page, faults>>
     \/ /\ ~MatchingTask(handler[r].start)
        /\ RespondError(r) /\ UNCHANGED faults
     \/ Fault /\ RespondError(r)
  /\ UNCHANGED <<updater, late, rows, history>>

(* 202: the page tests id and version, and shows the task in its status.   *)
AnswerStart(r) ==
  LET t == handler[r].answer IN
  /\ handler[r].pc = "accepted"
  /\ Respond(r, LAMBDA p :
       IF t.id = p.pending.id /\ t.target = handler[r].start.target
       THEN Settled(p, [p.latest EXCEPT !.task = t]) ELSE Failed(p, handler[r].start))
  /\ UNCHANGED <<updater, late, rows, faults, history>>

(* Web is recreated, by the update or by hand: its requests die with it.   *)
WebRestart ==
  /\ Fault /\ \E r \in Requests : handler[r] # Idle
  /\ page' = [b \in Tabs |-> IF page[b].inflight = None THEN page[b]
                             ELSE Failed(page[b], handler[page[b].inflight].start)]
  /\ handler' = [r \in Requests |-> Idle]
  /\ UNCHANGED <<updater, late, rows, history>>

-----------------------------------------------------------------------------
Init ==
  /\ installed = 0 /\ offer = None /\ task = None /\ worker = None /\ late = {}
  /\ rows = [id \in TaskIds |-> None]
  /\ handler = [r \in Requests |-> Idle]
  /\ page = [b \in Tabs |-> LoadedPage(None)]
  /\ faults = 0 /\ started = {} /\ ended = {}

Browser(b) == \/ RequestStatus(b) \/ TimerDropped(b) \/ Refresh(b) \/ CheckForUpdates(b)
              \/ OpenConfirmation(b) \/ CancelDialog(b) \/ StartUpdate(b)
              \/ LoseAnswer(b) \/ Reload(b)

Django(r) == \/ AskStatus(r) \/ AnswerStatus(r) \/ AskCheck(r) \/ AnswerCheck(r) \/ AnswerUnread(r)
             \/ Reserve(r) \/ CallStart(r) \/ ReconcileStart(r) \/ AnswerStart(r)

Updater == \/ TaskEnds \/ WorkerEnds \/ WorkerDies \/ ManualCleanup \/ UpdaterRestart
           \/ \E s \in Starts : LateStart(s)

Next == \/ \E b \in Tabs : Browser(b)
        \/ \E r \in Requests : Django(r)
        \/ Updater \/ WebRestart

(* Timers fire, Django and the worker go on; nobody is made to click, and  *)
(* no fault has to happen.                                                 *)
Fairness == /\ \A b \in Tabs : WF_vars(RequestStatus(b))
            /\ \A r \in Requests : WF_vars(Django(r))
            /\ WF_vars(TaskEnds \/ WorkerEnds)

Spec == Init /\ [][Next]_vars /\ Fairness
=============================================================================
