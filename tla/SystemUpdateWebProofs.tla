------------------------ MODULE SystemUpdateWebProofs ------------------------
(***************************************************************************)
(* Whatever answers are lost, late or repeated, whichever side restarts:   *)
(* an accepted start is the one that was asked for, every start has its    *)
(* committed row, the audit tells the truth, and a page that shows a       *)
(* running task goes on asking.  For any number of tabs, requests, task    *)
(* ids, versions and faults.                                               *)
(***************************************************************************)
EXTENDS SystemUpdateWebProperties, TLAPS

Asking == {"status", "audit", "check", "checked"}
Starting == {"reserve", "call", "reconcile", "accepted"}

Handlers == [pc : {"idle"} \cup Asking \cup Starting, tab : Tabs \cup {None},
             start : Starts \cup {None}, answer : Statuses \cup Tasks \cup {None}]

Pages == [latest : Statuses \cup {None}, pending : Starts \cup {None},
          inflight : Requests \cup {None}, due : BOOLEAN, dialog : Releases \cup {None}]

(* The variables of the updater and of the database.                       *)
ServerTypes ==
  /\ installed \in Releases \cup {0} /\ offer \in Releases \cup {None}
  /\ task \in Tasks \cup {None} /\ worker \in TaskIds \cup {None}
  /\ late \subseteq Starts /\ started \subseteq Starts
  /\ ended \subseteq TaskIds \X Terminal
  /\ rows \in [TaskIds -> Rows \cup {None}]

(* Those of the requests and of the pages.                                 *)
ClientTypes ==
  /\ handler \in [Requests -> Handlers]
  /\ page \in [Tabs -> Pages]
  /\ faults \in 0..MaxFaults

(* Every task was started, and the end it shows is on record.              *)
IsKnown(t) == /\ [id |-> t.id, target |-> t.target] \in started
              /\ t.stage \in Terminal => <<t.id, t.stage>> \in ended
TaskIsKnown == /\ task # None => IsKnown(task)
               /\ worker # None => task # None

IsReserved(s) == rows[s.id] # None /\ rows[s.id].target = s.target

(* What a request of Django knows: every status it has seen was true, and  *)
(* a start it is to pass on is reserved.                                   *)
HandlerFits(r) ==
  LET h == handler[r] IN
  /\ h.pc \in Asking => h.start = None /\ h.tab \in Tabs
  /\ h.pc \in Starting => h.start \in Starts /\ h.tab \in Tabs
  /\ h.pc \in {"audit", "checked"} =>
       h.answer \in Statuses /\ (h.answer.task # None => IsKnown(h.answer.task))
  /\ h.pc \in Starting \ {"reserve"} => IsReserved(h.start)
  /\ h.pc = "accepted" =>
       /\ h.answer \in Tasks /\ IsKnown(h.answer) /\ h.start \in started
       /\ h.answer.id = h.start.id /\ h.answer.target = h.start.target

(* A page waits for a request of its own; one that starts a task has seen  *)
(* that no task is active.                                                 *)
PageFits(b) ==
  LET p == page[b] IN
  /\ p.inflight # None =>
       /\ handler[p.inflight].pc # "idle" /\ handler[p.inflight].tab = b
       /\ handler[p.inflight].start # None => p.latest # None /\ ~ShowsActive(p.latest)
  /\ ShowsActive(p.latest) => p.due \/ p.inflight # None

ServerInv == ServerTypes /\ TaskIsKnown /\ StartedTasksAreReserved /\ AuditIsTruthful

Inv == /\ ServerInv /\ ClientTypes
       /\ \A r \in Requests : HandlerFits(r)
       /\ \A b \in Tabs : PageFits(b)

-----------------------------------------------------------------------------
(* The pages.                                                              *)

(* settleStatus shows a status and sets the timer for a running task.      *)
LEMMA SettledPage ==
  ASSUME NEW p \in Pages, NEW status \in Statuses
  PROVE  /\ Settled(p, status) \in Pages /\ Settled(p, status).inflight = None
         /\ Settled(p, status).latest = status
         /\ ShowsActive(status) => Settled(p, status).due
BY DEF Settled, Pages, ShowsActive

(* An answer that render refuses leaves a page without a status.           *)
LEMMA UnreadPage ==
  ASSUME NEW p \in Pages
  PROVE  /\ Unreadable(p) \in Pages /\ Unreadable(p).inflight = None
         /\ ~ShowsActive(Unreadable(p).latest)
BY DEF Unreadable, Pages, ShowsActive

(* A request that fails is asked again, unless it was a start.             *)
LEMMA FailedPage ==
  ASSUME NEW p \in Pages, NEW start
  PROVE  /\ Failed(p, start) \in Pages /\ Failed(p, start).inflight = None
         /\ Failed(p, start).latest = p.latest
         /\ p.due \/ start = None => Failed(p, start).due
BY DEF Failed, Pages

(* Goto moves one request, and nothing else of it than where it is.        *)
LEMMA GotoMoves ==
  ASSUME ClientTypes, NEW r \in Requests, NEW pc \in Asking \cup Starting,
         NEW answer \in Statuses \cup Tasks \cup {None}, Goto(r, pc, answer)
  PROVE  /\ handler' \in [Requests -> Handlers]
         /\ handler'[r].pc = pc /\ handler'[r].answer = answer
         /\ handler'[r].start = handler[r].start /\ handler'[r].tab = handler[r].tab
         /\ \A q \in Requests \ {r} : handler'[q] = handler[q]
BY DEF ClientTypes, Goto, Handlers

-----------------------------------------------------------------------------
(* What is started, reserved and ended stays so.                           *)
Grows == /\ started \subseteq started' /\ ended \subseteq ended'
         /\ \A id \in TaskIds : rows[id] # None => rows'[id] # None /\ rows'[id].target = rows[id].target

(* So a request goes on knowing what it knows.                             *)
LEMMA HandlerKnows ==
  ASSUME NEW r \in Requests, HandlerFits(r), handler'[r] = handler[r], Grows
  PROVE  HandlerFits(r)'
<1>1. \A s \in Starts : IsReserved(s) => IsReserved(s)'
  BY DEF IsReserved, Grows, Starts
<1>2. \A t : IsKnown(t) => IsKnown(t)'
  BY DEF IsKnown, Grows
<1> QED BY <1>1, <1>2 DEF HandlerFits, Grows, Starting

(* A page is right about its request as long as both are left alone.       *)
LEMMA PageKnows ==
  ASSUME NEW b \in Tabs, PageFits(b), page'[b] = page[b],
         page[b].inflight # None =>
           LET r == page[b].inflight IN
           /\ handler'[r].pc # "idle" /\ handler'[r].tab = handler[r].tab
           /\ handler'[r].start = handler[r].start
  PROVE  PageFits(b)'
BY DEF PageFits, ShowsActive

(* Nothing is lost when nothing changes.                                   *)
LEMMA ServerSame ==
  ASSUME ServerInv, UNCHANGED <<updater, late, rows, history>>
  PROVE  ServerInv' /\ Grows
<1>1. /\ installed' = installed /\ offer' = offer /\ task' = task /\ worker' = worker
      /\ late' = late /\ rows' = rows /\ started' = started /\ ended' = ended
  BY DEF updater, history
<1>2. ServerTypes'
  BY <1>1 DEF ServerInv, ServerTypes
<1>3. TaskIsKnown'
  BY <1>1 DEF ServerInv, TaskIsKnown, IsKnown
<1>4. StartedTasksAreReserved' /\ AuditIsTruthful'
  BY <1>1 DEF ServerInv, StartedTasksAreReserved, AuditIsTruthful
<1> QED BY <1>1, <1>2, <1>3, <1>4 DEF ServerInv, Grows

-----------------------------------------------------------------------------
(* The kinds of steps.                                                     *)

(* A page sends a request.                                                 *)
LEMMA SendKeepsInv ==
  ASSUME Inv, NEW b \in Tabs, NEW pc \in {"status", "check", "reserve"}, NEW start, NEW p \in Pages,
         Send(b, pc, start, p), UNCHANGED <<updater, late, rows, faults, history>>,
         pc = "reserve" => start \in Starts /\ p.latest # None /\ ~ShowsActive(p.latest),
         pc # "reserve" => start = None
  PROVE  Inv'
<1>1. ServerInv' /\ Grows
  BY ServerSame DEF Inv
<1>2. PICK r \in Requests :
        /\ handler[r] = Idle
        /\ handler' = [handler EXCEPT ![r] = [Idle EXCEPT !.pc = pc, !.tab = b, !.start = start]]
        /\ page' = [page EXCEPT ![b] = [p EXCEPT !.inflight = r]]
  BY DEF Send
<1> DEFINE h == [Idle EXCEPT !.pc = pc, !.tab = b, !.start = start]
<1>3. h \in Handlers /\ h.pc = pc /\ h.tab = b /\ h.start = start
  <2>1. Idle \in Handlers
    BY DEF Idle, Handlers
  <2> QED BY <2>1 DEF Handlers, Asking, Starting
<1> HIDE DEF h
<1>4. /\ handler'[r] = h
      /\ \A q \in Requests \ {r} : handler'[q] = handler[q]
      /\ handler' \in [Requests -> Handlers]
  <2>1. handler' = [handler EXCEPT ![r] = h]
    BY <1>2 DEF h
  <2> QED BY <1>3, <2>1 DEF Inv, ClientTypes
<1>5. /\ page'[b] = [p EXCEPT !.inflight = r] /\ page' \in [Tabs -> Pages]
      /\ \A c \in Tabs \ {b} : page'[c] = page[c]
  BY <1>2 DEF Inv, ClientTypes, Pages
<1>6. \A q \in Requests : HandlerFits(q)'
  <2>1. HandlerFits(r)'
    BY <1>3, <1>4 DEF HandlerFits, Asking, Starting
  <2> QED BY <2>1, <1>1, <1>4, HandlerKnows DEF Inv
<1>7. \A c \in Tabs : PageFits(c)'
  <2>1. PageFits(b)'
    <3>1. page'[b].latest = p.latest /\ page'[b].inflight = r
      BY <1>5 DEF Pages
    <3>2. r # None /\ handler'[r].pc # "idle" /\ handler'[r].tab = b /\ handler'[r].start = start
      BY <1>3, <1>4, NoneAssumption
    <3> QED BY <3>1, <3>2, NoneAssumption DEF PageFits, ShowsActive
  <2>2. \A c \in Tabs \ {b} : page[c].inflight # None => page[c].inflight # r /\ page[c].inflight \in Requests
    BY <1>2 DEF Inv, ClientTypes, PageFits, Pages, Idle
  <2>3. \A c \in Tabs \ {b} : PageFits(c)'
    <3> TAKE c \in Tabs \ {b}
    <3>1. PageFits(c) /\ page'[c] = page[c]
      BY <1>5 DEF Inv
    <3>2. page[c].inflight # None => handler'[page[c].inflight] = handler[page[c].inflight]
      BY <2>2, <1>4
    <3> QED BY <3>1, <3>2, PageKnows DEF PageFits
  <2> QED BY <2>1, <2>3
<1> QED BY <1>1, <1>4, <1>5, <1>6, <1>7 DEF Inv, ClientTypes

(* A page changes on its own.                                              *)
LEMMA PageKeepsInv ==
  ASSUME Inv, NEW b \in Tabs, NEW p \in Pages, page' = [page EXCEPT ![b] = p],
         p.inflight # None => p.inflight = page[b].inflight /\ p.latest = page[b].latest,
         ShowsActive(p.latest) => p.due \/ p.inflight # None,
         UNCHANGED handler, UNCHANGED <<updater, late, rows, history>>, faults' \in 0..MaxFaults
  PROVE  Inv'
<1>1. ServerInv' /\ Grows
  BY ServerSame DEF Inv
<1>2. page'[b] = p /\ page' \in [Tabs -> Pages] /\ \A c \in Tabs \ {b} : page'[c] = page[c]
  BY DEF Inv, ClientTypes
<1>3. PageFits(b)'
  BY <1>2 DEF Inv, PageFits, ShowsActive
<1>4. \A c \in Tabs \ {b} : PageFits(c)'
  BY <1>2, PageKnows DEF Inv, PageFits
<1>5. \A q \in Requests : HandlerFits(q)'
  BY <1>1, HandlerKnows DEF Inv
<1> QED BY <1>1, <1>2, <1>3, <1>4, <1>5 DEF Inv, ClientTypes

(* Django goes on with a request.                                          *)
LEMMA GotoKeepsInv ==
  ASSUME Inv, NEW r \in Requests, NEW pc \in Asking \cup Starting, handler[r].pc # "idle",
         NEW answer \in Statuses \cup Tasks \cup {None}, Goto(r, pc, answer),
         HandlerFits(r)', UNCHANGED page, ServerInv', Grows, faults' \in 0..MaxFaults
  PROVE  Inv'
<1>1. /\ handler' \in [Requests -> Handlers]
      /\ handler'[r].pc = pc
      /\ handler'[r].start = handler[r].start /\ handler'[r].tab = handler[r].tab
      /\ \A q \in Requests \ {r} : handler'[q] = handler[q]
  BY GotoMoves DEF Inv
<1>2. \A q \in Requests : HandlerFits(q)'
  BY <1>1, HandlerKnows DEF Inv
<1>3. \A b \in Tabs : PageFits(b)'
  <2> TAKE b \in Tabs
  <2>1. page[b].inflight # None => page[b].inflight \in Requests /\ handler[page[b].inflight].pc # "idle"
    BY DEF Inv, ClientTypes, Pages, PageFits
  <2>2. pc # "idle"
    BY DEF Asking, Starting
  <2> QED BY <1>1, <2>1, <2>2, PageKnows DEF Inv
<1> QED BY <1>1, <1>2, <1>3 DEF Inv, ClientTypes

(* The answer of a request reaches its page, if that still waits for it.   *)
LEMMA RespondKeepsInv ==
  ASSUME Inv, NEW r \in Requests, NEW p,
         handler' = [handler EXCEPT ![r] = Idle],
         page' = IF page[handler[r].tab].inflight = r THEN [page EXCEPT ![handler[r].tab] = p] ELSE page,
         page[handler[r].tab].inflight = r =>
           p \in Pages /\ p.inflight = None /\ (ShowsActive(p.latest) => p.due),
         ServerInv', Grows, faults' \in 0..MaxFaults
  PROVE  Inv'
<1>1. /\ handler'[r] = Idle /\ handler' \in [Requests -> Handlers]
      /\ \A q \in Requests \ {r} : handler'[q] = handler[q]
  BY DEF Inv, ClientTypes, Handlers, Idle
<1>2. \A q \in Requests : HandlerFits(q)'
  <2>1. HandlerFits(r)'
    BY <1>1 DEF HandlerFits, Idle, Asking, Starting
  <2> QED BY <2>1, <1>1, HandlerKnows DEF Inv
<1>3. page' \in [Tabs -> Pages]
  BY DEF Inv, ClientTypes
<1>4. \A b \in Tabs : PageFits(b)'
  <2> TAKE b \in Tabs
  <2>1. CASE page[b].inflight = r
    <3>1. handler[r].tab = b
      BY <2>1, NoneAssumption DEF Inv, PageFits
    <3>2. page'[b] = p
      BY <2>1, <3>1 DEF Inv, ClientTypes
    <3> QED BY <2>1, <3>1, <3>2 DEF PageFits, ShowsActive
  <2>2. CASE page[b].inflight # r
    <3>1. page'[b] = page[b]
      BY <2>2 DEF Inv, ClientTypes
    <3>2. page[b].inflight # None => page[b].inflight \in Requests /\ handler[page[b].inflight].pc # "idle"
      BY DEF Inv, ClientTypes, Pages, PageFits
    <3> QED BY <1>1, <2>2, <3>1, <3>2, PageKnows DEF Inv
  <2> QED BY <2>1, <2>2
<1> QED BY <1>1, <1>2, <1>3, <1>4 DEF Inv, ClientTypes

(* An error is answered.                                                   *)
LEMMA RespondErrorKeepsInv ==
  ASSUME Inv, NEW r \in Requests, handler[r].pc # "idle", RespondError(r),
         ServerInv', Grows, faults' \in 0..MaxFaults
  PROVE  Inv'
<1> DEFINE b == handler[r].tab
           p == Failed(page[b], handler[r].start)
<1>1. /\ handler' = [handler EXCEPT ![r] = Idle]
      /\ page' = IF page[b].inflight = r THEN [page EXCEPT ![b] = p] ELSE page
  BY DEF RespondError, Respond, Inv, ClientTypes
<1>2. b \in Tabs
  BY DEF Inv, HandlerFits, ClientTypes, Handlers, Asking, Starting
<1>3. page[b].inflight = r => p \in Pages /\ p.inflight = None /\ (ShowsActive(p.latest) => p.due)
  <2>1. page[b] \in Pages
    BY <1>2 DEF Inv, ClientTypes
  <2>2. page[b].inflight = r => handler[r].start = None \/ ~ShowsActive(page[b].latest)
    BY <1>2, NoneAssumption DEF Inv, PageFits
  <2> QED BY <2>1, <2>2, FailedPage
<1> QED BY <1>1, <1>3, RespondKeepsInv

(* A status is answered.                                                   *)
LEMMA RespondStatusKeepsInv ==
  ASSUME Inv, NEW r \in Requests, handler[r].pc # "idle", NEW status \in Statuses,
         handler' = [handler EXCEPT ![r] = Idle],
         page' = IF page[handler[r].tab].inflight = r
                 THEN [page EXCEPT ![handler[r].tab] = Settled(@, status)] ELSE page,
         ServerInv', Grows, faults' \in 0..MaxFaults
  PROVE  Inv'
<1> DEFINE b == handler[r].tab
           p == Settled(page[b], status)
<1>1. b \in Tabs /\ page[b] \in Pages
  BY DEF Inv, HandlerFits, ClientTypes, Handlers, Asking, Starting
<1>2. page' = IF page[b].inflight = r THEN [page EXCEPT ![b] = p] ELSE page
  BY <1>1 DEF Inv, ClientTypes
<1>3. p \in Pages /\ p.inflight = None /\ (ShowsActive(p.latest) => p.due)
  BY <1>1, SettledPage
<1> HIDE DEF p
<1> QED BY <1>2, <1>3, RespondKeepsInv

(* The updater goes on without Django.                                     *)
LEMMA UpdaterKeepsInv ==
  ASSUME Inv, UNCHANGED <<handler, page>>, ServerInv', Grows, faults' \in 0..MaxFaults
  PROVE  Inv'
<1>1. \A r \in Requests : HandlerFits(r)'
  BY HandlerKnows DEF Inv
<1>2. \A b \in Tabs : PageFits(b)'
  BY DEF Inv, PageFits, ShowsActive
<1> QED BY <1>1, <1>2 DEF Inv, ClientTypes

-----------------------------------------------------------------------------
(* The updater.                                                            *)

(* A start the updater accepts is reserved, and is then its task.          *)
LEMMA AcceptIsKnown ==
  ASSUME ServerInv, NEW s \in Starts, IsReserved(s), Accept(s), UNCHANGED <<rows, ended>>,
         late' \subseteq late
  PROVE  /\ ServerInv' /\ Grows
         /\ task' \in Tasks /\ IsKnown(task)' /\ s \in started'
         /\ task'.id = s.id /\ task'.target = s.target
<1>0. s.id \in TaskIds /\ s.target \in Releases /\ s = [id |-> s.id, target |-> s.target]
  BY DEF Starts
<1>1. CASE RunnerRepeats(s) /\ UNCHANGED <<updater, started>>
  <2>1. /\ installed' = installed /\ offer' = offer /\ task' = task /\ worker' = worker
        /\ started' = started /\ rows' = rows /\ ended' = ended
    BY <1>1 DEF updater
  <2>2. ServerTypes' /\ TaskIsKnown'
    BY <2>1 DEF ServerInv, ServerTypes, TaskIsKnown, IsKnown
  <2>3. StartedTasksAreReserved' /\ AuditIsTruthful' /\ Grows
    BY <2>1 DEF ServerInv, StartedTasksAreReserved, AuditIsTruthful, Grows
  <2>4. task \in Tasks /\ IsKnown(task) /\ task.id = s.id /\ task.target = s.target
    BY <1>1 DEF RunnerRepeats, ServerInv, ServerTypes, TaskIsKnown
  <2> QED BY <1>0, <2>1, <2>2, <2>3, <2>4 DEF ServerInv, IsKnown
<1>2. CASE RunnerCreates(s)
  <2>1. /\ task' = NewTask(s) /\ worker' = s.id /\ started' = started \cup {s}
        /\ installed' = installed /\ offer' = offer /\ rows' = rows /\ ended' = ended
    BY <1>2 DEF RunnerCreates
  <2>2. /\ task' \in Tasks /\ task'.id = s.id /\ task'.target = s.target
        /\ task'.stage = "active" /\ "active" \notin Terminal
    BY <1>0, <2>1 DEF NewTask, Tasks, Terminal
  <2>3. task' # None
    BY <2>2, NoneIsNoRecord
  <2>4. ServerTypes'
    BY <1>0, <2>1, <2>2 DEF ServerInv, ServerTypes
  <2>5. TaskIsKnown' /\ IsKnown(task)'
    <3>1. [id |-> task'.id, target |-> task'.target] \in started' /\ task'.stage \notin Terminal
      BY <1>0, <2>1, <2>2
    <3> QED BY <3>1, <2>3 DEF TaskIsKnown, IsKnown
  <2>6. StartedTasksAreReserved' /\ AuditIsTruthful' /\ Grows
    BY <2>1 DEF ServerInv, StartedTasksAreReserved, AuditIsTruthful, Grows, IsReserved
  <2> QED BY <2>1, <2>2, <2>4, <2>5, <2>6 DEF ServerInv
<1> QED BY <1>1, <1>2 DEF Accept

(* The end of a task is noted with it.                                     *)
LEMMA EndIsKnown ==
  ASSUME ServerInv, task # None, NEW stage \in Terminal, NEW cleanup \in {"not_run", "pending", "complete"},
         End(stage, cleanup), UNCHANGED <<rows, started>>, late' \subseteq late,
         worker' \in {worker, None}
  PROVE  ServerInv' /\ Grows
<1>1. /\ task \in Tasks /\ task' = [task EXCEPT !.stage = stage, !.cleanup = cleanup]
      /\ ended' = ended \cup {<<task.id, stage>>}
      /\ installed' \in {installed, task.target} /\ offer' \in {offer, None}
  BY DEF End, ServerInv, ServerTypes
<1>2. task' \in Tasks /\ task'.id = task.id /\ task'.target = task.target /\ task'.stage = stage
  BY <1>1 DEF Tasks
<1>3. task.id \in TaskIds /\ task.target \in Releases
  BY <1>1 DEF Tasks
<1>4. ServerTypes'
  BY <1>1, <1>2, <1>3 DEF ServerInv, ServerTypes
<1>5. TaskIsKnown'
  BY <1>1, <1>2, NoneIsNoRecord DEF ServerInv, TaskIsKnown, IsKnown
<1>6. StartedTasksAreReserved' /\ AuditIsTruthful' /\ Grows
  BY <1>1 DEF ServerInv, StartedTasksAreReserved, AuditIsTruthful, Grows
<1> QED BY <1>4, <1>5, <1>6 DEF ServerInv

(* What the updater does on its own is known of its task.                  *)
LEMMA UpdaterStep ==
  ASSUME Inv, Updater
  PROVE  Inv'
<1>0. faults \in 0..MaxFaults /\ MaxFaults \in Nat
  BY BoundsAssumption DEF Inv, ClientTypes
<1>1. CASE TaskEnds
  <2>1. task # None
    BY <1>1 DEF TaskEnds, Inv, ServerInv, TaskIsKnown
  <2>2. PICK stage \in Terminal, cleanup \in {"not_run", "pending", "complete"} : End(stage, cleanup)
    BY <1>1 DEF TaskEnds, Terminal
  <2>3. ServerInv' /\ Grows
    BY <1>1, <2>1, <2>2, EndIsKnown DEF TaskEnds, Inv
  <2> QED BY <1>0, <1>1, <2>3, UpdaterKeepsInv DEF TaskEnds
<1>2. CASE WorkerEnds
  <2>1. ServerInv' /\ Grows
    BY <1>2 DEF WorkerEnds, history, Inv, ServerInv, ServerTypes, TaskIsKnown, IsKnown,
         StartedTasksAreReserved, AuditIsTruthful, Grows
  <2> QED BY <1>0, <1>2, <2>1, UpdaterKeepsInv DEF WorkerEnds
<1>6. CASE WorkerDies
  <2>1. ServerInv' /\ Grows
    BY <1>6 DEF WorkerDies, history, Inv, ServerInv, ServerTypes, TaskIsKnown, IsKnown,
         StartedTasksAreReserved, AuditIsTruthful, Grows
  <2> QED BY <1>0, <1>6, <2>1, UpdaterKeepsInv DEF WorkerDies, Fault
<1>3. CASE ManualCleanup
  <2>1. /\ task # None /\ task' = [task EXCEPT !.cleanup = "complete"] /\ worker' = None /\ late' = {}
        /\ installed' = installed /\ offer' = offer /\ rows' = rows
        /\ started' = started /\ ended' = ended
    BY <1>3 DEF ManualCleanup, history
  <2>2. /\ task' \in Tasks /\ task'.id = task.id /\ task'.target = task.target /\ task'.stage = task.stage
    BY <2>1 DEF Inv, ServerInv, ServerTypes, Tasks
  <2>3. ServerTypes' /\ TaskIsKnown'
    BY <2>1, <2>2 DEF Inv, ServerInv, ServerTypes, TaskIsKnown, IsKnown
  <2>4. StartedTasksAreReserved' /\ AuditIsTruthful' /\ Grows
    BY <2>1 DEF Inv, ServerInv, StartedTasksAreReserved, AuditIsTruthful, Grows
  <2> QED BY <1>0, <1>3, <2>3, <2>4, UpdaterKeepsInv DEF ManualCleanup, ServerInv
<1>4. CASE UpdaterRestart
  <2>1. ASSUME task # None, NEW stage \in Terminal, NEW cleanup \in {"not_run", "pending", "complete"},
               End(stage, cleanup)
        PROVE  ServerInv' /\ Grows
    BY <1>4, <2>1, EndIsKnown DEF UpdaterRestart, Inv
  <2>2. ASSUME UNCHANGED <<installed, offer, task, ended>>
        PROVE  ServerInv' /\ Grows
    BY <1>4, <2>2 DEF UpdaterRestart, Inv, ServerInv, ServerTypes, TaskIsKnown, IsKnown,
         StartedTasksAreReserved, AuditIsTruthful, Grows
  <2>3. ServerInv' /\ Grows
    BY <1>4, <2>1, <2>2 DEF UpdaterRestart, Terminal
  <2> QED BY <1>0, <1>4, <2>3, UpdaterKeepsInv DEF UpdaterRestart, Fault
<1>5. ASSUME NEW s \in Starts, LateStart(s) PROVE Inv'
  <2>1. ServerInv' /\ Grows
    <3>1. IsReserved(s) /\ late' \subseteq late /\ UNCHANGED <<rows, ended>>
      BY <1>5 DEF LateStart, Inv, ServerInv, StartedTasksAreReserved, IsReserved
    <3>2. CASE Accept(s)
      BY <3>1, <3>2, AcceptIsKnown DEF Inv
    <3>3. CASE UNCHANGED <<updater, started>>
      BY <3>1, <3>3 DEF updater, Inv, ServerInv, ServerTypes, TaskIsKnown, IsKnown,
           StartedTasksAreReserved, AuditIsTruthful, Grows
    <3> QED BY <1>5, <3>2, <3>3 DEF LateStart
  <2> QED BY <1>0, <1>5, <2>1, UpdaterKeepsInv DEF LateStart
<1> QED BY <1>1, <1>2, <1>3, <1>4, <1>5, <1>6 DEF Updater

-----------------------------------------------------------------------------
(* The browser.                                                            *)

(* pendingStartForTarget: a start for the version that is offered.         *)
LEMMA PendingStartsAreStarts ==
  ASSUME NEW pending \in Starts \cup {None}, NEW target \in Releases
  PROVE  PendingStarts(pending, target) \subseteq Starts
BY DEF PendingStarts, Starts

(* Whatever a page does, it waits for an answer or sets its timer.         *)
LEMMA BrowserStep ==
  ASSUME Inv, NEW b \in Tabs, Browser(b)
  PROVE  Inv'
<1>0. page[b] \in Pages /\ PageFits(b) /\ faults \in 0..MaxFaults /\ MaxFaults \in Nat
  BY BoundsAssumption DEF Inv, ClientTypes
<1>1. CASE RequestStatus(b)
  <2> DEFINE p == [page[b] EXCEPT !.due = FALSE]
  <2>1. p \in Pages
    BY <1>0 DEF Pages
  <2>2. Send(b, "status", None, p) /\ UNCHANGED <<updater, late, rows, faults, history>>
    BY <1>1 DEF RequestStatus
  <2> HIDE DEF p
  <2> QED BY <2>1, <2>2, SendKeepsInv
<1>2. CASE Refresh(b)
  BY <1>0, <1>2, SendKeepsInv DEF Refresh
<1>3. CASE CheckForUpdates(b)
  BY <1>0, <1>3, SendKeepsInv DEF CheckForUpdates
<1>4. CASE StartUpdate(b)
  <2>1. /\ CanStart(page[b].latest) /\ UNCHANGED <<updater, late, rows, faults, history>>
    BY <1>4 DEF StartUpdate
  <2>2. PICK s \in PendingStarts(page[b].pending, page[b].latest.offer) :
          Send(b, "reserve", s, [page[b] EXCEPT !.pending = s, !.dialog = None])
    BY <1>4 DEF StartUpdate
  <2>3. page[b].latest # None /\ page[b].latest.offer \in Releases /\ ~ShowsActive(page[b].latest)
    BY <1>0, <2>1 DEF CanStart, MayReplace, ShowsActive, Pages, Statuses
  <2>4. s \in Starts
    BY <1>0, <2>3, PendingStartsAreStarts DEF Pages
  <2> DEFINE p == [page[b] EXCEPT !.pending = s, !.dialog = None]
  <2>5. p \in Pages /\ p.latest = page[b].latest
    BY <1>0, <2>4 DEF Pages
  <2>6. Send(b, "reserve", s, p)
    BY <2>2
  <2> HIDE DEF p
  <2> QED BY <2>1, <2>3, <2>4, <2>5, <2>6, SendKeepsInv
<1>5. CASE TimerDropped(b)
  <2> DEFINE p == [page[b] EXCEPT !.due = FALSE]
  <2>1. p \in Pages /\ p.inflight = page[b].inflight /\ p.latest = page[b].latest
    BY <1>0 DEF Pages
  <2>2. /\ page' = [page EXCEPT ![b] = p] /\ page[b].inflight # None
        /\ UNCHANGED handler /\ UNCHANGED <<updater, late, rows, history>> /\ faults' = faults
    BY <1>5 DEF TimerDropped, Inv, ClientTypes
  <2> HIDE DEF p
  <2> QED BY <1>0, <2>1, <2>2, PageKeepsInv
<1>6. ASSUME NEW dialog \in Releases \cup {None}, page' = [page EXCEPT ![b].dialog = dialog],
             UNCHANGED <<updater, late, rows, handler, faults, history>>
      PROVE  Inv'
  <2> DEFINE p == [page[b] EXCEPT !.dialog = dialog]
  <2>1. /\ p \in Pages /\ p.inflight = page[b].inflight /\ p.latest = page[b].latest
        /\ p.due = page[b].due
    BY <1>0 DEF Pages
  <2>2. /\ page' = [page EXCEPT ![b] = p]
        /\ UNCHANGED handler /\ UNCHANGED <<updater, late, rows, history>> /\ faults' = faults
    BY <1>6 DEF Inv, ClientTypes
  <2>3. ShowsActive(p.latest) => p.due \/ p.inflight # None
    BY <1>0, <2>1 DEF PageFits
  <2> HIDE DEF p
  <2> QED BY <1>0, <2>1, <2>2, <2>3, PageKeepsInv
<1>7. CASE OpenConfirmation(b)
  <2>1. page[b].latest.offer \in Releases \cup {None}
    BY <1>0, <1>7 DEF OpenConfirmation, CanStart, Pages, Statuses
  <2> QED BY <1>6, <1>7, <2>1 DEF OpenConfirmation
<1>8. CASE CancelDialog(b)
  BY <1>6, <1>8 DEF CancelDialog
<1>9. CASE LoseAnswer(b)
  <2> DEFINE start == handler[page[b].inflight].start
             p == Failed(page[b], start)
  <2>1. /\ page' = [page EXCEPT ![b] = p] /\ page[b].inflight # None
        /\ UNCHANGED handler /\ UNCHANGED <<updater, late, rows, history>> /\ faults' \in 0..MaxFaults
    BY <1>0, <1>9 DEF LoseAnswer, Fault, Inv, ClientTypes
  <2>2. start # None => ~ShowsActive(page[b].latest)
    BY <1>0, <2>1 DEF PageFits
  <2>3. p \in Pages /\ p.inflight = None /\ (ShowsActive(p.latest) => p.due)
    BY <1>0, <2>2, FailedPage
  <2> HIDE DEF p
  <2> QED BY <2>1, <2>3, PageKeepsInv
<1>10. CASE Reload(b)
  <2> DEFINE p == LoadedPage(page[b].pending)
  <2>1. /\ page' = [page EXCEPT ![b] = p]
        /\ UNCHANGED handler /\ UNCHANGED <<updater, late, rows, history>> /\ faults' \in 0..MaxFaults
    BY <1>0, <1>10 DEF Reload, Fault, Inv, ClientTypes
  <2>2. p \in Pages /\ p.inflight = None /\ p.due
    BY <1>0 DEF LoadedPage, Pages
  <2> HIDE DEF p
  <2> QED BY <2>1, <2>2, PageKeepsInv
<1> QED BY <1>1, <1>2, <1>3, <1>4, <1>5, <1>7, <1>8, <1>9, <1>10 DEF Browser

-----------------------------------------------------------------------------
(* Django.                                                                 *)

(* _record_terminal_audit writes an end that the task had, once.           *)
LEMMA AuditIsKnown ==
  ASSUME ServerInv, NEW t \in Tasks \cup {None}, t # None => IsKnown(t), rows' = Audited(t),
         UNCHANGED <<updater, late, history>>
  PROVE  ServerInv' /\ Grows
<1>1. /\ installed' = installed /\ offer' = offer /\ task' = task /\ worker' = worker
      /\ late' = late /\ started' = started /\ ended' = ended
  BY DEF updater, history
<1>2. CASE rows' = rows
  BY <1>1, <1>2, ServerSame
<1>3. CASE /\ t # None /\ t.stage \in Terminal /\ rows[t.id] # None /\ rows[t.id].result = "active"
           /\ rows' = [rows EXCEPT ![t.id].result = t.stage]
  <2>1. t \in Tasks /\ t.id \in TaskIds /\ <<t.id, t.stage>> \in ended
    BY <1>3 DEF Tasks, IsKnown
  <2> DEFINE row == [rows[t.id] EXCEPT !.result = t.stage]
  <2>2. rows[t.id] \in Rows /\ rows' = [rows EXCEPT ![t.id] = row]
    BY <1>3, <2>1 DEF ServerInv, ServerTypes
  <2>3. row \in Rows /\ row.target = rows[t.id].target /\ row.result = t.stage
    BY <1>3, <2>2 DEF Rows
  <2>4. row # None
    BY <2>3, NoneIsNoRecord
  <2> HIDE DEF row
  <2>5. /\ rows' \in [TaskIds -> Rows \cup {None}] /\ rows'[t.id] = row
        /\ \A id \in TaskIds \ {t.id} : rows'[id] = rows[id]
    BY <2>1, <2>2, <2>3 DEF ServerInv, ServerTypes
  <2>6. ServerTypes' /\ TaskIsKnown'
    BY <1>1, <2>5 DEF ServerInv, ServerTypes, TaskIsKnown, IsKnown
  <2>7. Grows
    BY <1>1, <2>3, <2>4, <2>5 DEF Grows
  <2>8. StartedTasksAreReserved'
    <3>1. \A s \in started \cup late : s.id \in TaskIds
      BY DEF ServerInv, ServerTypes, Starts
    <3> QED BY <1>1, <2>7, <3>1 DEF ServerInv, StartedTasksAreReserved, Grows
  <2>9. AuditIsTruthful'
    BY <1>1, <2>1, <2>3, <2>5 DEF ServerInv, AuditIsTruthful
  <2> QED BY <2>6, <2>7, <2>8, <2>9 DEF ServerInv
<1> QED BY <1>2, <1>3 DEF Audited

(* _reserve_update_request writes a row or finds its own.                  *)
LEMMA ReserveIsKnown ==
  ASSUME ServerInv, NEW s \in Starts,
         rows[s.id] = None \/ rows[s.id] = [target |-> s.target, result |-> "active"],
         rows' = [rows EXCEPT ![s.id] = [target |-> s.target, result |-> "active"]],
         UNCHANGED <<updater, late, history>>
  PROVE  ServerInv' /\ Grows /\ IsReserved(s)'
<1>0. s.id \in TaskIds /\ s.target \in Releases
  BY DEF Starts
<1> DEFINE row == [target |-> s.target, result |-> "active"]
<1>1. /\ installed' = installed /\ offer' = offer /\ task' = task /\ worker' = worker
      /\ late' = late /\ started' = started /\ ended' = ended
  BY DEF updater, history
<1>2. row \in Rows /\ row.target = s.target /\ row.result = "active"
  BY <1>0 DEF Rows
<1>3. row # None
  BY <1>2, NoneIsNoRecord
<1>4. rows[s.id] = None \/ rows[s.id] = row
  OBVIOUS
<1> HIDE DEF row
<1>5. /\ rows' \in [TaskIds -> Rows \cup {None}] /\ rows'[s.id] = row
      /\ \A id \in TaskIds \ {s.id} : rows'[id] = rows[id]
  BY <1>0, <1>2 DEF ServerInv, ServerTypes, row
<1>6. ServerTypes' /\ TaskIsKnown'
  BY <1>1, <1>5 DEF ServerInv, ServerTypes, TaskIsKnown, IsKnown
<1>7. Grows /\ IsReserved(s)'
  BY <1>1, <1>2, <1>3, <1>4, <1>5 DEF Grows, IsReserved
<1>8. StartedTasksAreReserved'
  <2>1. \A q \in started \cup late : q.id \in TaskIds
    BY DEF ServerInv, ServerTypes, Starts
  <2> QED BY <1>1, <1>7, <2>1 DEF ServerInv, StartedTasksAreReserved, Grows
<1>9. AuditIsTruthful'
  BY <1>1, <1>2, <1>5 DEF ServerInv, AuditIsTruthful
<1> QED BY <1>6, <1>7, <1>8, <1>9 DEF ServerInv

(* A request of Django is answered, or goes on with what is true.          *)
LEMMA DjangoStep ==
  ASSUME Inv, NEW r \in Requests, Django(r)
  PROVE  Inv'
<1>0. /\ faults \in 0..MaxFaults /\ MaxFaults \in Nat /\ handler[r] \in Handlers /\ HandlerFits(r)
      /\ ClientTypes /\ ServerInv
  BY BoundsAssumption DEF Inv, ClientTypes
<1>a. Fault => faults' \in 0..MaxFaults
  BY <1>0 DEF Fault
<1>b. \A pc \in Asking \cup Starting : pc # "idle"
  BY DEF Asking, Starting
<1>1. CASE AskStatus(r)
  <2>1. handler[r].pc = "status" /\ UNCHANGED <<updater, late, rows, history>>
    BY <1>1 DEF AskStatus
  <2>2. ServerInv' /\ Grows
    BY <1>0, <2>1, ServerSame
  <2>3. CASE Goto(r, "audit", Status) /\ UNCHANGED <<page, faults>>
    <3>1. /\ Status \in Statuses /\ Status.task = task
          /\ task # None => IsKnown(task)
      BY <1>0 DEF Status, Statuses, ServerInv, ServerTypes, TaskIsKnown
    <3>2. PICK answer : answer = Status
      OBVIOUS
    <3>3. /\ handler'[r].pc = "audit" /\ handler'[r].answer = answer
          /\ handler'[r].start = handler[r].start /\ handler'[r].tab = handler[r].tab
      BY <1>0, <2>3, <3>1, <3>2, GotoMoves DEF Asking
    <3>4. HandlerFits(r)'
      BY <1>0, <2>1, <2>2, <3>1, <3>2, <3>3 DEF HandlerFits, Asking, Starting, IsKnown, Grows
    <3> QED BY <1>0, <2>1, <2>2, <2>3, <3>1, <3>4, GotoKeepsInv DEF Asking
  <2>4. CASE Fault /\ RespondError(r)
    BY <1>a, <2>1, <2>2, <2>4, RespondErrorKeepsInv
  <2> QED BY <1>1, <2>3, <2>4 DEF AskStatus
<1>2. CASE AnswerStatus(r)
  <2> DEFINE answer == handler[r].answer
  <2>1. /\ handler[r].pc = "audit" /\ rows' = Audited(answer.task)
        /\ UNCHANGED <<updater, late, faults, history>>
    BY <1>2 DEF AnswerStatus
  <2>2. answer \in Statuses /\ (answer.task # None => IsKnown(answer.task))
    BY <1>0, <2>1 DEF HandlerFits
  <2>3. answer.task \in Tasks \cup {None}
    BY <2>2 DEF Statuses
  <2>4. ServerInv' /\ Grows
    BY <1>0, <2>1, <2>2, <2>3, AuditIsKnown
  <2>5. /\ handler' = [handler EXCEPT ![r] = Idle]
        /\ page' = IF page[handler[r].tab].inflight = r
                   THEN [page EXCEPT ![handler[r].tab] = Settled(@, answer)] ELSE page
    BY <1>2 DEF AnswerStatus, Respond
  <2> HIDE DEF answer
  <2> QED BY <1>0, <2>1, <2>2, <2>4, <2>5, RespondStatusKeepsInv
<1>3. CASE AskCheck(r)
  <2>1. handler[r].pc = "check" /\ UNCHANGED <<late, rows, faults, history>>
    BY <1>3 DEF AskCheck
  <2>2. CASE UpdaterCheck /\ Goto(r, "checked", [offer |-> offer', task |-> task]) /\ UNCHANGED page
    <3>1. /\ offer' \in Releases \cup {None}
          /\ installed' = installed /\ task' = task /\ worker' = worker
          /\ late' = late /\ rows' = rows /\ started' = started /\ ended' = ended
      BY <2>1, <2>2 DEF UpdaterCheck, history
    <3>2. ServerTypes' /\ TaskIsKnown'
      BY <1>0, <3>1 DEF ServerInv, ServerTypes, TaskIsKnown, IsKnown
    <3>3. StartedTasksAreReserved' /\ AuditIsTruthful' /\ Grows
      BY <1>0, <3>1 DEF ServerInv, StartedTasksAreReserved, AuditIsTruthful, Grows
    <3>4. PICK answer : answer = [offer |-> offer', task |-> task]
      OBVIOUS
    <3>5. answer \in Statuses /\ answer.task = task /\ (task # None => IsKnown(task))
      BY <1>0, <3>1, <3>4 DEF Statuses, ServerInv, ServerTypes, TaskIsKnown
    <3>6. Goto(r, "checked", answer)
      BY <2>2, <3>4
    <3>7. /\ handler'[r].pc = "checked" /\ handler'[r].answer = answer
          /\ handler'[r].start = handler[r].start /\ handler'[r].tab = handler[r].tab
      BY <1>0, <3>5, <3>6, GotoMoves DEF Asking
    <3>8. HandlerFits(r)'
      BY <1>0, <2>1, <3>3, <3>5, <3>7 DEF HandlerFits, Asking, Starting, IsKnown, Grows
    <3> QED BY <1>0, <2>1, <2>2, <3>2, <3>3, <3>5, <3>6, <3>8, GotoKeepsInv DEF Asking, ServerInv
  <2>3. CASE RespondError(r) /\ UNCHANGED updater
    <3>1. ServerInv' /\ Grows
      BY <1>0, <2>1, <2>3, ServerSame
    <3> QED BY <1>0, <2>1, <2>3, <3>1, RespondErrorKeepsInv
  <2> QED BY <1>3, <2>2, <2>3 DEF AskCheck
<1>4. CASE AnswerCheck(r)
  <2> DEFINE answer == handler[r].answer
  <2>1. handler[r].pc = "checked" /\ UNCHANGED <<updater, late, rows, faults, history>>
    BY <1>4 DEF AnswerCheck
  <2>2. answer \in Statuses
    BY <1>0, <2>1 DEF HandlerFits
  <2>3. ServerInv' /\ Grows
    BY <1>0, <2>1, ServerSame
  <2>4. /\ handler' = [handler EXCEPT ![r] = Idle]
        /\ page' = IF page[handler[r].tab].inflight = r
                   THEN [page EXCEPT ![handler[r].tab] = Settled(@, answer)] ELSE page
    BY <1>4 DEF AnswerCheck, Respond
  <2> HIDE DEF answer
  <2> QED BY <1>0, <2>1, <2>2, <2>3, <2>4, RespondStatusKeepsInv
<1>5. CASE Reserve(r)
  <2> DEFINE s == handler[r].start
  <2>1. handler[r].pc = "reserve" /\ s \in Starts /\ UNCHANGED <<updater, late, faults, history>>
    BY <1>0, <1>5 DEF Reserve, HandlerFits, Starting
  <2>2. CASE /\ rows[s.id] = None \/ rows[s.id] = [target |-> s.target, result |-> "active"]
             /\ rows' = [rows EXCEPT ![s.id] = [target |-> s.target, result |-> "active"]]
             /\ Goto(r, "call", None) /\ UNCHANGED page
    <3>0. PICK n \in Starts : n = s
      BY <2>1
    <3>1. ServerInv' /\ Grows /\ IsReserved(n)'
      BY <1>0, <2>1, <2>2, <3>0, ReserveIsKnown
    <3>2. /\ handler'[r].pc = "call"
          /\ handler'[r].start = n /\ handler'[r].tab = handler[r].tab
      BY <1>0, <2>2, <3>0, GotoMoves DEF Starting
    <3>3. HandlerFits(r)'
      BY <1>0, <2>1, <3>1, <3>2 DEF HandlerFits, Asking, Starting, IsReserved
    <3> QED BY <1>0, <2>1, <2>2, <3>1, <3>3, GotoKeepsInv DEF Starting
  <2>3. CASE RespondError(r) /\ UNCHANGED rows
    <3>1. ServerInv' /\ Grows
      BY <1>0, <2>1, <2>3, ServerSame
    <3> QED BY <1>0, <2>1, <2>3, <3>1, RespondErrorKeepsInv
  <2> QED BY <1>5, <2>2, <2>3 DEF Reserve
<1>6. CASE CallStart(r)
  <2> DEFINE s == handler[r].start
  <2>1. handler[r].pc = "call" /\ s \in Starts /\ IsReserved(s) /\ UNCHANGED <<rows, page, ended>>
    BY <1>0, <1>6 DEF CallStart, HandlerFits, Starting
  <2>2. CASE Accept(s) /\ Goto(r, "accepted", task') /\ UNCHANGED <<late, faults>>
    <3>1. /\ ServerInv' /\ Grows
          /\ task' \in Tasks /\ IsKnown(task)' /\ s \in started'
          /\ task'.id = s.id /\ task'.target = s.target
      BY <1>0, <2>1, <2>2, AcceptIsKnown
    <3>2. PICK answer : answer = task'
      OBVIOUS
    <3>3. Goto(r, "accepted", answer) /\ answer \in Tasks
      BY <2>2, <3>1, <3>2
    <3>4. /\ handler'[r].pc = "accepted" /\ handler'[r].answer = answer
          /\ handler'[r].start = handler[r].start /\ handler'[r].tab = handler[r].tab
      BY <1>0, <3>3, GotoMoves DEF Starting
    <3>5. HandlerFits(r)'
      BY <1>0, <2>1, <3>1, <3>2, <3>4 DEF HandlerFits, Asking, Starting, IsReserved, IsKnown
    <3> QED BY <1>0, <2>1, <2>2, <3>1, <3>3, <3>5, GotoKeepsInv DEF Starting
  <2>3. CASE /\ Goto(r, "reconcile", None) /\ UNCHANGED <<updater, started>>
             /\ faults' \in 0..MaxFaults /\ late' \subseteq late \cup {s}
    <3>1. /\ installed' = installed /\ offer' = offer /\ task' = task /\ worker' = worker
          /\ rows' = rows /\ started' = started /\ ended' = ended
      BY <2>1, <2>3 DEF updater
    <3>2. ServerTypes' /\ TaskIsKnown'
      BY <1>0, <2>1, <2>3, <3>1 DEF ServerInv, ServerTypes, TaskIsKnown, IsKnown
    <3>3. StartedTasksAreReserved' /\ AuditIsTruthful' /\ Grows
      BY <1>0, <2>1, <2>3, <3>1 DEF ServerInv, StartedTasksAreReserved, AuditIsTruthful, Grows, IsReserved
    <3>4. /\ handler'[r].pc = "reconcile"
          /\ handler'[r].start = handler[r].start /\ handler'[r].tab = handler[r].tab
      BY <1>0, <2>3, GotoMoves DEF Starting
    <3>5. HandlerFits(r)'
      BY <1>0, <2>1, <3>1, <3>4 DEF HandlerFits, Asking, Starting, IsReserved
    <3> QED BY <1>0, <2>1, <2>3, <3>2, <3>3, <3>5, GotoKeepsInv DEF Starting, ServerInv
  <2> QED BY <1>0, <1>a, <1>6, <2>2, <2>3 DEF CallStart, Unanswered
<1>7. CASE ReconcileStart(r)
  <2> DEFINE s == handler[r].start
  <2>1. /\ handler[r].pc = "reconcile" /\ s \in Starts /\ IsReserved(s)
        /\ UNCHANGED <<updater, late, rows, history>>
    BY <1>0, <1>7 DEF ReconcileStart, HandlerFits, Starting
  <2>2. ServerInv' /\ Grows
    BY <1>0, <2>1, ServerSame
  <2>3. CASE MatchingTask(s) /\ Goto(r, "accepted", task) /\ UNCHANGED <<page, faults>>
    <3>1. task \in Tasks /\ IsKnown(task) /\ task.id = s.id /\ task.target = s.target
      BY <1>0, <2>3 DEF MatchingTask, ServerInv, ServerTypes, TaskIsKnown
    <3>2. s \in started
      <4>1. s = [id |-> task.id, target |-> task.target]
        BY <2>1, <3>1 DEF Starts
      <4> QED BY <3>1, <4>1 DEF IsKnown
    <3>3. PICK answer : answer = task
      OBVIOUS
    <3>4. /\ handler'[r].pc = "accepted" /\ handler'[r].answer = answer
          /\ handler'[r].start = handler[r].start /\ handler'[r].tab = handler[r].tab
      BY <1>0, <2>3, <3>1, <3>3, GotoMoves DEF Starting
    <3>5. PICK n \in Starts : n = s
      BY <2>1
    <3>7. IsReserved(n) /\ n \in started /\ handler'[r].start = n
      BY <2>1, <3>2, <3>4, <3>5
    <3>8. IsReserved(n)'
      BY <2>2, <3>7 DEF IsReserved, Grows, Starts
    <3>6. HandlerFits(r)'
      BY <1>0, <2>1, <2>2, <3>1, <3>2, <3>3, <3>4, <3>5, <3>7, <3>8
         DEF HandlerFits, Asking, Starting, IsReserved, IsKnown, Grows
    <3> QED BY <1>0, <2>1, <2>2, <2>3, <3>1, <3>6, GotoKeepsInv DEF Starting
  <2>4. CASE RespondError(r) /\ faults' \in 0..MaxFaults
    BY <2>1, <2>2, <2>4, RespondErrorKeepsInv
  <2> QED BY <1>0, <1>a, <1>7, <2>3, <2>4 DEF ReconcileStart
<1>8. CASE AnswerStart(r)
  <2> DEFINE t == handler[r].answer
             b == handler[r].tab
             matches == t.id = page[b].pending.id /\ t.target = handler[r].start.target
             settled == Settled(page[b], [page[b].latest EXCEPT !.task = t])
             failed == Failed(page[b], handler[r].start)
  <2>1. /\ handler[r].pc = "accepted" /\ t \in Tasks /\ handler[r].start \in Starts /\ b \in Tabs
        /\ UNCHANGED <<updater, late, rows, faults, history>>
    BY <1>0, <1>8 DEF AnswerStart, HandlerFits, Starting
  <2>2. ServerInv' /\ Grows
    BY <1>0, <2>1, ServerSame
  <2>3. /\ handler' = [handler EXCEPT ![r] = Idle]
        /\ page' = IF page[b].inflight = r
                   THEN [page EXCEPT ![b] = IF matches THEN settled ELSE failed] ELSE page
    BY <1>8, <2>1 DEF AnswerStart, Respond, Inv, ClientTypes
  <2>4. page[b] \in Pages
    BY <2>1 DEF Inv, ClientTypes
  <2>5. ASSUME page[b].inflight = r
        PROVE  /\ settled \in Pages /\ settled.inflight = None /\ (ShowsActive(settled.latest) => settled.due)
               /\ failed \in Pages /\ failed.inflight = None /\ (ShowsActive(failed.latest) => failed.due)
    <3>1. page[b].latest # None /\ ~ShowsActive(page[b].latest)
      BY <2>1, <2>5, NoneAssumption, NoneIsNoRecord DEF Inv, PageFits
    <3>2. page[b].latest \in Statuses
      BY <2>4, <3>1 DEF Pages
    <3>3. [page[b].latest EXCEPT !.task = t] \in Statuses
      BY <2>1, <3>2 DEF Statuses
    <3> QED BY <2>4, <3>1, <3>3, SettledPage, FailedPage
  <2>6. PICK p : p = IF matches THEN settled ELSE failed
    OBVIOUS
  <2>7. page[b].inflight = r => p \in Pages /\ p.inflight = None /\ (ShowsActive(p.latest) => p.due)
    <3> HIDE DEF settled, failed, matches
    <3> QED BY <2>5, <2>6
  <2>8. page' = IF page[b].inflight = r THEN [page EXCEPT ![b] = p] ELSE page
    BY <2>3, <2>6
  <2> QED BY <1>0, <2>1, <2>2, <2>3, <2>7, <2>8, RespondKeepsInv
<1>9. CASE AnswerUnread(r)
  <2> DEFINE answer == handler[r].answer
             b == handler[r].tab
             p == Unreadable(page[b])
  <2>1. /\ handler[r].pc \in {"audit", "checked"} /\ b \in Tabs /\ page[b] \in Pages
        /\ UNCHANGED <<updater, late, history>>
    BY <1>0, <1>9 DEF AnswerUnread, HandlerFits, Asking, ClientTypes
  <2>2. answer \in Statuses /\ (answer.task # None => IsKnown(answer.task))
    BY <1>0, <2>1 DEF HandlerFits
  <2>3. answer.task \in Tasks \cup {None}
    BY <2>2 DEF Statuses
  <2>4. ServerInv' /\ Grows
    <3>1. CASE rows' = Audited(answer.task)
      BY <1>0, <2>1, <2>2, <2>3, <3>1, AuditIsKnown
    <3>2. CASE rows' = rows
      BY <1>0, <2>1, <3>2, ServerSame
    <3> QED BY <1>9, <3>1, <3>2 DEF AnswerUnread
  <2>5. /\ handler' = [handler EXCEPT ![r] = Idle]
        /\ page' = IF page[b].inflight = r THEN [page EXCEPT ![b] = p] ELSE page
    BY <1>9, <2>1 DEF AnswerUnread, Respond, Inv, ClientTypes
  <2>6. p \in Pages /\ p.inflight = None /\ (ShowsActive(p.latest) => p.due)
    BY <2>1, UnreadPage
  <2>7. faults' \in 0..MaxFaults
    BY <1>a, <1>9 DEF AnswerUnread
  <2> HIDE DEF p, answer
  <2> QED BY <1>0, <2>1, <2>4, <2>5, <2>6, <2>7, RespondKeepsInv
<1> QED BY <1>1, <1>2, <1>3, <1>4, <1>5, <1>6, <1>7, <1>8, <1>9 DEF Django

(* A restart of Web fails the requests of all pages.                       *)
LEMMA WebRestartStep ==
  ASSUME Inv, WebRestart
  PROVE  Inv'
<1>0. /\ faults' \in 0..MaxFaults /\ UNCHANGED <<updater, late, rows, history>>
      /\ handler' = [r \in Requests |-> Idle]
  BY BoundsAssumption DEF WebRestart, Fault, Inv, ClientTypes
<1>1. ServerInv' /\ Grows
  BY <1>0, ServerSame DEF Inv
<1>2. Idle \in Handlers /\ Idle.pc = "idle"
  BY DEF Idle, Handlers
<1>3. handler' \in [Requests -> Handlers] /\ \A r \in Requests : HandlerFits(r)'
  BY <1>0, <1>2 DEF HandlerFits, Asking, Starting
<1>4. ASSUME NEW b \in Tabs
      PROVE  page'[b] \in Pages /\ page'[b].inflight = None /\ (ShowsActive(page'[b].latest) => page'[b].due)
  <2>1. page[b] \in Pages /\ PageFits(b)
    BY DEF Inv, ClientTypes
  <2>2. CASE page[b].inflight = None
    <3>1. page'[b] = page[b]
      BY <2>2 DEF WebRestart
    <3> QED BY <2>1, <2>2, <3>1 DEF PageFits
  <2>3. CASE page[b].inflight # None
    <3> DEFINE start == handler[page[b].inflight].start
    <3>1. page'[b] = Failed(page[b], start)
      BY <2>3 DEF WebRestart
    <3>2. start # None => ~ShowsActive(page[b].latest)
      BY <2>1, <2>3 DEF PageFits
    <3> HIDE DEF start
    <3> QED BY <2>1, <3>1, <3>2, FailedPage
  <2> QED BY <2>2, <2>3
<1>5. page' \in [Tabs -> Pages]
  <2>1. page' = [b \in Tabs |-> page'[b]]
    BY DEF WebRestart
  <2> QED BY <2>1, <1>4
<1>6. \A b \in Tabs : PageFits(b)'
  BY <1>4 DEF PageFits, ShowsActive
<1> QED BY <1>0, <1>1, <1>3, <1>5, <1>6 DEF Inv, ClientTypes

-----------------------------------------------------------------------------
(* Nothing has been asked for at the start.                                *)
LEMMA InitInv == Init => Inv
<1> SUFFICES ASSUME Init PROVE Inv
  OBVIOUS
<1>1. ServerInv
  BY DEF Init, ServerInv, ServerTypes, TaskIsKnown, StartedTasksAreReserved, AuditIsTruthful
<1>2. Idle \in Handlers /\ Idle.pc = "idle"
  BY DEF Idle, Handlers
<1>3. \A r \in Requests : HandlerFits(r)
  BY <1>2 DEF Init, HandlerFits, Asking, Starting
<1>4. LoadedPage(None) \in Pages /\ LoadedPage(None).inflight = None /\ LoadedPage(None).due
  BY DEF LoadedPage, Pages
<1>5. ClientTypes
  BY <1>2, <1>4, BoundsAssumption DEF Init, ClientTypes
<1>6. \A b \in Tabs : PageFits(b)
  BY <1>4 DEF Init, PageFits
<1> QED BY <1>1, <1>3, <1>5, <1>6 DEF Inv

(* Every step of whoever it is keeps the invariant.                        *)
LEMMA InvStep == Inv /\ [Next]_vars => Inv'
<1> SUFFICES ASSUME Inv, [Next]_vars PROVE Inv'
  OBVIOUS
<1>1. CASE UNCHANGED vars
  <2>1. /\ UNCHANGED <<updater, late, rows, history>> /\ UNCHANGED <<handler, page>> /\ faults' = faults
    BY <1>1 DEF vars
  <2>2. ServerInv' /\ Grows
    BY <2>1, ServerSame DEF Inv
  <2>3. faults' \in 0..MaxFaults
    BY <2>1 DEF Inv, ClientTypes
  <2> QED BY <2>1, <2>2, <2>3, UpdaterKeepsInv
<1> QED BY <1>1, BrowserStep, DjangoStep, UpdaterStep, WebRestartStep DEF Next

(* Each request knows the truth and each page waits for its own answer.    *)
THEOREM WebInvariance == Spec => []Inv
BY InitInv, InvStep, PTL DEF Spec

(* Every variable keeps its type, and a page waits for its own request.    *)
THEOREM TypeCorrectness == Spec => []TypeOK
<1>1. Inv => TypeOK
  <2> SUFFICES ASSUME Inv PROVE TypeOK
    OBVIOUS
  <2>1. \A b \in Tabs : page[b] \in Pages /\ PageFits(b)
    BY DEF Inv, ClientTypes
  <2>2. \A b \in Tabs :
          /\ page[b].latest \in Statuses \cup {None} /\ page[b].pending \in Starts \cup {None}
          /\ page[b].dialog \in Releases \cup {None} /\ page[b].due \in BOOLEAN
          /\ page[b].inflight # None => handler[page[b].inflight].tab = b
    BY <2>1 DEF Pages, PageFits
  <2> QED BY <2>2 DEF Inv, ServerInv, ServerTypes, ClientTypes, TypeOK
<1> QED BY WebInvariance, <1>1, PTL

(* A 202 names the start that was asked for, which the updater has made    *)
(* its task (views.start and its reconciliation).                          *)
THEOREM AcceptedStarts == Spec => []AcceptedIsPersisted
<1>1. Inv => AcceptedIsPersisted
  BY DEF Inv, HandlerFits, AcceptedIsPersisted
<1> QED BY WebInvariance, <1>1, PTL

(* No task without its committed row (_reserve_update_request).            *)
THEOREM ReservedStarts == Spec => []StartedTasksAreReserved
<1>1. Inv => StartedTasksAreReserved
  BY DEF Inv, ServerInv
<1> QED BY WebInvariance, <1>1, PTL

(* A recorded result is an end of that task (_record_terminal_audit).      *)
THEOREM TruthfulAudit == Spec => []AuditIsTruthful
<1>1. Inv => AuditIsTruthful
  BY DEF Inv, ServerInv
<1> QED BY WebInvariance, <1>1, PTL

(* A page that shows a running task has a timer or a request.              *)
THEOREM PolledPages == Spec => []ActiveIsPolled
<1>1. Inv => ActiveIsPolled
  BY DEF Inv, PageFits, ActiveIsPolled
<1> QED BY WebInvariance, <1>1, PTL

(* terminal_recorded_at: an end is recorded once and never rewritten.      *)
THEOREM FinalAudit == Spec => AuditIsFinal
<1> DEFINE Final == \A id \in TaskIds :
       rows[id] # None /\ rows[id].result # "active" => rows'[id] = rows[id]
<1>1. Inv /\ [Next]_vars => [Final]_vars
  <2> SUFFICES ASSUME Inv, Next PROVE Final
    OBVIOUS
  <2>0. rows \in [TaskIds -> Rows \cup {None}]
    BY DEF Inv, ServerInv, ServerTypes
  <2>1. ASSUME NEW t, rows' = Audited(t) PROVE Final
    BY <2>0, <2>1 DEF Audited
  <2>2. ASSUME NEW s, rows[s.id] = None \/ rows[s.id] = [target |-> s.target, result |-> "active"],
               rows' = [rows EXCEPT ![s.id] = [target |-> s.target, result |-> "active"]]
        PROVE  Final
    BY <2>0, <2>2
  <2>3. ASSUME NEW b \in Tabs, Browser(b) PROVE rows' = rows
    BY <2>3 DEF Browser, RequestStatus, TimerDropped, Refresh, CheckForUpdates, OpenConfirmation,
         CancelDialog, StartUpdate, LoseAnswer, Reload
  <2>4. ASSUME NEW r \in Requests, Django(r) PROVE Final
    <3>1. CASE AnswerStatus(r)
      BY <2>1, <3>1 DEF AnswerStatus
    <3>2. CASE Reserve(r)
      BY <2>2, <3>2 DEF Reserve
    <3>3. CASE \/ AskStatus(r) \/ AskCheck(r) \/ AnswerCheck(r)
               \/ CallStart(r) \/ ReconcileStart(r) \/ AnswerStart(r)
      BY <3>3 DEF AskStatus, AskCheck, AnswerCheck, CallStart, ReconcileStart, AnswerStart
    <3>4. CASE AnswerUnread(r)
      BY <2>1, <3>4 DEF AnswerUnread, Final
    <3> QED BY <2>4, <3>1, <3>2, <3>3, <3>4 DEF Django
  <2>5. Updater \/ WebRestart => rows' = rows
    BY DEF Updater, TaskEnds, WorkerEnds, WorkerDies, ManualCleanup, UpdaterRestart, LateStart, WebRestart
  <2> QED BY <2>3, <2>4, <2>5 DEF Next
<1> HIDE DEF Final
<1>2. Spec => [][Final]_vars
  BY WebInvariance, <1>1, PTL DEF Spec
<1> QED BY <1>2 DEF Final, AuditIsFinal
==============================================================================
