---------------------- MODULE SystemUpdateWebProperties ----------------------
(* What the owner, the audit trail and the updater may rely on.            *)
EXTENDS SystemUpdateWeb

(* Every variable keeps its type; a page waits for a request that is its   *)
(* own, as it has at most one in flight.                                   *)
TypeOK ==
  /\ installed \in Releases \cup {0} /\ offer \in Releases \cup {None}
  /\ task \in Tasks \cup {None} /\ worker \in TaskIds \cup {None}
  /\ late \subseteq Starts /\ started \subseteq Starts
  /\ ended \subseteq TaskIds \X Terminal
  /\ \A id \in TaskIds : rows[id] \in Rows \cup {None}
  /\ \A b \in Tabs :
       /\ page[b].latest \in Statuses \cup {None}
       /\ page[b].pending \in Starts \cup {None}
       /\ page[b].dialog \in Releases \cup {None}
       /\ page[b].due \in BOOLEAN
       /\ page[b].inflight # None => handler[page[b].inflight].tab = b
  /\ faults \in 0..MaxFaults

(* views.start: a 202 names the very start that was asked for, and the     *)
(* updater has created its task - also when the answer of the updater was  *)
(* lost and Django had to ask for the status.                              *)
AcceptedIsPersisted ==
  \A r \in Requests :
    handler[r].pc = "accepted" =>
      /\ handler[r].answer.id = handler[r].start.id
      /\ handler[r].start \in started

(* _reserve_update_request: no task exists, or can still come to exist     *)
(* from a call under way, without its committed row and start audit.       *)
StartedTasksAreReserved ==
  \A s \in started \cup late : rows[s.id] # None /\ rows[s.id].target = s.target

(* _record_terminal_audit: a recorded result is an end that this very      *)
(* task had, however late or in what order the statuses arrive.            *)
AuditIsTruthful ==
  \A id \in TaskIds :
    rows[id] # None /\ rows[id].result # "active" => <<id, rows[id].result>> \in ended

(* terminal_recorded_at: an end is recorded once.  A task that recovery    *)
(* or an old answer shows in another end does not rewrite the audit.       *)
AuditIsFinal ==
  [][\A id \in TaskIds :
       rows[id] # None /\ rows[id].result # "active" => rows'[id] = rows[id]]_vars

(* settleStatus and handleStatusFailure: a page that shows a running task  *)
(* has its next status request in flight or on a timer, whatever fails.    *)
ActiveIsPolled ==
  \A b \in Tabs : ShowsActive(page[b].latest) => page[b].due \/ page[b].inflight # None

(* A page that shows a running task comes to show its end, or another      *)
(* task, unless it is reloaded or gets an answer that it cannot read.      *)
WatchedTaskIsSeenToEnd ==
  \A b \in Tabs : \A id \in TaskIds :
    (ShowsActive(page[b].latest) /\ page[b].latest.task.id = id)
      ~> ~(ShowsActive(page[b].latest) /\ page[b].latest.task.id = id)

(* _record_terminal_audit: the end of a task that a page watches gets on   *)
(* record, unless another task replaces it or the page is reloaded, or     *)
(* gets an answer that it cannot read, first.                              *)
WatchedEndIsAudited ==
  \A b \in Tabs : \A id \in TaskIds :
    (ShowsActive(page[b].latest) /\ page[b].latest.task.id = id)
      ~> \/ rows[id] # None /\ rows[id].result # "active"
         \/ page[b].latest = None \/ (task # None => task.id # id)

(* openConfirmation and startUpdate: the version that starts is the one    *)
(* the dialog asked the owner to confirm.                                  *)
ConfirmedVersionIsStarted ==
  [][\A b \in Tabs : \A r \in Requests :
       handler[r] = Idle /\ handler'[r].tab = b /\ handler'[r].start # None =>
         handler'[r].start.target = page[b].dialog]_vars
=============================================================================
