------------------------- MODULE UpdateManagerProofs -------------------------
(***************************************************************************)
(* Theorems about UpdateManager, for any versions, task ids and faults and *)
(* any number of crashes.  They rest on one inductive invariant that ties  *)
(* the place where the manager is to what it has recorded and done.        *)
(***************************************************************************)
EXTENDS UpdateManagerProperties, TLAPS

(* Where _execute is before stop_web, after it, and where a rollback is.   *)
Preparing == {"create_backup", "record_backups", "pulling", "verify_target", "pulled",
              "tag_rollback", "save_alias", "stopping_web"}
Switching == {"stop_web", "migrating", "migrate_target", "starting_web", "start_target",
              "checking_health", "wait_health", "stabilizing", "stabilize",
              "persisting_version", "persist_version", "cleaning"}
RollingBack == {"rollback", "start_rollback", "rollback_health", "restore_version"}

(* Whoever has a task to work on finds one, and new work is done by the    *)
(* server.                                                                 *)
Attached ==
  /\ task = None => pc \in {"idle", "down"} /\ queue = {}
  /\ pc \in {"idle", "down"} \cup Preparing => mode = "serve"

(* What has been done for task t when the manager is at a label: what      *)
(* _execute needs before it stops Web; that everything after it happens in *)
(* a stage from which recovery finishes or rolls back; that Web is stopped *)
(* for the migration; and that a removal was journaled as started.         *)
Knows(label, t) ==
  /\ label \in Preparing => t.stage \in PreTag
  /\ label \in Preparing \ {"create_backup"} => t.id \in backups
  /\ label \in Preparing \ {"create_backup", "record_backups"} => t.backups
  /\ label \in {"save_alias", "stopping_web"} =>
       {"tag", "digest", t.id} \subseteq refs[t.original]
  /\ label = "stopping_web" => t.alias
  /\ label \in Switching \cup RollingBack \cup {"complete_health"} => t.stage \in PostTag
  /\ label \in RollingBack => failing.stage \in PostTag
  /\ label \in {"migrating", "migrate_target"} => ~web.running
  /\ label = "cleanup_step" => t.journal["version_tag"] # "not_started"

(* OriginalRetained, of task t.                                            *)
Retained(t) ==
  t.stage \in PostTag =>
    /\ t.alias /\ t.backups /\ t.id \in backups
    /\ t.journal["version_tag"] = "not_started" =>
         {"tag", "digest", t.id} \subseteq refs[t.original]

Inv == /\ TypeOK /\ Attached
       /\ task # None => Knows(pc, task) /\ Retained(task)

-----------------------------------------------------------------------------
(* The records a step saves.                                               *)

(* Two tasks agree on whom and what they are about and on what was done.   *)
Keeps(u, t) ==
  /\ u.id = t.id /\ u.original = t.original /\ u.target = t.target
  /\ u.alias = t.alias /\ u.backups = t.backups /\ u.journal = t.journal

(* A failure is a record of its three parts. *)
LEMMA FailureFields ==
  ASSUME NEW code \in ErrorCodes, NEW stage \in Stages, NEW restore \in BOOLEAN
  PROVE  /\ Failure(code, stage, restore) \in Failures
         /\ Failure(code, stage, restore).stage = stage
  BY Zenon DEF Failure, Failures

(* The failure path that records nothing is one of them. *)
LEMMA NoFailureType == NoFailure \in Failures
  BY FailureFields DEF NoFailure, ErrorCodes, Stages, Terminal

(* Saving a stage changes nothing else. *)
LEMMA StageSaved ==
  ASSUME NEW t \in Tasks, NEW stage \in Stages
  PROVE  LET u == [t EXCEPT !.stage = stage]
         IN u \in Tasks /\ u.stage = stage /\ Keeps(u, t)
  BY DEF Tasks, Keeps

(* Nor does saving a stage with an error code. *)
LEMMA FailureSaved ==
  ASSUME NEW t \in Tasks, NEW stage \in Stages, NEW code \in ErrorCodes
  PROVE  LET u == [t EXCEPT !.stage = stage, !.error_code = code]
         IN u \in Tasks /\ u.stage = stage /\ Keeps(u, t)
  BY DEF Tasks, Keeps

(* Finishing a task as failed. *)
LEMMA EndSaved ==
  ASSUME NEW t \in Tasks, NEW stage \in Stages, NEW code \in ErrorCodes, NEW undone \in BOOLEAN
  PROVE  [t EXCEPT !.stage = stage, !.error_code = code, !.rolled_back = undone] \in Tasks
<1>1. \A v \in Tasks : [v EXCEPT !.rolled_back = undone] \in Tasks
  BY DEF Tasks
<1>2. [t EXCEPT !.stage = stage, !.error_code = code, !.rolled_back = undone]
        = [[t EXCEPT !.stage = stage, !.error_code = code] EXCEPT !.rolled_back = undone]
  BY DEF Tasks
<1>. QED BY <1>1, <1>2, FailureSaved

(* The two switches that _execute records. *)
LEMMA BackupsSaved ==
  ASSUME NEW t \in Tasks
  PROVE  LET u == [t EXCEPT !.backups = TRUE]
         IN /\ u \in Tasks /\ u.backups
            /\ u.stage = t.stage /\ u.id = t.id /\ u.original = t.original
            /\ u.alias = t.alias /\ u.journal = t.journal
  BY Zenon DEF Tasks

(* Recording the rollback alias changes nothing else of the task. *)
LEMMA AliasSaved ==
  ASSUME NEW t \in Tasks
  PROVE  LET u == [t EXCEPT !.alias = TRUE]
         IN /\ u \in Tasks /\ u.alias
            /\ u.stage = t.stage /\ u.id = t.id /\ u.original = t.original
            /\ u.backups = t.backups /\ u.journal = t.journal
  BY Zenon DEF Tasks

(* The cleanup's mark and its journal. *)
LEMMA CleanupSaved ==
  ASSUME NEW t \in Tasks, NEW mark \in {"not_run", "pending", "complete"}
  PROVE  LET u == [t EXCEPT !.cleanup = mark]
         IN u \in Tasks /\ u.stage = t.stage /\ Keeps(u, t)
  BY DEF Tasks, Keeps

(* A journal entry changes nothing else of the task. *)
LEMMA JournalSaved ==
  ASSUME NEW t \in Tasks, NEW step \in CleanupSteps, NEW status \in StepStatuses
  PROVE  LET u == [t EXCEPT !.journal[step] = status]
         IN /\ u \in Tasks
            /\ u.stage = t.stage /\ u.id = t.id /\ u.original = t.original
            /\ u.alias = t.alias /\ u.backups = t.backups
            /\ u.journal = [t.journal EXCEPT ![step] = status]
  BY DEF Tasks

-----------------------------------------------------------------------------
(* The three kinds of steps an operation is made of.                       *)

(* A store error ends the operation and changes nothing durable. *)
LEMMA AbortKeeps ==
  ASSUME Inv, Abort, UNCHANGED <<task, last_check, world, history>>
  PROVE  Inv'
<1>1. TypeOK'
  BY NoFailureType DEF Inv, TypeOK, Abort, world, history, Labels
<1>2. Attached'
  BY DEF Inv, Attached, Abort, Preparing
<1>3. Knows(pc, task)'
  BY DEF Abort, Knows, Preparing, Switching, RollingBack
<1>4. task # None => Retained(task)'
  BY DEF Inv, Retained, world
<1>. QED BY <1>1, <1>2, <1>3, <1>4 DEF Inv

(* So does a save that goes on to a label whose conditions hold already. *)
LEMMA SaveKeeps ==
  ASSUME Inv, task # None,
         NEW t \in Tasks, NEW next \in Labels, Save(t, Goto(next)),
         next \notin {"idle", "down"}, next \in Preparing => mode = "serve",
         Knows(next, t), Retained(t)
  PROVE  Inv'
<1>1. CASE Abort /\ UNCHANGED <<task, last_check, world, history>>
  BY <1>1, AbortKeeps
<1>2. CASE task' = t /\ Goto(next) /\ UNCHANGED <<last_check, world, history>>
  <2>1. TypeOK'
    BY <1>2 DEF Inv, TypeOK, Goto, world, history
  <2>2. Attached'
    BY <1>2, NoneIsNoRecord DEF Attached, Goto
  <2>3. Knows(pc, task)'
    BY <1>2 DEF Knows, Goto, world
  <2>4. Retained(task)'
    BY <1>2 DEF Retained, world
  <2>. QED BY <2>1, <2>2, <2>3, <2>4 DEF Inv
<1>. QED BY <1>1, <1>2 DEF Save

(* Or a save that ends the operation in a terminal stage. *)
LEMMA LastSaveKeeps ==
  ASSUME Inv, task # None, NEW t \in Tasks, Save(t, Release), Retained(t)
  PROVE  Inv'
<1>1. CASE Abort /\ UNCHANGED <<task, last_check, world, history>>
  BY <1>1, AbortKeeps
<1>2. CASE task' = t /\ Release /\ UNCHANGED <<last_check, world, history>>
  <2>0. pc' \in {"idle", "down"} /\ mode' = "serve" /\ failing' = NoFailure /\ queue' = queue
    BY <1>2 DEF Release
  <2>1. TypeOK'
    BY <1>2, <2>0, NoFailureType DEF Inv, TypeOK, Labels, world, history
  <2>2. Attached'
    BY <1>2, <2>0, NoneIsNoRecord DEF Attached, Preparing
  <2>3. Knows(pc, task)'
    BY <2>0 DEF Knows, Preparing, Switching, RollingBack
  <2>4. Retained(task)'
    BY <1>2 DEF Retained, world
  <2>. QED BY <2>1, <2>2, <2>3, <2>4 DEF Inv
<1>. QED BY <1>1, <1>2 DEF Save

(* A platform call of the transaction takes no reference and no backup.    *)
Harmless ==
  /\ web' \in Containers /\ env' \in Versions
  /\ refs' \in [Versions -> SUBSET Refs]
  /\ backups' \subseteq TaskIds /\ schema' \subseteq Versions
  /\ backups \subseteq backups'
  /\ \A v \in Versions : refs[v] \subseteq refs'[v]

(* What only adds to the host leaves a rollback everything it needs. *)
LEMMA HarmlessKeepsRetained ==
  ASSUME TypeOK, Harmless, task \in Tasks, task' = task, Retained(task)
  PROVE  Retained(task)'
<1>1. task.original \in Versions
  BY DEF Tasks
<1>. QED BY <1>1 DEF Retained, Harmless

(* When it returns, the operation goes on to a label whose conditions hold *)
(* after the call. *)
LEMMA CallKeeps ==
  ASSUME Inv, Harmless, task \in Tasks, UNCHANGED <<durable, history>>,
         NEW next \in Labels, Goto(next),
         next \notin {"idle", "down"}, next \in Preparing => mode = "serve",
         Knows(next, task)'
  PROVE  Inv'
<1>1. TypeOK'
  BY DEF Inv, TypeOK, Harmless, durable, history, Goto
<1>2. Attached'
  BY NoneIsNoRecord DEF Attached, durable, Goto
<1>3. Knows(pc, task)'
  BY DEF Goto
<1>4. Retained(task)'
  BY HarmlessKeepsRetained, NoneIsNoRecord DEF Inv, durable
<1>. QED BY <1>1, <1>2, <1>3, <1>4 DEF Inv

(* When it raises, _execute fails or rolls back. *)
LEMMA RaiseKeeps ==
  ASSUME Inv, Harmless, task \in Tasks, UNCHANGED <<durable, history>>,
         NEW code \in ErrorCodes, Raise(code),
         pc \in BeforeStop \cup Switching \cup {"complete_health"}
  PROVE  Inv'
<1>0. task # None /\ task' = task
  BY NoneIsNoRecord DEF durable
<1>1. /\ pc' \in {"rollback", "finish_failed"}
      /\ failing' \in Failures
      /\ pc' = "rollback" => task.stage \in PostTag /\ failing'.stage \in PostTag
      /\ UNCHANGED <<mode, queue>>
  <2>1. task.stage \in Stages
    BY DEF Tasks
  <2>2. "rolling_back" \in PostTag /\ "rolling_back" \in Stages
    BY DEF PostTag, Stages, PreTag, Terminal
  <2>3. CASE mode = "recover"
    <3>1. pc \in Switching \cup {"complete_health"}
      BY <2>3 DEF Inv, Attached, BeforeStop, Preparing
    <3>2. task.stage \in PostTag
      BY <3>1, <1>0 DEF Inv, Knows
    <3>3. /\ pc' = "rollback" /\ failing' = Failure("update_failed", task.stage, TRUE)
          /\ UNCHANGED <<mode, queue>>
      BY <2>3, Zenon DEF Raise
    <3>4. "update_failed" \in ErrorCodes /\ TRUE \in BOOLEAN
      BY DEF ErrorCodes
    <3>5. failing' \in Failures /\ failing'.stage = task.stage
      BY <2>1, <3>3, <3>4, FailureFields, Zenon
    <3>. QED BY <3>2, <3>3, <3>5, Zenon
  <2>4. CASE mode # "recover" /\ pc \in BeforeStop
    BY <2>1, <2>4, FailureFields DEF Raise
  <2>5. CASE mode # "recover" /\ pc \notin BeforeStop
    <3>1. task.stage \in PostTag
      BY <2>5, <1>0 DEF Inv, Knows
    <3>2. (task.stage = "persisting_version") \in BOOLEAN
      OBVIOUS
    <3>3. failing' = Failure(code, "rolling_back", task.stage = "persisting_version")
          /\ pc' = "rollback" /\ UNCHANGED <<mode, queue>>
      BY <2>5 DEF Raise
    <3>4. failing' \in Failures /\ failing'.stage = "rolling_back"
      BY <3>2, <3>3, <2>2, FailureFields
    <3>. QED BY <3>1, <3>3, <3>4, <2>2
  <2>. QED BY <2>3, <2>4, <2>5
<1>2. TypeOK'
  BY <1>1 DEF Inv, TypeOK, Harmless, durable, history, Labels
<1>3. Attached'
  BY <1>0, <1>1 DEF Attached, Preparing
<1>4. Knows(pc, task)'
  BY <1>0, <1>1 DEF Knows, Preparing, Switching, RollingBack
<1>5. Retained(task)'
  BY <1>0, HarmlessKeepsRetained DEF Inv
<1>. QED BY <1>2, <1>3, <1>4, <1>5 DEF Inv

(* No method but cleanup_original_step takes anything away. *)
LEMMA MethodsAreHarmless ==
  ASSUME TypeOK, NEW ok \in BOOLEAN, NEW id \in TaskIds, NEW v \in Versions
  PROVE  /\ CreateBackup(id, ok) => Harmless
         /\ VerifyTarget(v, ok) => Harmless
         /\ TagRollback(id, v, ok) => Harmless
         /\ StopWeb(ok) => Harmless
         /\ MigrateTarget(v, ok) => Harmless
         /\ StartTarget(v, ok) => Harmless
         /\ StartRollback(id, v, ok) => Harmless
         /\ Health(v, ok) => Harmless
         /\ PersistVersion(v, ok) => Harmless
<1> USE DEF TypeOK
<1>1. ASSUME UNCHANGED <<web, env, refs, schema>>, backups \subseteq backups', backups' \subseteq TaskIds
      PROVE  Harmless
  BY <1>1 DEF Harmless
<1>2. ASSUME UNCHANGED <<web, env, backups, schema>>, NEW ref \in Refs,
             refs' \in {refs, [refs EXCEPT ![v] = @ \cup {ref}]}
      PROVE  Harmless
  BY <1>2 DEF Harmless
<1>3. ASSUME UNCHANGED <<env, refs, backups, schema>>, web' \in Containers
      PROVE  Harmless
  BY <1>3 DEF Harmless
<1>4. CreateBackup(id, ok) => Harmless
  BY <1>1 DEF CreateBackup
<1>5. VerifyTarget(v, ok) => Harmless
  BY <1>2 DEF VerifyTarget, Refs
<1>6. TagRollback(id, v, ok) => Harmless
  BY <1>2 DEF TagRollback, Refs
<1>7. StopWeb(ok) => Harmless
  <2>1. [web EXCEPT !.running = FALSE] \in Containers
    BY Zenon DEF Containers
  <2>. QED BY <1>3, <2>1 DEF StopWeb
<1>8. MigrateTarget(v, ok) => Harmless
  BY DEF MigrateTarget, Harmless
<1>9. ComposeUp(v, ok) => Harmless
  <2>1. /\ [image |-> v, running |-> TRUE] \in Containers
        /\ [image |-> None, running |-> FALSE] \in Containers
    BY Zenon DEF Containers
  <2>2. [image : {v}, running : BOOLEAN] \subseteq Containers
    BY DEF Containers
  <2>. QED BY <1>3, <2>1, <2>2 DEF ComposeUp
<1>10. StartTarget(v, ok) => Harmless
  BY <1>9 DEF StartTarget
<1>11. UNCHANGED world => Harmless
  BY DEF Harmless, world
<1>12. StartRollback(id, v, ok) => Harmless
  BY <1>9, <1>11 DEF StartRollback
<1>13. Health(v, ok) => Harmless
  BY <1>11 DEF Health
<1>14. PersistVersion(v, ok) => Harmless
  BY DEF PersistVersion, Harmless
<1>. QED BY <1>4, <1>5, <1>6, <1>7, <1>8, <1>10, <1>12, <1>13, <1>14

-----------------------------------------------------------------------------
(* Every step keeps the invariant.                                         *)

(* The saves of _execute. *)
LEMMA CheckpointsKeep ==
  ASSUME Inv,
         Pulling \/ TargetVerified \/ StoppingWeb \/ Migrating \/ StartingWeb
           \/ CheckingHealth \/ Stabilizing \/ PersistingVersion \/ Cleaning
           \/ RecordBackups \/ SaveAlias
  PROVE  Inv'
<1>0. task \in Tasks /\ task # None
  BY DEF Inv, TypeOK, Attached, Pulling, TargetVerified, StoppingWeb, Migrating, StartingWeb,
         CheckingHealth, Stabilizing, PersistingVersion, Cleaning, RecordBackups, SaveAlias
<1>1. CASE Pulling
  <2> DEFINE t == [task EXCEPT !.stage = "pulling"]
  <2>1. t \in Tasks /\ t.stage = "pulling" /\ Keeps(t, task)
    BY <1>0, StageSaved DEF Stages, PreTag, TargetCompletion
  <2>2. Knows("verify_target", t) /\ Retained(t)
    BY <1>0, <1>1, <2>1 DEF Pulling, Inv, Knows, Retained, Keeps, PostTag, PreTag, Terminal,
       Stages, TargetCompletion, Preparing, Switching, RollingBack
  <2>. QED BY <1>0, <1>1, <2>1, <2>2, SaveKeeps DEF Pulling, Checkpoint, Inv, Attached, Labels, Preparing
<1>2. CASE TargetVerified
  <2> DEFINE t == [task EXCEPT !.stage = "pulling"]
  <2>1. t \in Tasks /\ t.stage = "pulling" /\ Keeps(t, task)
    BY <1>0, StageSaved DEF Stages, PreTag, TargetCompletion
  <2>2. Knows("tag_rollback", t) /\ Retained(t)
    BY <1>0, <1>2, <2>1 DEF TargetVerified, Inv, Knows, Retained, Keeps, PostTag, PreTag, Terminal,
       Stages, TargetCompletion, Preparing, Switching, RollingBack
  <2>. QED BY <1>0, <1>2, <2>1, <2>2, SaveKeeps DEF TargetVerified, Checkpoint, Inv, Attached, Labels, Preparing
<1>3. CASE StoppingWeb
  <2> DEFINE t == [task EXCEPT !.stage = "stopping_web"]
  <2>1. t \in Tasks /\ t.stage = "stopping_web" /\ Keeps(t, task)
    BY <1>0, StageSaved DEF Stages, PreTag, TargetCompletion
  <2>2. Knows("stop_web", t) /\ Retained(t)
    BY <1>0, <1>3, <2>1 DEF StoppingWeb, Inv, Knows, Retained, Keeps, PostTag, PreTag, Terminal,
       Stages, TargetCompletion, Preparing, Switching, RollingBack
  <2>. QED BY <1>0, <1>3, <2>1, <2>2, SaveKeeps DEF StoppingWeb, Checkpoint, Inv, Attached, Labels, Preparing
<1>4. CASE Migrating
  <2> DEFINE t == [task EXCEPT !.stage = "migrating"]
  <2>1. t \in Tasks /\ t.stage = "migrating" /\ Keeps(t, task)
    BY <1>0, StageSaved DEF Stages, PreTag, TargetCompletion
  <2>2. Knows("migrate_target", t) /\ Retained(t)
    BY <1>0, <1>4, <2>1 DEF Migrating, Inv, Knows, Retained, Keeps, PostTag, PreTag, Terminal,
       Stages, TargetCompletion, Preparing, Switching, RollingBack
  <2>. QED BY <1>0, <1>4, <2>1, <2>2, SaveKeeps DEF Migrating, Checkpoint, Inv, Attached, Labels, Preparing
<1>5. CASE StartingWeb
  <2> DEFINE t == [task EXCEPT !.stage = "starting_web"]
  <2>1. t \in Tasks /\ t.stage = "starting_web" /\ Keeps(t, task)
    BY <1>0, StageSaved DEF Stages, PreTag, TargetCompletion
  <2>2. Knows("start_target", t) /\ Retained(t)
    BY <1>0, <1>5, <2>1 DEF StartingWeb, Inv, Knows, Retained, Keeps, PostTag, PreTag, Terminal,
       Stages, TargetCompletion, Preparing, Switching, RollingBack
  <2>. QED BY <1>0, <1>5, <2>1, <2>2, SaveKeeps DEF StartingWeb, Checkpoint, Inv, Attached, Labels, Preparing
<1>6. CASE CheckingHealth
  <2> DEFINE t == [task EXCEPT !.stage = "checking_health"]
  <2>1. t \in Tasks /\ t.stage = "checking_health" /\ Keeps(t, task)
    BY <1>0, StageSaved DEF Stages, PreTag, TargetCompletion
  <2>2. Knows("wait_health", t) /\ Retained(t)
    BY <1>0, <1>6, <2>1 DEF CheckingHealth, Inv, Knows, Retained, Keeps, PostTag, PreTag, Terminal,
       Stages, TargetCompletion, Preparing, Switching, RollingBack
  <2>. QED BY <1>0, <1>6, <2>1, <2>2, SaveKeeps DEF CheckingHealth, Checkpoint, Inv, Attached, Labels, Preparing
<1>7. CASE Stabilizing
  <2> DEFINE t == [task EXCEPT !.stage = "stabilizing"]
  <2>1. t \in Tasks /\ t.stage = "stabilizing" /\ Keeps(t, task)
    BY <1>0, StageSaved DEF Stages, PreTag, TargetCompletion
  <2>2. Knows("stabilize", t) /\ Retained(t)
    BY <1>0, <1>7, <2>1 DEF Stabilizing, Inv, Knows, Retained, Keeps, PostTag, PreTag, Terminal,
       Stages, TargetCompletion, Preparing, Switching, RollingBack
  <2>. QED BY <1>0, <1>7, <2>1, <2>2, SaveKeeps DEF Stabilizing, Checkpoint, Inv, Attached, Labels, Preparing
<1>8. CASE PersistingVersion
  <2> DEFINE t == [task EXCEPT !.stage = "persisting_version"]
  <2>1. t \in Tasks /\ t.stage = "persisting_version" /\ Keeps(t, task)
    BY <1>0, StageSaved DEF Stages, PreTag, TargetCompletion
  <2>2. Knows("persist_version", t) /\ Retained(t)
    BY <1>0, <1>8, <2>1 DEF PersistingVersion, Inv, Knows, Retained, Keeps, PostTag, PreTag, Terminal,
       Stages, TargetCompletion, Preparing, Switching, RollingBack
  <2>. QED BY <1>0, <1>8, <2>1, <2>2, SaveKeeps DEF PersistingVersion, Checkpoint, Inv, Attached, Labels, Preparing
<1>9. CASE Cleaning
  <2> DEFINE t == [task EXCEPT !.stage = "cleaning"]
  <2>1. t \in Tasks /\ t.stage = "cleaning" /\ Keeps(t, task)
    BY <1>0, StageSaved DEF Stages, PreTag, TargetCompletion
  <2>2. Knows("cleanup", t) /\ Retained(t)
    BY <1>0, <1>9, <2>1 DEF Cleaning, Inv, Knows, Retained, Keeps, PostTag, PreTag, Terminal,
       Stages, TargetCompletion, Preparing, Switching, RollingBack
  <2>. QED BY <1>0, <1>9, <2>1, <2>2, SaveKeeps DEF Cleaning, Checkpoint, Inv, Attached, Labels, Preparing
<1>10. CASE RecordBackups
  <2> DEFINE t == [task EXCEPT !.backups = TRUE]
  <2>1. /\ t \in Tasks /\ t.backups
        /\ t.stage = task.stage /\ t.id = task.id /\ t.original = task.original
        /\ t.alias = task.alias
    BY <1>0, BackupsSaved
  <2>2. Knows("pulling", t) /\ Retained(t)
    BY <1>0, <1>10, <2>1 DEF RecordBackups, Inv, Knows, Retained, PostTag, Preparing, Switching, RollingBack
  <2> HIDE DEF t
  <2>. QED BY <1>0, <1>10, <2>1, <2>2, SaveKeeps DEF t, RecordBackups, Inv, Attached, Labels, Preparing
<1>11. CASE SaveAlias
  <2> DEFINE t == [task EXCEPT !.alias = TRUE]
  <2>1. /\ t \in Tasks /\ t.alias
        /\ t.stage = task.stage /\ t.id = task.id /\ t.original = task.original
        /\ t.backups = task.backups
    BY <1>0, AliasSaved
  <2>2. Knows("stopping_web", t) /\ Retained(t)
    BY <1>0, <1>11, <2>1 DEF SaveAlias, Inv, Knows, Retained, PostTag, Preparing, Switching, RollingBack
  <2> HIDE DEF t
  <2>. QED BY <1>0, <1>11, <2>1, <2>2, SaveKeeps DEF t, SaveAlias, Inv, Attached, Labels, Preparing
<1>. QED BY <1>1, <1>2, <1>3, <1>4, <1>5, <1>6, <1>7, <1>8, <1>9, <1>10, <1>11

(* The platform calls of _execute and of _complete_recovered_target. *)
LEMMA CallsKeep ==
  ASSUME Inv,
         CreateBackupStep \/ VerifyTargetStep \/ TagRollbackStep \/ StopWebStep
           \/ MigrateTargetStep \/ StartTargetStep \/ WaitHealth \/ Stabilize
           \/ PersistVersionStep \/ CompleteHealth
  PROVE  Inv'
<1>0. task \in Tasks /\ task # None /\ task.id \in TaskIds
      /\ task.original \in Versions /\ task.target \in Versions /\ task.stage \in Stages
  BY DEF Inv, TypeOK, Attached, CreateBackupStep, VerifyTargetStep, TagRollbackStep, StopWebStep,
         MigrateTargetStep, StartTargetStep, WaitHealth, Stabilize, PersistVersionStep,
         CompleteHealth, Call, Tasks
<1>a. pc \in BeforeStop \cup Switching \cup {"complete_health"}
  BY DEF CreateBackupStep, VerifyTargetStep, TagRollbackStep, StopWebStep, MigrateTargetStep,
         StartTargetStep, WaitHealth, Stabilize, PersistVersionStep, CompleteHealth, Call,
         BeforeStop, Switching
<1>b. UNCHANGED <<durable, history>>
  BY DEF CreateBackupStep, VerifyTargetStep, TagRollbackStep, StopWebStep, MigrateTargetStep,
         StartTargetStep, WaitHealth, Stabilize, PersistVersionStep, CompleteHealth, Call
<1>1. CASE CreateBackupStep
  <2>1. PICK ok \in BOOLEAN : CreateBackup(task.id, ok) /\ IF ok THEN Goto("record_backups") ELSE Raise("backup_failed")
    BY <1>1, Zenon DEF CreateBackupStep, Call
  <2>2. Harmless
    BY <1>0, <2>1, MethodsAreHarmless DEF Inv
  <2>3. CASE ok
    <3>1. Knows("record_backups", task)'
      BY <1>0, <1>b, <1>1, <2>1, <2>2, <2>3 DEF CreateBackupStep, Call, CreateBackup, Harmless, Inv, TypeOK, Knows,
         durable, Preparing, Switching, RollingBack
    <3>. QED BY <1>0, <1>b, <1>1, <2>1, <2>2, <2>3, <3>1, CallKeeps
         DEF CreateBackupStep, Call, Inv, Attached, Labels, Preparing
  <2>4. CASE ~ok
    BY <1>0, <1>a, <1>b, <2>1, <2>2, <2>4, RaiseKeeps DEF ErrorCodes
  <2>. QED BY <2>3, <2>4
<1>2. CASE TagRollbackStep
  <2>1. PICK ok \in BOOLEAN : TagRollback(task.id, task.original, ok) /\ IF ok THEN Goto("save_alias") ELSE Raise("update_failed")
    BY <1>2, Zenon DEF TagRollbackStep, Call
  <2>2. Harmless
    BY <1>0, <2>1, MethodsAreHarmless DEF Inv
  <2>3. CASE ok
    <3>1. Knows("save_alias", task)'
      BY <1>0, <1>b, <1>2, <2>1, <2>2, <2>3 DEF TagRollbackStep, Call, TagRollback, Harmless, Inv, TypeOK, Knows,
         durable, Preparing, Switching, RollingBack, WebIs, Identified, Outcome
    <3>. QED BY <1>0, <1>b, <1>2, <2>1, <2>2, <2>3, <3>1, CallKeeps
         DEF TagRollbackStep, Call, Inv, Attached, Labels, Preparing
  <2>4. CASE ~ok
    BY <1>0, <1>a, <1>b, <2>1, <2>2, <2>4, RaiseKeeps DEF ErrorCodes
  <2>. QED BY <2>3, <2>4
<1>3. CASE StopWebStep
  <2>1. PICK ok \in BOOLEAN : StopWeb(ok) /\ IF ok THEN Goto("migrating") ELSE Raise("update_failed")
    BY <1>3, Zenon DEF StopWebStep, Call
  <2>2. Harmless
    BY <1>0, <2>1, MethodsAreHarmless DEF Inv
  <2>3. CASE ok
    <3>1. Knows("migrating", task)'
      BY <1>0, <1>b, <1>3, <2>1, <2>2, <2>3 DEF StopWebStep, Call, StopWeb, Harmless, Inv, TypeOK, Knows,
         durable, Preparing, Switching, RollingBack
    <3>. QED BY <1>0, <1>b, <1>3, <2>1, <2>2, <2>3, <3>1, CallKeeps
         DEF StopWebStep, Call, Inv, Attached, Labels, Preparing
  <2>4. CASE ~ok
    BY <1>0, <1>a, <1>b, <2>1, <2>2, <2>4, RaiseKeeps DEF ErrorCodes
  <2>. QED BY <2>3, <2>4
<1>4. CASE MigrateTargetStep
  <2>1. PICK ok \in BOOLEAN : MigrateTarget(task.target, ok) /\ IF ok THEN Goto("starting_web") ELSE Raise("migration_failed")
    BY <1>4, Zenon DEF MigrateTargetStep, Call
  <2>2. Harmless
    BY <1>0, <2>1, MethodsAreHarmless DEF Inv
  <2>3. CASE ok
    <3>1. Knows("starting_web", task)'
      BY <1>0, <1>b, <1>4, <2>1, <2>2, <2>3 DEF MigrateTargetStep, Call, MigrateTarget, Harmless, Inv, TypeOK, Knows,
         durable, Preparing, Switching, RollingBack
    <3>. QED BY <1>0, <1>b, <1>4, <2>1, <2>2, <2>3, <3>1, CallKeeps
         DEF MigrateTargetStep, Call, Inv, Attached, Labels, Preparing
  <2>4. CASE ~ok
    BY <1>0, <1>a, <1>b, <2>1, <2>2, <2>4, RaiseKeeps DEF ErrorCodes
  <2>. QED BY <2>3, <2>4
<1>5. CASE StartTargetStep
  <2>1. PICK ok \in BOOLEAN : StartTarget(task.target, ok) /\ IF ok THEN Goto("checking_health") ELSE Raise("update_failed")
    BY <1>5, Zenon DEF StartTargetStep, Call
  <2>2. Harmless
    BY <1>0, <2>1, MethodsAreHarmless DEF Inv
  <2>3. CASE ok
    <3>1. Knows("checking_health", task)'
      BY <1>0, <1>b, <1>5, <2>1, <2>2, <2>3 DEF StartTargetStep, Call, StartTarget, Harmless, Inv, TypeOK, Knows,
         durable, Preparing, Switching, RollingBack
    <3>. QED BY <1>0, <1>b, <1>5, <2>1, <2>2, <2>3, <3>1, CallKeeps
         DEF StartTargetStep, Call, Inv, Attached, Labels, Preparing
  <2>4. CASE ~ok
    BY <1>0, <1>a, <1>b, <2>1, <2>2, <2>4, RaiseKeeps DEF ErrorCodes
  <2>. QED BY <2>3, <2>4
<1>6. CASE WaitHealth
  <2>1. PICK ok \in BOOLEAN : Health(task.target, ok) /\ IF ok THEN Goto("stabilizing") ELSE Raise("health_check_failed")
    BY <1>6, Zenon DEF WaitHealth, Call
  <2>2. Harmless
    BY <1>0, <2>1, MethodsAreHarmless DEF Inv
  <2>3. CASE ok
    <3>1. Knows("stabilizing", task)'
      BY <1>0, <1>b, <1>6, <2>1, <2>2, <2>3 DEF WaitHealth, Call, Health, Harmless, Inv, TypeOK, Knows,
         durable, Preparing, Switching, RollingBack
    <3>. QED BY <1>0, <1>b, <1>6, <2>1, <2>2, <2>3, <3>1, CallKeeps
         DEF WaitHealth, Call, Inv, Attached, Labels, Preparing
  <2>4. CASE ~ok
    BY <1>0, <1>a, <1>b, <2>1, <2>2, <2>4, RaiseKeeps DEF ErrorCodes
  <2>. QED BY <2>3, <2>4
<1>7. CASE Stabilize
  <2>1. PICK ok \in BOOLEAN : Health(task.target, ok) /\ IF ok THEN Goto("persisting_version") ELSE Raise("health_check_failed")
    BY <1>7, Zenon DEF Stabilize, Call
  <2>2. Harmless
    BY <1>0, <2>1, MethodsAreHarmless DEF Inv
  <2>3. CASE ok
    <3>1. Knows("persisting_version", task)'
      BY <1>0, <1>b, <1>7, <2>1, <2>2, <2>3 DEF Stabilize, Call, Health, Harmless, Inv, TypeOK, Knows,
         durable, Preparing, Switching, RollingBack
    <3>. QED BY <1>0, <1>b, <1>7, <2>1, <2>2, <2>3, <3>1, CallKeeps
         DEF Stabilize, Call, Inv, Attached, Labels, Preparing
  <2>4. CASE ~ok
    BY <1>0, <1>a, <1>b, <2>1, <2>2, <2>4, RaiseKeeps DEF ErrorCodes
  <2>. QED BY <2>3, <2>4
<1>8. CASE PersistVersionStep
  <2>1. PICK ok \in BOOLEAN : PersistVersion(task.target, ok) /\ IF ok THEN Goto("cleaning") ELSE Raise("update_failed")
    BY <1>8, Zenon DEF PersistVersionStep, Call
  <2>2. Harmless
    BY <1>0, <2>1, MethodsAreHarmless DEF Inv
  <2>3. CASE ok
    <3>1. Knows("cleaning", task)'
      BY <1>0, <1>b, <1>8, <2>1, <2>2, <2>3 DEF PersistVersionStep, Call, PersistVersion, Harmless, Inv, TypeOK, Knows,
         durable, Preparing, Switching, RollingBack
    <3>. QED BY <1>0, <1>b, <1>8, <2>1, <2>2, <2>3, <3>1, CallKeeps
         DEF PersistVersionStep, Call, Inv, Attached, Labels, Preparing
  <2>4. CASE ~ok
    BY <1>0, <1>a, <1>b, <2>1, <2>2, <2>4, RaiseKeeps DEF ErrorCodes
  <2>. QED BY <2>3, <2>4
<1>9. CASE VerifyTargetStep
  <2>1. PICK code \in {"pull_failed", "update_failed"}, ok \in BOOLEAN :
          VerifyTarget(task.target, ok) /\ IF ok THEN Goto("pulled") ELSE Raise(code)
    BY <1>9, Zenon DEF VerifyTargetStep, Call
  <2>2. Harmless
    BY <1>0, <2>1, MethodsAreHarmless DEF Inv
  <2>3. CASE ok
    <3>1. Knows("pulled", task)'
      BY <1>0, <1>b, <1>9, <2>1, <2>2, <2>3 DEF VerifyTargetStep, Call, VerifyTarget, Harmless,
         Inv, TypeOK, Knows, durable, Preparing, Switching, RollingBack
    <3>. QED BY <1>0, <1>b, <1>9, <2>1, <2>2, <2>3, <3>1, CallKeeps
         DEF VerifyTargetStep, Call, Inv, Attached, Labels, Preparing
  <2>4. CASE ~ok
    BY <1>0, <1>a, <1>b, <2>1, <2>2, <2>4, RaiseKeeps DEF ErrorCodes
  <2>. QED BY <2>3, <2>4
<1>10. CASE CompleteHealth
  <2>1. PICK ok \in BOOLEAN :
          /\ Health(task.target, ok)
          /\ IF ok
             THEN \E next \in {"persist_version", "cleanup"} : Goto(next)
             ELSE Raise("update_failed")
    BY <1>10, Zenon DEF CompleteHealth, Call
  <2>2. Harmless
    BY <1>0, <2>1, MethodsAreHarmless DEF Inv
  <2>3. CASE ok
    <3>1. PICK next \in {"persist_version", "cleanup"} : Goto(next)
      BY <2>1, <2>3
    <3>2. Knows(next, task)'
      BY <1>0, <1>b, <1>10, <3>1 DEF CompleteHealth, Call, Inv, Knows,
         durable, Preparing, Switching, RollingBack
    <3>. QED BY <1>0, <1>b, <2>2, <3>1, <3>2, CallKeeps DEF Labels, Preparing
  <2>4. CASE ~ok
    BY <1>0, <1>a, <1>b, <2>1, <2>2, <2>4, RaiseKeeps DEF ErrorCodes
  <2>. QED BY <2>3, <2>4
<1>. QED BY <1>1, <1>2, <1>3, <1>4, <1>5, <1>6, <1>7, <1>8, <1>9, <1>10

(* The rollback, and the two ways in which a task fails. *)
LEMMA RollBackKeeps ==
  ASSUME Inv, RollBack \/ PreTagHealth
  PROVE  Inv'
<1>0. task \in Tasks /\ task # None /\ task.id \in TaskIds
      /\ task.original \in Versions /\ task.stage \in Stages /\ failing \in Failures
  BY DEF Inv, TypeOK, Attached, RollBack, Rollback, StartRollbackStep, RollbackHealth,
         RestoreVersion, FinishFailed, FinishManual, PreTagHealth, RollbackCall, Tasks
<1>a. failing.stage \in Stages /\ failing.code \in ErrorCodes
  BY <1>0 DEF Failures
<1>1. CASE Rollback
  <2> DEFINE t == [task EXCEPT !.stage = failing.stage, !.error_code = failing.code]
  <2>1. t \in Tasks /\ t.stage = failing.stage /\ Keeps(t, task)
    BY <1>0, <1>a, FailureSaved
  <2>2. Knows("start_rollback", t) /\ Retained(t)
    BY <1>0, <1>1, <2>1 DEF Rollback, Inv, Knows, Retained, Keeps, Preparing, Switching, RollingBack
  <2> HIDE DEF t
  <2>. QED BY <1>0, <1>1, <2>1, <2>2, SaveKeeps DEF t, Rollback, Labels, Preparing
<1>2. ASSUME NEW next \in {"rollback_health", "finish_manual", "restore_version",
                           "finish_rolled_back", "finish_failed"},
             Harmless, Goto(next), UNCHANGED <<durable, history>>,
             next \in RollingBack => pc \in RollingBack
      PROVE  Inv'
  <2>1. Knows(next, task)'
    BY <1>0, <1>2 DEF Inv, Knows, durable, Goto, Preparing, Switching, RollingBack
  <2>. QED BY <1>0, <1>2, <2>1, CallKeeps DEF Labels, Preparing
<1>3. CASE StartRollbackStep
  <2>1. PICK ok \in BOOLEAN : StartRollback(task.id, task.original, ok)
                              /\ Goto(IF ok THEN "rollback_health" ELSE "finish_manual")
    BY <1>3, Zenon DEF StartRollbackStep, RollbackCall
  <2>2. Harmless
    BY <1>0, <2>1, MethodsAreHarmless DEF Inv
  <2>. QED BY <1>2, <1>3, <2>1, <2>2 DEF StartRollbackStep, RollbackCall, RollingBack
<1>4. CASE RollbackHealth
  <2>1. PICK ok \in BOOLEAN :
          /\ Health(task.original, ok)
          /\ \E next \in {"restore_version", "finish_rolled_back", "finish_manual"} : Goto(next)
    BY <1>4, Zenon DEF RollbackHealth, RollbackCall
  <2>2. Harmless
    BY <1>0, <2>1, MethodsAreHarmless DEF Inv
  <2>. QED BY <1>2, <1>4, <2>1, <2>2 DEF RollbackHealth, RollbackCall, RollingBack
<1>5. CASE RestoreVersion
  <2>1. PICK ok \in BOOLEAN : PersistVersion(task.original, ok)
                              /\ Goto(IF ok THEN "finish_rolled_back" ELSE "finish_manual")
    BY <1>5, Zenon DEF RestoreVersion, RollbackCall
  <2>2. Harmless
    BY <1>0, <2>1, MethodsAreHarmless DEF Inv
  <2>. QED BY <1>2, <1>5, <2>1, <2>2 DEF RestoreVersion, RollbackCall, RollingBack
<1>6. CASE PreTagHealth
  <2>1. PICK ok \in BOOLEAN : Health(task.original, ok)
                              /\ Goto(IF ok THEN "finish_failed" ELSE "finish_manual")
    BY <1>6, Zenon DEF PreTagHealth, RollbackCall
  <2>2. Harmless
    BY <1>0, <2>1, MethodsAreHarmless DEF Inv
  <2>. QED BY <1>2, <1>6, <2>1, <2>2 DEF PreTagHealth, RollbackCall, RollingBack
<1>7. CASE FinishFailed
  <2>1. ASSUME NEW code \in ErrorCodes, NEW undone \in BOOLEAN,
               Save([task EXCEPT !.stage = "failed", !.error_code = code,
                                 !.rolled_back = undone], Release)
        PROVE  Inv'
    <3> DEFINE t == [task EXCEPT !.stage = "failed", !.error_code = code, !.rolled_back = undone]
    <3>1. "failed" \in Stages /\ "failed" \notin PostTag
      BY DEF Stages, PostTag, Terminal
    <3>2. t \in Tasks
      BY <1>0, <3>1, EndSaved, Zenon
    <3>3. t.stage = "failed"
      BY <1>0, Zenon DEF Tasks
    <3>4. Save(t, Release)
      BY <2>1
    <3> HIDE DEF t
    <3>. QED BY <1>0, <3>1, <3>2, <3>3, <3>4, LastSaveKeeps DEF Retained
  <2>. QED BY <1>7, <1>a, <2>1, Zenon DEF FinishFailed
<1>8. CASE FinishManual
  <2> DEFINE t == [task EXCEPT !.stage = "manual_intervention", !.error_code = "rollback_failed"]
  <2>1. t \in Tasks /\ t.stage = "manual_intervention" /\ "manual_intervention" \notin PostTag
    BY <1>0, FailureSaved DEF Stages, PostTag, Terminal, ErrorCodes
  <2> HIDE DEF t
  <2>. QED BY <1>0, <1>8, <2>1, LastSaveKeeps DEF t, FinishManual, Retained
<1>. QED BY <1>1, <1>3, <1>4, <1>5, <1>6, <1>7, <1>8 DEF RollBack

(* The steps of the journal come one after another. *)
LEMMA FirstStepFirst ==
  ASSUME NEW step \in CleanupSteps, CurrentStep(step)
  PROVE  step = "version_tag" \/ task.journal["version_tag"] = "completed"
  BY DEF CurrentStep, JournalOrder

(* Settling the cleanup. *)
LEMMA SettledKeeps ==
  ASSUME NEW t \in Tasks
  PROVE  Settled(t) \in Tasks /\ Settled(t).stage = t.stage /\ Keeps(Settled(t), t)
  BY CleanupSaved DEF Settled

(* The cleanup of the original image, and the commit. *)
LEMMA CleanUpKeeps ==
  ASSUME Inv, CleanUp
  PROVE  Inv'
<1>0. task \in Tasks /\ task # None /\ task.id \in TaskIds
      /\ task.original \in Versions /\ task.target \in Versions
  BY DEF Inv, TypeOK, Attached, CleanUp, MarkPending, CleanupDone, CommitSuccess,
         ManualCleanupOver, StartStep, RemoveStep, CompleteStep, Tasks, Preparing
<1>1. CASE MarkPending
  <2> DEFINE t == [task EXCEPT !.cleanup = "pending"]
  <2>1. t \in Tasks /\ t.stage = task.stage /\ Keeps(t, task)
    BY <1>0, CleanupSaved
  <2>2. Knows("cleanup", t) /\ Retained(t)
    BY <1>0, <2>1 DEF Inv, Knows, Retained, Keeps, Preparing, Switching, RollingBack
  <2> HIDE DEF t
  <2>. QED BY <1>0, <1>1, <2>1, <2>2, SaveKeeps DEF t, MarkPending, Labels, Preparing
<1>2. ASSUME NEW next \in {"cleanup_over", "cleanup_step"}, Goto(next),
             UNCHANGED <<world, durable, history>>, Knows(next, task)
      PROVE  Inv'
  <2>1. TypeOK'
    BY <1>2 DEF Inv, TypeOK, world, durable, history, Goto, Labels
  <2>2. Attached'
    BY <1>0, <1>2 DEF Attached, durable, Goto, Preparing
  <2>3. Knows(pc, task)' /\ Retained(task)'
    BY <1>0, <1>2 DEF Inv, Knows, Retained, world, durable, Goto
  <2>. QED BY <2>1, <2>2, <2>3 DEF Inv
<1>3. CASE CleanupDone
  <2>1. Knows("cleanup_over", task)
    BY DEF Knows, Preparing, Switching, RollingBack
  <2>. QED BY <1>2, <1>3, <2>1 DEF CleanupDone
<1>4. ASSUME NEW step \in CleanupSteps, StartStep(step)
      PROVE  Inv'
  <2>1. step = "version_tag" \/ task.journal["version_tag"] = "completed"
    BY <1>4, FirstStepFirst DEF StartStep
  <2>2. CASE task.journal[step] = "not_started"
    <3> DEFINE t == [task EXCEPT !.journal[step] = "started"]
    <3>1. /\ t \in Tasks
          /\ t.stage = task.stage /\ t.id = task.id /\ t.original = task.original
          /\ t.alias = task.alias /\ t.backups = task.backups
          /\ t.journal = [task.journal EXCEPT ![step] = "started"]
      BY <1>0, <1>4, JournalSaved DEF StepStatuses
    <3>2. t.journal["version_tag"] # "not_started"
      BY <1>0, <1>4, <2>1, <3>1 DEF Tasks, CleanupSteps
    <3>3. Knows("cleanup_step", t) /\ Retained(t)
      BY <1>0, <3>1, <3>2 DEF Inv, Knows, Retained, Preparing, Switching, RollingBack
    <3>4. Save(t, Goto("cleanup_step"))
      BY <1>4, <2>2, Zenon DEF StartStep
    <3> HIDE DEF t
    <3>. QED BY <1>0, <3>1, <3>3, <3>4, SaveKeeps DEF Labels, Preparing
  <2>3. CASE task.journal[step] # "not_started"
    <3>1. Knows("cleanup_step", task)
      BY <2>1, <2>3 DEF Knows, Preparing, Switching, RollingBack
    <3>. QED BY <1>2, <1>4, <2>3, <3>1 DEF StartStep
  <2>. QED BY <2>2, <2>3
<1>5. ASSUME NEW step \in CleanupSteps, RemoveStep(step)
      PROVE  Inv'
  <2>0. PICK next \in {"step_done", "cleanup_over"} : Goto(next)
    BY <1>5 DEF RemoveStep
  <2>1. /\ refs' \in [Versions -> SUBSET Refs]
        /\ UNCHANGED <<web, env, backups, schema>>
    <3>1. PICK ok \in BOOLEAN : CleanupOriginalStep(step, task.journal[step], task.id,
                                                   task.original, task.target, ok)
      BY <1>5, Zenon DEF RemoveStep
    <3>2. Removed(step, task.id, task.original) \subseteq [Versions -> SUBSET Refs]
      BY <1>0 DEF Removed, CleanupSteps, Inv, TypeOK
    <3>. QED BY <3>1, <3>2 DEF CleanupOriginalStep, Inv, TypeOK
  <2>2. UNCHANGED <<durable, history>>
    BY <1>5 DEF RemoveStep
  <2>3. TypeOK'
    BY <2>0, <2>1, <2>2 DEF Inv, TypeOK, durable, history, Goto, Labels
  <2>4. Attached'
    BY <1>0, <2>0, <2>2 DEF Attached, durable, Goto, Preparing
  <2>5. Knows(pc, task)'
    BY <2>0 DEF Knows, Goto, Preparing, Switching, RollingBack
  <2>6. task.journal["version_tag"] # "not_started"
    BY <1>0, <1>5 DEF RemoveStep, Inv, Knows
  <2>7. Retained(task)'
    BY <1>0, <2>1, <2>2, <2>6 DEF Inv, Retained, durable
  <2>. QED BY <2>3, <2>4, <2>5, <2>7 DEF Inv
<1>6. ASSUME NEW step \in CleanupSteps, CompleteStep(step)
      PROVE  Inv'
  <2> DEFINE t == [task EXCEPT !.journal[step] = "completed"]
  <2>1. /\ t \in Tasks
        /\ t.stage = task.stage /\ t.id = task.id /\ t.original = task.original
        /\ t.alias = task.alias /\ t.backups = task.backups
        /\ t.journal = [task.journal EXCEPT ![step] = "completed"]
    BY <1>0, <1>6, JournalSaved DEF StepStatuses
  <2>2. t.journal["version_tag"] = "not_started" => task.journal["version_tag"] = "not_started"
    BY <1>0, <1>6, <2>1 DEF Tasks, CleanupSteps
  <2>3. Knows("cleanup", t) /\ Retained(t)
    BY <1>0, <2>1, <2>2 DEF Inv, Knows, Retained, Preparing, Switching, RollingBack
  <2>4. Save(t, Goto("cleanup"))
    BY <1>6, Zenon DEF CompleteStep
  <2> HIDE DEF t
  <2>. QED BY <1>0, <2>1, <2>3, <2>4, SaveKeeps DEF Labels, Preparing
<1>7. CASE CommitSuccess
  <2>1. CASE Abort /\ UNCHANGED <<durable, world, history>>
    BY <2>1, AbortKeeps DEF durable
  <2>2. CASE /\ task' = [Settled(task) EXCEPT !.stage = "succeeded"]
             /\ last_check' = [current |-> task.target, target |-> task.target,
                               available |-> FALSE, fresh |-> TRUE]
             /\ Release /\ UNCHANGED <<world, history>>
    <3>1. task' \in Tasks /\ task'.stage = "succeeded"
      BY <1>0, <2>2, SettledKeeps, StageSaved DEF Stages, Terminal
    <3>2. last_check' \in CheckResults
      BY <1>0, <2>2, Zenon DEF CheckResults
    <3>3. pc' \in {"idle", "down"} /\ mode' = "serve" /\ failing' = NoFailure /\ queue' = queue
      BY <2>2 DEF Release
    <3>4. TypeOK'
      BY <2>2, <3>1, <3>2, <3>3, NoFailureType DEF Inv, TypeOK, Labels, world, history
    <3>5. Attached'
      BY <3>1, <3>3, NoneIsNoRecord DEF Attached, Preparing
    <3>6. Knows(pc, task)' /\ Retained(task)'
      BY <3>1, <3>3 DEF Knows, Retained, Preparing, Switching, RollingBack, PostTag, Terminal
    <3>. QED BY <3>4, <3>5, <3>6 DEF Inv
  <2>. QED BY <1>7, <2>1, <2>2, Zenon DEF CommitSuccess
<1>8. CASE ManualCleanupOver
  <2>1. Settled(task) \in Tasks /\ Settled(task).stage = task.stage /\ Keeps(Settled(task), task)
    BY <1>0, SettledKeeps
  <2>2. Retained(Settled(task))
    BY <1>0, <2>1 DEF Inv, Retained, Keeps
  <2>. QED BY <1>0, <1>8, <2>1, <2>2, LastSaveKeeps DEF ManualCleanupOver
<1>. QED BY <1>1, <1>3, <1>4, <1>5, <1>6, <1>7, <1>8 DEF CleanUp

(* A worker takes a task. *)
LEMMA ExecuteBeginKeeps ==
  ASSUME Inv, NEW id \in TaskIds, ExecuteBegin(id)
  PROVE  Inv'
<1>0. task \in Tasks /\ task # None
  BY DEF Inv, TypeOK, Attached, ExecuteBegin
<1>1. CASE /\ task' = [task EXCEPT !.stage = "backing_up"] /\ pc' = "create_backup"
           /\ queue' = queue \ {id} /\ UNCHANGED <<last_check, mode, failing, world, history>>
  <2>1. task' \in Tasks /\ task'.stage = "backing_up"
    BY <1>0, <1>1, StageSaved DEF Stages, PreTag
  <2>2. TypeOK'
    BY <1>1, <2>1 DEF Inv, TypeOK, world, history, Labels
  <2>3. Attached'
    BY <1>1, <2>1, NoneIsNoRecord DEF Inv, Attached, Preparing, ExecuteBegin
  <2>4. Knows(pc, task)' /\ Retained(task)'
    BY <1>1, <2>1 DEF Knows, Retained, PostTag, PreTag, Preparing, Switching, RollingBack
  <2>. QED BY <2>2, <2>3, <2>4 DEF Inv
<1>2. CASE queue' = queue \ {id} /\ UNCHANGED <<task, pc, last_check, mode, failing, world, history>>
  <2>1. TypeOK'
    BY <1>2 DEF Inv, TypeOK, world, history
  <2>2. Attached'
    BY <1>0, <1>2 DEF Inv, Attached
  <2>3. Knows(pc, task)' /\ Retained(task)'
    BY <1>0, <1>2 DEF Inv, Knows, Retained, world
  <2>. QED BY <2>1, <2>2, <2>3 DEF Inv
<1>. QED BY <1>1, <1>2, Zenon DEF ExecuteBegin

(* A recovery finds where to go on, from nothing but the state file and    *)
(* the container. *)
LEMMA RecoverKeeps ==
  ASSUME Inv, Recover
  PROVE  Inv'
<1>1. ASSUME NEW next \in {"finish_manual", "complete_health", "pre_tag_health", "rollback"},
             NEW f \in Failures, Recovering(next, f), task # None, Knows(next, task)'
      PROVE  Inv'
  <2>1. TypeOK'
    BY <1>1 DEF Inv, TypeOK, Recovering, world, durable, history, Labels
  <2>2. Attached'
    BY <1>1 DEF Attached, Recovering, durable, Preparing
  <2>3. Knows(pc, task)'
    BY <1>1 DEF Recovering
  <2>4. Retained(task)'
    BY <1>1 DEF Inv, Retained, Recovering, durable, world
  <2>. QED BY <2>1, <2>2, <2>3, <2>4 DEF Inv
<1>2. ASSUME Unfinished
      PROVE  task \in Tasks /\ task # None /\ task.stage \in Stages
             /\ (task.stage \in PreTag \/ task.stage \in PostTag)
  BY <1>2 DEF Unfinished, Inv, TypeOK, Tasks, PostTag
<1>3. CASE RecoverNothing
  <2>1. TypeOK'
    BY <1>3 DEF RecoverNothing, Inv, TypeOK, world, durable, history, Labels
  <2>2. Attached'
    BY <1>3 DEF RecoverNothing, Inv, Attached, durable
  <2>3. Knows(pc, task)'
    BY <1>3 DEF RecoverNothing, Knows, Preparing, Switching, RollingBack
  <2>4. task # None => Retained(task)'
    BY <1>3 DEF RecoverNothing, Inv, Retained, durable, world
  <2>. QED BY <2>1, <2>2, <2>3, <2>4, <1>3 DEF Inv, RecoverNothing, durable
<1>4. CASE RecoverManual
  <2>1. Knows("finish_manual", task)'
    BY DEF Knows, Preparing, Switching, RollingBack
  <2>. QED BY <1>1, <1>2, <1>4, <2>1, NoFailureType DEF RecoverManual
<1>5. CASE RecoverTarget
  <2>1. task.stage \in PostTag
    BY <1>2, <1>5 DEF RecoverTarget, TargetCompletion, PreTag
  <2>2. Knows("complete_health", task)'
    BY <1>5, <2>1 DEF RecoverTarget, Recovering, durable, Knows, Preparing, Switching, RollingBack
  <2>. QED BY <1>1, <1>2, <1>5, <2>2, NoFailureType DEF RecoverTarget
<1>6. CASE RecoverPreTag
  <2>1. Knows("pre_tag_health", task)'
    BY DEF Knows, Preparing, Switching, RollingBack
  <2>2. Failure("update_failed", task.stage, FALSE) \in Failures
    BY <1>2, <1>6, FailureFields DEF RecoverPreTag, ErrorCodes
  <2>. QED BY <1>1, <1>2, <1>6, <2>1, <2>2 DEF RecoverPreTag
<1>7. CASE RecoverRollback
  <2> DEFINE restore == task.stage \in TargetCompletion \cup {"rolling_back"}
             f == Failure("update_failed", task.stage, restore)
  <2>1. task.stage \in PostTag
    BY <1>2, <1>7 DEF RecoverRollback
  <2>2. restore \in BOOLEAN
    OBVIOUS
  <2>3. Recovering("rollback", f) /\ Unfinished
    BY <1>7 DEF RecoverRollback
  <2> HIDE DEF restore
  <2>4. f \in Failures /\ f.stage = task.stage
    BY <1>2, <2>2, <2>3, FailureFields DEF ErrorCodes
  <2> HIDE DEF f
  <2>5. Knows("rollback", task)'
    BY <2>1, <2>3, <2>4 DEF Recovering, durable, Knows, Preparing, Switching, RollingBack
  <2>. QED BY <1>1, <1>2, <2>3, <2>4, <2>5
<1>8. CASE CompleteHealth
  BY <1>8, CallsKeep
<1>9. CASE PreTagHealth
  BY <1>9, RollBackKeeps
<1>. QED BY <1>3, <1>4, <1>5, <1>6, <1>7, <1>8, <1>9 DEF Recover

(* Requests replace only a task that is settled. *)
LEMMA SettledIsUnretained ==
  ASSUME MayReplace, task # None
  PROVE  Retained(task)
  BY DEF MayReplace, Retained, PostTag, Terminal

(* resolve_stable leaves the host well-formed and touches only images. *)
LEMMA PullTypes ==
  ASSUME TypeOK, NEW v \in Versions, ResolveStable(v)
  PROVE  /\ refs' \in [Versions -> SUBSET Refs]
         /\ UNCHANGED <<web, env, backups, schema>>
  BY DEF TypeOK, ResolveStable, Pulled, Refs

(* check replaces the last check, never a task. *)
LEMMA CheckKeeps ==
  ASSUME Inv, Check
  PROVE  Inv'
<1>1. PICK v \in Versions :
        /\ ResolveStable(v)
        /\ \/ last_check' = [current |-> web.image, target |-> v,
                             available |-> v > web.image, fresh |-> TRUE]
           \/ UNCHANGED last_check
  BY Zenon DEF Check
<1>2. /\ pc = "idle" /\ MayReplace /\ web.image \in Versions
      /\ UNCHANGED <<task, memory, history>>
  BY DEF Check, Inv, TypeOK, Containers, WebIdentified
<1>3. last_check' \in CheckResults \cup {None}
  <2>1. (v > web.image) \in BOOLEAN
    OBVIOUS
  <2>2. [current |-> web.image, target |-> v, available |-> v > web.image, fresh |-> TRUE] \in CheckResults
    BY <1>1, <1>2, <2>1, Zenon DEF CheckResults
  <2>3. last_check \in CheckResults \cup {None}
    BY DEF Inv, TypeOK
  <2>. QED BY <1>1, <2>2, <2>3, Zenon
<1>4. TypeOK'
  BY <1>1, <1>2, <1>3, PullTypes DEF Inv, TypeOK, memory, history
<1>5. Attached'
  BY <1>2 DEF Inv, Attached, memory
<1>6. Knows(pc, task)'
  BY <1>2 DEF memory, Knows, Preparing, Switching, RollingBack
<1>7. task # None => Retained(task)'
  BY <1>2 DEF MayReplace, Retained, PostTag, Terminal
<1>. QED BY <1>2, <1>4, <1>5, <1>6, <1>7 DEF Inv

(* A new task is one. *)
LEMMA NewTaskType ==
  ASSUME TypeOK, FreshCheck, NEW id \in TaskIds
  PROVE  NewTask(id) \in Tasks /\ NewTask(id).stage = "checking"
<1>1. last_check \in CheckResults
  BY DEF TypeOK, FreshCheck
<1>2. last_check.current \in Versions /\ last_check.target \in Versions
  BY <1>1 DEF CheckResults
<1>3. "checking" \in Stages /\ "" \in ErrorCodes /\ "not_run" \in {"not_run", "pending", "complete"}
  BY DEF Stages, PreTag, ErrorCodes
<1>4. [s \in CleanupSteps |-> "not_started"] \in [CleanupSteps -> StepStatuses]
  BY DEF StepStatuses
<1>. QED BY <1>2, <1>3, <1>4, Zenon DEF NewTask, Tasks

(* start begins with a task that has nothing to lose yet. *)
LEMMA StartKeeps ==
  ASSUME Inv, NEW id \in TaskIds, Start(id)
  PROVE  Inv'
<1>1. PICK v \in Versions :
        /\ ResolveStable(v)
        /\ \/ /\ task' = NewTask(id) /\ queue' = queue \cup {id}
              /\ base' = [env |-> env, image |-> web.image]
           \/ UNCHANGED <<task, queue, base>>
  BY Zenon DEF Start
<1>2. /\ pc = "idle" /\ MayReplace /\ FreshCheck
      /\ UNCHANGED <<last_check, pc, mode, failing, crashes>>
  BY DEF Start
<1>3. NewTask(id) \in Tasks /\ NewTask(id).stage = "checking"
  BY <1>2, NewTaskType DEF Inv
<1>4. /\ task' \in Tasks \cup {None} /\ queue' \subseteq TaskIds
      /\ base' \in [env : Versions, image : Versions \cup {None}]
  BY <1>1, <1>3 DEF Inv, TypeOK, Containers
<1>5. TypeOK'
  BY <1>1, <1>2, <1>4, PullTypes DEF Inv, TypeOK
<1>6. Attached'
  BY <1>1, <1>2, <1>3, NoneIsNoRecord DEF Inv, Attached
<1>7. Knows(pc, task)'
  BY <1>2 DEF Knows, Preparing, Switching, RollingBack
<1>8. task' # None => Retained(task)'
  BY <1>1, <1>2, <1>3 DEF MayReplace, Retained, PostTag, Terminal, PreTag
<1>. QED BY <1>5, <1>6, <1>7, <1>8 DEF Inv

(* The requests together. *)
LEMMA RequestsKeep ==
  ASSUME Inv, Requests
  PROVE  Inv'
<1>1. CASE ManualCleanup
  <2>1. /\ pc' = "cleanup" /\ mode' = "manual" /\ task # None
        /\ UNCHANGED <<queue, failing, world, durable, history>>
    BY <1>1 DEF ManualCleanup
  <2>2. TypeOK'
    BY <2>1 DEF Inv, TypeOK, world, durable, history, Labels
  <2>3. Attached'
    BY <2>1 DEF Attached, durable, Preparing
  <2>4. Knows(pc, task)' /\ Retained(task)'
    BY <2>1 DEF Inv, Knows, Retained, world, durable, Preparing, Switching, RollingBack
  <2>. QED BY <2>2, <2>3, <2>4 DEF Inv
<1>2. ASSUME NEW id \in TaskIds, StartAgain(id)
      PROVE  Inv'
  <2>1. /\ pc = "idle" /\ task # None /\ queue' = queue \cup {id}
        /\ UNCHANGED <<world, durable, pc, mode, failing, history>>
    BY <1>2 DEF StartAgain
  <2>2. TypeOK'
    BY <2>1 DEF Inv, TypeOK, world, durable, history
  <2>3. Attached'
    BY <2>1 DEF Inv, Attached, durable
  <2>4. Knows(pc, task)' /\ Retained(task)'
    BY <2>1 DEF Inv, Knows, Retained, world, durable
  <2>. QED BY <2>2, <2>3, <2>4 DEF Inv
<1>. QED BY <1>1, <1>2, CheckKeeps, StartKeeps DEF Requests

(* What happens to the updater from outside. *)
LEMMA EnvironmentKeeps ==
  ASSUME Inv, Environment
  PROVE  Inv'
<1>1. CASE Crash
  <2>1. /\ pc' = "down" /\ mode' = "serve" /\ queue' = {} /\ failing' = NoFailure
        /\ crashes' = crashes + 1 /\ UNCHANGED <<world, durable, base>>
    BY <1>1 DEF Crash
  <2>2. TypeOK'
    BY <2>1, NoFailureType DEF Inv, TypeOK, world, durable, Labels
  <2>3. Attached'
    BY <2>1 DEF Attached, Preparing
  <2>4. Knows(pc, task)'
    BY <2>1 DEF Knows, Preparing, Switching, RollingBack
  <2>5. task' # None => Retained(task)'
    BY <2>1 DEF Inv, Retained, world, durable
  <2>. QED BY <2>2, <2>3, <2>4, <2>5 DEF Inv
<1>2. CASE CheckExpires
  <2>1. UNCHANGED <<world, task, memory, history>>
    BY <1>2 DEF CheckExpires
  <2>2. last_check' \in CheckResults
    <3>1. last_check \in CheckResults
      BY <1>2 DEF CheckExpires, Inv, TypeOK
    <3>2. [last_check EXCEPT !.fresh = FALSE] \in CheckResults
      BY <3>1, Zenon DEF CheckResults
    <3>. QED BY <1>2, <3>2, Zenon DEF CheckExpires
  <2>3. TypeOK'
    BY <2>1, <2>2 DEF Inv, TypeOK, world, memory, history
  <2>4. Attached'
    BY <2>1 DEF Inv, Attached, memory
  <2>5. task' # None => Knows(pc, task)' /\ Retained(task)'
    BY <2>1 DEF Inv, Knows, Retained, world, memory
  <2>. QED BY <2>3, <2>4, <2>5 DEF Inv
<1>3. ASSUME NEW v \in Versions, Redeploy(v)
      PROVE  Inv'
  <2>1. /\ pc = "idle" /\ MayReplace /\ env' = v
        /\ refs' = [refs EXCEPT ![v] = @ \cup {"tag", "digest"}]
        /\ UNCHANGED <<backups, schema, durable, memory, history>>
    BY <1>3 DEF Redeploy
  <2>2. web' \in Containers
    BY <1>3, Zenon DEF Redeploy, Containers
  <2>3. TypeOK'
    BY <2>1, <2>2 DEF Inv, TypeOK, durable, memory, history, Refs
  <2>4. Attached'
    BY <2>1 DEF Inv, Attached, durable, memory
  <2>5. Knows(pc, task)'
    BY <2>1 DEF memory, Knows, Preparing, Switching, RollingBack
  <2>6. task' # None => Retained(task)'
    BY <2>1 DEF durable, MayReplace, Retained, PostTag, Terminal
  <2>. QED BY <2>3, <2>4, <2>5, <2>6 DEF Inv
<1>. QED BY <1>1, <1>2, <1>3 DEF Environment

-----------------------------------------------------------------------------
(* The theorems.                                                           *)

(* The manager starts with no task, on an image that it knows. *)
LEMMA InitInv == Init => Inv
<1> SUFFICES ASSUME Init PROVE Inv
  OBVIOUS
<1>1. TypeOK
  <2>1. PICK v \in Versions : /\ web = [image |-> v, running |-> TRUE] /\ env = v
                              /\ refs = [i \in Versions |-> IF i = v THEN {"tag", "digest"} ELSE {}]
    BY Zenon DEF Init
  <2>2. web \in Containers
    BY <2>1, Zenon DEF Containers
  <2>3. web.image = v
    BY <2>1, Zenon
  <2>4. base \in [env : Versions, image : Versions \cup {None}]
    BY <2>1, <2>3 DEF Init
  <2>5. refs \in [Versions -> SUBSET Refs]
    BY <2>1 DEF Refs
  <2>. QED BY <2>1, <2>2, <2>4, <2>5, NoFailureType DEF Init, TypeOK, Labels
<1>2. Attached /\ task = None
  BY DEF Init, Attached
<1>. QED BY <1>1, <1>2 DEF Inv

(* The steps of _execute together. *)
LEMMA ExecuteKeeps ==
  ASSUME Inv, Execute
  PROVE  Inv'
  BY CheckpointsKeep, CallsKeep, ExecuteBeginKeeps DEF Execute

(* The invariant is inductive. *)
LEMMA NextInv == Inv /\ [Next]_vars => Inv'
<1> SUFFICES ASSUME Inv, [Next]_vars PROVE Inv'
  OBVIOUS
<1>0. CASE CheckpointFails
  BY <1>0, AbortKeeps DEF CheckpointFails, durable
<1>1. CASE Work
  BY <1>0, <1>1, ExecuteKeeps, RollBackKeeps, CleanUpKeeps, RecoverKeeps DEF Work
<1>2. CASE Requests
  BY <1>2, RequestsKeep
<1>3. CASE Environment
  BY <1>3, EnvironmentKeeps
<1>4. CASE UNCHANGED vars
  BY <1>4 DEF vars, Inv, TypeOK, Attached, Knows, Retained, world, durable, memory, history
<1>. QED BY <1>1, <1>2, <1>3, <1>4 DEF Next

(* Inv holds in every state of every behaviour. *)
THEOREM Invariance == Spec => []Inv
<1>1. Init => Inv
  BY InitInv
<1>2. Inv /\ [Next]_vars => Inv'
  BY NextInv
<1>. QED BY <1>1, <1>2, PTL DEF Spec

(* The state file, the host and the manager always have their types: no    *)
(* operation meets a missing task, and none leaves a record the state file *)
(* could not hold. *)
THEOREM TypeCorrect == Spec => []TypeOK
<1>1. Inv => TypeOK
  BY DEF Inv
<1>. QED BY <1>1, Invariance, PTL

(* From the save before stop_web until cleanup begins, whatever fails and  *)
(* however often the updater crashes, the replaced image and the backups   *)
(* are still there to roll back to. *)
THEOREM OriginalIsRetained == Spec => []OriginalRetained
<1>1. Inv => OriginalRetained
  BY DEF Inv, Retained, OriginalRetained
<1>. QED BY <1>1, Invariance, PTL

(* Nothing but the migration step of _execute migrates. *)
LEMMA OnlyOneStepMigrates ==
  ASSUME Next
  PROVE  schema' = schema \/ MigrateTargetStep
<1> USE DEF world
<1>1. CASE Execute
  <2>1. CASE \E id \in TaskIds : ExecuteBegin(id)
    BY <2>1, Zenon DEF ExecuteBegin
  <2>2. CASE CreateBackupStep \/ VerifyTargetStep \/ TagRollbackStep \/ StopWebStep
    BY <2>2, Zenon DEF CreateBackupStep, VerifyTargetStep, TagRollbackStep, StopWebStep, Call,
       CreateBackup, VerifyTarget, TagRollback, StopWeb
  <2>3. CASE StartTargetStep \/ WaitHealth \/ Stabilize \/ PersistVersionStep
    BY <2>3, Zenon DEF StartTargetStep, WaitHealth, Stabilize, PersistVersionStep, Call,
       StartTarget, ComposeUp, Health, PersistVersion
  <2>4. CASE RecordBackups \/ Pulling \/ TargetVerified \/ SaveAlias \/ StoppingWeb \/ Migrating
             \/ StartingWeb \/ CheckingHealth \/ Stabilizing \/ PersistingVersion \/ Cleaning
    BY <2>4, Zenon DEF RecordBackups, Pulling, TargetVerified, SaveAlias, StoppingWeb, Migrating,
       StartingWeb, CheckingHealth, Stabilizing, PersistingVersion, Cleaning, Checkpoint, Save
  <2>. QED BY <1>1, <2>1, <2>2, <2>3, <2>4 DEF Execute
<1>2. CASE RollBack
  BY <1>2, Zenon DEF RollBack, Rollback, StartRollbackStep, RollbackHealth, RestoreVersion,
     FinishFailed, FinishManual, RollbackCall, Save, StartRollback, ComposeUp, Health, PersistVersion
<1>3. CASE CleanUp
  BY <1>3, Zenon DEF CleanUp, MarkPending, CleanupDone, CommitSuccess, ManualCleanupOver,
     StartStep, RemoveStep, CompleteStep, Save, CleanupOriginalStep
<1>4. CASE Recover
  BY <1>4, Zenon DEF Recover, RecoverNothing, RecoverManual, RecoverTarget, CompleteHealth,
     RecoverPreTag, PreTagHealth, RecoverRollback, Recovering, RollbackCall, Call, Health
<1>5. CASE Requests
  BY <1>5, Zenon DEF Requests, Check, ManualCleanup, Start, StartAgain, ResolveStable
<1>6. CASE Environment
  BY <1>6, Zenon DEF Environment, Crash, CheckExpires, Redeploy
<1>7. CASE CheckpointFails
  BY <1>7, Zenon DEF CheckpointFails
<1>. QED BY <1>1, <1>2, <1>3, <1>4, <1>5, <1>6, <1>7 DEF Next, Work

(* Migrations reach the database only while Web is stopped and the task's  *)
(* own backups are on disk and recorded. *)
THEOREM GuardedMigrations == Spec => MigrationsAreGuarded
<1>1. ASSUME Inv, [Next]_vars
      PROVE  [schema' # schema => /\ ~web.running
                                  /\ task.backups /\ task.id \in backups]_vars
  <2> SUFFICES ASSUME Next, schema' # schema
               PROVE  ~web.running /\ task.backups /\ task.id \in backups
    BY <1>1 DEF vars, world
  <2>1. pc = "migrate_target"
    BY OnlyOneStepMigrates DEF MigrateTargetStep, Call
  <2>2. task # None /\ ~web.running /\ task.stage \in PostTag
    BY <1>1, <2>1 DEF Inv, Attached, Knows, Switching
  <2>. QED BY <1>1, <2>2 DEF Inv, Retained
<1>. QED BY <1>1, Invariance, PTL DEF Spec, MigrationsAreGuarded
=============================================================================
