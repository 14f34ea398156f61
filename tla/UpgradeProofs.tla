----------------------------- MODULE UpgradeProofs -----------------------------
(***************************************************************************)
(* An update is all or nothing: UpdateManager implements Upgrade, reports  *)
(* truthfully how a task ended, and removes an image only when the target  *)
(* has replaced it, having journaled the removal.  For any versions, task  *)
(* ids and faults and any number of crashes.                               *)
(***************************************************************************)
EXTENDS UpdateManagerProofs

CleaningUp == {"cleanup", "cleanup_step", "step_done", "cleanup_over"}
SwitchStages == {"stopping_web", "migrating", "starting_web", "checking_health", "stabilizing"}
Running(v) == [image |-> v, running |-> TRUE]

(* Which stage the state file shows when the manager is at a label, and    *)
(* what is left to a manual cleanup.                                       *)
Course(label, m, t) ==
  /\ m = "manual" => label \in CleaningUp /\ t.stage = "succeeded" /\ t.cleanup # "complete"
  /\ m # "manual" /\ label \notin {"idle", "down"} => t.stage \notin Terminal
  /\ label \in {"finish_failed", "pre_tag_health"} => t.stage \in PreTag
  /\ label \in Switching \ {"persist_version", "cleaning"} => t.stage \in SwitchStages
  /\ label \in {"persist_version", "cleaning"} => t.stage = "persisting_version"
  /\ label = "complete_health" => t.stage \in TargetCompletion /\ m = "recover"
  /\ label \in CleaningUp /\ m # "manual" => t.stage = "cleaning"
  /\ label = "finish_rolled_back" => t.stage \in PostTag
  /\ label \in RollingBack => failing.stage \in {t.stage, "rolling_back"}

(* On which side Web and .env are at a stage: untouched before stop_web,   *)
(* on either side after it.                                                *)
Anywhere(t) ==
  /\ t.stage \in PreTag => web = Running(base.image) /\ env = base.env
  /\ t.stage \in PostTag => /\ base.image = t.original
                            /\ env \in {t.original, t.target}
                            /\ web.image \in {t.original, t.target, None}
  /\ t.stage \in SwitchStages => env = t.original
  /\ t.stage = "cleaning" /\ web.image = t.target => env = t.target
  /\ t.stage = "succeeded" => Identified(t.target)

(* And at a label: back where they were when a rollback is over, and on    *)
(* the target when its image may be the only one that is left.             *)
Here(label, m, t) ==
  /\ label \in {"save_alias", "stopping_web"} => base.image = t.original
  /\ label \in RollingBack /\ ~failing.restore => env = t.original
  /\ label \in {"restore_version", "finish_rolled_back"} => web = Running(t.original)
  /\ label = "finish_rolled_back" => env = t.original
  /\ label \in {"persisting_version", "persist_version", "cleaning"} => web = Running(t.target)
  /\ label = "cleaning" => env = t.target
  /\ label \in CleaningUp /\ m # "manual" => web = Running(t.target) /\ env = t.target
  /\ label \in {"persisting_version", "persist_version", "cleaning"} \cup CleaningUp =>
       Identified(t.target)

(* _reject_active_task lets a settled task be replaced.                    *)
Replaceable(t) == t.stage = "failed" \/ (t.stage = "succeeded" /\ t.cleanup = "complete")

(* JournalIsWrittenAhead, of task t.                                       *)
WrittenAhead(t) ==
  LET left == refs[t.original] IN
  /\ "tag" \notin left => t.journal["version_tag"] # "not_started"
  /\ t.id \notin left => t.journal["rollback_alias"] # "not_started"
  /\ t.journal["version_tag"] = "completed" => "tag" \notin left
  /\ t.journal["rollback_alias"] = "completed" => t.id \notin left
  /\ t.journal["image_id"] = "completed" => left = {}

(* What a removal has left when it is still to be journaled.               *)
Removal(t) ==
  LET left == refs[t.original] IN
  /\ t.journal["version_tag"] # "completed" => "tag" \notin left
  /\ t.journal["version_tag"] = "completed" /\ t.journal["rollback_alias"] # "completed" =>
       t.id \notin left
  /\ t.journal["version_tag"] = "completed" /\ t.journal["rollback_alias"] = "completed" =>
       left = {}

Journaled(label, t) ==
  /\ t.stage \in PreTag => \A step \in CleanupSteps : t.journal[step] = "not_started"
  /\ t.alias /\ ~Replaceable(t) => WrittenAhead(t)
  /\ label = "step_done" => Removal(t)

(* An update leads from one version to another; at rest one version is     *)
(* both deployed and served.                                               *)
AtRest == task = None \/ task.stage \in {"succeeded", "failed"}

Steady ==
  /\ base.env = base.image
  /\ last_check # None /\ last_check.available => last_check.current # last_check.target
  /\ AtRest => web = Running(env)

Fits(label, m, t) == /\ t.original # t.target
                     /\ Course(label, m, t) /\ Anywhere(t) /\ Here(label, m, t)
                     /\ Journaled(label, t)

Flow == Steady /\ (task # None => Fits(pc, mode, task))

(* A step within an update, or one that is none of the updater's business. *)
Stays ==
  \/ Unfinished /\ Unfinished' /\ task'.target = task.target /\ base' = base
  \/ /\ UNCHANGED <<web, env, base>> /\ task # None /\ task' # None
     /\ task'.stage = task.stage /\ task'.target = task.target
  \/ UNCHANGED <<web, env, base, task>>

-----------------------------------------------------------------------------
(* The kinds of steps.                                                     *)

(* A store error leaves everything as it was.                              *)
LEMMA AbortFlows ==
  ASSUME Flow, Abort, UNCHANGED <<task, last_check, world, history>>
  PROVE  Flow' /\ Stays
<1>1. /\ pc' \in {"idle", "down"} /\ mode' = "serve"
      /\ web' = web /\ env' = env /\ refs' = refs /\ base' = base
  BY DEF Abort, world, history
<1>2. Steady' /\ Stays
  BY <1>1 DEF Flow, Steady, AtRest, Running, Stays
<1>3. ASSUME task # None PROVE Fits(pc, mode, task)'
  <2>1. Course(pc, mode, task)'
    BY <1>1 DEF Course, CleaningUp, Switching, RollingBack
  <2>2. Here(pc, mode, task)'
    BY <1>1 DEF Here, CleaningUp, RollingBack
  <2>3. Anywhere(task)' /\ Journaled(pc, task)'
    BY <1>1, <1>3 DEF Flow, Fits, Anywhere, Running, Identified, Journaled, WrittenAhead, Replaceable
  <2> QED BY <1>1, <1>3, <2>1, <2>2, <2>3 DEF Flow, Fits
<1> QED BY <1>2, <1>3 DEF Flow

(* A save that goes on.                                                    *)
LEMMA SaveFlows ==
  ASSUME Inv, Flow, task # None, NEW u \in Tasks, NEW next \in Labels, Save(u, Goto(next)),
         u.target = task.target, Fits(next, mode, u),
         u.stage = task.stage \/ {u.stage, task.stage} \cap Terminal = {}
  PROVE  Flow' /\ Stays
<1>1. CASE Abort /\ UNCHANGED <<task, last_check, world, history>>
  BY <1>1, AbortFlows
<1>2. CASE task' = u /\ Goto(next) /\ UNCHANGED <<last_check, world, history>>
  <2>1. /\ pc' = next /\ mode' = mode /\ failing' = failing /\ last_check' = last_check
        /\ web' = web /\ env' = env /\ refs' = refs /\ base' = base
    BY <1>2 DEF Goto, world, history
  <2>2. u # None
    BY NoneIsNoRecord
  <2>3. Course(pc, mode, task)'
    BY <1>2, <2>1 DEF Fits, Course
  <2>4. Anywhere(task)' /\ Here(pc, mode, task)'
    BY <1>2, <2>1 DEF Fits, Anywhere, Here, Running, Identified
  <2>5. Journaled(pc, task)'
    BY <1>2, <2>1 DEF Fits, Journaled, WrittenAhead, Removal, Replaceable
  <2>6. Steady'
    BY <1>2, <2>1, <2>2 DEF Flow, Steady, AtRest, Running, Terminal
  <2>7. Stays
    BY <1>2, <2>1, <2>2 DEF Stays, Unfinished
  <2> QED BY <1>2, <2>2, <2>3, <2>4, <2>5, <2>6, <2>7 DEF Flow, Fits
<1> QED BY <1>1, <1>2 DEF Save

(* A checkpoint saves the next stage and nothing else.                     *)
LEMMA CheckpointFlows ==
  ASSUME Inv, Flow, NEW next \in Labels \ {"step_done"}, NEW stage \in Stages \ Terminal,
         Checkpoint(stage, next), pc \notin {"idle", "down"}, mode # "manual",
         stage \in PreTag => task.stage \in PreTag,
         \A t \in Tasks : t.stage = stage /\ Keeps(t, task) =>
           Course(next, mode, t) /\ Anywhere(t) /\ Here(next, mode, t)
  PROVE  Flow' /\ Stays
<1> DEFINE t == [task EXCEPT !.stage = stage]
<1>1. task \in Tasks /\ task # None
  BY DEF Inv, TypeOK, Attached
<1>2. t \in Tasks /\ t.stage = stage /\ Keeps(t, task)
  BY <1>1, StageSaved
<1>3. Save(t, Goto(next))
  BY DEF Checkpoint
<1>4. task.stage \notin Terminal
  BY <1>1 DEF Flow, Fits, Course
<1> HIDE DEF t
<1>5. Journaled(next, t)
  BY <1>1, <1>2, <1>4 DEF Flow, Fits, Journaled, WrittenAhead, Replaceable, Keeps, Terminal
<1>6. Fits(next, mode, t)
  BY <1>1, <1>2, <1>5 DEF Flow, Fits, Keeps
<1> QED BY <1>1, <1>2, <1>3, <1>4, <1>6, SaveFlows DEF Keeps

(* A platform call that goes on.                                           *)
LEMMA CallFlows ==
  ASSUME Inv, Flow, Harmless, task # None, UNCHANGED <<durable, history>>,
         NEW next \in Labels \ {"step_done"}, pc' = next, mode' = mode,
         task.stage \notin Terminal, refs' = refs \/ task.stage \in PreTag,
         Course(next, mode, task)', Anywhere(task)', Here(next, mode, task)'
  PROVE  Flow' /\ Stays
<1>1. task' = task /\ last_check' = last_check /\ base' = base
  BY DEF durable, history
<1>2. task \in Tasks /\ task.original \in Versions /\ task.journal \in [CleanupSteps -> StepStatuses]
  BY DEF Inv, TypeOK, Tasks
<1>3. Journaled(pc, task)'
  <2>1. CASE refs' = refs
    BY <1>1, <2>1 DEF Flow, Fits, Journaled, WrittenAhead, Replaceable
  <2>2. CASE task.stage \in PreTag
    <3>1. \A step \in CleanupSteps : task.journal[step] = "not_started"
      BY <2>2 DEF Flow, Fits, Journaled
    <3>2. /\ task.journal["version_tag"] = "not_started" /\ task.journal["rollback_alias"] = "not_started"
          /\ task.journal["image_id"] = "not_started"
      BY <3>1 DEF CleanupSteps
    <3>3. refs[task.original] \subseteq refs'[task.original]
      BY <1>2 DEF Harmless
    <3>4. task.alias => WrittenAhead(task)'
      BY <1>1, <2>2, <3>2, <3>3 DEF Flow, Fits, Journaled, WrittenAhead, Replaceable, PreTag
    <3> QED BY <1>1, <3>1, <3>4 DEF Journaled
  <2> QED BY <2>1, <2>2
<1>4. Steady'
  BY <1>1 DEF Flow, Steady, AtRest, Terminal
<1>5. Stays
  BY <1>1 DEF Stays, Unfinished
<1> QED BY <1>1, <1>3, <1>4, <1>5 DEF Flow, Fits

(* A platform call that raises: _execute fails before stop_web and rolls   *)
(* back after it, and recover rolls back.                                  *)
LEMMA RaiseFlows ==
  ASSUME Inv, Flow, Harmless, task # None, UNCHANGED <<durable, history>>,
         NEW code \in ErrorCodes, Raise(code),
         pc \in BeforeStop \cup Switching \cup {"complete_health"},
         refs' = refs \/ task.stage \in PreTag, Anywhere(task)'
  PROVE  Flow' /\ Stays
<1>1. task' = task /\ last_check' = last_check /\ base' = base /\ mode' = mode
  BY DEF durable, history, Raise
<1>2. /\ task \in Tasks /\ task.stage \in Stages /\ task.stage \notin Terminal
      /\ mode # "manual" /\ (mode = "recover" => pc \notin BeforeStop)
  BY DEF Inv, Attached, TypeOK, Tasks, Flow, Fits, Course, BeforeStop, Switching, Preparing, CleaningUp
<1>3. CASE mode = "recover"
  <2>1. pc' = "rollback" /\ failing' = Failure("update_failed", task.stage, TRUE)
    BY <1>3, Zenon DEF Raise
  <2>2. failing'.stage = task.stage /\ failing'.restore = TRUE
    BY <2>1, Zenon DEF Failure
  <2>3. Course("rollback", mode, task)' /\ Here("rollback", mode, task)'
    BY <1>1, <1>2, <2>2 DEF Course, Here, CleaningUp, Switching
  <2> QED BY <1>1, <1>2, <2>1, <2>3, CallFlows DEF Labels
<1>4. CASE mode # "recover" /\ pc \in BeforeStop
  <2>1. pc' = "finish_failed"
    BY <1>4, Zenon DEF Raise
  <2>2. task.stage \in PreTag
    BY <1>4 DEF Inv, Knows, BeforeStop, Preparing
  <2>3. Course("finish_failed", mode, task)' /\ Here("finish_failed", mode, task)'
    BY <1>1, <1>2, <2>2 DEF Course, Here, CleaningUp, Switching, RollingBack
  <2> QED BY <1>1, <1>2, <2>1, <2>3, CallFlows DEF Labels
<1>5. CASE mode # "recover" /\ pc \notin BeforeStop
  <2>1. pc' = "rollback" /\ failing' = Failure(code, "rolling_back", task.stage = "persisting_version")
    BY <1>5, Zenon DEF Raise
  <2>2. failing'.stage = "rolling_back" /\ failing'.restore = (task.stage = "persisting_version")
    BY <2>1, Zenon DEF Failure
  <2>3. task.stage \in SwitchStages \/ task.stage = "persisting_version"
    BY <1>2, <1>5 DEF Flow, Fits, Course
  <2>4. Course("rollback", mode, task)'
    BY <1>1, <1>2, <2>2 DEF Course, CleaningUp, Switching
  <2>5. Here("rollback", mode, task)'
    BY <1>1, <2>2, <2>3 DEF Anywhere, Here, CleaningUp
  <2> QED BY <1>1, <1>2, <2>1, <2>4, <2>5, CallFlows DEF Labels
<1> QED BY <1>3, <1>4, <1>5

-----------------------------------------------------------------------------
(* _execute.                                                               *)

(* Its checkpoints: the stage of the label that follows.                   *)
LEMMA CheckpointsFlow ==
  ASSUME Inv, Flow,
         Pulling \/ TargetVerified \/ StoppingWeb \/ Migrating \/ StartingWeb
           \/ CheckingHealth \/ Stabilizing \/ PersistingVersion \/ Cleaning
  PROVE  Flow' /\ Stays
<1>0. task \in Tasks /\ task # None /\ mode # "manual"
      /\ Knows(pc, task) /\ Fits(pc, mode, task)
  BY DEF Inv, TypeOK, Attached, Pulling, TargetVerified, StoppingWeb, Migrating, StartingWeb,
         CheckingHealth, Stabilizing, PersistingVersion, Cleaning, Flow, Fits, Course, CleaningUp
<1> USE DEF Stages, PreTag, TargetCompletion, Terminal, Labels
<1>1. CASE Pulling
  <2>1. ASSUME NEW t \in Tasks, t.stage = "pulling", Keeps(t, task)
        PROVE  Course("verify_target", mode, t) /\ Anywhere(t) /\ Here("verify_target", mode, t)
    BY <1>0, <1>1, <2>1 DEF Pulling, Checkpoint, Keeps, Knows, Fits, Course, Anywhere, Here,
       SwitchStages, Preparing, Switching, RollingBack, CleaningUp, PostTag, Flow, Steady, Running, Identified
  <2> QED BY <1>0, <1>1, <2>1, CheckpointFlows DEF Pulling, Knows, Preparing
<1>2. CASE TargetVerified
  <2>1. ASSUME NEW t \in Tasks, t.stage = "pulling", Keeps(t, task)
        PROVE  Course("tag_rollback", mode, t) /\ Anywhere(t) /\ Here("tag_rollback", mode, t)
    BY <1>0, <1>2, <2>1 DEF TargetVerified, Checkpoint, Keeps, Knows, Fits, Course, Anywhere, Here,
       SwitchStages, Preparing, Switching, RollingBack, CleaningUp, PostTag, Flow, Steady, Running, Identified
  <2> QED BY <1>0, <1>2, <2>1, CheckpointFlows DEF TargetVerified, Knows, Preparing
<1>3. CASE StoppingWeb
  <2>1. ASSUME NEW t \in Tasks, t.stage = "stopping_web", Keeps(t, task)
        PROVE  Course("stop_web", mode, t) /\ Anywhere(t) /\ Here("stop_web", mode, t)
    BY <1>0, <1>3, <2>1 DEF StoppingWeb, Checkpoint, Keeps, Knows, Fits, Course, Anywhere, Here,
       SwitchStages, Preparing, Switching, RollingBack, CleaningUp, PostTag, Flow, Steady, Running, Identified
  <2> QED BY <1>0, <1>3, <2>1, CheckpointFlows DEF StoppingWeb
<1>4. CASE Migrating
  <2>1. ASSUME NEW t \in Tasks, t.stage = "migrating", Keeps(t, task)
        PROVE  Course("migrate_target", mode, t) /\ Anywhere(t) /\ Here("migrate_target", mode, t)
    BY <1>0, <1>4, <2>1 DEF Migrating, Checkpoint, Keeps, Knows, Fits, Course, Anywhere, Here,
       SwitchStages, Preparing, Switching, RollingBack, CleaningUp, PostTag, Flow, Steady, Running, Identified
  <2> QED BY <1>0, <1>4, <2>1, CheckpointFlows DEF Migrating
<1>5. CASE StartingWeb
  <2>1. ASSUME NEW t \in Tasks, t.stage = "starting_web", Keeps(t, task)
        PROVE  Course("start_target", mode, t) /\ Anywhere(t) /\ Here("start_target", mode, t)
    BY <1>0, <1>5, <2>1 DEF StartingWeb, Checkpoint, Keeps, Knows, Fits, Course, Anywhere, Here,
       SwitchStages, Preparing, Switching, RollingBack, CleaningUp, PostTag, Flow, Steady, Running, Identified
  <2> QED BY <1>0, <1>5, <2>1, CheckpointFlows DEF StartingWeb
<1>6. CASE CheckingHealth
  <2>1. ASSUME NEW t \in Tasks, t.stage = "checking_health", Keeps(t, task)
        PROVE  Course("wait_health", mode, t) /\ Anywhere(t) /\ Here("wait_health", mode, t)
    BY <1>0, <1>6, <2>1 DEF CheckingHealth, Checkpoint, Keeps, Knows, Fits, Course, Anywhere, Here,
       SwitchStages, Preparing, Switching, RollingBack, CleaningUp, PostTag, Flow, Steady, Running, Identified
  <2> QED BY <1>0, <1>6, <2>1, CheckpointFlows DEF CheckingHealth
<1>7. CASE Stabilizing
  <2>1. ASSUME NEW t \in Tasks, t.stage = "stabilizing", Keeps(t, task)
        PROVE  Course("stabilize", mode, t) /\ Anywhere(t) /\ Here("stabilize", mode, t)
    BY <1>0, <1>7, <2>1 DEF Stabilizing, Checkpoint, Keeps, Knows, Fits, Course, Anywhere, Here,
       SwitchStages, Preparing, Switching, RollingBack, CleaningUp, PostTag, Flow, Steady, Running, Identified
  <2> QED BY <1>0, <1>7, <2>1, CheckpointFlows DEF Stabilizing
<1>8. CASE PersistingVersion
  <2>1. ASSUME NEW t \in Tasks, t.stage = "persisting_version", Keeps(t, task)
        PROVE  Course("persist_version", mode, t) /\ Anywhere(t) /\ Here("persist_version", mode, t)
    BY <1>0, <1>8, <2>1 DEF PersistingVersion, Checkpoint, Keeps, Knows, Fits, Course, Anywhere, Here,
       SwitchStages, Preparing, Switching, RollingBack, CleaningUp, PostTag, Flow, Steady, Running, Identified
  <2> QED BY <1>0, <1>8, <2>1, CheckpointFlows DEF PersistingVersion
<1>9. CASE Cleaning
  <2>1. ASSUME NEW t \in Tasks, t.stage = "cleaning", Keeps(t, task)
        PROVE  Course("cleanup", mode, t) /\ Anywhere(t) /\ Here("cleanup", mode, t)
    BY <1>0, <1>9, <2>1 DEF Cleaning, Checkpoint, Keeps, Knows, Fits, Course, Anywhere, Here,
       SwitchStages, Preparing, Switching, RollingBack, CleaningUp, PostTag, Flow, Steady, Running, Identified
  <2> QED BY <1>0, <1>9, <2>1, CheckpointFlows DEF Cleaning
<1> QED BY <1>1, <1>2, <1>3, <1>4, <1>5, <1>6, <1>7, <1>8, <1>9

(* The two saves that record something else: the backups and the alias.    *)
LEMMA RecordsFlow ==
  ASSUME Inv, Flow, RecordBackups \/ SaveAlias
  PROVE  Flow' /\ Stays
<1>0. /\ task \in Tasks /\ task # None /\ mode # "manual"
      /\ Knows(pc, task) /\ Fits(pc, mode, task)
  BY DEF Inv, TypeOK, Attached, RecordBackups, SaveAlias, Flow, Fits, Course, CleaningUp
<1>1. pc \in {"record_backups", "save_alias"} /\ task.stage \in PreTag /\ task.stage \notin Terminal
  BY <1>0 DEF RecordBackups, SaveAlias, Knows, Preparing, PreTag, Terminal
<1>2. ASSUME NEW next \in {"pulling", "stopping_web"}, NEW t \in Tasks, next = "stopping_web" => pc = "save_alias",
             t.stage = task.stage, t.id = task.id, t.original = task.original,
             t.target = task.target, t.journal = task.journal,
             t.alias => task.alias \/ {"tag", task.id} \subseteq refs[task.original]
      PROVE  Fits(next, mode, t)
  <2>1. Course(next, mode, t)
    BY <1>0, <1>1, <1>2 DEF Course, Switching, RollingBack, CleaningUp
  <2>2. Anywhere(t) /\ Here(next, mode, t)
    BY <1>0, <1>1, <1>2 DEF Fits, Anywhere, Here, RollingBack, CleaningUp, Identified
  <2>3. /\ \A step \in CleanupSteps : t.journal[step] = "not_started"
        /\ task.alias => WrittenAhead(task)
    BY <1>0, <1>1, <1>2 DEF Fits, Journaled, Replaceable, Terminal
  <2>4. Journaled(next, t)
    BY <1>2, <2>3 DEF Journaled, WrittenAhead, CleanupSteps
  <2> QED BY <1>0, <1>2, <2>1, <2>2, <2>4 DEF Fits
<1>3. CASE RecordBackups
  <2> DEFINE t == [task EXCEPT !.backups = TRUE]
  <2>1. /\ t \in Tasks /\ t.stage = task.stage /\ t.id = task.id /\ t.original = task.original
        /\ t.alias = task.alias /\ t.journal = task.journal
    BY <1>0, BackupsSaved
  <2>2. t.target = task.target
    BY <1>0 DEF Tasks
  <2>3. Save(t, Goto("pulling"))
    BY <1>3 DEF RecordBackups
  <2> HIDE DEF t
  <2>4. Fits("pulling", mode, t)
    BY <1>2, <2>1, <2>2
  <2> QED BY <1>0, <1>1, <2>1, <2>2, <2>3, <2>4, SaveFlows DEF Labels
<1>4. CASE SaveAlias
  <2> DEFINE t == [task EXCEPT !.alias = TRUE]
  <2>1. /\ t \in Tasks /\ t.stage = task.stage /\ t.id = task.id /\ t.original = task.original
        /\ t.journal = task.journal
    BY <1>0, AliasSaved
  <2>2. t.target = task.target
    BY <1>0 DEF Tasks
  <2>3. Save(t, Goto("stopping_web")) /\ pc = "save_alias"
    BY <1>4 DEF SaveAlias
  <2>4. {"tag", task.id} \subseteq refs[task.original]
    BY <1>0, <2>3 DEF Knows
  <2> HIDE DEF t
  <2>5. Fits("stopping_web", mode, t)
    BY <1>2, <2>1, <2>2, <2>3, <2>4
  <2> QED BY <1>0, <2>1, <2>2, <2>3, <2>5, <1>1, SaveFlows DEF Labels
<1> QED BY <1>3, <1>4

(* A worker takes a task.                                                  *)
LEMMA ExecuteBeginFlows ==
  ASSUME Inv, Flow, NEW id \in TaskIds, ExecuteBegin(id)
  PROVE  Flow' /\ Stays
<1>0. /\ task \in Tasks /\ task # None /\ pc = "idle" /\ mode = "serve" /\ Fits(pc, mode, task)
      /\ last_check' = last_check /\ mode' = mode
      /\ web' = web /\ env' = env /\ refs' = refs /\ base' = base
  BY DEF Inv, TypeOK, Attached, ExecuteBegin, Flow, world, history
<1>1. CASE task.stage = "checking" /\ task' = [task EXCEPT !.stage = "backing_up"] /\ pc' = "create_backup"
  <2>1. task' \in Tasks /\ task'.stage = "backing_up" /\ Keeps(task', task) /\ task' # None
    BY <1>0, <1>1, StageSaved, NoneIsNoRecord DEF Stages, PreTag
  <2>2. Course(pc, mode, task)' /\ Here(pc, mode, task)'
    BY <1>0, <1>1, <2>1 DEF Course, Here, CleaningUp, Switching, RollingBack, Terminal
  <2>3. Anywhere(task)'
    BY <1>0, <1>1, <2>1 DEF Fits, Anywhere, PreTag, PostTag, SwitchStages, Running
  <2>4. Journaled(pc, task)'
    BY <1>0, <1>1, <2>1 DEF Fits, Journaled, WrittenAhead, Replaceable, Keeps, PreTag
  <2>5. Steady' /\ Stays
    BY <1>0, <1>1, <2>1 DEF Flow, Steady, AtRest, Stays, Unfinished, Terminal, Keeps
  <2> QED BY <1>0, <2>1, <2>2, <2>3, <2>4, <2>5 DEF Flow, Fits, Keeps
<1>2. CASE UNCHANGED <<task, pc>>
  <2>1. Fits(pc, mode, task)'
    BY <1>0, <1>2 DEF Fits, Course, Anywhere, Here, Journaled, WrittenAhead, Replaceable,
       Running, Identified, CleaningUp, Switching, RollingBack
  <2>2. Steady' /\ Stays
    BY <1>0, <1>2 DEF Flow, Steady, AtRest, Stays, Running
  <2> QED BY <2>1, <2>2 DEF Flow
<1> QED BY <1>1, <1>2, Zenon DEF ExecuteBegin

(* A call that moves neither Web nor .env leaves them where they are.      *)
LEMMA AnywhereStays ==
  ASSUME Anywhere(task), Harmless, task \in Tasks, UNCHANGED <<web, env, task, base>>
  PROVE  Anywhere(task)' /\ (Identified(task.target) => Identified(task.target)')
<1>1. task.target \in Versions
  BY DEF Tasks
<1>2. Identified(task.target) => Identified(task.target)'
  BY <1>1 DEF Identified, Harmless
<1> QED BY <1>2 DEF Anywhere, Running

(* `docker compose up` with either version leaves Web on one of the two.   *)
LEMMA ComposeUpStays ==
  ASSUME Anywhere(task), task \in Tasks, task.original # task.target, UNCHANGED <<task, base>>,
         task.stage \in PostTag, NEW ok \in BOOLEAN, NEW v \in {task.original, task.target}, ComposeUp(v, ok),
         v = task.target => task.stage \in SwitchStages
  PROVE  Anywhere(task)' /\ (ok => web' = Running(v)) /\ env' = env /\ refs' = refs
<1>1. /\ web'.image \in {web.image, v, None} /\ env' = env /\ refs' = refs
      /\ ok => web' = Running(v)
  <2>1. CASE web' = [image |-> v, running |-> TRUE]
    BY <2>1 DEF Running, ComposeUp
  <2>2. CASE ~ok /\ web' \in {web, [image |-> None, running |-> FALSE]} \cup [image : {v}, running : BOOLEAN]
    BY <2>2 DEF ComposeUp
  <2> QED BY <2>1, <2>2 DEF ComposeUp
<1>2. task.target \in Versions /\ task.target # None
  BY NoneAssumption DEF Tasks
<1> QED BY <1>1, <1>2 DEF Anywhere, PostTag, PreTag, SwitchStages, Identified, Terminal

(* Setting .env to the target while it is recorded as being set.           *)
LEMMA PersistStays ==
  ASSUME Anywhere(task), task.stage = "persisting_version", UNCHANGED <<task, base>>,
         NEW ok \in BOOLEAN, PersistVersion(task.target, ok)
  PROVE  Anywhere(task)' /\ (ok => env' = task.target) /\ web' = web /\ refs' = refs
BY DEF Anywhere, PersistVersion, PreTag, PostTag, SwitchStages, Identified, Terminal, Stages, TargetCompletion

(* The platform calls of _execute and of _complete_recovered_target.       *)
LEMMA CallsFlow ==
  ASSUME Inv, Flow,
         CreateBackupStep \/ VerifyTargetStep \/ TagRollbackStep \/ StopWebStep
           \/ MigrateTargetStep \/ StartTargetStep \/ WaitHealth \/ Stabilize
           \/ PersistVersionStep \/ CompleteHealth
  PROVE  Flow' /\ Stays
<1>0. /\ task \in Tasks /\ task # None /\ task.id \in TaskIds
      /\ task.original \in Versions /\ task.target \in Versions /\ task.stage \in Stages
      /\ mode # "manual" /\ Knows(pc, task) /\ Fits(pc, mode, task) /\ task.stage \notin Terminal
  BY DEF Inv, TypeOK, Attached, CreateBackupStep, VerifyTargetStep, TagRollbackStep, StopWebStep,
         MigrateTargetStep, StartTargetStep, WaitHealth, Stabilize, PersistVersionStep,
         CompleteHealth, Call, Tasks, Flow, Fits, Course, CleaningUp
<1>a. pc \in BeforeStop \cup Switching \cup {"complete_health"}
  BY DEF CreateBackupStep, VerifyTargetStep, TagRollbackStep, StopWebStep, MigrateTargetStep,
         StartTargetStep, WaitHealth, Stabilize, PersistVersionStep, CompleteHealth, Call,
         BeforeStop, Switching
<1>b. UNCHANGED <<durable, history>>
  BY DEF CreateBackupStep, VerifyTargetStep, TagRollbackStep, StopWebStep, MigrateTargetStep,
         StartTargetStep, WaitHealth, Stabilize, PersistVersionStep, CompleteHealth, Call
<1>c. task' = task /\ base' = base
  BY <1>b DEF durable, history
<1>d. pc \in Preparing => task.stage \in PreTag
  BY <1>0 DEF Knows
<1>e. (pc \in Switching \ {"persist_version", "cleaning"} => task.stage \in SwitchStages)
      /\ (task.stage \in SwitchStages => task.stage \in PostTag)
  BY <1>0 DEF Fits, Course, SwitchStages, PostTag, PreTag, Terminal
<1>f. Anywhere(task) /\ task.original # task.target
  BY <1>0 DEF Fits
<1>1. CASE CreateBackupStep
  <2>1. PICK ok \in BOOLEAN : CreateBackup(task.id, ok) /\ IF ok THEN Goto("record_backups") ELSE Raise("backup_failed")
    BY <1>1, Zenon DEF CreateBackupStep, Call
  <2>2. Harmless /\ pc = "create_backup"
    BY <1>0, <1>1, <2>1, MethodsAreHarmless DEF Inv, CreateBackupStep, Call
  <2>3. UNCHANGED <<web, env>> /\ refs' = refs
    BY <1>0, <1>d, <2>1, <2>2 DEF CreateBackup
  <2>4. Anywhere(task)' /\ (Identified(task.target) => Identified(task.target)')
    BY <1>0, <1>c, <1>f, <2>2, <2>3, AnywhereStays
  <2>6. CASE ok
    <3>1. pc' = "record_backups" /\ mode' = mode /\ failing' = failing
      BY <2>1, <2>6 DEF Goto
    <3>3. Course("record_backups", mode, task)'
      BY <1>0, <1>c, <1>d, <1>e, <2>2, <2>3, <3>1 DEF Course, Preparing, Switching, RollingBack, CleaningUp, Terminal
    <3>4. Here("record_backups", mode, task)'
      BY <1>c, <2>3, <2>4, <2>6 DEF Here, Running, RollingBack, CleaningUp, Identified
    <3> QED BY <1>0, <1>b, <2>2, <2>3, <2>4, <3>1, <3>3, <3>4, CallFlows DEF Labels
  <2>7. CASE ~ok
    BY <1>0, <1>a, <1>b, <2>1, <2>2, <2>3, <2>4, <2>7, RaiseFlows DEF ErrorCodes
  <2> QED BY <2>6, <2>7
<1>2. CASE TagRollbackStep
  <2>1. PICK ok \in BOOLEAN : TagRollback(task.id, task.original, ok) /\ IF ok THEN Goto("save_alias") ELSE Raise("update_failed")
    BY <1>2, Zenon DEF TagRollbackStep, Call
  <2>2. Harmless /\ pc = "tag_rollback"
    BY <1>0, <1>2, <2>1, MethodsAreHarmless DEF Inv, TagRollbackStep, Call
  <2>3. UNCHANGED <<web, env>> /\ task.stage \in PreTag
    BY <1>0, <1>d, <2>1, <2>2 DEF TagRollback, Preparing
  <2>4. Anywhere(task)' /\ (Identified(task.target) => Identified(task.target)')
    BY <1>0, <1>c, <1>f, <2>2, <2>3, AnywhereStays
  <2>6. CASE ok
    <3>1. pc' = "save_alias" /\ mode' = mode /\ failing' = failing
      BY <2>1, <2>6 DEF Goto
    <3>2. base.image = task.original
      BY <1>f, <2>1, <2>3, <2>6 DEF TagRollback, Outcome, WebIs, Anywhere, Running
    <3>3. Course("save_alias", mode, task)'
      BY <1>0, <1>c, <1>d, <1>e, <2>2, <2>3, <3>1 DEF Course, Preparing, Switching, RollingBack, CleaningUp, Terminal
    <3>4. Here("save_alias", mode, task)'
      BY <1>c, <2>3, <2>4, <2>6, <3>2 DEF Here, Running, RollingBack, CleaningUp, Identified
    <3> QED BY <1>0, <1>b, <2>2, <2>3, <2>4, <3>1, <3>3, <3>4, CallFlows DEF Labels
  <2>7. CASE ~ok
    BY <1>0, <1>a, <1>b, <2>1, <2>2, <2>3, <2>4, <2>7, RaiseFlows DEF ErrorCodes
  <2> QED BY <2>6, <2>7
<1>3. CASE StopWebStep
  <2>1. PICK ok \in BOOLEAN : StopWeb(ok) /\ IF ok THEN Goto("migrating") ELSE Raise("update_failed")
    BY <1>3, Zenon DEF StopWebStep, Call
  <2>2. Harmless /\ pc = "stop_web"
    BY <1>0, <1>3, <2>1, MethodsAreHarmless DEF Inv, StopWebStep, Call
  <2>3. web'.image = web.image /\ env' = env /\ refs' = refs /\ task.stage \in SwitchStages
    <3>1. [web EXCEPT !.running = FALSE].image = web.image
      BY DEF Inv, TypeOK, Containers
    <3> QED BY <1>e, <2>1, <2>2, <3>1 DEF StopWeb, Switching
  <2>4. Anywhere(task)'
    BY <1>c, <1>f, <2>3 DEF Anywhere, SwitchStages, PreTag, PostTag, Terminal
  <2>6. CASE ok
    <3>1. pc' = "migrating" /\ mode' = mode /\ failing' = failing
      BY <2>1, <2>6 DEF Goto
    <3>3. Course("migrating", mode, task)'
      BY <1>0, <1>c, <1>d, <1>e, <2>2, <2>3, <3>1 DEF Course, Preparing, Switching, RollingBack, CleaningUp, Terminal
    <3>4. Here("migrating", mode, task)'
      BY <1>c, <2>3, <2>4, <2>6 DEF Here, Running, RollingBack, CleaningUp, Identified
    <3> QED BY <1>0, <1>b, <2>2, <2>3, <2>4, <3>1, <3>3, <3>4, CallFlows DEF Labels
  <2>7. CASE ~ok
    BY <1>0, <1>a, <1>b, <2>1, <2>2, <2>3, <2>4, <2>7, RaiseFlows DEF ErrorCodes
  <2> QED BY <2>6, <2>7
<1>4. CASE MigrateTargetStep
  <2>1. PICK ok \in BOOLEAN : MigrateTarget(task.target, ok) /\ IF ok THEN Goto("starting_web") ELSE Raise("migration_failed")
    BY <1>4, Zenon DEF MigrateTargetStep, Call
  <2>2. Harmless /\ pc = "migrate_target"
    BY <1>0, <1>4, <2>1, MethodsAreHarmless DEF Inv, MigrateTargetStep, Call
  <2>3. UNCHANGED <<web, env>> /\ refs' = refs
    BY <1>0, <1>d, <2>1, <2>2 DEF MigrateTarget
  <2>4. Anywhere(task)' /\ (Identified(task.target) => Identified(task.target)')
    BY <1>0, <1>c, <1>f, <2>2, <2>3, AnywhereStays
  <2>6. CASE ok
    <3>1. pc' = "starting_web" /\ mode' = mode /\ failing' = failing
      BY <2>1, <2>6 DEF Goto
    <3>3. Course("starting_web", mode, task)'
      BY <1>0, <1>c, <1>d, <1>e, <2>2, <2>3, <3>1 DEF Course, Preparing, Switching, RollingBack, CleaningUp, Terminal
    <3>4. Here("starting_web", mode, task)'
      BY <1>c, <2>3, <2>4, <2>6 DEF Here, Running, RollingBack, CleaningUp, Identified
    <3> QED BY <1>0, <1>b, <2>2, <2>3, <2>4, <3>1, <3>3, <3>4, CallFlows DEF Labels
  <2>7. CASE ~ok
    BY <1>0, <1>a, <1>b, <2>1, <2>2, <2>3, <2>4, <2>7, RaiseFlows DEF ErrorCodes
  <2> QED BY <2>6, <2>7
<1>5. CASE StartTargetStep
  <2>1. PICK ok \in BOOLEAN : StartTarget(task.target, ok) /\ IF ok THEN Goto("checking_health") ELSE Raise("update_failed")
    BY <1>5, Zenon DEF StartTargetStep, Call
  <2>2. Harmless /\ pc = "start_target"
    BY <1>0, <1>5, <2>1, MethodsAreHarmless DEF Inv, StartTargetStep, Call
  <2>3. task.stage \in SwitchStages /\ task.stage \in PostTag /\ ComposeUp(task.target, ok)
    BY <1>e, <2>1, <2>2 DEF StartTarget, Switching
  <2>4. Anywhere(task)' /\ refs' = refs
    BY <1>0, <1>c, <1>f, <2>3, ComposeUpStays
  <2>6. CASE ok
    <3>1. pc' = "checking_health" /\ mode' = mode /\ failing' = failing
      BY <2>1, <2>6 DEF Goto
    <3>3. Course("checking_health", mode, task)'
      BY <1>0, <1>c, <1>d, <1>e, <2>2, <2>3, <3>1 DEF Course, Preparing, Switching, RollingBack, CleaningUp, Terminal
    <3>4. Here("checking_health", mode, task)'
      BY <1>c, <2>3, <2>4, <2>6 DEF Here, Running, RollingBack, CleaningUp, Identified
    <3> QED BY <1>0, <1>b, <2>2, <2>3, <2>4, <3>1, <3>3, <3>4, CallFlows DEF Labels
  <2>7. CASE ~ok
    BY <1>0, <1>a, <1>b, <2>1, <2>2, <2>3, <2>4, <2>7, RaiseFlows DEF ErrorCodes
  <2> QED BY <2>6, <2>7
<1>6. CASE WaitHealth
  <2>1. PICK ok \in BOOLEAN : Health(task.target, ok) /\ IF ok THEN Goto("stabilizing") ELSE Raise("health_check_failed")
    BY <1>6, Zenon DEF WaitHealth, Call
  <2>2. Harmless /\ pc = "wait_health"
    BY <1>0, <1>6, <2>1, MethodsAreHarmless DEF Inv, WaitHealth, Call
  <2>3. UNCHANGED <<web, env>> /\ refs' = refs
    BY <1>0, <1>d, <2>1, <2>2 DEF Health, world
  <2>4. Anywhere(task)' /\ (Identified(task.target) => Identified(task.target)')
    BY <1>0, <1>c, <1>f, <2>2, <2>3, AnywhereStays
  <2>6. CASE ok
    <3>1. pc' = "stabilizing" /\ mode' = mode /\ failing' = failing
      BY <2>1, <2>6 DEF Goto
    <3>3. Course("stabilizing", mode, task)'
      BY <1>0, <1>c, <1>d, <1>e, <2>2, <2>3, <3>1 DEF Course, Preparing, Switching, RollingBack, CleaningUp, Terminal
    <3>4. Here("stabilizing", mode, task)'
      BY <1>c, <2>3, <2>4, <2>6 DEF Here, Running, RollingBack, CleaningUp, Identified
    <3> QED BY <1>0, <1>b, <2>2, <2>3, <2>4, <3>1, <3>3, <3>4, CallFlows DEF Labels
  <2>7. CASE ~ok
    BY <1>0, <1>a, <1>b, <2>1, <2>2, <2>3, <2>4, <2>7, RaiseFlows DEF ErrorCodes
  <2> QED BY <2>6, <2>7
<1>7. CASE Stabilize
  <2>1. PICK ok \in BOOLEAN : Health(task.target, ok) /\ IF ok THEN Goto("persisting_version") ELSE Raise("health_check_failed")
    BY <1>7, Zenon DEF Stabilize, Call
  <2>2. Harmless /\ pc = "stabilize"
    BY <1>0, <1>7, <2>1, MethodsAreHarmless DEF Inv, Stabilize, Call
  <2>3. UNCHANGED <<web, env>> /\ refs' = refs
    BY <1>0, <1>d, <2>1, <2>2 DEF Health, world
  <2>4. Anywhere(task)' /\ (Identified(task.target) => Identified(task.target)')
    BY <1>0, <1>c, <1>f, <2>2, <2>3, AnywhereStays
  <2>6. CASE ok
    <3>1. pc' = "persisting_version" /\ mode' = mode /\ failing' = failing
      BY <2>1, <2>6 DEF Goto
    <3>2. web = Running(task.target) /\ Identified(task.target)
      BY <2>1, <2>6 DEF Health, Outcome, WebIs, Running, Inv, TypeOK, Containers
    <3>3. Course("persisting_version", mode, task)'
      BY <1>0, <1>c, <1>d, <1>e, <2>2, <2>3, <3>1 DEF Course, Preparing, Switching, RollingBack, CleaningUp, Terminal
    <3>4. Here("persisting_version", mode, task)'
      BY <1>c, <2>3, <2>4, <2>6, <3>2 DEF Here, Running, RollingBack, CleaningUp, Identified
    <3> QED BY <1>0, <1>b, <2>2, <2>3, <2>4, <3>1, <3>3, <3>4, CallFlows DEF Labels
  <2>7. CASE ~ok
    BY <1>0, <1>a, <1>b, <2>1, <2>2, <2>3, <2>4, <2>7, RaiseFlows DEF ErrorCodes
  <2> QED BY <2>6, <2>7
<1>8. CASE PersistVersionStep
  <2>1. PICK ok \in BOOLEAN : PersistVersion(task.target, ok) /\ IF ok THEN Goto("cleaning") ELSE Raise("update_failed")
    BY <1>8, Zenon DEF PersistVersionStep, Call
  <2>2. Harmless /\ pc = "persist_version"
    BY <1>0, <1>8, <2>1, MethodsAreHarmless DEF Inv, PersistVersionStep, Call
  <2>3. task.stage = "persisting_version" /\ web = Running(task.target) /\ Identified(task.target)
    BY <1>0, <2>2 DEF Fits, Course, Here
  <2>4. Anywhere(task)' /\ (ok => env' = task.target) /\ web' = web /\ refs' = refs
    BY <1>c, <1>f, <2>1, <2>3, PersistStays
  <2>6. CASE ok
    <3>1. pc' = "cleaning" /\ mode' = mode /\ failing' = failing
      BY <2>1, <2>6 DEF Goto
    <3>3. Course("cleaning", mode, task)'
      BY <1>0, <1>c, <1>d, <1>e, <2>2, <2>3, <3>1 DEF Course, Preparing, Switching, RollingBack, CleaningUp, Terminal
    <3>4. Here("cleaning", mode, task)'
      BY <1>c, <2>3, <2>4, <2>6 DEF Here, Running, RollingBack, CleaningUp, Identified
    <3> QED BY <1>0, <1>b, <2>2, <2>3, <2>4, <3>1, <3>3, <3>4, CallFlows DEF Labels
  <2>7. CASE ~ok
    BY <1>0, <1>a, <1>b, <2>1, <2>2, <2>3, <2>4, <2>7, RaiseFlows DEF ErrorCodes
  <2> QED BY <2>6, <2>7
<1>9. CASE VerifyTargetStep
  <2>1. PICK code \in {"pull_failed", "update_failed"}, ok \in BOOLEAN :
          VerifyTarget(task.target, ok) /\ IF ok THEN Goto("pulled") ELSE Raise(code)
    BY <1>9, Zenon DEF VerifyTargetStep, Call
  <2>2. Harmless /\ pc = "verify_target"
    BY <1>0, <1>9, <2>1, MethodsAreHarmless DEF Inv, VerifyTargetStep, Call
  <2>3. UNCHANGED <<web, env>> /\ task.stage \in PreTag
    BY <1>0, <1>d, <2>1, <2>2 DEF VerifyTarget, Preparing
  <2>4. Anywhere(task)' /\ (Identified(task.target) => Identified(task.target)')
    BY <1>0, <1>c, <1>f, <2>2, <2>3, AnywhereStays
  <2>6. CASE ok
    <3>1. pc' = "pulled" /\ mode' = mode /\ failing' = failing
      BY <2>1, <2>6 DEF Goto
    <3>3. Course("pulled", mode, task)'
      BY <1>0, <1>c, <1>d, <1>e, <2>2, <2>3, <3>1 DEF Course, Preparing, Switching, RollingBack, CleaningUp, Terminal
    <3>4. Here("pulled", mode, task)'
      BY <1>c, <2>3, <2>4, <2>6 DEF Here, Running, RollingBack, CleaningUp, Identified
    <3> QED BY <1>0, <1>b, <2>2, <2>3, <2>4, <3>1, <3>3, <3>4, CallFlows DEF Labels
  <2>7. CASE ~ok
    BY <1>0, <1>a, <1>b, <2>1, <2>2, <2>3, <2>4, <2>7, RaiseFlows DEF ErrorCodes
  <2> QED BY <2>6, <2>7
<1>10. CASE CompleteHealth
  <2> DEFINE next == IF task.stage = "persisting_version" THEN "persist_version" ELSE "cleanup"
  <2>1. PICK ok \in BOOLEAN : Health(task.target, ok) /\ IF ok THEN Goto(next) ELSE Raise("update_failed")
    BY <1>10, Zenon DEF CompleteHealth, Call
  <2>2. Harmless /\ pc = "complete_health"
    BY <1>0, <1>10, <2>1, MethodsAreHarmless DEF Inv, CompleteHealth, Call
  <2>3. UNCHANGED <<web, env>> /\ refs' = refs
    BY <1>0, <1>d, <2>1, <2>2 DEF Health, world
  <2>4. Anywhere(task)' /\ (Identified(task.target) => Identified(task.target)')
    BY <1>0, <1>c, <1>f, <2>2, <2>3, AnywhereStays
  <2>6. CASE ok
    <3>1. web = Running(task.target) /\ Identified(task.target) /\ web' = web /\ env' = env
      BY <2>1, <2>3, <2>6 DEF Health, Outcome, WebIs, Running, Inv, TypeOK, Containers
    <3>2. pc' = next /\ mode' = mode /\ failing' = failing
      BY <2>1, <2>6 DEF Goto
    <3>3. task.stage \in {"persisting_version", "cleaning"} /\ (task.stage = "cleaning" => env = task.target)
      BY <1>0, <2>2, <3>1 DEF Fits, Course, Anywhere, TargetCompletion, Running
    <3>4. PICK label \in {"persist_version", "cleanup"} :
            label = IF task.stage = "persisting_version" THEN "persist_version" ELSE "cleanup"
      OBVIOUS
    <3>5. Course(label, mode, task)'
      BY <1>0, <1>c, <3>2, <3>3, <3>4 DEF Course, Switching, RollingBack, CleaningUp, Terminal
    <3>6. Here(label, mode, task)'
      BY <1>0, <1>c, <2>4, <3>1, <3>2, <3>3, <3>4 DEF Here, Running, RollingBack, CleaningUp
    <3> QED BY <1>0, <1>b, <2>2, <2>3, <2>4, <3>2, <3>4, <3>5, <3>6, CallFlows DEF Labels
  <2>7. CASE ~ok
    BY <1>0, <1>a, <1>b, <2>1, <2>2, <2>3, <2>4, <2>7, RaiseFlows DEF ErrorCodes
  <2> QED BY <2>6, <2>7
<1> QED BY <1>1, <1>2, <1>3, <1>4, <1>5, <1>6, <1>7, <1>8, <1>9, <1>10

-----------------------------------------------------------------------------
(* The ends of an update.                                                  *)
Ends(stage) == /\ Unfinished /\ UNCHANGED <<web, env, base>>
               /\ task' # None /\ task'.stage = stage /\ task'.target = task.target

Fails == /\ Ends("failed")
         /\ web = Running(base.image) /\ env = base.env
         /\ task'.rolled_back => base.image = task.original
GivesUp == Ends("manual_intervention")
Succeeds == Ends("succeeded") /\ web = Running(task.target) /\ env = task.target

(* A save that ends the operation.                                         *)
LEMMA LastSaveFlows ==
  ASSUME Inv, Flow, task # None, NEW u \in Tasks, Save(u, Release),
         u.original = task.original, u.target = task.target, u.stage \in Terminal,
         u.stage \in {"succeeded", "failed"} => web = Running(env),
         u.stage = "succeeded" => Identified(u.target),
         u.alias /\ ~Replaceable(u) => WrittenAhead(u)
  PROVE  Flow' /\ (Stays \/ (task' = u /\ UNCHANGED <<web, env, base>>))
<1>1. CASE Abort /\ UNCHANGED <<task, last_check, world, history>>
  BY <1>1, AbortFlows
<1>2. CASE task' = u /\ Release /\ UNCHANGED <<last_check, world, history>>
  <2>1. /\ pc' \in {"idle", "down"} /\ mode' = "serve" /\ last_check' = last_check
        /\ web' = web /\ env' = env /\ refs' = refs /\ base' = base
    BY <1>2 DEF Release, world, history
  <2>2. u # None /\ u.stage \notin PreTag /\ u.stage \notin PostTag
        /\ u.stage \notin SwitchStages /\ u.stage # "cleaning"
    BY NoneIsNoRecord DEF Terminal, PreTag, PostTag, SwitchStages
  <2>3. Course(pc, mode, task)' /\ Here(pc, mode, task)'
    BY <2>1 DEF Course, Here, CleaningUp, Switching, RollingBack
  <2>4. Anywhere(task)'
    BY <1>2, <2>1, <2>2 DEF Anywhere, Identified
  <2>5. Journaled(pc, task)'
    BY <1>2, <2>1, <2>2 DEF Journaled, WrittenAhead, Replaceable
  <2>6. Steady'
    BY <1>2, <2>1, <2>2 DEF Flow, Steady, AtRest, Running
  <2> QED BY <1>2, <2>1, <2>3, <2>4, <2>5, <2>6 DEF Flow, Fits
<1> QED BY <1>1, <1>2 DEF Save

(* The rollback, and the two ways in which a task fails.                   *)
LEMMA RollBackFlows ==
  ASSUME Inv, Flow, RollBack \/ PreTagHealth
  PROVE  Flow' /\ (Stays \/ Fails \/ GivesUp)
<1>0. /\ task \in Tasks /\ task # None /\ task.id \in TaskIds
      /\ task.original \in Versions /\ task.target \in Versions /\ task.stage \in Stages
      /\ failing \in Failures /\ mode # "manual" /\ task.stage \notin Terminal
      /\ Knows(pc, task) /\ Fits(pc, mode, task)
  BY DEF Inv, TypeOK, Attached, RollBack, Rollback, StartRollbackStep, RollbackHealth,
         RestoreVersion, FinishFailed, FinishManual, PreTagHealth, RollbackCall, Tasks,
         Flow, Fits, Course, CleaningUp
<1>a. failing.stage \in Stages /\ failing.code \in ErrorCodes
  BY <1>0 DEF Failures
<1>b. Anywhere(task) /\ task.original # task.target
  BY <1>0 DEF Fits
<1>c. pc \in RollingBack => task.stage \in PostTag
  BY <1>0 DEF Knows
<1>1. CASE Rollback
  <2> DEFINE t == [task EXCEPT !.stage = failing.stage, !.error_code = failing.code]
  <2>1. t \in Tasks /\ t.stage = failing.stage /\ Keeps(t, task)
    BY <1>0, <1>a, FailureSaved
  <2>2. Save(t, Goto("start_rollback"))
    BY <1>1 DEF Rollback
  <2> HIDE DEF t
  <2>3. pc = "rollback" /\ failing.stage \in {task.stage, "rolling_back"} /\ task.stage \in PostTag
    BY <1>0, <1>1, <1>c DEF Rollback, Fits, Course, RollingBack
  <2>4. "rolling_back" \in PostTag /\ t.stage \in PostTag /\ t.stage \notin Terminal
    BY <2>1, <2>3 DEF PostTag, Stages, PreTag, Terminal, TargetCompletion
  <2>5. Course("start_rollback", mode, t)
    BY <1>0, <2>1, <2>4 DEF Course, CleaningUp, Switching
  <2>6. Anywhere(t)
    BY <1>b, <2>1, <2>3, <2>4 DEF Anywhere, Keeps, PostTag, SwitchStages, Terminal
  <2>7. Here("start_rollback", mode, t)
    BY <1>0, <2>1, <2>3 DEF Fits, Here, Keeps, CleaningUp, RollingBack
  <2>8. Journaled("start_rollback", t)
    BY <1>0, <2>1, <2>3, <2>4 DEF Fits, Journaled, WrittenAhead, Replaceable, Keeps, PostTag, Terminal
  <2>9. Fits("start_rollback", mode, t) /\ {t.stage, task.stage} \cap Terminal = {}
    BY <1>0, <1>b, <2>1, <2>4, <2>5, <2>6, <2>7, <2>8 DEF Fits, Keeps
  <2> QED BY <1>0, <2>1, <2>2, <2>9, SaveFlows DEF Labels, Keeps
<1>2. ASSUME NEW next \in Labels \ {"step_done"}, Harmless, Goto(next), UNCHANGED <<durable, history>>, refs' = refs,
             Course(next, mode, task)', Anywhere(task)', Here(next, mode, task)'
      PROVE  Flow' /\ Stays
  BY <1>0, <1>2, CallFlows DEF Goto
<1>3. ASSUME Goto("finish_manual"), Harmless, UNCHANGED <<durable, history>>, refs' = refs, Anywhere(task)'
      PROVE  Flow' /\ Stays
  <2>1. task' = task /\ mode' = mode
    BY <1>3 DEF durable, Goto
  <2>2. Course("finish_manual", mode, task)' /\ Here("finish_manual", mode, task)'
    BY <1>0, <2>1 DEF Course, Here, CleaningUp, Switching, RollingBack
  <2> QED BY <1>2, <1>3, <2>2 DEF Labels
<1>4. CASE StartRollbackStep
  <2>1. PICK ok \in BOOLEAN : StartRollback(task.id, task.original, ok)
                              /\ Goto(IF ok THEN "rollback_health" ELSE "finish_manual")
    BY <1>4, Zenon DEF StartRollbackStep, RollbackCall
  <2>2. /\ Harmless /\ pc = "start_rollback" /\ UNCHANGED <<durable, history>>
        /\ task' = task /\ base' = base /\ task.stage \in PostTag
    BY <1>0, <1>4, <1>c, <2>1, MethodsAreHarmless
       DEF Inv, StartRollbackStep, RollbackCall, durable, history, RollingBack
  <2>3. Anywhere(task)' /\ env' = env /\ refs' = refs
    <3>1. CASE ComposeUp(task.original, ok)
      BY <1>0, <1>b, <2>2, <3>1, ComposeUpStays
    <3>2. CASE UNCHANGED world
      BY <1>0, <1>b, <2>2, <3>2, AnywhereStays DEF world
    <3> QED BY <2>1, <3>1, <3>2 DEF StartRollback
  <2>4. CASE ok
    <3>1. mode' = mode /\ failing' = failing /\ Goto("rollback_health")
      BY <2>1, <2>4 DEF Goto
    <3>2. Course("rollback_health", mode, task)' /\ Here("rollback_health", mode, task)'
      BY <1>0, <2>2, <2>3, <3>1 DEF Fits, Course, Here, CleaningUp, Switching, RollingBack
    <3> QED BY <1>2, <2>2, <2>3, <3>1, <3>2 DEF Labels
  <2>5. CASE ~ok
    BY <1>3, <2>1, <2>2, <2>3, <2>5
  <2> QED BY <2>4, <2>5
<1>5. CASE RollbackHealth
  <2>1. PICK ok \in BOOLEAN :
          /\ Health(task.original, ok)
          /\ Goto(IF ok THEN IF failing.restore THEN "restore_version" ELSE "finish_rolled_back"
                        ELSE "finish_manual")
    BY <1>5, Zenon DEF RollbackHealth, RollbackCall
  <2>2. /\ Harmless /\ pc = "rollback_health" /\ UNCHANGED <<durable, history>>
        /\ task' = task /\ base' = base /\ task.stage \in PostTag
    BY <1>0, <1>5, <1>c, <2>1, MethodsAreHarmless
       DEF Inv, RollbackHealth, RollbackCall, durable, history, RollingBack
  <2>3. Anywhere(task)' /\ web' = web /\ env' = env /\ refs' = refs
    BY <1>0, <1>b, <2>1, <2>2, AnywhereStays DEF Health, world
  <2>4. CASE ok
    <3>1. web = Running(task.original)
      BY <2>1, <2>4 DEF Health, Outcome, WebIs, Running, Inv, TypeOK, Containers
    <3>2. PICK next \in {"restore_version", "finish_rolled_back"} :
            /\ Goto(next) /\ mode' = mode /\ failing' = failing
            /\ next = "finish_rolled_back" => ~failing.restore
      BY <2>1, <2>4 DEF Goto
    <3>3. Course(next, mode, task)'
      BY <1>0, <2>2, <3>2 DEF Fits, Course, CleaningUp, Switching, RollingBack
    <3>4. Here(next, mode, task)'
      BY <1>0, <2>2, <2>3, <3>1, <3>2 DEF Fits, Here, Running, CleaningUp, RollingBack
    <3> QED BY <1>2, <2>2, <2>3, <3>2, <3>3, <3>4 DEF Labels
  <2>5. CASE ~ok
    BY <1>3, <2>1, <2>2, <2>3, <2>5
  <2> QED BY <2>4, <2>5
<1>6. CASE RestoreVersion
  <2>1. PICK ok \in BOOLEAN : PersistVersion(task.original, ok)
                              /\ Goto(IF ok THEN "finish_rolled_back" ELSE "finish_manual")
    BY <1>6, Zenon DEF RestoreVersion, RollbackCall
  <2>2. /\ Harmless /\ pc = "restore_version" /\ UNCHANGED <<durable, history>>
        /\ task' = task /\ base' = base /\ task.stage \in PostTag
    BY <1>0, <1>6, <1>c, <2>1, MethodsAreHarmless
       DEF Inv, RestoreVersion, RollbackCall, durable, history, RollingBack
  <2>3. web = Running(task.original)
    BY <1>0, <2>2 DEF Fits, Here
  <2>4. web' = web /\ refs' = refs /\ env' \in {env, task.original} /\ (ok => env' = task.original)
    BY <2>1 DEF PersistVersion
  <2>5. Anywhere(task)'
    BY <1>b, <2>2, <2>3, <2>4 DEF Anywhere, Running, PostTag, Identified, Terminal
  <2>6. CASE ok
    <3>1. mode' = mode /\ failing' = failing /\ Goto("finish_rolled_back")
      BY <2>1, <2>6 DEF Goto
    <3>2. Course("finish_rolled_back", mode, task)' /\ Here("finish_rolled_back", mode, task)'
      BY <1>0, <2>2, <2>3, <2>4, <2>6, <3>1 DEF Course, Here, Running, CleaningUp, Switching, RollingBack
    <3> QED BY <1>2, <2>2, <2>4, <2>5, <3>1, <3>2 DEF Labels
  <2>7. CASE ~ok
    BY <1>3, <2>1, <2>2, <2>4, <2>5, <2>7
  <2> QED BY <2>6, <2>7
<1>7. CASE PreTagHealth
  <2>1. PICK ok \in BOOLEAN : Health(task.original, ok)
                              /\ Goto(IF ok THEN "finish_failed" ELSE "finish_manual")
    BY <1>7, Zenon DEF PreTagHealth, RollbackCall
  <2>2. /\ Harmless /\ pc = "pre_tag_health" /\ UNCHANGED <<durable, history>>
        /\ task' = task /\ base' = base /\ task.stage \in PreTag
    BY <1>0, <1>7, <2>1, MethodsAreHarmless
       DEF Inv, Fits, Course, PreTagHealth, RollbackCall, durable, history
  <2>3. Anywhere(task)' /\ web' = web /\ env' = env /\ refs' = refs
    BY <1>0, <1>b, <2>1, <2>2, AnywhereStays DEF Health, world
  <2>4. CASE ok
    <3>1. mode' = mode /\ failing' = failing /\ Goto("finish_failed")
      BY <2>1, <2>4 DEF Goto
    <3>2. Course("finish_failed", mode, task)' /\ Here("finish_failed", mode, task)'
      BY <1>0, <2>2, <3>1 DEF Course, Here, CleaningUp, Switching, RollingBack
    <3> QED BY <1>2, <2>2, <2>3, <3>1, <3>2 DEF Labels
  <2>5. CASE ~ok
    BY <1>3, <2>1, <2>2, <2>3, <2>5
  <2> QED BY <2>4, <2>5
<1>8. CASE FinishFailed
  <2> DEFINE t == [task EXCEPT !.stage = "failed", !.error_code = failing.code,
                               !.rolled_back = (pc = "finish_rolled_back")]
  <2>1. Save(t, Release) /\ pc \in {"finish_failed", "finish_rolled_back"}
    BY <1>8, Zenon DEF FinishFailed
  <2>2. PICK undone \in BOOLEAN : undone = (pc = "finish_rolled_back")
    OBVIOUS
  <2>3. PICK u \in Tasks : u = t
    <3>1. "failed" \in Stages
      BY DEF Stages, Terminal
    <3>2. [task EXCEPT !.stage = "failed", !.error_code = failing.code, !.rolled_back = undone] \in Tasks
      BY <1>0, <1>a, <3>1, EndSaved, Zenon
    <3> QED BY <2>2, <3>2
  <2>4. /\ u.stage = "failed" /\ u.original = task.original /\ u.target = task.target
        /\ u.rolled_back = (pc = "finish_rolled_back")
    BY <1>0, <2>3, Zenon DEF Tasks
  <2> HIDE DEF t
  <2>5. /\ web = Running(base.image) /\ env = base.env /\ base.env = base.image
        /\ pc = "finish_rolled_back" => base.image = task.original
    BY <1>0, <2>1 DEF Fits, Course, Anywhere, Here, Flow, Steady
  <2>6. Flow' /\ (Stays \/ (task' = u /\ UNCHANGED <<web, env, base>>))
    BY <1>0, <2>1, <2>3, <2>4, <2>5, LastSaveFlows DEF Replaceable, Terminal
  <2>7. u # None
    BY NoneIsNoRecord
  <2> QED BY <1>0, <2>4, <2>5, <2>6, <2>7 DEF Fails, Ends, Unfinished
<1>9. CASE FinishManual
  <2> DEFINE t == [task EXCEPT !.stage = "manual_intervention", !.error_code = "rollback_failed"]
  <2>1. t \in Tasks /\ t.stage = "manual_intervention" /\ Keeps(t, task)
    BY <1>0, FailureSaved DEF Stages, Terminal, ErrorCodes
  <2>2. Save(t, Release)
    BY <1>9 DEF FinishManual
  <2> HIDE DEF t
  <2>3. t.alias => WrittenAhead(t)
    BY <1>0, <2>1 DEF Fits, Journaled, WrittenAhead, Replaceable, Keeps, Terminal
  <2>4. Flow' /\ (Stays \/ (task' = t /\ UNCHANGED <<web, env, base>>))
    BY <1>0, <2>1, <2>2, <2>3, LastSaveFlows DEF Terminal, Keeps
  <2>5. t # None
    BY <2>1, NoneIsNoRecord
  <2> QED BY <1>0, <2>1, <2>4, <2>5 DEF GivesUp, Ends, Unfinished, Keeps
<1> QED BY <1>1, <1>4, <1>5, <1>6, <1>7, <1>8, <1>9 DEF RollBack

-----------------------------------------------------------------------------
(* The cleanup.                                                            *)

(* The steps of the journal come one after another.                        *)
LEMMA StepsInOrder ==
  ASSUME NEW step \in CleanupSteps, CurrentStep(step)
  PROVE  /\ task.journal[step] # "completed"
         /\ step # "version_tag" => task.journal["version_tag"] = "completed"
         /\ step = "image_id" => task.journal["rollback_alias"] = "completed"
BY DEF CurrentStep, JournalOrder, CleanupSteps

(* What a removal takes, and from which image.                             *)
LEMMA RemovalTakes ==
  ASSUME TypeOK, task \in Tasks, NEW step \in CleanupSteps, RemoveStep(step)
  PROVE  /\ \A v \in Versions \ {task.original} : refs'[v] = refs[v]
         /\ refs'[task.original] \subseteq refs[task.original]
         /\ refs' # refs => /\ task.journal[step] = "started"
                            /\ env = task.target /\ web.image # task.original
         /\ step = "version_tag" => refs[task.original] \ refs'[task.original] \subseteq {"tag", "digest"}
         /\ step = "rollback_alias" => refs[task.original] \ refs'[task.original] \subseteq {task.id}
         /\ pc' = "step_done" =>
              /\ step = "version_tag" => "tag" \notin refs'[task.original]
              /\ step = "rollback_alias" => task.id \notin refs'[task.original]
              /\ step = "image_id" => refs'[task.original] = {}
<1> DEFINE v == task.original
           id == task.id
<1>0. v \in Versions /\ refs \in [Versions -> SUBSET Refs]
  BY DEF Tasks, TypeOK
<1>1. PICK ok \in BOOLEAN :
        /\ CleanupOriginalStep(step, task.journal[step], id, v, task.target, ok)
        /\ Goto(IF ok THEN "step_done" ELSE "cleanup_over")
  BY Zenon DEF RemoveStep
<1>2. pc' = "step_done" => ok
  BY <1>1 DEF Goto
<1> HIDE DEF v, id
<1> DEFINE checks == CleanupChecks(step, task.journal[step], id, v, task.target)
<1>3. /\ ok => checks
      /\ refs' = refs \/ (checks /\ refs' \in Removed(step, id, v))
      /\ ok => (AlreadyRemoved(step, id, v) /\ refs' = refs) \/ refs' \in Removed(step, id, v)
  BY <1>1 DEF CleanupOriginalStep, Outcome
<1>4. checks => task.journal[step] = "started" /\ env = task.target /\ web.image # v
  BY Zenon DEF CleanupChecks
<1> HIDE DEF checks
<1>5. CASE step = "version_tag"
  <2>1. Removed(step, id, v) = {[refs EXCEPT ![v] = @ \ gone] : gone \in {{"tag"}, {"tag", "digest"}}}
    BY <1>5, Zenon DEF Removed
  <2>2. AlreadyRemoved(step, id, v) = ("tag" \notin refs[v])
    BY <1>5, Zenon DEF AlreadyRemoved
  <2> QED BY <1>0, <1>2, <1>3, <1>4, <1>5, <2>1, <2>2 DEF v, id
<1>6. CASE step = "rollback_alias"
  <2>1. Removed(step, id, v) = {[refs EXCEPT ![v] = @ \ {id}]}
    BY <1>6, Zenon DEF Removed
  <2>2. AlreadyRemoved(step, id, v) = (id \notin refs[v])
    BY <1>6, Zenon DEF AlreadyRemoved
  <2> QED BY <1>0, <1>2, <1>3, <1>4, <1>6, <2>1, <2>2 DEF v, id
<1>7. CASE step = "image_id"
  <2>1. Removed(step, id, v) = {[refs EXCEPT ![v] = {}]}
    BY <1>7, Zenon DEF Removed
  <2>2. AlreadyRemoved(step, id, v) = (refs[v] = {})
    BY <1>7, Zenon DEF AlreadyRemoved
  <2> QED BY <1>0, <1>2, <1>3, <1>4, <1>7, <2>1, <2>2 DEF v, id
<1> QED BY <1>5, <1>6, <1>7 DEF CleanupSteps

(* A removal is journaled ahead, and leaves the target alone.              *)
LEMMA RemoveFlows ==
  ASSUME Inv, Flow, NEW step \in CleanupSteps, RemoveStep(step)
  PROVE  Flow' /\ Stays
<1>0. /\ task \in Tasks /\ task # None /\ task.id \in TaskIds /\ task.original \in Versions
      /\ task.target \in Versions /\ pc = "cleanup_step" /\ Fits(pc, mode, task)
  BY DEF Inv, TypeOK, Attached, RemoveStep, Tasks, Flow
<1>1. /\ task' = task /\ last_check' = last_check /\ base' = base /\ web' = web /\ env' = env
      /\ mode' = mode /\ failing' = failing /\ pc' \in {"step_done", "cleanup_over"}
  BY DEF RemoveStep, CleanupOriginalStep, Goto, durable, history
<1>2. /\ \A v \in Versions \ {task.original} : refs'[v] = refs[v]
      /\ refs'[task.original] \subseteq refs[task.original]
      /\ refs' # refs => task.journal[step] = "started"
      /\ step = "version_tag" => refs[task.original] \ refs'[task.original] \subseteq {"tag", "digest"}
      /\ step = "rollback_alias" => refs[task.original] \ refs'[task.original] \subseteq {task.id}
      /\ pc' = "step_done" =>
           /\ step = "version_tag" => "tag" \notin refs'[task.original]
           /\ step = "rollback_alias" => task.id \notin refs'[task.original]
           /\ step = "image_id" => refs'[task.original] = {}
  BY <1>0, RemovalTakes DEF Inv
<1>3. /\ task.journal[step] # "completed"
      /\ step # "version_tag" => task.journal["version_tag"] = "completed"
      /\ step = "image_id" => task.journal["rollback_alias"] = "completed"
  BY StepsInOrder DEF RemoveStep
<1>4. task.id \notin {"tag", "digest"}
  BY <1>0, TaskIdsAssumption
<1>5. ASSUME WrittenAhead(task) PROVE WrittenAhead(task)'
  <2> DEFINE left == refs[task.original]
             j == task.journal
  <2>1. /\ "tag" \notin left => j["version_tag"] # "not_started"
        /\ task.id \notin left => j["rollback_alias"] # "not_started"
        /\ j["version_tag"] = "completed" => "tag" \notin left
        /\ j["rollback_alias"] = "completed" => task.id \notin left
        /\ j["image_id"] = "completed" => left = {}
    BY <1>5 DEF WrittenAhead
  <2>2. "tag" \notin left' => j["version_tag"] # "not_started"
    BY <1>1, <1>2, <1>3, <1>4, <2>1 DEF CleanupSteps
  <2>3. task.id \notin left' => j["rollback_alias"] # "not_started"
    BY <1>1, <1>2, <1>3, <1>4, <2>1 DEF CleanupSteps
  <2> QED BY <1>1, <1>2, <2>1, <2>2, <2>3 DEF WrittenAhead
<1>6. pc' = "step_done" => Removal(task)'
  BY <1>1, <1>2, <1>3 DEF Removal, CleanupSteps
<1>7. Journaled(pc, task)'
  BY <1>0, <1>1, <1>5, <1>6 DEF Fits, Journaled, Replaceable
<1>8. Identified(task.target)'
  BY <1>0, <1>1, <1>2 DEF Fits, Here, CleaningUp, Identified
<1>9. Anywhere(task)'
  BY <1>0, <1>1, <1>8 DEF Fits, Anywhere, Running
<1>10. Course(pc, mode, task)' /\ Here(pc, mode, task)'
  BY <1>0, <1>1, <1>8 DEF Fits, Course, Here, Running, CleaningUp, Switching, RollingBack
<1>11. Steady' /\ Stays
  BY <1>0, <1>1 DEF Flow, Steady, AtRest, Running, Stays
<1> QED BY <1>0, <1>1, <1>7, <1>9, <1>10, <1>11 DEF Flow, Fits

(* The cleanup of the original image, and the commit.                      *)
LEMMA CleanUpFlows ==
  ASSUME Inv, Flow, CleanUp
  PROVE  Flow' /\ (Stays \/ Succeeds)
<1>0. /\ task \in Tasks /\ task # None /\ Fits(pc, mode, task) /\ pc \in CleaningUp
  BY DEF Inv, TypeOK, Attached, CleanUp, MarkPending, CleanupDone, CommitSuccess,
         ManualCleanupOver, StartStep, RemoveStep, CompleteStep, Preparing, Flow, CleaningUp
<1>a. /\ mode = "manual" => task.stage = "succeeded" /\ task.cleanup # "complete"
      /\ mode # "manual" => task.stage = "cleaning" /\ web = Running(task.target) /\ env = task.target
      /\ Identified(task.target) /\ task.original # task.target
  BY <1>0 DEF Fits, Course, Here, CleaningUp
<1>b. task.stage \notin PreTag /\ (task.alias => WrittenAhead(task)) /\ ~Replaceable(task)
  BY <1>0, <1>a DEF Fits, Journaled, Replaceable, PreTag
<1>1. ASSUME NEW t \in Tasks, NEW next \in Labels, Save(t, Goto(next)),
             next \in {"cleanup", "cleanup_step"},
             t.stage = task.stage, t.original = task.original, t.target = task.target,
             mode = "manual" => t.cleanup # "complete",
             t.alias => WrittenAhead(t)
      PROVE  Flow' /\ Stays
  <2>1. Course(next, mode, t)
    BY <1>a, <1>1 DEF Course, CleaningUp, Switching, RollingBack, Terminal
  <2>2. Anywhere(t) /\ Here(next, mode, t)
    BY <1>0, <1>a, <1>1 DEF Fits, Anywhere, Here, CleaningUp, RollingBack
  <2>3. Journaled(next, t)
    BY <1>b, <1>1 DEF Journaled
  <2> QED BY <1>0, <1>a, <1>1, <2>1, <2>2, <2>3, SaveFlows DEF Fits
<1>2. CASE MarkPending
  <2> DEFINE t == [task EXCEPT !.cleanup = "pending"]
  <2>1. t \in Tasks /\ t.stage = task.stage /\ Keeps(t, task)
    BY <1>0, CleanupSaved
  <2>2. t.cleanup = "pending"
    BY <1>0 DEF Tasks
  <2>3. Save(t, Goto("cleanup"))
    BY <1>2 DEF MarkPending
  <2> HIDE DEF t
  <2>4. t.alias => WrittenAhead(t)
    BY <1>b, <2>1 DEF WrittenAhead, Keeps
  <2> QED BY <1>1, <2>1, <2>2, <2>3, <2>4 DEF Labels, Keeps
<1>3. ASSUME NEW next \in {"cleanup_over", "cleanup_step"}, Goto(next),
             UNCHANGED <<world, durable, history>>
      PROVE  Flow' /\ Stays
  <2>1. /\ task' = task /\ last_check' = last_check /\ base' = base /\ web' = web /\ env' = env
        /\ mode' = mode /\ failing' = failing /\ refs' = refs /\ pc' = next
    BY <1>3 DEF world, durable, history, Goto
  <2>2. Course(pc, mode, task)' /\ Here(pc, mode, task)'
    BY <1>0, <1>3, <2>1 DEF Fits, Course, Here, Running, Identified, CleaningUp, Switching, RollingBack
  <2>3. Anywhere(task)' /\ Journaled(pc, task)'
    BY <1>0, <1>3, <2>1 DEF Fits, Anywhere, Running, Identified, Journaled, WrittenAhead, Replaceable
  <2>4. Steady' /\ Stays
    BY <1>0, <2>1 DEF Flow, Steady, AtRest, Running, Stays
  <2> QED BY <1>0, <2>1, <2>2, <2>3, <2>4 DEF Flow, Fits
<1>4. CASE CleanupDone
  BY <1>3, <1>4 DEF CleanupDone
<1>5. ASSUME NEW step \in CleanupSteps, StartStep(step)
      PROVE  Flow' /\ Stays
  <2>1. CASE task.journal[step] = "not_started"
    <3> DEFINE t == [task EXCEPT !.journal[step] = "started"]
    <3>1. /\ t \in Tasks /\ t.stage = task.stage /\ t.id = task.id /\ t.original = task.original
          /\ t.alias = task.alias /\ t.journal = [task.journal EXCEPT ![step] = "started"]
      BY <1>0, JournalSaved DEF StepStatuses
    <3>2. t.target = task.target /\ t.cleanup = task.cleanup
      BY <1>0 DEF Tasks
    <3>3. Save(t, Goto("cleanup_step"))
      BY <1>5, <2>1, Zenon DEF StartStep
    <3> HIDE DEF t
    <3>4. task.journal \in [CleanupSteps -> StepStatuses]
      BY <1>0 DEF Tasks
    <3>5. t.alias => WrittenAhead(t)
      BY <1>b, <2>1, <3>1, <3>4 DEF WrittenAhead, CleanupSteps
    <3> QED BY <1>1, <1>a, <3>1, <3>2, <3>3, <3>5 DEF Labels
  <2>2. CASE task.journal[step] # "not_started"
    BY <1>3, <1>5, <2>2 DEF StartStep
  <2> QED BY <2>1, <2>2
<1>6. ASSUME NEW step \in CleanupSteps, CompleteStep(step)
      PROVE  Flow' /\ Stays
  <2> DEFINE t == [task EXCEPT !.journal[step] = "completed"]
  <2>1. /\ t \in Tasks /\ t.stage = task.stage /\ t.id = task.id /\ t.original = task.original
        /\ t.alias = task.alias /\ t.journal = [task.journal EXCEPT ![step] = "completed"]
    BY <1>0, JournalSaved DEF StepStatuses
  <2>2. t.target = task.target /\ t.cleanup = task.cleanup
    BY <1>0 DEF Tasks
  <2>3. Save(t, Goto("cleanup")) /\ pc = "step_done"
    BY <1>6, Zenon DEF CompleteStep
  <2> HIDE DEF t
  <2>4. task.journal \in [CleanupSteps -> StepStatuses] /\ Removal(task)
    BY <1>0, <2>3 DEF Tasks, Fits, Journaled
  <2>5. /\ task.journal[step] # "completed"
        /\ step # "version_tag" => task.journal["version_tag"] = "completed"
        /\ step = "image_id" => task.journal["rollback_alias"] = "completed"
    BY <1>6, StepsInOrder DEF CompleteStep
  <2>6. t.alias => WrittenAhead(t)
    BY <1>b, <2>1, <2>4, <2>5 DEF WrittenAhead, Removal, CleanupSteps
  <2> QED BY <1>1, <1>a, <2>1, <2>2, <2>3, <2>6 DEF Labels
<1>7. CASE CommitSuccess
  <2>1. CASE Abort /\ UNCHANGED <<durable, world, history>>
    BY <2>1, AbortFlows DEF durable
  <2>2. CASE /\ task' = [Settled(task) EXCEPT !.stage = "succeeded"]
             /\ last_check' = [current |-> task.target, target |-> task.target,
                               available |-> FALSE, fresh |-> TRUE]
             /\ Release /\ UNCHANGED <<world, history>>
    <3>1. task' \in Tasks /\ task'.stage = "succeeded" /\ Keeps(task', task) /\ task' # None
      <4>1. Settled(task) \in Tasks /\ Keeps(Settled(task), task)
        BY <1>0, SettledKeeps
      <4>2. "succeeded" \in Stages
        BY DEF Stages, Terminal
      <4>3. task' \in Tasks /\ task'.stage = "succeeded" /\ Keeps(task', Settled(task))
        BY <2>2, <4>1, <4>2, StageSaved
      <4> QED BY <4>1, <4>3, NoneIsNoRecord DEF Keeps
    <3>2. /\ pc' \in {"idle", "down"} /\ mode' = "serve" /\ web' = web /\ env' = env
          /\ refs' = refs /\ base' = base /\ last_check'.available = FALSE
      BY <2>2 DEF Release, world, history
    <3>3. mode # "manual"
      BY <1>7 DEF CommitSuccess
    <3>4. Course(pc, mode, task)' /\ Here(pc, mode, task)'
      BY <3>2 DEF Course, Here, CleaningUp, Switching, RollingBack
    <3>5. Anywhere(task)'
      BY <1>a, <3>1, <3>2 DEF Anywhere, PreTag, PostTag, Terminal, SwitchStages, Keeps, Identified
    <3>6. Journaled(pc, task)'
      BY <1>b, <3>1, <3>2 DEF Journaled, WrittenAhead, Keeps, PreTag
    <3>7. Steady'
      BY <1>a, <3>1, <3>2, <3>3 DEF Flow, Steady, AtRest, Running
    <3>8. Succeeds
      BY <1>0, <1>a, <3>1, <3>2, <3>3 DEF Succeeds, Ends, Unfinished, Keeps, Terminal
    <3> QED BY <1>a, <3>1, <3>4, <3>5, <3>6, <3>7, <3>8 DEF Flow, Fits, Keeps
  <2> QED BY <1>7, <2>1, <2>2, Zenon DEF CommitSuccess
<1>8. CASE ManualCleanupOver
  <2>1. Settled(task) \in Tasks /\ Settled(task).stage = task.stage /\ Keeps(Settled(task), task)
    BY <1>0, SettledKeeps
  <2>2. PICK t \in Tasks : t = Settled(task)
    BY <2>1
  <2>3. Save(t, Release) /\ mode = "manual" /\ t.stage = "succeeded" /\ Keeps(t, task)
    BY <1>8, <1>a, <2>1, <2>2 DEF ManualCleanupOver
  <2>4. t.alias => WrittenAhead(t)
    BY <1>b, <2>3 DEF WrittenAhead, Keeps
  <2>5. web = Running(env)
    BY <1>a, <2>3 DEF Flow, Steady, AtRest
  <2>6. Flow' /\ (Stays \/ (task' = t /\ UNCHANGED <<web, env, base>>))
    BY <1>0, <1>a, <2>3, <2>4, <2>5, LastSaveFlows DEF Terminal, Keeps
  <2>7. t # None
    BY NoneIsNoRecord
  <2> QED BY <1>0, <1>a, <2>3, <2>6, <2>7 DEF Stays, Keeps
<1> QED BY <1>2, <1>4, <1>5, <1>6, <1>7, <1>8, RemoveFlows DEF CleanUp

-----------------------------------------------------------------------------
(* Recovery, requests and what comes from outside.                         *)

(* The beginning of the next update, and a version deployed by hand.       *)
Opens == /\ AtRest /\ UNCHANGED <<web, env>> /\ base' = [env |-> env, image |-> web.image]
         /\ task' # None /\ Unfinished' /\ task'.target \in Versions
Deploys == AtRest /\ UNCHANGED <<task, base>> /\ env' \in Versions /\ web' = Running(env')

(* Where nothing but the place changes, it is enough to look at the place. *)
LEMMA PlaceFlows ==
  ASSUME Flow, UNCHANGED <<world, durable, history>>,
         task # None => Course(pc, mode, task)' /\ Here(pc, mode, task)' /\ pc' # "step_done"
  PROVE  Flow' /\ Stays
<1>1. /\ task' = task /\ last_check' = last_check /\ base' = base /\ web' = web /\ env' = env
      /\ refs' = refs
  BY DEF world, durable, history
<1>2. task # None => Anywhere(task)' /\ Journaled(pc, task)'
  BY <1>1 DEF Flow, Fits, Anywhere, Running, Identified, Journaled, WrittenAhead, Replaceable
<1>3. Steady' /\ Stays
  BY <1>1 DEF Flow, Steady, AtRest, Running, Stays
<1> QED BY <1>1, <1>2, <1>3 DEF Flow, Fits

(* A recovery knows from the stage which side Web and .env may be on.      *)
LEMMA RecoverFlows ==
  ASSUME Inv, Flow, Recover
  PROVE  Flow' /\ (Stays \/ Fails \/ GivesUp)
<1>1. CASE RecoverNothing
  <2>1. pc' = "idle" /\ UNCHANGED <<world, durable, history>> /\ mode' = mode /\ mode = "serve"
    BY <1>1 DEF RecoverNothing, Inv, Attached
  <2>2. Course(pc, mode, task)' /\ Here(pc, mode, task)'
    BY <2>1 DEF Course, Here, CleaningUp, Switching, RollingBack
  <2> QED BY <2>1, <2>2, PlaceFlows
<1>2. ASSUME NEW label \in {"finish_manual", "complete_health", "pre_tag_health", "rollback"}, NEW f,
             Recovering(label, f), Unfinished,
             label = "complete_health" => task.stage \in TargetCompletion,
             label = "pre_tag_health" => task.stage \in PreTag,
             label = "rollback" => f.stage = task.stage /\ (~f.restore => env = task.original)
      PROVE  Flow' /\ Stays
  <2>1. /\ pc' = label /\ mode' = "recover" /\ failing' = f /\ UNCHANGED <<world, durable, history>>
        /\ task' = task /\ env' = env
    BY <1>2 DEF Recovering, world, durable
  <2>2. Course(pc, mode, task)' /\ Here(pc, mode, task)'
    BY <1>2, <2>1 DEF Unfinished, Course, Here, CleaningUp, Switching, RollingBack
  <2> QED BY <1>2, <2>1, <2>2, PlaceFlows
<1>3. CASE RecoverManual
  BY <1>2, <1>3 DEF RecoverManual
<1>4. CASE RecoverTarget
  BY <1>2, <1>4 DEF RecoverTarget
<1>5. CASE RecoverPreTag
  BY <1>2, <1>5 DEF RecoverPreTag
<1>6. CASE RecoverRollback
  <2> DEFINE restore == task.stage \in TargetCompletion \cup {"rolling_back"}
             f == Failure("update_failed", task.stage, restore)
  <2>1. Recovering("rollback", f) /\ Unfinished /\ task.stage \notin PreTag
    BY <1>6 DEF RecoverRollback
  <2>2. f.stage = task.stage /\ f.restore = restore
    BY Zenon DEF Failure
  <2>3. task # None /\ task \in Tasks /\ Anywhere(task)
    BY <2>1 DEF Unfinished, Inv, TypeOK, Flow, Fits
  <2>4. ~restore => task.stage \in SwitchStages
    BY <2>1, <2>3 DEF Unfinished, Tasks, Stages, SwitchStages
  <2>5. ~f.restore => env = task.original
    BY <2>2, <2>3, <2>4 DEF Anywhere
  <2> HIDE DEF f, restore
  <2> QED BY <1>2, <2>1, <2>2, <2>5
<1>7. CASE CompleteHealth
  BY <1>7, CallsFlow
<1>8. CASE PreTagHealth
  BY <1>8, RollBackFlows
<1> QED BY <1>1, <1>3, <1>4, <1>5, <1>6, <1>7, <1>8 DEF Recover

(* At rest nothing of the last task matters but that its target is there.  *)
LEMMA RestFits ==
  ASSUME Flow, MayReplace, task # None, task' = task, pc' = "idle", mode' = "serve",
         Identified(task.target) => Identified(task.target)'
  PROVE  Fits(pc, mode, task)'
<1>1. Replaceable(task) /\ task.stage \in {"succeeded", "failed"}
  BY DEF MayReplace, Replaceable
<1>2. Course(pc, mode, task)' /\ Here(pc, mode, task)'
  BY DEF Course, Here, CleaningUp, Switching, RollingBack
<1>3. Anywhere(task)'
  BY <1>1 DEF Flow, Fits, Anywhere, PreTag, PostTag, Terminal, SwitchStages
<1>4. Journaled(pc, task)'
  BY <1>1 DEF Journaled, Replaceable, PreTag
<1> QED BY <1>2, <1>3, <1>4 DEF Flow, Fits

(* resolve_stable takes no tag and no digest.                              *)
LEMMA PullKeepsIdentity ==
  ASSUME TypeOK, NEW v \in Versions, ResolveStable(v), NEW w \in Versions
  PROVE  /\ Identified(w) => Identified(w)'
         /\ refs[w] \ {"stable"} \subseteq refs'[w]
BY DEF TypeOK, ResolveStable, Pulled, Identified

(* check and start: only start opens an update, and only at rest.          *)
LEMMA RequestsFlow ==
  ASSUME Inv, Flow, Requests
  PROVE  Flow' /\ (Stays \/ Opens)
<1>1. CASE Check
  <2>1. PICK v \in Versions :
          /\ ResolveStable(v)
          /\ \/ last_check' = [current |-> web.image, target |-> v,
                               available |-> v > web.image, fresh |-> TRUE]
             \/ UNCHANGED last_check
    BY <1>1, Zenon DEF Check
  <2>2. /\ pc = "idle" /\ MayReplace /\ web.image \in Versions /\ mode = "serve" /\ mode' = mode /\ pc' = pc
        /\ task' = task /\ base' = base
    BY <1>1 DEF Check, Inv, Attached, TypeOK, Containers, WebIdentified, memory, history
  <2>3. web' = web /\ env' = env
    BY <2>1 DEF ResolveStable
  <2>4. last_check' # None /\ last_check'.available => last_check'.current # last_check'.target
    <3>1. web.image \in Nat /\ v \in Nat
      BY <2>2, VersionsAssumption
    <3>2. CASE last_check' = [current |-> web.image, target |-> v, available |-> v > web.image, fresh |-> TRUE]
      <4>1. /\ last_check'.available = (v > web.image)
            /\ last_check'.current = web.image /\ last_check'.target = v
        BY <3>2, Zenon
      <4>2. v > web.image => web.image # v
        BY <3>1
      <4> QED BY <4>1, <4>2
    <3>3. CASE UNCHANGED last_check
      BY <3>3 DEF Flow, Steady
    <3> QED BY <2>1, <3>2, <3>3
  <2>5. Steady' /\ Stays
    BY <2>2, <2>3, <2>4 DEF Flow, Steady, AtRest, Running, Stays
  <2>6. ASSUME task # None PROVE Fits(pc, mode, task)'
    <3>1. task.target \in Versions
      BY <2>6 DEF Inv, TypeOK, Tasks
    <3>2. Identified(task.target) => Identified(task.target)'
      BY <2>1, <2>2, <3>1, PullKeepsIdentity DEF Inv, Identified
    <3> QED BY <2>2, <2>6, <3>2, RestFits
  <2> QED BY <2>2, <2>5, <2>6 DEF Flow
<1>2. ASSUME NEW id \in TaskIds, Start(id)
      PROVE  Flow' /\ (Stays \/ Opens)
  <2>1. PICK v \in Versions :
          /\ ResolveStable(v)
          /\ \/ task' = NewTask(id) /\ base' = [env |-> env, image |-> web.image]
             \/ UNCHANGED <<task, base>>
    BY <1>2, Zenon DEF Start
  <2>2. /\ pc = "idle" /\ MayReplace /\ FreshCheck /\ mode = "serve" /\ mode' = mode /\ pc' = pc
        /\ last_check' = last_check
    BY <1>2 DEF Start, Inv, Attached
  <2>3. web' = web /\ env' = env
    BY <2>1 DEF ResolveStable
  <2>4. AtRest /\ web = Running(env)
    BY <2>2 DEF MayReplace, Flow, Steady, AtRest
  <2>5. CASE UNCHANGED <<task, base>>
    <3>1. Steady' /\ Stays
      BY <2>2, <2>3, <2>5 DEF Flow, Steady, AtRest, Running, Stays
    <3>2. ASSUME task # None PROVE Fits(pc, mode, task)'
      <4>1. task.target \in Versions
        BY <3>2 DEF Inv, TypeOK, Tasks
      <4>2. Identified(task.target) => Identified(task.target)'
        BY <2>1, <2>5, <4>1, PullKeepsIdentity DEF Inv, Identified
      <4> QED BY <2>2, <2>5, <3>2, <4>2, RestFits
    <3> QED BY <2>5, <3>1, <3>2 DEF Flow
  <2>6. CASE task' = NewTask(id) /\ base' = [env |-> env, image |-> web.image]
    <3>1. NewTask(id) \in Tasks /\ NewTask(id).stage = "checking" /\ NewTask(id) # None
      BY <2>2, NewTaskType, NoneIsNoRecord DEF Inv
    <3>2. /\ NewTask(id).original = last_check.current /\ NewTask(id).target = last_check.target
          /\ NewTask(id).alias = FALSE /\ NewTask(id).journal = [s \in CleanupSteps |-> "not_started"]
      BY Zenon DEF NewTask
    <3>3. last_check.current # last_check.target /\ last_check.target \in Versions
      BY <2>2 DEF FreshCheck, Flow, Steady, Inv, TypeOK, CheckResults
    <3>4. base'.env = env /\ base'.image = env
      BY <2>4, <2>6 DEF Running
    <3>5. Course(pc, mode, task)' /\ Here(pc, mode, task)'
      BY <2>2 DEF Course, Here, CleaningUp, Switching, RollingBack
    <3>6. Anywhere(task)'
      BY <2>3, <2>4, <2>6, <3>1, <3>4 DEF Anywhere, PreTag, PostTag, Terminal, SwitchStages, Running
    <3>7. Journaled(pc, task)'
      BY <2>2, <2>6, <3>1, <3>2 DEF Journaled
    <3>8. Steady'
      BY <2>2, <2>6, <3>1, <3>4 DEF Flow, Steady, AtRest
    <3>9. Opens
      BY <2>3, <2>4, <2>6, <3>1, <3>2, <3>3 DEF Opens, Unfinished, Terminal
    <3> QED BY <2>6, <3>2, <3>3, <3>5, <3>6, <3>7, <3>8, <3>9 DEF Flow, Fits
  <2> QED BY <2>1, <2>5, <2>6
<1>3. ASSUME NEW id \in TaskIds, StartAgain(id)
      PROVE  Flow' /\ Stays
  <2>1. /\ pc = "idle" /\ pc' = pc /\ mode' = mode /\ mode = "serve"
        /\ UNCHANGED <<world, durable, history>>
    BY <1>3 DEF StartAgain, Inv, Attached
  <2>2. Course(pc, mode, task)' /\ Here(pc, mode, task)'
    BY <2>1 DEF Course, Here, CleaningUp, Switching, RollingBack
  <2> QED BY <2>1, <2>2, PlaceFlows
<1>4. CASE ManualCleanup
  <2>1. /\ pc' = "cleanup" /\ mode' = "manual" /\ UNCHANGED <<world, durable, history>>
        /\ task # None /\ task.stage = "succeeded" /\ task.cleanup = "pending"
        /\ task' = task /\ refs' = refs
    BY <1>4 DEF ManualCleanup, durable, world
  <2>2. Course(pc, mode, task)' /\ Here(pc, mode, task)'
    BY <2>1 DEF Flow, Fits, Anywhere, Identified, Course, Here, CleaningUp, Switching, RollingBack
  <2> QED BY <2>1, <2>2, PlaceFlows
<1> QED BY <1>1, <1>2, <1>3, <1>4 DEF Requests

(* A crash, a check that is too old and a version deployed by hand.        *)
LEMMA EnvironmentFlows ==
  ASSUME Inv, Flow, Environment
  PROVE  Flow' /\ (Stays \/ Deploys)
<1>1. CASE Crash
  <2>1. /\ pc' = "down" /\ mode' = "serve"
        /\ web' = web /\ env' = env /\ refs' = refs /\ base' = base
        /\ task' = task /\ last_check' = last_check
    BY <1>1 DEF Crash, world, durable
  <2>2. Course(pc, mode, task)' /\ Here(pc, mode, task)'
    BY <2>1 DEF Course, Here, CleaningUp, Switching, RollingBack
  <2>3. task # None => Anywhere(task)' /\ Journaled(pc, task)'
    BY <2>1 DEF Flow, Fits, Anywhere, Running, Identified, Journaled, WrittenAhead, Replaceable
  <2>4. Steady' /\ Stays
    BY <2>1 DEF Flow, Steady, AtRest, Running, Stays
  <2> QED BY <2>1, <2>2, <2>3, <2>4 DEF Flow, Fits
<1>2. CASE CheckExpires
  <2>1. /\ pc' = pc /\ mode' = mode /\ failing' = failing
        /\ web' = web /\ env' = env /\ refs' = refs /\ base' = base /\ task' = task
    BY <1>2 DEF CheckExpires, world, memory, history
  <2>2. last_check'.available = last_check.available /\ last_check'.current = last_check.current
        /\ last_check'.target = last_check.target /\ last_check # None
    <3>1. last_check # None /\ last_check \in CheckResults
      BY <1>2 DEF CheckExpires, Inv, TypeOK
    <3> QED BY <1>2, <3>1, Zenon DEF CheckExpires, CheckResults
  <2>3. ASSUME task # None PROVE Fits(pc, mode, task)'
    <3>1. Course(pc, mode, task)' /\ Here(pc, mode, task)'
      BY <2>1, <2>3 DEF Flow, Fits, Course, Here, Running, Identified
    <3>2. Anywhere(task)' /\ Journaled(pc, task)'
      BY <2>1, <2>3 DEF Flow, Fits, Anywhere, Running, Identified, Journaled, WrittenAhead, Removal, Replaceable
    <3> QED BY <2>1, <2>3, <3>1, <3>2 DEF Flow, Fits
  <2>4. Steady' /\ Stays
    BY <2>1, <2>2 DEF Flow, Steady, AtRest, Running, Stays
  <2> QED BY <2>1, <2>3, <2>4 DEF Flow
<1>3. ASSUME NEW v \in Versions, Redeploy(v)
      PROVE  Flow' /\ Deploys
  <2>1. /\ pc = "idle" /\ MayReplace /\ env' = v /\ web' = Running(v)
        /\ refs' = [refs EXCEPT ![v] = @ \cup {"tag", "digest"}]
        /\ pc' = pc /\ mode' = mode /\ mode = "serve" /\ task' = task /\ last_check' = last_check
        /\ base' = base
    BY <1>3 DEF Redeploy, Running, durable, memory, history, Inv, Attached
  <2>2. Deploys
    BY <2>1 DEF Deploys, MayReplace, AtRest
  <2>3. Steady'
    BY <2>1 DEF Flow, Steady
  <2>4. ASSUME task # None PROVE Fits(pc, mode, task)'
    <3>1. task.target \in Versions
      BY <2>4 DEF Inv, TypeOK, Tasks
    <3>2. Identified(task.target) => Identified(task.target)'
      BY <2>1, <3>1 DEF Identified, Inv, TypeOK
    <3> QED BY <2>1, <2>4, <3>2, RestFits
  <2> QED BY <2>1, <2>2, <2>3, <2>4 DEF Flow
<1> QED BY <1>1, <1>2, <1>3 DEF Environment

-----------------------------------------------------------------------------
(* The theorems.                                                           *)

(* The first update finds one version deployed and served.                 *)
LEMMA InitFlow == Init => Flow
<1> SUFFICES ASSUME Init PROVE Flow
  OBVIOUS
<1>1. web = Running(env) /\ base.env = env /\ base.image = web.image
  BY DEF Init, Running
<1> QED BY <1>1 DEF Init, Flow, Steady, Running

(* Every step is one of those of an update, or opens, ends or replaces it. *)
LEMMA StepKinds ==
  ASSUME Inv, Flow, Next
  PROVE  Flow' /\ (Stays \/ Opens \/ Fails \/ GivesUp \/ Succeeds \/ Deploys)
<1>1. CASE Execute
  BY <1>1, CheckpointsFlow, CallsFlow, RecordsFlow, ExecuteBeginFlows DEF Execute
<1>2. CASE RollBack
  BY <1>2, RollBackFlows
<1>3. CASE CleanUp
  BY <1>3, CleanUpFlows
<1>4. CASE Recover
  BY <1>4, RecoverFlows
<1>5. CASE Requests
  BY <1>5, RequestsFlow
<1>6. CASE Environment
  BY <1>6, EnvironmentFlows
<1>7. CASE CheckpointFails
  BY <1>7, AbortFlows DEF CheckpointFails, durable
<1> QED BY <1>1, <1>2, <1>3, <1>4, <1>5, <1>6, <1>7 DEF Next, Work

(* A stuttering step changes nothing that the invariant speaks of.         *)
LEMMA FlowStep ==
  ASSUME Inv, Flow, [Next]_vars
  PROVE  Flow'
<1>1. CASE Next
  BY <1>1, StepKinds
<1>2. CASE UNCHANGED vars
  <2>1. /\ pc' = pc /\ mode' = mode /\ failing' = failing /\ task' = task /\ last_check' = last_check
        /\ web' = web /\ env' = env /\ refs' = refs /\ base' = base
    BY <1>2 DEF vars, world, durable, memory, history
  <2>2. Steady'
    BY <2>1 DEF Flow, Steady, AtRest, Running
  <2>3. ASSUME task # None PROVE Fits(pc, mode, task)'
    <3>1. Course(pc, mode, task)' /\ Anywhere(task)' /\ Here(pc, mode, task)'
      BY <2>1, <2>3 DEF Flow, Fits, Course, Anywhere, Here, Running, Identified
    <3>2. Journaled(pc, task)'
      BY <2>1, <2>3 DEF Flow, Fits, Journaled, WrittenAhead, Removal, Replaceable
    <3> QED BY <2>1, <2>3, <3>1, <3>2 DEF Flow, Fits
  <2> QED BY <2>1, <2>2, <2>3 DEF Flow
<1> QED BY <1>1, <1>2

(* The second invariant holds in every state of every behaviour.           *)
THEOREM UpgradeInvariance == Spec => []Flow
<1>1. Init => Flow
  BY InitFlow
<1>2. Inv /\ Flow /\ [Next]_vars => Flow'
  BY FlowStep
<1> QED BY <1>1, <1>2, Invariance, PTL DEF Spec

(* A reference to the replaced image is gone only if the state file says   *)
(* that its removal was started, and stays gone once it says completed.    *)
THEOREM JournalAhead == Spec => []JournalIsWrittenAhead
<1>1. Flow => JournalIsWrittenAhead
  BY DEF Flow, Fits, Journaled, WrittenAhead, Replaceable, JournalIsWrittenAhead, MayReplace
<1> QED BY <1>1, UpgradeInvariance, PTL

(* A task that says rolled_back left the old version running and in .env,  *)
(* one that failed without saying so never touched them, and one that      *)
(* succeeded left the target (_finish_failed, _commit_success).            *)
THEOREM TruthfulOutcomes == Spec => OutcomesAreTruthful
<1> DEFINE Truthful ==
      /\ Finishes("failed") =>
           IF task'.rolled_back
           THEN web = [image |-> task.original, running |-> TRUE] /\ env = task.original
           ELSE web.image = base.image /\ web.running /\ env = base.env
      /\ Finishes("succeeded") =>
           web = [image |-> task.target, running |-> TRUE] /\ env = task.target
<1>1. ASSUME Inv, Flow, [Next]_vars PROVE [Truthful]_vars
  <2> SUFFICES ASSUME Next PROVE Truthful
    BY <1>1
  <2>1. CASE Stays \/ Opens \/ GivesUp \/ Deploys
    <3>1. ~Finishes("failed") /\ ~Finishes("succeeded")
      BY <2>1 DEF Stays, Opens, GivesUp, Ends, Deploys, Finishes, Unfinished, AtRest, Terminal
    <3> QED BY <3>1
  <2>2. CASE Fails
    <3>1. /\ web.image = base.image /\ web.running /\ env = base.env
          /\ web = Running(base.image) /\ base.env = base.image
      BY <1>1, <2>2, Zenon DEF Fails, Running, Flow, Steady
    <3>2. task'.rolled_back => base.image = task.original
      BY <2>2 DEF Fails
    <3>3. ~Finishes("succeeded")
      BY <2>2 DEF Fails, Ends, Finishes
    <3> QED BY <3>1, <3>2, <3>3 DEF Running
  <2>3. CASE Succeeds
    BY <2>3 DEF Succeeds, Ends, Finishes, Running
  <2> QED BY <1>1, <2>1, <2>2, <2>3, StepKinds
<1> HIDE DEF Truthful
<1>2. Spec => [][Truthful]_vars
  BY <1>1, Invariance, UpgradeInvariance, PTL DEF Spec
<1> QED BY <1>2 DEF Truthful, OutcomesAreTruthful

-----------------------------------------------------------------------------
(* What is removed.                                                        *)

(* No method that _execute or recover calls takes a reference.             *)
LEMMA MethodsOnlyAdd ==
  ASSUME Inv, NEW v \in Versions,
         \/ CreateBackupStep \/ VerifyTargetStep \/ TagRollbackStep \/ StopWebStep
         \/ MigrateTargetStep \/ StartTargetStep \/ WaitHealth \/ Stabilize
         \/ PersistVersionStep \/ CompleteHealth
  PROVE  refs[v] \subseteq refs'[v]
<1>1. task \in Tasks
  BY DEF Inv, TypeOK, Attached, CreateBackupStep, VerifyTargetStep, TagRollbackStep, StopWebStep,
     MigrateTargetStep, StartTargetStep, WaitHealth, Stabilize, PersistVersionStep, CompleteHealth, Call
<1>2. task.id \in TaskIds /\ task.original \in Versions /\ task.target \in Versions
  BY <1>1 DEF Tasks
<1>3. \E ok \in BOOLEAN :
        \/ CreateBackup(task.id, ok) \/ VerifyTarget(task.target, ok)
        \/ TagRollback(task.id, task.original, ok) \/ StopWeb(ok) \/ MigrateTarget(task.target, ok)
        \/ StartTarget(task.target, ok) \/ Health(task.target, ok) \/ PersistVersion(task.target, ok)
  BY Zenon DEF CreateBackupStep, VerifyTargetStep, TagRollbackStep, StopWebStep,
     MigrateTargetStep, StartTargetStep, WaitHealth, Stabilize, PersistVersionStep, CompleteHealth, Call
<1>4. Harmless
  BY <1>2, <1>3, MethodsAreHarmless DEF Inv
<1> QED BY <1>4 DEF Harmless

(* Only a step of the cleanup takes a reference away.                      *)
LEMMA OnlyRemovalsTake ==
  ASSUME Inv, Next, NEW v \in Versions
  PROVE  \/ refs[v] \ {"stable"} \subseteq refs'[v]
         \/ \E step \in CleanupSteps : RemoveStep(step)
<1>0. refs \in [Versions -> SUBSET Refs] /\ TypeOK
  BY DEF Inv, TypeOK
<1>1. CASE Execute \/ CompleteHealth
  <2>1. CASE \E id \in TaskIds : ExecuteBegin(id)
    BY <2>1, Zenon DEF ExecuteBegin, world
  <2>2. CASE \/ CreateBackupStep \/ VerifyTargetStep \/ TagRollbackStep \/ StopWebStep
             \/ MigrateTargetStep \/ StartTargetStep \/ WaitHealth \/ Stabilize
             \/ PersistVersionStep \/ CompleteHealth
    BY <2>2, MethodsOnlyAdd
  <2>3. CASE RecordBackups \/ Pulling \/ TargetVerified \/ SaveAlias \/ StoppingWeb \/ Migrating
             \/ StartingWeb \/ CheckingHealth \/ Stabilizing \/ PersistingVersion \/ Cleaning
    BY <2>3, Zenon DEF RecordBackups, Pulling, TargetVerified, SaveAlias, StoppingWeb, Migrating,
       StartingWeb, CheckingHealth, Stabilizing, PersistingVersion, Cleaning, Checkpoint, Save, world
  <2> QED BY <1>1, <2>1, <2>2, <2>3 DEF Execute
<1>2. CASE RollBack
  BY <1>2, Zenon DEF RollBack, Rollback, StartRollbackStep, RollbackHealth, RestoreVersion,
     FinishFailed, FinishManual, RollbackCall, Save, StartRollback, ComposeUp, Health, PersistVersion, world
<1>3. CASE CleanUp
  <2>1. CASE MarkPending \/ CleanupDone \/ CommitSuccess \/ ManualCleanupOver
             \/ \E step \in CleanupSteps : StartStep(step) \/ CompleteStep(step)
    BY <2>1, Zenon DEF MarkPending, CleanupDone, CommitSuccess, ManualCleanupOver,
       StartStep, CompleteStep, Save, world
  <2> QED BY <1>3, <2>1 DEF CleanUp
<1>4. CASE Recover /\ ~CompleteHealth
  BY <1>4, Zenon DEF Recover, RecoverNothing, RecoverManual, RecoverTarget,
     RecoverPreTag, PreTagHealth, RecoverRollback, Recovering, RollbackCall, Health, world
<1>5. CASE Requests
  <2>1. CASE ManualCleanup \/ \E id \in TaskIds : StartAgain(id)
    BY <2>1, Zenon DEF ManualCleanup, StartAgain, world
  <2>2. CASE Check \/ \E id \in TaskIds : Start(id)
    <3>1. PICK w \in Versions : ResolveStable(w)
      BY <2>2, Zenon DEF Check, Start
    <3> QED BY <1>0, <3>1, PullKeepsIdentity
  <2> QED BY <1>5, <2>1, <2>2 DEF Requests
<1>6. CASE Environment
  <2>1. CASE Crash \/ CheckExpires
    BY <2>1, Zenon DEF Crash, CheckExpires, world
  <2>2. ASSUME NEW w \in Versions, Redeploy(w) PROVE refs[v] \subseteq refs'[v]
    BY <1>0, <2>2 DEF Redeploy
  <2> QED BY <1>6, <2>1, <2>2 DEF Environment
<1>7. CASE CheckpointFails
  BY <1>7, Zenon DEF CheckpointFails, world
<1> QED BY <1>1, <1>2, <1>3, <1>4, <1>5, <1>6, <1>7 DEF Next, Work

(* cleanup_original_step takes references only from the image that the     *)
(* task replaced, and only while Web and .env are on the target, which     *)
(* keeps its identity.                                                     *)
THEOREM RemovesOnlyReplaced == Spec => OnlyReplacedImageIsRemoved
<1> DEFINE Replaced ==
      \A v \in Versions :
        ~(refs[v] \ {"stable"} \subseteq refs'[v]) =>
          /\ task # None /\ v = task.original
          /\ web.image = task.target /\ env = task.target
          /\ Identified(task.target)
<1>1. ASSUME Inv, Flow, [Next]_vars PROVE [Replaced]_vars
  <2> SUFFICES ASSUME Next, NEW v \in Versions, ~(refs[v] \ {"stable"} \subseteq refs'[v])
               PROVE  /\ task # None /\ v = task.original
                      /\ web.image = task.target /\ env = task.target
                      /\ Identified(task.target)
    BY <1>1
  <2>1. PICK step \in CleanupSteps : RemoveStep(step)
    BY <1>1, OnlyRemovalsTake
  <2>2. pc = "cleanup_step" /\ task \in Tasks /\ task # None
    BY <1>1, <2>1 DEF RemoveStep, Inv, TypeOK, Attached
  <2>3. v = task.original /\ env = task.target
    <3>1. /\ \A w \in Versions \ {task.original} : refs'[w] = refs[w]
          /\ refs' # refs => env = task.target
      BY <1>1, <2>1, <2>2, RemovalTakes DEF Inv
    <3> QED BY <3>1
  <2>4. Fits(pc, mode, task) /\ Steady
    BY <1>1, <2>2 DEF Flow
  <2>5. Identified(task.target)
    BY <2>2, <2>4 DEF Fits, Here, CleaningUp
  <2>6. web.image = task.target
    <3>1. CASE mode = "manual"
      <4>1. web = Running(env)
        BY <2>2, <2>4, <3>1 DEF Fits, Course, CleaningUp, Steady, AtRest
      <4> QED BY <2>3, <4>1 DEF Running
    <3>2. CASE mode # "manual"
      <4>1. web = Running(task.target)
        BY <2>2, <2>4, <3>2 DEF Fits, Here, CleaningUp
      <4> QED BY <4>1 DEF Running
    <3> QED BY <3>1, <3>2
  <2> QED BY <2>2, <2>3, <2>5, <2>6
<1> HIDE DEF Replaced
<1>2. Spec => [][Replaced]_vars
  BY <1>1, Invariance, UpgradeInvariance, PTL DEF Spec
<1> QED BY <1>2 DEF Replaced, OnlyReplacedImageIsRemoved

-----------------------------------------------------------------------------
(* The refinement.                                                         *)

(* Every step is one of an upgrade, or of no concern to it.                *)
LEMMA StepRefines ==
  ASSUME Inv, Flow, [Next]_vars
  PROVE  [Abstract!Next]_(Abstract!vars)
<1>0. Flow'
  BY FlowStep
<1>1. CASE UNCHANGED vars
  BY <1>1 DEF vars, world, durable, history, Abstract!vars, Phase
<1>2. CASE Next
  <2>1. CASE Stays
    <3>1. CASE /\ Unfinished /\ Unfinished' /\ task'.target = task.target /\ base' = base
      <4>1. Phase = "open" /\ Phase' = "open"
        BY <3>1 DEF Phase, Unfinished, Terminal
      <4>2. env' \in {base.env, task.target} /\ web'.image \in {base.image, task.target, None}
        <5>1. Anywhere(task)' /\ base.env = base.image /\ base' = base
          BY <1>0, <3>1 DEF Flow, Steady, Fits, Unfinished
        <5>2. CASE task'.stage \in PreTag
          BY <5>1, <5>2 DEF Anywhere, Running
        <5>3. CASE task'.stage \in PostTag
          BY <3>1, <5>1, <5>3 DEF Anywhere
        <5>4. task'.stage \in Stages
          BY NextInv, <3>1 DEF Inv, TypeOK, Tasks, Unfinished
        <5> QED BY <3>1, <5>2, <5>3, <5>4 DEF PostTag, Unfinished
      <4>3. <<base.env, base.image>>[1] = base.env /\ <<base.env, base.image>>[2] = base.image
        OBVIOUS
      <4>4. task # None /\ task' # None
        BY <3>1 DEF Unfinished
      <4> QED BY <3>1, <4>1, <4>2, <4>3, <4>4 DEF Abstract!Next, Abstract!Move
    <3>2. CASE /\ UNCHANGED <<web, env, base>> /\ task # None /\ task' # None
               /\ task'.stage = task.stage /\ task'.target = task.target
      BY <3>2 DEF Abstract!vars, Phase
    <3>3. CASE UNCHANGED <<web, env, base, task>>
      BY <3>3 DEF Abstract!vars, Phase
    <3> QED BY <2>1, <3>1, <3>2, <3>3 DEF Stays
  <2>2. CASE Opens
    <3>1. Phase = "steady" /\ Phase' = "open"
      BY <2>2 DEF Opens, AtRest, Phase, Unfinished, Terminal
    <3>2. base'.env = env /\ base'.image = web.image
      BY <2>2, Zenon DEF Opens
    <3> QED BY <2>2, <3>1, <3>2 DEF Opens, Abstract!Next, Abstract!Open
  <2>3. CASE Fails
    <3>1. Phase = "open" /\ Phase' = "steady" /\ task # None
      BY <2>3 DEF Fails, Ends, Phase, Unfinished, Terminal
    <3>2. web.image = base.image
      BY <2>3, Zenon DEF Fails, Running
    <3> QED BY <2>3, <3>1, <3>2 DEF Fails, Ends, Abstract!Next, Abstract!Abort
  <2>4. CASE GivesUp
    <3>1. Phase = "open" /\ Phase' = "manual" /\ task # None
      BY <2>4 DEF GivesUp, Ends, Phase, Unfinished, Terminal
    <3> QED BY <2>4, <3>1 DEF GivesUp, Ends, Abstract!Next, Abstract!GiveUp
  <2>5. CASE Succeeds
    <3>1. Phase = "open" /\ Phase' = "steady" /\ task # None
      BY <2>5 DEF Succeeds, Ends, Phase, Unfinished, Terminal
    <3>2. web.image = task.target
      BY <2>5, Zenon DEF Succeeds, Running
    <3> QED BY <2>5, <3>1, <3>2 DEF Succeeds, Ends, Abstract!Next, Abstract!Commit
  <2>6. CASE Deploys
    <3>1. Phase = "steady" /\ Phase' = "steady"
      BY <2>6 DEF Deploys, AtRest, Phase
    <3>2. web'.image = env'
      BY <2>6, Zenon DEF Deploys, Running
    <3> QED BY <2>6, <3>1, <3>2 DEF Deploys, Abstract!Next, Abstract!Deploy
  <2> QED BY <1>2, <2>1, <2>2, <2>3, <2>4, <2>5, <2>6, StepKinds
<1> QED BY <1>1, <1>2

(* The web-managed upgrade is all or nothing: UpdateManager implements     *)
(* Upgrade, whatever fails and whenever it crashes.                        *)
THEOREM RefinesUpgrade == Spec => ImplementsUpgrade
<1>1. Init => Abstract!Init
  <2> SUFFICES ASSUME Init PROVE Abstract!Init
    OBVIOUS
  <2>1. web.image = env /\ base.env = env /\ base.image = web.image /\ task = None /\ env \in Versions
    BY InitFlow, InitInv DEF Init, Flow, Steady, AtRest, Running, Inv, TypeOK
  <2> QED BY <2>1 DEF Abstract!Init, Phase
<1>2. Inv /\ Flow /\ [Next]_vars => [Abstract!Next]_(Abstract!vars)
  BY StepRefines
<1>3. Spec => Abstract!Spec
  BY <1>1, <1>2, Invariance, UpgradeInvariance, PTL DEF Spec, Abstract!Spec
<1> QED BY <1>3 DEF ImplementsUpgrade

-----------------------------------------------------------------------------
(* Nobody forgets a task.                                                  *)

(* While nothing runs, only a task that was just accepted is unfinished,   *)
(* and its worker is still to come.                                        *)
Waiting == Unfinished /\ pc = "idle" => task.stage = "checking" /\ task.id \in queue

(* What begins an operation leads to a label of its own, and what ends one *)
(* leaves a finished task, when no save fails.                             *)
LEMMA WorkWaits ==
  ASSUME Inv, Waiting, Work, "store" \notin Faults
  PROVE  Waiting'
<1>0. task \in Tasks \cup {None} /\ (pc \notin {"idle", "down"} => task # None)
  BY DEF Inv, TypeOK, Attached
<1>1. CASE Execute \/ CompleteHealth
  <2>1. ASSUME NEW id \in TaskIds, ExecuteBegin(id) PROVE Waiting'
    BY <2>1 DEF ExecuteBegin, Waiting, Unfinished, Inv, Attached, Terminal
  <2>2. CASE \/ CreateBackupStep \/ VerifyTargetStep \/ TagRollbackStep \/ StopWebStep
             \/ MigrateTargetStep \/ StartTargetStep \/ WaitHealth \/ Stabilize
             \/ PersistVersionStep \/ CompleteHealth
    <3>1. pc' # "idle"
      BY <2>2 DEF CreateBackupStep, VerifyTargetStep, TagRollbackStep, StopWebStep, MigrateTargetStep,
         StartTargetStep, WaitHealth, Stabilize, PersistVersionStep, CompleteHealth, Call, Goto, Raise
    <3> QED BY <3>1 DEF Waiting
  <2>3. CASE RecordBackups \/ Pulling \/ TargetVerified \/ SaveAlias \/ StoppingWeb \/ Migrating
             \/ StartingWeb \/ CheckingHealth \/ Stabilizing \/ PersistingVersion \/ Cleaning
    <3>1. pc' # "idle"
      BY <2>3 DEF RecordBackups, Pulling, TargetVerified, SaveAlias, StoppingWeb, Migrating, StartingWeb,
         CheckingHealth, Stabilizing, PersistingVersion, Cleaning, Checkpoint, Save, Goto
    <3> QED BY <3>1 DEF Waiting
  <2> QED BY <1>1, <2>1, <2>2, <2>3 DEF Execute
<1>2. CASE RollBack \/ PreTagHealth
  <2>1. CASE Rollback \/ StartRollbackStep \/ RollbackHealth \/ RestoreVersion \/ PreTagHealth
    <3>1. pc' # "idle"
      BY <2>1 DEF Rollback, StartRollbackStep, RollbackHealth, RestoreVersion, PreTagHealth,
         RollbackCall, Save, Goto
    <3> QED BY <3>1 DEF Waiting
  <2>2. CASE FinishFailed
    <3>1. pc = "finish_failed" \/ pc = "finish_rolled_back"
      BY <2>2 DEF FinishFailed
    <3>2. task'.stage = "failed"
      BY <2>2, <3>1, <1>0 DEF FinishFailed, Save, Tasks
    <3> QED BY <3>2 DEF Waiting, Unfinished, Terminal
  <2>3. CASE FinishManual
    <3>2. task'.stage = "manual_intervention"
      BY <2>3, <1>0 DEF FinishManual, Save, Tasks
    <3> QED BY <3>2 DEF Waiting, Unfinished, Terminal
  <2> QED BY <1>2, <2>1, <2>2, <2>3 DEF RollBack
<1>3. CASE CleanUp
  <2>1. CASE MarkPending \/ CleanupDone \/ \E step \in CleanupSteps :
                StartStep(step) \/ RemoveStep(step) \/ CompleteStep(step)
    <3>1. pc' # "idle"
      BY <2>1 DEF MarkPending, CleanupDone, StartStep, RemoveStep, CompleteStep, Save, Goto
    <3> QED BY <3>1 DEF Waiting
  <2>2. CASE CommitSuccess
    <3>1. task \in Tasks /\ Settled(task) \in Tasks
      BY <1>0, <2>2, SettledKeeps DEF CommitSuccess
    <3>2. task' = [Settled(task) EXCEPT !.stage = "succeeded"]
      BY <2>2 DEF CommitSuccess
    <3>3. task'.stage = "succeeded"
      BY <3>1, <3>2 DEF Tasks
    <3> QED BY <3>3 DEF Waiting, Unfinished, Terminal
  <2>3. CASE ManualCleanupOver
    <3>1. pc' # "idle"
      BY <2>3 DEF ManualCleanupOver, Save, Release
    <3> QED BY <3>1 DEF Waiting
  <2> QED BY <1>3, <2>1, <2>2, <2>3 DEF CleanUp
<1>4. CASE Recover /\ ~CompleteHealth /\ ~PreTagHealth
  <2>1. CASE RecoverNothing
    BY <2>1 DEF RecoverNothing, durable, Waiting, Unfinished
  <2>2. CASE RecoverManual \/ RecoverTarget \/ RecoverPreTag \/ RecoverRollback
    <3>1. pc' # "idle"
      BY <2>2 DEF RecoverManual, RecoverTarget, RecoverPreTag, RecoverRollback, Recovering
    <3> QED BY <3>1 DEF Waiting
  <2> QED BY <1>4, <2>1, <2>2 DEF Recover
<1> QED BY <1>1, <1>2, <1>3, <1>4 DEF Work, Recover, CheckpointFails

(* Whatever is requested meanwhile, and by whomever.                       *)
LEMMA OthersWait ==
  ASSUME Inv, Waiting, Requests \/ Environment
  PROVE  Waiting'
<1>1. CASE Check \/ CheckExpires
  BY <1>1 DEF Check, CheckExpires, Waiting, Unfinished, memory
<1>2. CASE ManualCleanup \/ Crash
  BY <1>2 DEF ManualCleanup, Crash, Waiting
<1>3. ASSUME NEW id \in TaskIds, Start(id) PROVE Waiting'
  <2>1. MayReplace /\ FreshCheck /\ pc = "idle" /\ pc' = pc
    BY <1>3 DEF Start
  <2>2. CASE UNCHANGED <<task, queue>>
    BY <2>1, <2>2 DEF Waiting, Unfinished
  <2>3. CASE task' = NewTask(id) /\ queue' = queue \cup {id}
    <3>1. NewTask(id).stage = "checking" /\ NewTask(id).id = id
      BY Zenon DEF NewTask
    <3> QED BY <2>3, <3>1 DEF Waiting
  <2> QED BY <1>3, <2>2, <2>3 DEF Start
<1>4. ASSUME NEW id \in TaskIds, StartAgain(id) PROVE Waiting'
  BY <1>4 DEF StartAgain, durable, Waiting, Unfinished
<1>5. ASSUME NEW v \in Versions, Redeploy(v) PROVE Waiting'
  BY <1>5 DEF Redeploy, durable, memory, Waiting, Unfinished
<1> QED BY <1>1, <1>2, <1>3, <1>4, <1>5 DEF Requests, Environment

(* If saves do not fail, an unfinished task always has a running step, a   *)
(* worker's closure or a restart to come: none is ever stranded.           *)
THEOREM AttendedTasks ==
  ASSUME "store" \notin Faults
  PROVE  Spec => []TaskIsAttended
<1>1. Init => Waiting
  BY DEF Init, Waiting, Unfinished
<1>2. Inv /\ Waiting /\ [Next]_vars => Waiting'
  <2>1. Inv /\ Waiting /\ UNCHANGED vars => Waiting'
    BY DEF Waiting, Unfinished, vars, durable, memory
  <2> QED BY <2>1, WorkWaits, OthersWait DEF Next
<1>3. Waiting => TaskIsAttended
  BY DEF Waiting, TaskIsAttended
<1> QED BY <1>1, <1>2, <1>3, Invariance, PTL DEF Spec
================================================================================
