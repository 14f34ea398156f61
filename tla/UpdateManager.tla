---------------------------- MODULE UpdateManager ----------------------------
(***************************************************************************)
(* updater/manager.py: one durable update task, executed as a transaction  *)
(* over the Docker host and finished, rolled back or handed to a human     *)
(* after any failure, crash or restart.                                    *)
(*                                                                         *)
(* The manager holds its operation lock from the first to the last step of *)
(* check, start, _execute, recover and complete_pending_cleanup, so one    *)
(* program counter describes whichever operation runs.  Every step below   *)
(* makes one durable change: a save of the state file or one platform call.*)
(***************************************************************************)
EXTENDS DockerPlatform

CONSTANT MaxCrashes   \* bound on the crashes explored

ASSUME MaxCrashesAssumption == MaxCrashes \in Nat

VARIABLES
  last_check,  \* state file: the last CheckResult
  task,        \* state file: the one UpdateTask
  pc,          \* where the operation that holds the lock is
  mode,        \* who runs it: "serve" a request, "recover" or "manual" cleanup
  queue,       \* tasks whose execution closure a worker thread holds
  failing,     \* what a failure path still has to record
  base,        \* history: .env and container image when the task was created
  crashes      \* history: crashes so far

durable == <<last_check, task>>
memory  == <<pc, mode, queue, failing>>
history == <<base, crashes>>
vars    == <<world, durable, memory, history>>

PreTag == {"checking", "backing_up", "pulling"}
TargetCompletion == {"persisting_version", "cleaning"}
Terminal == {"succeeded", "failed", "manual_intervention"}
Stages == PreTag \cup TargetCompletion \cup Terminal \cup
          {"stopping_web", "migrating", "starting_web", "checking_health",
           "stabilizing", "rolling_back"}

CleanupSteps == {"version_tag", "rollback_alias", "image_id"}
StepStatuses == {"not_started", "started", "completed"}
ErrorCodes == {"", "backup_failed", "pull_failed", "migration_failed",
               "health_check_failed", "update_failed", "rollback_failed"}

CheckResults == [current : Versions, target : Versions, available : BOOLEAN, fresh : BOOLEAN]

(* original.rollback_alias is "" or the alias of the task itself: `alias`. *)
Tasks == [id : TaskIds, original : Versions, target : Versions, stage : Stages,
          alias : BOOLEAN, backups : BOOLEAN, rolled_back : BOOLEAN,
          cleanup : {"not_run", "pending", "complete"},
          journal : [CleanupSteps -> StepStatuses], error_code : ErrorCodes]

ASSUME NoneIsNoRecord == None \notin Tasks \cup CheckResults

NewTask(id) ==
  [id |-> id, original |-> last_check.current, target |-> last_check.target,
   stage |-> "checking", alias |-> FALSE, backups |-> FALSE, rolled_back |-> FALSE,
   cleanup |-> "not_run", journal |-> [s \in CleanupSteps |-> "not_started"],
   error_code |-> ""]

(* What a failure path records, and whether it restores .env.              *)
Failures == [code : ErrorCodes, stage : Stages, restore : BOOLEAN]
Failure(code, stage, restore) == [code |-> code, stage |-> stage, restore |-> restore]
NoFailure == Failure("", "failed", FALSE)

Init ==
  /\ \E v \in Versions :
       /\ web = [image |-> v, running |-> TRUE]
       /\ env = v
       /\ refs = [i \in Versions |-> IF i = v THEN {"tag", "digest"} ELSE {}]
  /\ backups = {} /\ schema = {}
  /\ last_check = None /\ task = None
  /\ pc = "idle" /\ mode = "serve" /\ queue = {} /\ failing = NoFailure
  /\ base = [env |-> env, image |-> web.image] /\ crashes = 0

-----------------------------------------------------------------------------
(* Saving the task, and the ways out of an operation.                      *)

Goto(label) == pc' = label /\ UNCHANGED <<mode, queue, failing>>

(* The operation is over: a server goes on serving, manual_cleanup exits.  *)
Release == /\ pc' = IF mode = "manual" THEN "down" ELSE "idle"
           /\ mode' = "serve" /\ failing' = NoFailure
           /\ UNCHANGED queue

(* A store error is no SafeOperationError: it ends a worker thread, and in *)
(* recover or manual_cleanup the process.                                  *)
Abort == /\ pc' = IF mode = "serve" THEN "idle" ELSE "down"
         /\ mode' = "serve" /\ failing' = NoFailure
         /\ queue' = IF mode = "serve" THEN queue ELSE {}

Save(t, leave) ==
  /\ \/ task' = t /\ leave
     \/ "store" \in Faults /\ Abort /\ UNCHANGED task
  /\ UNCHANGED <<last_check, world, history>>

Checkpoint(stage, next) == Save([task EXCEPT !.stage = stage], Goto(next))

(* SafeOperationError: in _execute before stop_web nothing is rolled back; *)
(* after it, and in recover, the original is started again.  recover keeps *)
(* the stage it found, _handle_failure moves to ROLLING_BACK.              *)
(* Mutant: web_was_stopped is set after stop_web instead of before. *)
BeforeStopReturned == {"create_backup", "verify_target", "tag_rollback", "stop_web"}

BeforeStop == {"create_backup", "verify_target", "tag_rollback"}

(* Mutant: .env is never restored by a rollback of _execute. *)
RaiseKeepingEnv(code) ==
  /\ IF mode = "recover"
     THEN pc' = "rollback" /\ failing' = Failure("update_failed", task.stage, TRUE)
     ELSE IF pc \in BeforeStop
     THEN pc' = "finish_failed" /\ failing' = Failure(code, task.stage, FALSE)
     ELSE pc' = "rollback" /\ failing' = Failure(code, "rolling_back", FALSE)
  /\ UNCHANGED <<mode, queue>>

Raise(code) ==
  /\ IF mode = "recover"
     THEN pc' = "rollback" /\ failing' = Failure("update_failed", task.stage, TRUE)
     ELSE IF pc \in BeforeStop
     THEN pc' = "finish_failed" /\ failing' = Failure(code, task.stage, FALSE)
     ELSE /\ pc' = "rollback"
          /\ failing' = Failure(code, "rolling_back", task.stage = "persisting_version")
  /\ UNCHANGED <<mode, queue>>

(* A platform call of the transaction, with the error code if it raises.   *)
Call(at, next, code, Method(_)) ==
  /\ pc = at
  /\ \E ok \in BOOLEAN : Method(ok) /\ IF ok THEN Goto(next) ELSE Raise(code)
  /\ UNCHANGED <<durable, history>>

-----------------------------------------------------------------------------
(* check and start.                                                        *)

(* _reject_active_task *)
MayReplace == task # None => \/ task.stage = "failed"
                             \/ task.stage = "succeeded" /\ task.cleanup = "complete"

Check ==
  /\ pc = "idle" /\ MayReplace /\ WebIdentified
  /\ \E v \in Versions :
       /\ ResolveStable(v)
       /\ \/ last_check' = [current |-> web.image, target |-> v,
                            available |-> v > web.image, fresh |-> TRUE]
          \/ Faults # {} /\ UNCHANGED last_check
  /\ UNCHANGED <<task, memory, history>>

(* The two minutes of _CHECK_MAX_AGE are over.                             *)
CheckExpires ==
  /\ last_check # None
  /\ last_check' = [last_check EXCEPT !.fresh = FALSE]
  /\ UNCHANGED <<world, task, memory, history>>

(* _require_fresh_check *)
FreshCheck == last_check # None /\ last_check.available /\ last_check.fresh

(* Mutant: the accepted task gets no worker. *)
StartWithoutWorker(id) ==
  /\ pc = "idle" /\ MayReplace /\ FreshCheck /\ (task # None => task.id # id)
  /\ ResolveStable(last_check.target)
  /\ task' = NewTask(id)
  /\ base' = [env |-> env, image |-> web.image]
  /\ UNCHANGED <<last_check, memory, crashes>>

Start(id) ==
  /\ pc = "idle" /\ MayReplace /\ FreshCheck /\ (task # None => task.id # id)
  /\ \E v \in Versions :
       /\ ResolveStable(v)
       /\ \/ /\ v = last_check.target
             /\ task' = NewTask(id)
             /\ queue' = queue \cup {id}
             /\ base' = [env |-> env, image |-> web.image]
          \/ (v # last_check.target \/ Faults # {}) /\ UNCHANGED <<task, queue, base>>
  /\ UNCHANGED <<last_check, pc, mode, failing, crashes>>

(* A repeated start of the same task hands out its closure again.          *)
StartAgain(id) ==
  /\ pc = "idle" /\ task # None
  /\ task.id = id /\ task.stage = "checking"
  /\ queue' = queue \cup {id}
  /\ UNCHANGED <<world, durable, pc, mode, failing, history>>

-----------------------------------------------------------------------------
(* _execute, step by step.                                                 *)

ExecuteBegin(id) ==
  /\ pc = "idle" /\ id \in queue
  /\ queue' = queue \ {id}
  /\ \/ /\ task.id = id /\ task.stage = "checking"
        /\ task' = [task EXCEPT !.stage = "backing_up"]
        /\ pc' = "create_backup"
     \/ /\ task.id # id \/ task.stage # "checking" \/ "store" \in Faults
        /\ UNCHANGED <<task, pc>>
  /\ UNCHANGED <<last_check, mode, failing, world, history>>

CreateBackupStep == Call("create_backup", "record_backups", "backup_failed",
                         LAMBDA ok : CreateBackup(task.id, ok))

RecordBackups == pc = "record_backups" /\ Save([task EXCEPT !.backups = TRUE], Goto("pulling"))

Pulling == pc = "pulling" /\ Checkpoint("pulling", "verify_target")

(* Mutant: the platform's error code is stored without _safe_error_code. *)
VerifyTargetUnsafeCode ==
  Call("verify_target", "pulled", "target_identity_mismatch",
       LAMBDA ok : VerifyTarget(task.target, ok))

VerifyTargetStep ==
  \E code \in {"pull_failed", "update_failed"} :
    Call("verify_target", "pulled", code, LAMBDA ok : VerifyTarget(task.target, ok))

TargetVerified == pc = "pulled" /\ Checkpoint("pulling", "tag_rollback")

TagRollbackStep == Call("tag_rollback", "save_alias", "update_failed",
                        LAMBDA ok : TagRollback(task.id, task.original, ok))

(* Mutant: the alias is created but not saved with the task. *)
SaveAliasForgotten == pc = "save_alias" /\ Save(task, Goto("stopping_web"))

SaveAlias == pc = "save_alias" /\ Save([task EXCEPT !.alias = TRUE], Goto("stopping_web"))

(* Mutant: the transaction goes on to the migration without stop_web. *)
StoppingWebSkipped == pc = "stopping_web" /\ Checkpoint("stopping_web", "migrating")

StoppingWeb == pc = "stopping_web" /\ Checkpoint("stopping_web", "stop_web")

StopWebStep == Call("stop_web", "migrating", "update_failed", StopWeb)

Migrating == pc = "migrating" /\ Checkpoint("migrating", "migrate_target")

MigrateTargetStep == Call("migrate_target", "starting_web", "migration_failed",
                          LAMBDA ok : MigrateTarget(task.target, ok))

StartingWeb == pc = "starting_web" /\ Checkpoint("starting_web", "start_target")

StartTargetStep == Call("start_target", "checking_health", "update_failed",
                        LAMBDA ok : StartTarget(task.target, ok))

CheckingHealth == pc = "checking_health" /\ Checkpoint("checking_health", "wait_health")

(* Up to 30 probes: one outcome.                                           *)
WaitHealth == Call("wait_health", "stabilizing", "health_check_failed",
                   LAMBDA ok : Health(task.target, ok))

Stabilizing == pc = "stabilizing" /\ Checkpoint("stabilizing", "stabilize")

(* Three probes, five seconds apart: one outcome.                          *)
Stabilize == Call("stabilize", "persisting_version", "health_check_failed",
                  LAMBDA ok : Health(task.target, ok))

PersistingVersion == pc = "persisting_version" /\ Checkpoint("persisting_version", "persist_version")

(* Also the persist step of _complete_recovered_target.                    *)
PersistVersionStep == Call("persist_version", "cleaning", "update_failed",
                           LAMBDA ok : PersistVersion(task.target, ok))

Cleaning == pc = "cleaning" /\ Checkpoint("cleaning", "cleanup")

-----------------------------------------------------------------------------
(* Failure and rollback.                                                   *)

(* _rollback_to_original, from its first save to its last.                 *)
Rollback ==
  /\ pc = "rollback"
  /\ Save([task EXCEPT !.stage = failing.stage, !.error_code = failing.code],
          Goto("start_rollback"))

RollbackCall(at, next, Method(_)) ==
  /\ pc = at
  /\ \E ok \in BOOLEAN : Method(ok) /\ Goto(IF ok THEN next ELSE "finish_manual")
  /\ UNCHANGED <<durable, history>>

StartRollbackStep == RollbackCall("start_rollback", "rollback_health",
                       LAMBDA ok : StartRollback(task.id, task.original, ok))

RollbackHealth ==
  RollbackCall("rollback_health",
               IF failing.restore THEN "restore_version" ELSE "finish_rolled_back",
               LAMBDA ok : Health(task.original, ok))

RestoreVersion == RollbackCall("restore_version", "finish_rolled_back",
                               LAMBDA ok : PersistVersion(task.original, ok))

FinishFailed ==
  /\ pc \in {"finish_failed", "finish_rolled_back"}
  /\ Save([task EXCEPT !.stage = "failed", !.error_code = failing.code,
                       !.rolled_back = (pc = "finish_rolled_back")], Release)

FinishManual ==
  /\ pc = "finish_manual"
  /\ Save([task EXCEPT !.stage = "manual_intervention",
                       !.error_code = "rollback_failed"], Release)

(* The checkpoints that save the stage a task is already in: before a      *)
(* health check or a persist_version of a rollback, of a recovery or of    *)
(* _stabilize.  They are part of the call they precede unless they fail.   *)
RepeatedCheckpoint ==
  \/ pc \in {"rollback_health", "restore_version", "stabilize",
             "complete_health", "pre_tag_health"}
  \/ pc = "persist_version" /\ mode = "recover"

CheckpointFails ==
  /\ RepeatedCheckpoint /\ "store" \in Faults
  /\ Abort
  /\ UNCHANGED <<world, durable, history>>

-----------------------------------------------------------------------------
(* Cleanup of the replaced image, and the commit of a success.             *)

JournalOrder == <<"version_tag", "rollback_alias", "image_id">>

(* The first step of the journal that is not completed.                    *)
CurrentStep(step) ==
  \E i \in 1..3 : /\ step = JournalOrder[i] /\ task.journal[step] # "completed"
                  /\ \A j \in 1..(i - 1) : task.journal[JournalOrder[j]] = "completed"

JournalComplete(t) == t.journal["image_id"] = "completed"

MarkPending ==
  /\ pc = "cleanup" /\ task.cleanup = "not_run"
  /\ Save([task EXCEPT !.cleanup = "pending"], Goto("cleanup"))

StartStep(step) ==
  /\ pc = "cleanup" /\ task.cleanup # "not_run" /\ CurrentStep(step)
  /\ IF task.journal[step] = "not_started"
     THEN Save([task EXCEPT !.journal[step] = "started"], Goto("cleanup_step"))
     ELSE Goto("cleanup_step") /\ UNCHANGED <<world, durable, history>>

(* Mutant: a failed removal is journaled as completed. *)
RemoveStepUnchecked(step) ==
  /\ pc = "cleanup_step" /\ CurrentStep(step)
  /\ \E ok \in BOOLEAN :
       CleanupOriginalStep(step, task.journal[step], task.id, task.original, task.target, ok)
  /\ Goto("step_done")
  /\ UNCHANGED <<durable, history>>

(* A refused or failed removal ends the cleanup: _cleanup_original is FALSE. *)
RemoveStep(step) ==
  /\ pc = "cleanup_step" /\ CurrentStep(step)
  /\ \E ok \in BOOLEAN :
       /\ CleanupOriginalStep(step, task.journal[step], task.id, task.original, task.target, ok)
       /\ Goto(IF ok THEN "step_done" ELSE "cleanup_over")
  /\ UNCHANGED <<durable, history>>

CompleteStep(step) ==
  /\ pc = "step_done" /\ CurrentStep(step)
  /\ Save([task EXCEPT !.journal[step] = "completed"], Goto("cleanup"))

CleanupDone ==
  /\ pc = "cleanup" /\ task.cleanup # "not_run" /\ JournalComplete(task)
  /\ Goto("cleanup_over")
  /\ UNCHANGED <<world, durable, history>>

Settled(t) == [t EXCEPT !.cleanup = IF JournalComplete(t) THEN "complete" ELSE "pending"]

(* _commit_success saves the task and the refreshed check at once.         *)
CommitSuccess ==
  /\ pc = "cleanup_over" /\ mode # "manual"
  /\ \/ /\ task' = [Settled(task) EXCEPT !.stage = "succeeded"]
        /\ last_check' = [current |-> task.target, target |-> task.target,
                          available |-> FALSE, fresh |-> TRUE]
        /\ Release
     \/ "store" \in Faults /\ Abort /\ UNCHANGED durable
  /\ UNCHANGED <<world, history>>

(* scripts/system-update-manual-cleanup.sh stops the updater and runs      *)
(* complete_pending_cleanup in a process of its own.                       *)
ManualCleanup ==
  /\ pc = "idle" /\ queue = {}
  /\ task # None /\ task.stage = "succeeded" /\ task.cleanup = "pending"
  /\ pc' = "cleanup" /\ mode' = "manual"
  /\ UNCHANGED <<queue, failing, world, durable, history>>

ManualCleanupOver ==
  /\ pc = "cleanup_over" /\ mode = "manual"
  /\ Save(Settled(task), Release)

-----------------------------------------------------------------------------
(* The process: a crash, the container's restart and recover.              *)

Crash ==
  /\ pc # "down" /\ crashes < MaxCrashes
  /\ pc' = "down" /\ mode' = "serve" /\ queue' = {} /\ failing' = NoFailure
  /\ crashes' = crashes + 1
  /\ UNCHANGED <<world, durable, base>>

Recovering(label, f) ==
  /\ pc = "down"
  /\ pc' = label /\ mode' = "recover" /\ failing' = f
  /\ UNCHANGED <<queue, world, durable, history>>

Unfinished == task # None /\ task.stage \notin Terminal

(* Mutant: the server starts without recover. *)
RecoverSkipped ==
  /\ pc = "down"
  /\ pc' = "idle"
  /\ UNCHANGED <<mode, queue, failing, world, durable, history>>

RecoverNothing ==
  /\ pc = "down" /\ ~Unfinished
  /\ pc' = "idle"
  /\ UNCHANGED <<mode, queue, failing, world, durable, history>>

IsOriginal == WebIs(task.original)
IsTarget == WebIs(task.target)

(* The container cannot be inspected or is neither image, or what it is    *)
(* does not fit the stage.                                                 *)
RecoverManual ==
  /\ Unfinished
  /\ \/ "platform" \in Faults
     \/ ~IsOriginal /\ ~IsTarget
     \/ task.stage \in PreTag /\ ~IsOriginal
     \/ task.stage \notin PreTag /\ ~(task.stage \in TargetCompletion /\ IsTarget) /\ ~task.alias
  /\ Recovering("finish_manual", NoFailure)

(* _complete_recovered_target *)
RecoverTarget ==
  /\ Unfinished /\ IsTarget /\ task.stage \in TargetCompletion
  /\ Recovering("complete_health", NoFailure)

CompleteHealth ==
  Call("complete_health",
       IF task.stage = "persisting_version" THEN "persist_version" ELSE "cleanup",
       "update_failed", LAMBDA ok : Health(task.target, ok))

RecoverPreTag ==
  /\ Unfinished /\ IsOriginal /\ task.stage \in PreTag
  /\ Recovering("pre_tag_health", Failure("update_failed", task.stage, FALSE))

PreTagHealth == RollbackCall("pre_tag_health", "finish_failed",
                             LAMBDA ok : Health(task.original, ok))

(* Mutant: a rollback that was interrupted forgets that it restores .env. *)
RecoverRollbackKeepingEnv ==
  /\ Unfinished /\ (IsOriginal \/ IsTarget) /\ task.stage \notin PreTag
  /\ ~(task.stage \in TargetCompletion /\ IsTarget)
  /\ task.alias
  /\ Recovering("rollback", Failure("update_failed", task.stage,
                                    task.stage \in TargetCompletion))

RecoverRollback ==
  /\ Unfinished /\ (IsOriginal \/ IsTarget) /\ task.stage \notin PreTag
  /\ ~(task.stage \in TargetCompletion /\ IsTarget)
  /\ task.alias
  /\ Recovering("rollback", Failure("update_failed", task.stage,
                                    task.stage \in TargetCompletion \cup {"rolling_back"}))

-----------------------------------------------------------------------------
(* An operator redeploys Web by hand while no task is under way.           *)
Redeploy(v) ==
  /\ pc = "idle" /\ MayReplace /\ v # web.image
  /\ web' = [image |-> v, running |-> TRUE] /\ env' = v
  /\ refs' = [refs EXCEPT ![v] = @ \cup {"tag", "digest"}]
  /\ UNCHANGED <<backups, schema, durable, memory, history>>

Execute ==
  \/ \E id \in TaskIds : ExecuteBegin(id)
  \/ CreateBackupStep \/ RecordBackups \/ Pulling \/ VerifyTargetStep \/ TargetVerified
  \/ TagRollbackStep \/ SaveAlias \/ StoppingWeb \/ StopWebStep
  \/ Migrating \/ MigrateTargetStep \/ StartingWeb \/ StartTargetStep
  \/ CheckingHealth \/ WaitHealth \/ Stabilizing \/ Stabilize
  \/ PersistingVersion \/ PersistVersionStep \/ Cleaning

RollBack == Rollback \/ StartRollbackStep \/ RollbackHealth \/ RestoreVersion
            \/ FinishFailed \/ FinishManual

CleanUp ==
  \/ MarkPending \/ CleanupDone \/ CommitSuccess \/ ManualCleanupOver
  \/ \E step \in CleanupSteps : StartStep(step) \/ RemoveStep(step) \/ CompleteStep(step)

Recover == RecoverNothing \/ RecoverManual \/ RecoverTarget \/ CompleteHealth
           \/ RecoverPreTag \/ PreTagHealth \/ RecoverRollback

(* What the updater does on its own once it has begun.                     *)
Work == Execute \/ RollBack \/ CheckpointFails \/ CleanUp \/ Recover

Requests ==
  \/ Check \/ ManualCleanup
  \/ \E id \in TaskIds : Start(id) \/ StartAgain(id)

Environment == Crash \/ CheckExpires \/ \E v \in Versions : Redeploy(v)

Next == Work \/ Requests \/ Environment

Spec == Init /\ [][Next]_vars

(* A worker thread and the restarted container run on; requests, crashes   *)
(* and operators need not come.                                            *)
FairSpec == Spec /\ WF_vars(Work)
=============================================================================
