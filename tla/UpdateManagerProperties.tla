----------------------- MODULE UpdateManagerProperties -----------------------
(***************************************************************************)
(* What UpdateManager must never do, whatever fails and whenever it        *)
(* crashes, and what it must finally do.                                   *)
(***************************************************************************)
EXTENDS UpdateManager

Labels == {"down", "idle", "create_backup", "record_backups", "pulling", "verify_target",
           "pulled", "tag_rollback", "save_alias", "stopping_web", "stop_web", "migrating",
           "migrate_target", "starting_web", "start_target", "checking_health",
           "wait_health", "stabilizing", "stabilize", "persisting_version",
           "persist_version", "cleaning", "rollback", "start_rollback", "rollback_health",
           "restore_version", "finish_failed", "finish_rolled_back", "finish_manual",
           "cleanup", "cleanup_step", "step_done", "cleanup_over",
           "complete_health", "pre_tag_health"}

(* The shapes of all variables. *)
TypeOK ==
  /\ web \in Containers /\ env \in Versions
  /\ refs \in [Versions -> SUBSET Refs]
  /\ backups \subseteq TaskIds /\ schema \subseteq Versions
  /\ last_check \in CheckResults \cup {None}
  /\ task \in Tasks \cup {None}
  /\ pc \in Labels /\ mode \in {"serve", "recover", "manual"}
  /\ queue \subseteq TaskIds
  /\ failing \in Failures
  /\ base \in [env : Versions, image : Versions \cup {None}]
  /\ crashes \in Nat

-----------------------------------------------------------------------------
(* Safety.                                                                 *)

(* Stages in which Web may already have been stopped and may still have to *)
(* be rolled back.                                                         *)
PostTag == Stages \ (PreTag \cup Terminal)

(* From the save before stop_web until cleanup begins, the replaced image  *)
(* can be restored: the task names its alias and its backups, and the      *)
(* image still has its version tag, digest and alias, so start_rollback's  *)
(* checks hold after any crash or failure.                                 *)
OriginalRetained ==
  task # None /\ task.stage \in PostTag =>
    /\ task.alias /\ task.backups /\ task.id \in backups
    /\ task.journal["version_tag"] = "not_started" =>
         {"tag", "digest", task.id} \subseteq refs[task.original]

(* The cleanup journal is written ahead: while the task owns the image, a  *)
(* reference is missing only if its step was started, and a completed step *)
(* means the reference is gone.                                            *)
JournalIsWrittenAhead ==
  task # None /\ task.alias /\ ~MayReplace =>
    /\ "tag" \notin refs[task.original] => task.journal["version_tag"] # "not_started"
    /\ task.id \notin refs[task.original] => task.journal["rollback_alias"] # "not_started"
    /\ task.journal["version_tag"] = "completed" => "tag" \notin refs[task.original]
    /\ task.journal["rollback_alias"] = "completed" => task.id \notin refs[task.original]
    /\ task.journal["image_id"] = "completed" => refs[task.original] = {}

(* Migrations reach the production database only while Web is stopped and  *)
(* only after the task's own database and upload backups are on disk and   *)
(* recorded in the state file.                                             *)
MigrationsAreGuarded ==
  [][schema' # schema => /\ ~web.running
                         /\ task.backups /\ task.id \in backups]_vars

(* The updater takes a reference (other than the moving :stable) only from *)
(* the image its task replaced, and only once that image is neither in the *)
(* web container nor named by .env, and the target is in both and intact.  *)
OnlyReplacedImageIsRemoved ==
  [][\A v \in Versions :
       ~(refs[v] \ {"stable"} \subseteq refs'[v]) =>
         /\ task # None /\ v = task.original
         /\ web.image = task.target /\ env = task.target
         /\ Identified(task.target)]_vars

(* A failed task that claims rolled_back left the old version running and  *)
(* in .env; one that does not claim it never touched either.  A succeeded  *)
(* task left the target running and in .env.                               *)
Finishes(stage) == task # None /\ task.stage # stage /\ task'.stage = stage

OutcomesAreTruthful ==
  [][/\ Finishes("failed") =>
          IF task'.rolled_back
          THEN web = [image |-> task.original, running |-> TRUE] /\ env = task.original
          ELSE web.image = base.image /\ web.running /\ env = base.env
     /\ Finishes("succeeded") =>
          web = [image |-> task.target, running |-> TRUE] /\ env = task.target]_vars

(* An unfinished task always has somebody to finish it: a running step, a  *)
(* queued closure or a restart to come.  (Only if saves do not fail.)      *)
TaskIsAttended ==
  Unfinished => pc # "idle" \/ task.id \in queue

(* The update is all or nothing, as module Upgrade states it.              *)
Phase == IF task = None THEN "steady"
         ELSE IF task.stage = "manual_intervention" THEN "manual"
         ELSE IF task.stage \in {"succeeded", "failed"} THEN "steady" ELSE "open"

Abstract == INSTANCE Upgrade WITH
  Releases <- Versions, Nothing <- None,
  phase <- Phase, deployed <- env, serving <- web.image,
  before <- <<base.env, base.image>>,
  goal <- IF task = None THEN None ELSE task.target

ImplementsUpgrade == Abstract!Spec

-----------------------------------------------------------------------------
(* Liveness, under FairSpec and finitely many crashes.                     *)

(* Every task that was accepted reaches a terminal stage.                  *)
EveryTaskEnds ==
  \A id \in TaskIds : Unfinished /\ task.id = id ~> ~(Unfinished /\ task.id = id)

(* Web never stays down unless the task asks for a human.                  *)
WebComesBack ==
  ~web.running ~> web.running \/ (task # None /\ task.stage = "manual_intervention")

-----------------------------------------------------------------------------
(* Statements of the tests and documents that the code does not meet.      *)

(* tests/updater/test_manager_recovery.py:431 -- a cleanup interrupted      *)
(* right after each deletion resumes, and the task ends SUCCEEDED with     *)
(* cleanup COMPLETE, when nothing but the crash goes wrong.                *)
CleanupSurvivesCrash ==
  task # None /\ task.stage = "succeeded" => task.cleanup = "complete"

(* docs/superpowers/specs/2026-08-06-web-managed-upgrades-design.md:151 -- *)
(* any step that fails after Web was stopped restores the old Web: the     *)
(* updater never sits idle with its task unfinished and Web stopped.       *)
StoppedWebIsRestored == pc = "idle" /\ Unfinished /\ queue = {} => web.running
=============================================================================
