--------------------------- MODULE DockerPlatform ---------------------------
(***************************************************************************)
(* The host the updater works on, as updater/platform.py drives it: the    *)
(* web container, the local image store, the .env file, the backups on     *)
(* disk and the database schema.  One operator per method of               *)
(* DockerPlatform.  Each takes `ok`, which says whether the method returns *)
(* or raises SafeOperationError; a method that raises may still have done  *)
(* part of its work, because Docker is asked in several commands.          *)
(*                                                                         *)
(* Release tags are immutable, so an image is identified with its version, *)
(* a natural number ordered as version_key orders vX.Y.Z.                  *)
(***************************************************************************)
EXTENDS Naturals, FiniteSets

CONSTANTS
  Versions,     \* the released Web versions
  TaskIds,      \* task UUIDs, each also names its rollback alias
  Faults,       \* which parts of the environment may fail: "platform", "store"
  None          \* an absent image, check or task

ASSUME VersionsAssumption == Versions \subseteq Nat
ASSUME TaskIdsAssumption == {"tag", "digest", "stable"} \cap TaskIds = {}
ASSUME NoneAssumption == None \notin Versions

VARIABLES
  web,       \* the container of the Compose service "web": image and running
  env,       \* FINREC_WEB_IMAGE_TAG in .env
  refs,      \* per image, the references Docker holds to it; none: image absent
  backups,   \* the tasks whose database and upload backups are on disk
  schema     \* the versions whose migrations the updater applied to the database

world == <<web, env, refs, backups, schema>>

(* A reference to an image: its version tag, its registry digest, the      *)
(* moving tag :stable, or the rollback alias of a task.                    *)
Refs == {"tag", "digest", "stable"} \cup TaskIds

Containers == [image : Versions \cup {None}, running : BOOLEAN]

(* _inspect_image: an image has a usable identity only with its version    *)
(* tag and exactly one registry digest.                                    *)
Identified(v) == {"tag", "digest"} \subseteq refs[v]

(* inspect_web, and the completeness test recover applies to its result.   *)
WebIs(v) == web.image = v /\ Identified(v)
WebIdentified == web.image # None /\ Identified(web.image)

(* A method returns only if its checks pass, and raises if they do not or  *)
(* if Docker fails.                                                        *)
Outcome(ok, checks) == IF ok THEN checks ELSE "platform" \in Faults \/ ~checks

Pulled(v) == [i \in Versions |->
                (refs[i] \ {"stable"})
                  \cup (IF i = v THEN {"tag", "digest", "stable"} ELSE {})]

(* Mutant: resolve_stable ends with a `docker image prune`. *)
ResolveStablePruning(v) ==
  /\ refs' = [i \in Versions |-> IF i \in {v, web.image} THEN Pulled(v)[i] ELSE {}]
  /\ UNCHANGED <<web, env, backups, schema>>

(* resolve_stable: the registry's :stable may name any release by now.     *)
ResolveStable(v) ==
  /\ refs' = Pulled(v)
  /\ UNCHANGED <<web, env, backups, schema>>

CreateBackup(id, ok) ==
  /\ Outcome(ok, web.running)
  /\ backups' = IF ok THEN backups \cup {id} ELSE backups
  /\ UNCHANGED <<web, env, refs, schema>>

(* verify_target pulls by digest, then compares the recorded identity.     *)
VerifyTarget(v, ok) ==
  /\ Outcome(ok, "tag" \in refs[v] /\ WebIdentified)
  /\ refs' \in {refs, [refs EXCEPT ![v] = @ \cup {"digest"}]}
  /\ ok => "digest" \in refs'[v]
  /\ UNCHANGED <<web, env, backups, schema>>

TagRollback(id, v, ok) ==
  /\ Outcome(ok, WebIs(v))
  /\ refs' \in IF WebIs(v) THEN {refs, [refs EXCEPT ![v] = @ \cup {id}]} ELSE {refs}
  /\ ok => id \in refs'[v]
  /\ UNCHANGED <<web, env, backups, schema>>

StopWeb(ok) ==
  /\ Outcome(ok, TRUE)
  /\ web' \in {web, [web EXCEPT !.running = FALSE]}
  /\ ok => ~web'.running
  /\ UNCHANGED <<env, refs, backups, schema>>

MigrateTarget(v, ok) ==
  /\ Outcome(ok, TRUE)
  /\ schema' \in {schema, schema \cup {v}}
  /\ ok => v \in schema'
  /\ UNCHANGED <<web, env, refs, backups>>

(* `docker compose up -d web` from an override that names the image: it    *)
(* removes the old container, creates one from v and starts it.            *)
ComposeUp(v, ok) ==
  /\ \/ ok /\ web' = [image |-> v, running |-> TRUE]
     \/ ~ok /\ web' \in {web, [image |-> None, running |-> FALSE]}
                          \cup [image : {v}, running : BOOLEAN]
  /\ UNCHANGED <<env, refs, backups, schema>>

StartTarget(v, ok) ==
  /\ Outcome(ok, "digest" \in refs[v])
  /\ ComposeUp(v, ok)

(* start_rollback inspects the alias before it touches the container.      *)
StartRollback(id, v, ok) ==
  LET checks == Identified(v) /\ id \in refs[v]
  IN /\ Outcome(ok, checks)
     /\ IF checks THEN ComposeUp(v, ok) ELSE UNCHANGED world

(* health(expected): the endpoint answers and the container is `expected`. *)
Health(v, ok) == Outcome(ok, web.running /\ WebIs(v)) /\ UNCHANGED world

(* persist_version replaces .env atomically, but may raise after that.     *)
PersistVersion(v, ok) ==
  /\ Outcome(ok, TRUE)
  /\ env' \in {env, v}
  /\ ok => env' = v
  /\ UNCHANGED <<web, refs, backups, schema>>

-----------------------------------------------------------------------------
(* cleanup_original_step: the checks before each of the three removals.    *)

(* Every tag of the image is one the task recorded.                        *)
OnlyRecordedTags(id, v) == refs[v] \subseteq {"tag", "digest", id}

CleanupChecks(step, status, id, v, target) ==
  /\ status = "started"
  /\ env = target
  /\ web.image # v
  /\ CASE step = "version_tag" -> id \in refs[v] /\ OnlyRecordedTags(id, v)
       [] step = "rollback_alias" -> /\ refs[v] # {}
                                     /\ OnlyRecordedTags(id, v) /\ "tag" \notin refs[v]
       [] step = "image_id" -> refs[v] \subseteq {"digest"}

(* `docker image rm`: removing the last tag of the registry repository may *)
(* drop the digest with it, and an image without references is deleted.    *)
Removed(step, id, v) ==
  CASE step = "version_tag" -> {[refs EXCEPT ![v] = @ \ gone] : gone \in {{"tag"}, {"tag", "digest"}}}
    [] step = "rollback_alias" -> {[refs EXCEPT ![v] = @ \ {id}]}
    [] step = "image_id" -> {[refs EXCEPT ![v] = {}]}

(* A reference that is already gone is accepted without a removal.         *)
AlreadyRemoved(step, id, v) ==
  CASE step = "version_tag" -> "tag" \notin refs[v]
    [] step = "rollback_alias" -> id \notin refs[v]
    [] step = "image_id" -> refs[v] = {}

CleanupOriginalStep(step, status, id, v, target, ok) ==
  LET checks == CleanupChecks(step, status, id, v, target)
      removed == IF checks /\ ~AlreadyRemoved(step, id, v) THEN Removed(step, id, v) ELSE {refs}
  IN /\ Outcome(ok, checks)
     /\ refs' \in IF ok THEN removed ELSE {refs} \cup removed
     /\ UNCHANGED <<web, env, backups, schema>>

=============================================================================
