----------------------------- MODULE UpdaterPin -----------------------------
(***************************************************************************)
(* scripts/system-update-updater.sh with system-update-updater-atomic.py:  *)
(* an administrator pins another version of the updater in .env and has    *)
(* its container recreated, while the updater may edit .env itself.  What  *)
(* went wrong is undone, or the scratch directory stays as evidence.       *)
(***************************************************************************)
EXTENDS Integers, FiniteSets

CONSTANTS
  Pins,        \* runs of the script
  Target,      \* the updater version each run is to pin
  FirstTag,    \* the version at the beginning
  WebTags,     \* what FINREC_IMAGE_TAG may name
  Inodes,      \* inode numbers; one that is free may be taken again
  None,        \* no updater container, no lock, no edit, nothing recorded
  MaxEdits     \* bound on the edits of the updater and on deployments

ASSUME PinAssumption == None \notin Pins /\ None \notin {FirstTag} \cup {Target[p] : p \in Pins}
ASSUME InodeAssumption == None \notin Inodes
ASSUME EditAssumption == MaxEdits \in Nat

VARIABLES
  env,        \* .env: updater tag, Web tag, inode
  updater,    \* the tag whose image the updater container runs, or None
  web,        \* the fingerprint of the containers web and db
  edit,       \* what persist_version has read and is about to write, or None
  edits,
  lock,       \* the run whose open file holds the flock
  at,         \* per run: where it is
  mode,       \* per run: "pin", or "recover" in on_exit
  killed,     \* the runs whose bash is dead; a child may outlive it
  scratch,    \* the runs whose scratch directory is on disk
  marked,     \* the runs whose file env-mutated is on disk
  saved,      \* per run: original.env, the inodes, the baseline, what compose read
  owner,      \* history: the run that replaced .env last
  late        \* history: per run, where it was when an older edit undid its replacement

run == <<lock, at, mode, killed, scratch, marked, saved>>
system == <<env, updater, web, edit, edits, owner, late>>
vars == <<run, system>>

Empty == [tag |-> None, web |-> None, inode |-> None, next |-> None, base |-> 0, read |-> None]

Init ==
  /\ env \in {[tag |-> FirstTag, web |-> w, inode |-> i] : w \in WebTags, i \in Inodes}
  /\ updater = FirstTag /\ web = 0 /\ edit = None /\ edits = 0
  /\ lock = None /\ killed = {} /\ scratch = {} /\ marked = {}
  /\ at = [p \in Pins |-> "idle"] /\ mode = [p \in Pins |-> "pin"]
  /\ saved = [p \in Pins |-> Empty]
  /\ owner = None /\ late = [p \in Pins |-> {}]

-----------------------------------------------------------------------------
(* Ways on.  A child runs to its end when bash is killed; then nothing     *)
(* follows, and the kernel releases the lock with the last open file.      *)

InChild(p) == at[p] \in {"mark", "check", "recheck", "swap", "verify", "up", "stop", "start"}

End(p, dirs, marks) ==
  /\ at' = [at EXCEPT ![p] = "done"] /\ lock' = None
  /\ scratch' = scratch \cap dirs /\ marked' = marked \cap marks
  /\ UNCHANGED <<mode, killed, saved>>

KeepEvidence(p) == End(p, Pins, Pins)

(* Mutant: the marker survives its directory. *)
RemoveScratchOnly(p) == End(p, Pins \ {p}, Pins) \/ KeepEvidence(p)

(* remove_scratch_dir, or its failure, which leaves the directory behind.  *)
RemoveScratch(p) == End(p, Pins \ {p}, Pins \ {p}) \/ KeepEvidence(p)

Step(p, label) == at' = [at EXCEPT ![p] = label] /\ UNCHANGED <<lock, mode, killed, scratch, marked>>

Command(p, label) ==
  IF p \in killed THEN KeepEvidence(p) ELSE Step(p, label) /\ UNCHANGED saved

(* Mutant: a failed recovery counts as proven. *)
FailedCleaning(p) ==
  IF p \in killed THEN KeepEvidence(p)
  ELSE IF mode[p] = "recover" THEN RemoveScratch(p)
  ELSE Step(p, "exit") /\ UNCHANGED saved

(* A command fails or a signal ends bash: on_exit.  Signals are ignored    *)
(* from there on, and what fails there leaves the evidence (a recovery goes *)
(* on to its proofs after a failed compose up, which changes nothing).     *)
Failed(p) ==
  IF p \in killed \/ mode[p] = "recover" THEN KeepEvidence(p)
  ELSE Step(p, "exit") /\ UNCHANGED saved

Fail(p) == at[p] \notin {"idle", "exit", "remove", "done"} /\ Failed(p) /\ UNCHANGED system

(* Mutant: the descriptor of the lock is closed on exec. *)
KillReleasingLock(p) ==
  /\ at[p] \notin {"idle", "done"} /\ p \notin killed
  /\ IF InChild(p)
     THEN killed' = killed \cup {p} /\ lock' = None /\ UNCHANGED <<at, mode, scratch, marked, saved>>
     ELSE KeepEvidence(p)
  /\ UNCHANGED system

(* SIGKILL of bash.                                                        *)
Kill(p) ==
  /\ at[p] \notin {"idle", "done"} /\ p \notin killed
  /\ IF InChild(p)
     THEN killed' = killed \cup {p} /\ UNCHANGED <<lock, at, mode, scratch, marked, saved>>
     ELSE KeepEvidence(p)
  /\ UNCHANGED system

-----------------------------------------------------------------------------
(* The script.                                                             *)

(* lock_exec, and the scratch directory.                                   *)
LockExec(p) ==
  /\ at[p] = "idle" /\ lock = None
  /\ lock' = p /\ scratch' = scratch \cup {p}
  /\ at' = [at EXCEPT ![p] = "capture"]
  /\ UNCHANGED <<system, mode, killed, marked, saved>>

CaptureEnvironment(p) ==
  /\ at[p] = "capture" /\ env.tag # Target[p]
  /\ saved' = [saved EXCEPT ![p] = [tag |-> env.tag, web |-> env.web, inode |-> env.inode,
                                    next |-> None, base |-> 0, read |-> None]]
  /\ Step(p, "prepare") /\ UNCHANGED system

(* pull, the baseline fingerprints, capture_old_updater.                   *)
Prepare(p) ==
  /\ at[p] = "prepare" /\ updater = saved[p].tag
  /\ saved' = [saved EXCEPT ![p].base = web]
  /\ Step(p, "mark") /\ UNCHANGED system

(* replace_environment: what it writes and what it expects to find.        *)
Source(p) == IF mode[p] = "pin" THEN Target[p] ELSE saved[p].tag
Expected(p) == IF mode[p] = "pin" THEN saved[p].tag ELSE Target[p]
ExpectedInode(p) == IF mode[p] = "pin" THEN saved[p].inode ELSE saved[p].next

(* The marker is on disk before anything is replaced.                      *)
Mark(p) ==
  /\ at[p] = "mark" /\ marked' = marked \cup {p}
  /\ at' = [at EXCEPT ![p] = "check"]
  /\ UNCHANGED <<system, lock, mode, killed, scratch, saved>>

(* validate_current_environment; an environment that changed raises.       *)
Validate(p, label, next) ==
  /\ at[p] = label
  /\ env.tag = Expected(p) /\ env.web = saved[p].web /\ env.inode = ExpectedInode(p)
  /\ Step(p, next) /\ UNCHANGED <<system, saved>>

(* A new file is beside the old one until it takes its place.             *)
FreeInodes == Inodes \ {env.inode}

Replace(p) ==
  /\ at[p] = "swap"
  /\ \E i \in FreeInodes \ {ExpectedInode(p)} :
       /\ env' = [tag |-> Source(p), web |-> saved[p].web, inode |-> i]
       /\ saved' = [saved EXCEPT ![p].next = i]
  /\ owner' = p
  /\ Step(p, "verify") /\ UNCHANGED <<updater, web, edit, edits, late>>

(* validate_replaced_environment: still the file that was just written.    *)
Verify(p) ==
  /\ at[p] = "verify"
  /\ env = [tag |-> Source(p), web |-> saved[p].web, inode |-> saved[p].next]
  /\ Command(p, "up") /\ UNCHANGED system

(* docker compose up --force-recreate.  It reads .env, stops the container *)
(* with what it was doing, and starts another; what fails (Fail) leaves it *)
(* half-way.                                                               *)
ComposeReads(p) ==
  /\ at[p] = "up" /\ saved' = [saved EXCEPT ![p].read = env.tag]
  /\ Step(p, "stop") /\ UNCHANGED system

ComposeStops(p) ==
  /\ at[p] = "stop" /\ updater' = None /\ edit' = None
  /\ Step(p, "start") /\ UNCHANGED <<env, web, edits, owner, late, saved>>

ComposeStarts(p) ==
  /\ at[p] = "start" /\ updater' = saved[p].read
  /\ Command(p, "wait") \/ Failed(p)
  /\ UNCHANGED <<env, web, edit, edits, owner, late>>

(* Mutant: any healthy updater will do. *)
WaitForAny(p) ==
  /\ at[p] = "wait" /\ updater # None
  /\ Command(p, "prove") /\ UNCHANGED system

(* wait_for_updater: the container runs the very image and turns healthy.  *)
WaitForUpdater(p) ==
  /\ at[p] = "wait" /\ updater = Source(p)
  /\ Command(p, "prove") /\ UNCHANGED system

ProveServicesUnchanged(p) ==
  /\ at[p] = "prove" /\ web = saved[p].base
  /\ Command(p, "remove") /\ UNCHANGED system

Remove(p) == at[p] = "remove" /\ RemoveScratch(p) /\ UNCHANGED system

(* on_exit after a failure: without the marker nothing was done; with it   *)
(* classify_environment decides between restoring, leaving it, and a human. *)
Exit(p) ==
  /\ at[p] = "exit"
  /\ UNCHANGED system
  /\ IF p \notin marked THEN RemoveScratch(p)
     ELSE \/ /\ env.tag = Target[p] /\ env.web = saved[p].web
             /\ saved' = [saved EXCEPT ![p].next = env.inode]
             /\ mode' = [mode EXCEPT ![p] = "recover"] /\ at' = [at EXCEPT ![p] = "check"]
             /\ UNCHANGED <<lock, killed, scratch, marked>>
          \/ /\ env = [tag |-> saved[p].tag, web |-> saved[p].web, inode |-> saved[p].inode]
             /\ RemoveScratch(p)
          \/ KeepEvidence(p)

-----------------------------------------------------------------------------
(* persist_version of the updater that runs: it reads .env and replaces it *)
(* a moment later.                                                         *)

ReadEnvironment ==
  /\ edit = None /\ updater # None /\ edits < MaxEdits
  /\ edit' \in {[tag |-> env.tag, web |-> w] : w \in WebTags} /\ edits' = edits + 1
  /\ UNCHANGED <<run, env, updater, web, owner, late>>

(* History: the edit is older than the replacement of the run under way.   *)
Undoes(p) == p = owner /\ p = lock /\ edit.tag # env.tag

PersistVersion ==
  /\ edit # None /\ edit' = None
  /\ \E i \in FreeInodes : env' = [tag |-> edit.tag, web |-> edit.web, inode |-> i]
  /\ late' = [p \in Pins |-> IF Undoes(p) THEN late[p] \cup {at[p]} ELSE late[p]]
  /\ UNCHANGED <<run, updater, web, edits, owner>>

(* The updater, or somebody, recreates Web.                                *)
DeployWeb ==
  /\ edits < MaxEdits /\ edits' = edits + 1 /\ web' = web + 1
  /\ UNCHANGED <<run, env, updater, edit, owner, late>>

Next ==
  \/ ReadEnvironment \/ PersistVersion \/ DeployWeb
  \/ \E p \in Pins :
       \/ LockExec(p) \/ CaptureEnvironment(p) \/ Prepare(p) \/ Mark(p)
       \/ Validate(p, "check", "recheck") \/ Validate(p, "recheck", "swap")
       \/ Replace(p) \/ Verify(p) \/ ComposeReads(p) \/ ComposeStops(p)
       \/ ComposeStarts(p) \/ WaitForUpdater(p)
       \/ ProveServicesUnchanged(p) \/ Remove(p) \/ Exit(p) \/ Fail(p) \/ Kill(p)

Spec == Init /\ [][Next]_vars

-----------------------------------------------------------------------------
(* The shapes of all variables.                                            *)
Tags == {FirstTag} \cup {Target[p] : p \in Pins}
Labels == {"idle", "capture", "prepare", "mark", "check", "recheck", "swap", "verify", "up",
           "stop", "start", "wait", "prove", "remove", "exit", "done"}

Captures == [tag : Tags \cup {None}, web : WebTags \cup {None}, inode : Inodes \cup {None},
             next : Inodes \cup {None}, base : Nat, read : Tags \cup {None}]

TypeOK ==
  /\ env \in [tag : Tags, web : WebTags, inode : Inodes]
  /\ updater \in Tags \cup {None} /\ web \in Nat /\ edits \in 0..MaxEdits
  /\ edit \in [tag : Tags, web : WebTags] \cup {None}
  /\ saved \in [Pins -> Captures]
  /\ lock \in Pins \cup {None} /\ at \in [Pins -> Labels] /\ mode \in [Pins -> {"pin", "recover"}]
  /\ killed \subseteq Pins /\ marked \subseteq scratch /\ scratch \subseteq Pins
  /\ owner \in Pins \cup {None} /\ late \in [Pins -> SUBSET Labels]

(* One transaction at a time: also what outlives a killed script keeps the *)
(* next run out until it has ended.                                        *)
OneTransaction == \A p, q \in Pins : {at[p], at[q]} \cap {"idle", "done"} = {} => p = q

(* Whenever no run is under way and the container is not the updater that  *)
(* .env names, the run that replaced .env last has left its evidence, or an *)
(* edit from before that replacement was written over it while the run was *)
(* under way: neither the waits nor classify_environment can tell.         *)
DriftLeavesEvidence ==
  (\A p \in Pins : at[p] \in {"idle", "done"}) /\ updater # env.tag =>
    \E p \in Pins : p = owner /\ (p \in marked \/ late[p] # {})

(* What is left of a run that removes its marker in the step to come. *)
Settled(p) ==
  \/ /\ at[p] = "remove" /\ updater = Source(p)
     /\ env.tag = Source(p) \/ "stop" \in late[p]
  \/ /\ at[p] = "exit" /\ env.tag = saved[p].tag
     /\ updater = saved[p].tag \/ (owner = p /\ late[p] # {})

(* A run that succeeds or restores removes its evidence with the container *)
(* on the very version it was to start, and .env too unless an older edit  *)
(* was written after compose had read .env; a run that finds .env as it    *)
(* was removes it with the container as it was, unless it had replaced     *)
(* .env and an older edit brought back both the content and the inode.     *)
CleanEndsAreSettled == [][\A p \in marked \ marked' : Settled(p)]_vars
=============================================================================
