-------------------------- MODULE UpdaterPinProofs --------------------------
(***************************************************************************)
(* That the pin script excludes itself, and that a container which is not  *)
(* the one .env names is only left behind with evidence or where an older  *)
(* edit undid the replacement, for any number of runs, versions and edits. *)
(***************************************************************************)
EXTENDS UpdaterPin, TLAPS

Ended == {"idle", "done"}

(* The lock belongs to the run that is under way. *)
LockInv == \A p \in Pins : at[p] \notin Ended <=> lock = p

(* What is on disk when, and whose the last replacement of .env is. *)
Replaced == {"verify", "up", "stop", "start", "wait", "prove", "remove"}

MarkInv ==
  \A p \in Pins :
    /\ at[p] \in {"check", "recheck", "swap"} \cup Replaced => p \in marked
    /\ at[p] \in {"idle", "capture", "prepare", "mark"} => p \notin marked /\ owner # p
    /\ at[p] \in {"idle", "capture", "prepare", "mark", "exit"} => mode[p] = "pin"
    /\ at[p] \notin Ended => p \in scratch
    /\ at[p] \in Replaced => owner = p
    /\ at[p] \notin Ended /\ owner = p => p \in marked
    /\ p \in marked \/ at[p] \in {"prepare", "mark"} =>
         saved[p].tag \in Tags /\ saved[p].tag # Target[p] /\ saved[p].web \in WebTags
    /\ at[p] \in {"stop", "start"} => saved[p].read \in Tags

(* No edit is under way that would write another updater tag. *)
Coherent == edit # None => edit.tag = env.tag
Agree == updater = env.tag /\ Coherent

Untouched(p) == at[p] \in {"check", "recheck", "swap"} /\ mode[p] = "pin"

(* The tag that the last replacement of p has written. *)
Written(p) ==
  IF mode[p] = "pin" \/ at[p] \in {"check", "recheck", "swap"} THEN Target[p] ELSE saved[p].tag

(* What a run may rely on, whatever happened before it. *)
RunInv ==
  \A p \in Pins :
    /\ at[p] = "mark" \/ Untouched(p) => updater = saved[p].tag
    /\ at[p] = "exit" /\ p \in marked /\ owner # p => updater = saved[p].tag
    /\ at[p] \notin Ended /\ owner = p /\ late[p] = {} => env.tag = Written(p)
    /\ at[p] \in {"stop", "start", "wait", "prove", "remove"} =>
         saved[p].read = env.tag \/ "stop" \in late[p]
    /\ at[p] = "start" => updater = None /\ edit = None
    /\ at[p] \in {"wait", "prove", "remove"} => updater = saved[p].read /\ Coherent
    /\ at[p] \in {"prove", "remove"} => updater = Source(p)

(* The run that replaced .env last has its marker, or was overtaken by an  *)
(* edit; otherwise .env and the container agree.                           *)
Evident == \E p \in Pins : p = owner /\ (p \in marked \/ late[p] # {})

DriftInv == ~Evident => Agree

IInv == TypeOK /\ LockInv /\ MarkInv /\ RunInv /\ DriftInv

-----------------------------------------------------------------------------
(* The initial states satisfy the invariant. *)
LEMMA InitIInv == Init => IInv
  <1> SUFFICES ASSUME Init PROVE IInv
    OBVIOUS
  <1>1. TypeOK
    BY PinAssumption, InodeAssumption, EditAssumption DEF Init, TypeOK, Tags, Captures, Empty, Labels
  <1>2. LockInv /\ MarkInv
    BY PinAssumption DEF Init, LockInv, MarkInv, Ended, Replaced, Empty
  <1>3. RunInv /\ DriftInv
    BY PinAssumption DEF Init, RunInv, DriftInv, Evident, Agree, Coherent, Untouched, Ended
  <1> QED
    BY <1>1, <1>2, <1>3 DEF IInv

(* The part of TypeOK that a run changes, and what a run does preserves it. *)
RunOK ==
  /\ saved \in [Pins -> Captures]
  /\ lock \in Pins \cup {None} /\ at \in [Pins -> Labels] /\ mode \in [Pins -> {"pin", "recover"}]
  /\ killed \subseteq Pins /\ marked \subseteq scratch /\ scratch \subseteq Pins

LEMMA EndTypes ==
  ASSUME NEW p \in Pins, RunOK, RemoveScratch(p) \/ KeepEvidence(p)
  PROVE  RunOK'
  <1>1. at' \in [Pins -> Labels] /\ lock' = None
    BY DEF RunOK, RemoveScratch, KeepEvidence, End, Labels
  <1>2. marked' \subseteq scratch' /\ scratch' \subseteq Pins
    BY DEF RunOK, RemoveScratch, KeepEvidence, End
  <1>3. UNCHANGED <<mode, killed, saved>>
    BY DEF RemoveScratch, KeepEvidence, End
  <1> QED
    BY <1>1, <1>2, <1>3 DEF RunOK

LEMMA CommandTypes ==
  ASSUME NEW p \in Pins, RunOK, NEW label \in Labels, Command(p, label) \/ Failed(p)
  PROVE  RunOK'
  <1>1. CASE KeepEvidence(p)
    BY <1>1, EndTypes
  <1>2. CASE (Step(p, label) \/ Step(p, "exit")) /\ UNCHANGED saved
    BY <1>2 DEF RunOK, Step, Labels
  <1> QED
    BY <1>1, <1>2 DEF Command, Failed

(* Every step preserves the types. *)
LEMMA TypeStep == TypeOK /\ LockInv /\ MarkInv /\ [Next]_vars => TypeOK'
  <1> SUFFICES ASSUME TypeOK, LockInv, MarkInv, [Next]_vars PROVE TypeOK'
    OBVIOUS
  <1> USE PinAssumption, EditAssumption DEF TypeOK, Tags, Labels, LockInv, MarkInv, Replaced, Ended, Source
  <1>0. RunOK
    BY DEF RunOK
  <1>1. CASE ReadEnvironment
    BY <1>1 DEF ReadEnvironment, run
  <1>2. CASE PersistVersion
    BY <1>2 DEF PersistVersion, FreeInodes, Undoes, run
  <1>3. CASE DeployWeb
    BY <1>3 DEF DeployWeb, run
  <1>4. ASSUME NEW p \in Pins,
               LockExec(p) \/ CaptureEnvironment(p) \/ Prepare(p) \/ Mark(p)
               \/ Validate(p, "check", "recheck") \/ Validate(p, "recheck", "swap")
               \/ Replace(p) \/ Verify(p) \/ ComposeReads(p) \/ ComposeStops(p)
               \/ ComposeStarts(p) \/ WaitForUpdater(p) \/ ProveServicesUnchanged(p)
               \/ Remove(p) \/ Exit(p) \/ Fail(p) \/ Kill(p)
        PROVE TypeOK'
    <2>1. CASE LockExec(p)
      BY <2>1 DEF LockExec, system
    <2>2. CASE CaptureEnvironment(p)
      <3>1. saved' \in [Pins -> Captures]
        BY <2>2 DEF CaptureEnvironment, Captures
      <3> QED
        BY <2>2, <3>1 DEF CaptureEnvironment, Step, system
    <2>3. CASE Prepare(p)
      <3>1. saved' \in [Pins -> Captures]
        BY <2>3 DEF Prepare, Captures
      <3> QED
        BY <2>3, <3>1 DEF Prepare, Step, system
    <2>4. CASE Mark(p)
      BY <2>4 DEF Mark, system
    <2>5. CASE Validate(p, "check", "recheck")
      BY <2>5 DEF Validate, Step, system
    <2>6. CASE Validate(p, "recheck", "swap")
      BY <2>6 DEF Validate, Step, system
    <2>7. CASE Replace(p)
      <3>1. p \in marked /\ saved[p].web \in WebTags /\ Source(p) \in Tags
        BY <2>7 DEF Replace
      <3>2. PICK i \in Inodes : /\ env' = [tag |-> Source(p), web |-> saved[p].web, inode |-> i]
                               /\ saved' = [saved EXCEPT ![p].next = i]
        BY <2>7 DEF Replace, FreeInodes
      <3>3. env' \in [tag : Tags, web : WebTags, inode : Inodes]
        BY <3>1, <3>2
      <3>4. saved' \in [Pins -> Captures]
        BY <3>2 DEF Captures
      <3> QED
        BY <2>7, <3>3, <3>4 DEF Replace, Step
    <2>8. CASE Verify(p)
      BY <2>8, <1>0, CommandTypes DEF Verify, system, RunOK
    <2>9. CASE ComposeReads(p)
      <3>1. [saved[p] EXCEPT !.read = env.tag] \in Captures
        BY DEF Captures
      <3>2. saved' \in [Pins -> Captures]
        BY <2>9, <3>1 DEF ComposeReads
      <3> QED
        BY <2>9, <3>2 DEF ComposeReads, Step, system
    <2>10. CASE ComposeStops(p)
      BY <2>10 DEF ComposeStops, Step
    <2>11. CASE ComposeStarts(p)
      BY <2>11, <1>0, CommandTypes DEF ComposeStarts, RunOK
    <2>12. CASE WaitForUpdater(p)
      BY <2>12, <1>0, CommandTypes DEF WaitForUpdater, system, RunOK
    <2>13. CASE ProveServicesUnchanged(p)
      BY <2>13, <1>0, CommandTypes DEF ProveServicesUnchanged, system, RunOK
    <2>14. CASE Remove(p)
      BY <2>14, <1>0, EndTypes DEF Remove, system, RunOK
    <2>15. CASE Exit(p)
      <3>1. CASE RemoveScratch(p) \/ KeepEvidence(p)
        BY <2>15, <3>1, <1>0, EndTypes DEF Exit, system, RunOK
      <3>2. ASSUME /\ saved' = [saved EXCEPT ![p].next = env.inode]
                   /\ mode' = [mode EXCEPT ![p] = "recover"]
                   /\ at' = [at EXCEPT ![p] = "check"]
                   /\ UNCHANGED <<lock, killed, scratch, marked>>
            PROVE TypeOK'
        <4>1. [saved[p] EXCEPT !.next = env.inode] \in Captures
          BY DEF Captures
        <4>2. saved' \in [Pins -> Captures]
          BY <3>2, <4>1
        <4> QED
          BY <2>15, <3>2, <4>2 DEF Exit, system
      <3> QED
        BY <2>15, <3>1, <3>2 DEF Exit
    <2>16. CASE Fail(p)
      BY <2>16, <1>0, CommandTypes DEF Fail, system, RunOK
    <2>17. CASE Kill(p)
      BY <2>17, <1>0, EndTypes DEF Kill, system, RunOK
    <2> QED
      BY <1>4, <2>1, <2>2, <2>3, <2>4, <2>5, <2>6, <2>7, <2>8, <2>9, <2>10, <2>11, <2>12, <2>13, <2>14, <2>15, <2>16, <2>17
  <1>5. CASE UNCHANGED vars
    BY <1>5 DEF vars, run, system
  <1> QED
    BY <1>1, <1>2, <1>3, <1>4, <1>5 DEF Next

(* Every step leaves the lock with the run under way. *)
LEMMA LockStep == TypeOK /\ LockInv /\ [Next]_vars => LockInv'
  <1> SUFFICES ASSUME TypeOK, LockInv, [Next]_vars PROVE LockInv'
    OBVIOUS
  <1> USE PinAssumption DEF TypeOK, Labels, LockInv, Ended
  <1>1. CASE ReadEnvironment
    BY <1>1 DEF ReadEnvironment, run
  <1>2. CASE PersistVersion
    BY <1>2 DEF PersistVersion, FreeInodes, Undoes, run
  <1>3. CASE DeployWeb
    BY <1>3 DEF DeployWeb, run
  <1>4. ASSUME NEW p \in Pins,
               LockExec(p) \/ CaptureEnvironment(p) \/ Prepare(p) \/ Mark(p)
               \/ Validate(p, "check", "recheck") \/ Validate(p, "recheck", "swap")
               \/ Replace(p) \/ Verify(p) \/ ComposeReads(p) \/ ComposeStops(p)
               \/ ComposeStarts(p) \/ WaitForUpdater(p) \/ ProveServicesUnchanged(p)
               \/ Remove(p) \/ Exit(p) \/ Fail(p) \/ Kill(p)
        PROVE LockInv'
    <2>1. CASE LockExec(p)
      BY <2>1 DEF LockExec, system
    <2>2. CASE CaptureEnvironment(p)
      BY <2>2 DEF CaptureEnvironment, Step, system
    <2>3. CASE Prepare(p)
      BY <2>3 DEF Prepare, Step, system
    <2>4. CASE Mark(p)
      BY <2>4 DEF Mark, system
    <2>5. CASE Validate(p, "check", "recheck")
      BY <2>5 DEF Validate, Step, system
    <2>6. CASE Validate(p, "recheck", "swap")
      BY <2>6 DEF Validate, Step, system
    <2>7. CASE Replace(p)
      BY <2>7 DEF Replace, Step, Source, FreeInodes, system
    <2>8. CASE Verify(p)
      BY <2>8 DEF Verify, Command, Step, KeepEvidence, End, system
    <2>9. CASE ComposeReads(p)
      BY <2>9 DEF ComposeReads, Step, system
    <2>10. CASE ComposeStops(p)
      BY <2>10 DEF ComposeStops, Step, system
    <2>11. CASE ComposeStarts(p)
      BY <2>11 DEF ComposeStarts, Command, Failed, Step, KeepEvidence, End, system
    <2>12. CASE WaitForUpdater(p)
      BY <2>12 DEF WaitForUpdater, Source, Command, Step, KeepEvidence, End, system
    <2>13. CASE ProveServicesUnchanged(p)
      BY <2>13 DEF ProveServicesUnchanged, Command, Step, KeepEvidence, End, system
    <2>14. CASE Remove(p)
      BY <2>14 DEF Remove, RemoveScratch, KeepEvidence, End, system
    <2>15. CASE Exit(p)
      BY <2>15 DEF Exit, RemoveScratch, KeepEvidence, End, system
    <2>16. CASE Fail(p)
      BY <2>16 DEF Fail, Failed, Step, KeepEvidence, End, system
    <2>17. CASE Kill(p)
      BY <2>17 DEF Kill, InChild, KeepEvidence, End, system
    <2> QED
      BY <1>4, <2>1, <2>2, <2>3, <2>4, <2>5, <2>6, <2>7, <2>8, <2>9, <2>10, <2>11, <2>12, <2>13, <2>14, <2>15, <2>16, <2>17
  <1>5. CASE UNCHANGED vars
    BY <1>5 DEF vars, run, system
  <1> QED
    BY <1>1, <1>2, <1>3, <1>4, <1>5 DEF Next

(* Every step keeps the marker where it belongs. *)
LEMMA MarkStep == TypeOK /\ LockInv /\ MarkInv /\ [Next]_vars => MarkInv'
  <1> SUFFICES ASSUME TypeOK, LockInv, MarkInv, [Next]_vars PROVE MarkInv'
    OBVIOUS
  <1> USE PinAssumption DEF TypeOK, Labels, Tags, LockInv, MarkInv, Replaced, Ended
  <1>1. CASE ReadEnvironment
    BY <1>1 DEF ReadEnvironment, run
  <1>2. CASE PersistVersion
    BY <1>2 DEF PersistVersion, FreeInodes, Undoes, run
  <1>3. CASE DeployWeb
    BY <1>3 DEF DeployWeb, run
  <1>4. ASSUME NEW p \in Pins,
               LockExec(p) \/ CaptureEnvironment(p) \/ Prepare(p) \/ Mark(p)
               \/ Validate(p, "check", "recheck") \/ Validate(p, "recheck", "swap")
               \/ Replace(p) \/ Verify(p) \/ ComposeReads(p) \/ ComposeStops(p)
               \/ ComposeStarts(p) \/ WaitForUpdater(p) \/ ProveServicesUnchanged(p)
               \/ Remove(p) \/ Exit(p) \/ Fail(p) \/ Kill(p)
        PROVE MarkInv'
    <2>1. CASE LockExec(p)
      BY <2>1 DEF LockExec, system
    <2>2. CASE CaptureEnvironment(p)
      BY <2>2 DEF CaptureEnvironment, Step, system
    <2>3. CASE Prepare(p)
      BY <2>3 DEF Prepare, Step, system
    <2>4. CASE Mark(p)
      BY <2>4 DEF Mark, system
    <2>5. CASE Validate(p, "check", "recheck")
      BY <2>5 DEF Validate, Step, system
    <2>6. CASE Validate(p, "recheck", "swap")
      BY <2>6 DEF Validate, Step, system
    <2>7. CASE Replace(p)
      BY <2>7 DEF Replace, Step, Source, FreeInodes, system
    <2>8. CASE Verify(p)
      BY <2>8 DEF Verify, Command, Step, KeepEvidence, End, system
    <2>9. CASE ComposeReads(p)
      BY <2>9 DEF ComposeReads, Step, system
    <2>10. CASE ComposeStops(p)
      BY <2>10 DEF ComposeStops, Step, system
    <2>11. CASE ComposeStarts(p)
      BY <2>11 DEF ComposeStarts, Command, Failed, Step, KeepEvidence, End, system
    <2>12. CASE WaitForUpdater(p)
      BY <2>12 DEF WaitForUpdater, Source, Command, Step, KeepEvidence, End, system
    <2>13. CASE ProveServicesUnchanged(p)
      BY <2>13 DEF ProveServicesUnchanged, Command, Step, KeepEvidence, End, system
    <2>14. CASE Remove(p)
      BY <2>14 DEF Remove, RemoveScratch, KeepEvidence, End, system
    <2>15. CASE Exit(p)
      <3>1. CASE RemoveScratch(p) \/ KeepEvidence(p)
        BY <2>15, <3>1 DEF Exit, RemoveScratch, KeepEvidence, End, system
      <3>2. ASSUME p \in marked,
                   saved' = [saved EXCEPT ![p].next = env.inode],
                   mode' = [mode EXCEPT ![p] = "recover"],
                   at' = [at EXCEPT ![p] = "check"],
                   UNCHANGED <<lock, killed, scratch, marked>>
            PROVE MarkInv'
        BY <2>15, <3>2 DEF Exit, system
      <3> QED
        BY <2>15, <3>1, <3>2 DEF Exit
    <2>16. CASE Fail(p)
      BY <2>16 DEF Fail, Failed, Step, KeepEvidence, End, system
    <2>17. CASE Kill(p)
      BY <2>17 DEF Kill, InChild, KeepEvidence, End, system
    <2> QED
      BY <1>4, <2>1, <2>2, <2>3, <2>4, <2>5, <2>6, <2>7, <2>8, <2>9, <2>10, <2>11, <2>12, <2>13, <2>14, <2>15, <2>16, <2>17
  <1>5. CASE UNCHANGED vars
    BY <1>5 DEF vars, run, system
  <1> QED
    BY <1>1, <1>2, <1>3, <1>4, <1>5 DEF Next

(* Every step preserves what a run relies on. *)
LEMMA RunStep == TypeOK /\ LockInv /\ MarkInv /\ RunInv /\ DriftInv /\ [Next]_vars => RunInv'
  <1> SUFFICES ASSUME TypeOK, LockInv, MarkInv, RunInv, DriftInv, [Next]_vars PROVE RunInv'
    OBVIOUS
  <1> USE PinAssumption DEF TypeOK, Labels, LockInv, MarkInv, RunInv, Agree, Coherent, Untouched, Written, Replaced, Ended, Source, Expected, ExpectedInode
  <1>1. CASE ReadEnvironment
    BY <1>1 DEF ReadEnvironment, run
  <1>2. CASE PersistVersion
    BY <1>2 DEF PersistVersion, FreeInodes, Undoes, run
  <1>3. CASE DeployWeb
    BY <1>3 DEF DeployWeb, run
  <1>4. ASSUME NEW p \in Pins,
               LockExec(p) \/ CaptureEnvironment(p) \/ Prepare(p) \/ Mark(p)
               \/ Validate(p, "check", "recheck") \/ Validate(p, "recheck", "swap")
               \/ Replace(p) \/ Verify(p) \/ ComposeReads(p) \/ ComposeStops(p)
               \/ ComposeStarts(p) \/ WaitForUpdater(p) \/ ProveServicesUnchanged(p)
               \/ Remove(p) \/ Exit(p) \/ Fail(p) \/ Kill(p)
        PROVE RunInv'
    <2>1. CASE LockExec(p)
      BY <2>1 DEF LockExec, system
    <2>2. CASE CaptureEnvironment(p)
      BY <2>2 DEF CaptureEnvironment, Step, system
    <2>3. CASE Prepare(p)
      BY <2>3 DEF Prepare, Step, system
    <2>4. CASE Mark(p)
      BY <2>4 DEF Mark, system
    <2>5. CASE Validate(p, "check", "recheck")
      BY <2>5 DEF Validate, Step, system
    <2>6. CASE Validate(p, "recheck", "swap")
      BY <2>6 DEF Validate, Step, system
    <2>7. CASE Replace(p)
      BY <2>7 DEF Replace, Step, Source, FreeInodes, system
    <2>8. CASE Verify(p)
      BY <2>8 DEF Verify, Command, Step, KeepEvidence, End, system
    <2>9. CASE ComposeReads(p)
      BY <2>9 DEF ComposeReads, Step, system
    <2>10. CASE ComposeStops(p)
      BY <2>10 DEF ComposeStops, Step, system
    <2>11. CASE ComposeStarts(p)
      BY <2>11 DEF ComposeStarts, Command, Failed, Step, KeepEvidence, End, system
    <2>12. CASE WaitForUpdater(p)
      BY <2>12 DEF WaitForUpdater, Source, Command, Step, KeepEvidence, End, system
    <2>13. CASE ProveServicesUnchanged(p)
      BY <2>13 DEF ProveServicesUnchanged, Command, Step, KeepEvidence, End, system
    <2>14. CASE Remove(p)
      BY <2>14 DEF Remove, RemoveScratch, KeepEvidence, End, system
    <2>15. CASE Exit(p)
      BY <2>15 DEF Exit, RemoveScratch, KeepEvidence, End, system
    <2>16. CASE Fail(p)
      BY <2>16 DEF Fail, Failed, Step, KeepEvidence, End, system
    <2>17. CASE Kill(p)
      BY <2>17 DEF Kill, InChild, KeepEvidence, End, system
    <2> QED
      BY <1>4, <2>1, <2>2, <2>3, <2>4, <2>5, <2>6, <2>7, <2>8, <2>9, <2>10, <2>11, <2>12, <2>13, <2>14, <2>15, <2>16, <2>17
  <1>5. CASE UNCHANGED vars
    BY <1>5 DEF vars, run, system
  <1> QED
    BY <1>1, <1>2, <1>3, <1>4, <1>5 DEF Next

(* Every step preserves that what has left no evidence has settled. *)
LEMMA DriftStep == TypeOK /\ LockInv /\ MarkInv /\ RunInv /\ DriftInv /\ [Next]_vars => DriftInv'
  <1> SUFFICES ASSUME TypeOK, LockInv, MarkInv, RunInv, DriftInv, [Next]_vars PROVE DriftInv'
    OBVIOUS
  <1> USE PinAssumption DEF TypeOK, Labels, LockInv, MarkInv, RunInv, DriftInv, Evident, Agree, Coherent, Untouched, Written, Replaced, Ended, Source, Expected, ExpectedInode
  <1>1. CASE ReadEnvironment
    BY <1>1 DEF ReadEnvironment, run
  <1>2. CASE PersistVersion
    BY <1>2 DEF PersistVersion, FreeInodes, Undoes, run
  <1>3. CASE DeployWeb
    BY <1>3 DEF DeployWeb, run
  <1>4. ASSUME NEW p \in Pins,
               LockExec(p) \/ CaptureEnvironment(p) \/ Prepare(p) \/ Mark(p)
               \/ Validate(p, "check", "recheck") \/ Validate(p, "recheck", "swap")
               \/ Replace(p) \/ Verify(p) \/ ComposeReads(p) \/ ComposeStops(p)
               \/ ComposeStarts(p) \/ WaitForUpdater(p) \/ ProveServicesUnchanged(p)
               \/ Remove(p) \/ Exit(p) \/ Fail(p) \/ Kill(p)
        PROVE DriftInv'
    <2>1. CASE LockExec(p)
      BY <2>1 DEF LockExec, system
    <2>2. CASE CaptureEnvironment(p)
      BY <2>2 DEF CaptureEnvironment, Step, system
    <2>3. CASE Prepare(p)
      BY <2>3 DEF Prepare, Step, system
    <2>4. CASE Mark(p)
      BY <2>4 DEF Mark, system
    <2>5. CASE Validate(p, "check", "recheck")
      BY <2>5 DEF Validate, Step, system
    <2>6. CASE Validate(p, "recheck", "swap")
      BY <2>6 DEF Validate, Step, system
    <2>7. CASE Replace(p)
      BY <2>7 DEF Replace, Step, Source, FreeInodes, system
    <2>8. CASE Verify(p)
      BY <2>8 DEF Verify, Command, Step, KeepEvidence, End, system
    <2>9. CASE ComposeReads(p)
      BY <2>9 DEF ComposeReads, Step, system
    <2>10. CASE ComposeStops(p)
      BY <2>10 DEF ComposeStops, Step, system
    <2>11. CASE ComposeStarts(p)
      BY <2>11 DEF ComposeStarts, Command, Failed, Step, KeepEvidence, End, system
    <2>12. CASE WaitForUpdater(p)
      BY <2>12 DEF WaitForUpdater, Source, Command, Step, KeepEvidence, End, system
    <2>13. CASE ProveServicesUnchanged(p)
      BY <2>13 DEF ProveServicesUnchanged, Command, Step, KeepEvidence, End, system
    <2>14. CASE Remove(p)
      BY <2>14 DEF Remove, RemoveScratch, KeepEvidence, End, system
    <2>15. CASE Exit(p)
      BY <2>15 DEF Exit, RemoveScratch, KeepEvidence, End, system
    <2>16. CASE Fail(p)
      BY <2>16 DEF Fail, Failed, Step, KeepEvidence, End, system
    <2>17. CASE Kill(p)
      BY <2>17 DEF Kill, InChild, KeepEvidence, End, system
    <2> QED
      BY <1>4, <2>1, <2>2, <2>3, <2>4, <2>5, <2>6, <2>7, <2>8, <2>9, <2>10, <2>11, <2>12, <2>13, <2>14, <2>15, <2>16, <2>17
  <1>5. CASE UNCHANGED vars
    BY <1>5 DEF vars, run, system
  <1> QED
    BY <1>1, <1>2, <1>3, <1>4, <1>5 DEF Next

-----------------------------------------------------------------------------
(* The invariant holds in every state that the installation reaches. *)
THEOREM Invariance == Spec => []IInv
  <1>1. IInv /\ [Next]_vars => IInv'
    BY TypeStep, LockStep, MarkStep, RunStep, DriftStep DEF IInv
  <1> QED
    BY InitIInv, <1>1, PTL DEF Spec

(* Whatever fails or is killed, .env, the container, the locks and the     *)
(* scratch directories keep their shapes, and no marker survives its       *)
(* directory.                                                              *)
THEOREM TypeCorrect == Spec => []TypeOK
  <1>1. IInv => TypeOK
    BY DEF IInv
  <1> QED
    BY Invariance, <1>1, PTL

(* Two runs of the script are never under way at once, although a child    *)
(* may outlive the bash that started it.                                   *)
THEOREM MutualExclusion == Spec => []OneTransaction
  <1>1. IInv => OneTransaction
    <2> SUFFICES ASSUME IInv, NEW p \in Pins, NEW q \in Pins,
                        {at[p], at[q]} \cap {"idle", "done"} = {}
                 PROVE p = q
      BY DEF OneTransaction
    <2>1. at[p] \notin Ended /\ at[q] \notin Ended
      BY DEF Ended
    <2> QED
      BY <2>1 DEF IInv, LockInv
  <1> QED
    BY Invariance, <1>1, PTL

(* A container other than the updater that .env names is left behind only  *)
(* with the evidence of the run that replaced .env last, or where an edit   *)
(* from before that replacement was written over it during that run; for   *)
(* any number of runs, failures, kills and edits.                          *)
THEOREM DriftIsEvident == Spec => []DriftLeavesEvidence
  <1>1. IInv => DriftLeavesEvidence
    BY DEF IInv, DriftInv, Evident, Agree, DriftLeavesEvidence
  <1> QED
    BY Invariance, <1>1, PTL

(* A run that removes its evidence leaves the container on the version it  *)
(* was to start, and .env with it unless an edit came after compose had    *)
(* read it; or it leaves both as it found them, unless an older edit undid *)
(* its replacement.                                                        *)
THEOREM CleanEnds == Spec => CleanEndsAreSettled
  <1>1. IInv /\ [Next]_vars => [\A p \in marked \ marked' : Settled(p)]_vars
    <2> SUFFICES ASSUME IInv, Next, NEW p \in marked \ marked' PROVE Settled(p)
      OBVIOUS
    <2> USE DEF IInv, Settled
    <2>1. p \in Pins /\ marked \subseteq Pins
      BY DEF TypeOK
    <2>2. PICK q \in Pins : Remove(q) \/ Exit(q)
      BY <2>1 DEF Next, ReadEnvironment, PersistVersion, DeployWeb, run, LockExec,
         CaptureEnvironment, Prepare, Mark, Validate, Replace, Verify, ComposeReads,
         ComposeStops, ComposeStarts, WaitForUpdater, ProveServicesUnchanged, Fail, Kill,
         Command, Failed, KeepEvidence, End, Step
    <2>3. CASE Remove(q)
      <3>1. p = q /\ at[p] = "remove"
        BY <2>1, <2>3 DEF Remove, RemoveScratch, KeepEvidence, End
      <3> QED
        BY <2>1, <3>1 DEF RunInv
    <2>4. CASE Exit(q)
      <3>1. p = q /\ at[p] = "exit" /\ env.tag = saved[p].tag
        BY <2>1, <2>4 DEF Exit, RemoveScratch, KeepEvidence, End
      <3>2. mode[p] = "pin" /\ saved[p].tag # Target[p]
        BY <2>1, <3>1 DEF MarkInv
      <3>3. owner = p => late[p] # {}
        BY <2>1, <3>1, <3>2 DEF RunInv, Written, Ended
      <3>4. owner # p => updater = saved[p].tag
        BY <2>1, <3>1 DEF RunInv
      <3> QED
        BY <3>1, <3>3, <3>4
    <2> QED
      BY <2>2, <2>3, <2>4
  <1> QED
    BY Invariance, <1>1, PTL DEF Spec, CleanEndsAreSettled
=============================================================================
