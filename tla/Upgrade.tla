------------------------------- MODULE Upgrade -------------------------------
(***************************************************************************)
(* What an owner is promised by the web-managed upgrade: an upgrade is all *)
(* or nothing.  While one is open the installation may be on either side,  *)
(* but it closes with the deployed version and the serving version both    *)
(* new, or both as they were before, or it stops and asks for a human.     *)
(***************************************************************************)
CONSTANTS Releases, Nothing

VARIABLES
  phase,     \* "steady", "open" or "manual"
  deployed,  \* the version the next `docker compose up` would start
  serving,   \* the version the web container is made of, or Nothing
  before,    \* deployed and serving when the upgrade opened
  goal       \* the version the open upgrade leads to

vars == <<phase, deployed, serving, before, goal>>

Init == /\ phase = "steady"
        /\ deployed \in Releases /\ serving = deployed
        /\ before = <<deployed, serving>> /\ goal = Nothing

(* Only a steady installation opens an upgrade. *)
Open == /\ phase = "steady"
        /\ phase' = "open"
        /\ goal' \in Releases /\ before' = <<deployed, serving>>
        /\ UNCHANGED <<deployed, serving>>

(* The installation moves between its old side, its new side and no        *)
(* container at all; deployed only ever names one of the two versions.     *)
Move == /\ phase = "open"
        /\ deployed' \in {before[1], goal}
        /\ serving' \in {before[2], goal, Nothing}
        /\ UNCHANGED <<phase, before, goal>>

Commit == /\ phase = "open"
          /\ deployed = goal /\ serving = goal
          /\ phase' = "steady"
          /\ UNCHANGED <<deployed, serving, before, goal>>

Abort == /\ phase = "open"
         /\ <<deployed, serving>> = before
         /\ phase' = "steady"
         /\ UNCHANGED <<deployed, serving, before, goal>>

GiveUp == /\ phase = "open"
          /\ phase' = "manual"
          /\ UNCHANGED <<deployed, serving, before, goal>>

(* An operator deploys by hand, when no upgrade is open.                   *)
Deploy == /\ phase = "steady"
          /\ deployed' \in Releases /\ serving' = deployed'
          /\ UNCHANGED <<phase, before, goal>>

Next == Open \/ Move \/ Commit \/ Abort \/ GiveUp \/ Deploy

Spec == Init /\ [][Next]_vars
=============================================================================
