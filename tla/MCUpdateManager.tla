--------------------------- MODULE MCUpdateManager ---------------------------
(* UpdateManager on three releases, so that an update can lead to the next *)
(* one or find that :stable moved, and two task ids, so that the leftovers *)
(* of a first task meet a second one.  The ids are interchangeable.        *)
EXTENDS UpdateManagerProperties, TLC

MCVersions == 1..3
OneUpdate == 1..2
AllFaults == {"platform", "store"}
PlatformFaults == {"platform"}
NoFaults == {}

Symmetry == Permutations(TaskIds)
=============================================================================
