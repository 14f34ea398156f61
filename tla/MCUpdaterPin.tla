---------------------------- MODULE MCUpdaterPin ----------------------------
(* Two runs with different targets and an updater that edits .env twice.   *)
EXTENDS UpdaterPin, TLC

Newer == [p \in Pins |-> IF p = CHOOSE q \in Pins : TRUE THEN 2 ELSE 3]

Symmetry == Permutations(Inodes) \cup Permutations(WebTags)
=============================================================================
