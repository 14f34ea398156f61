-------------------------- MODULE MCSystemUpdateWeb --------------------------
(* Two tabs, so that one acts on what the other changed, and two request   *)
(* threads; two task ids, so that a second task replaces the first.        *)
EXTENDS SystemUpdateWebProperties, TLC

OneRelease == {1}
TwoReleases == 1..2
Symmetric == Permutations(Tabs) \cup Permutations(Requests) \cup Permutations(TaskIds)
=============================================================================
