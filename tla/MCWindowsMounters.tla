------------------------- MODULE MCWindowsMounters -------------------------
(* WindowsMounters for TLC: volumes of one remote path. *)
EXTENDS WindowsMounters, TLC

CONSTANTS c1, c2, c3, v1, v2, v3, s1

MCMappingPath == [v \in Volumes |-> s1]

Symmetric == Permutations(Calls) \cup Permutations(Volumes)
=============================================================================
