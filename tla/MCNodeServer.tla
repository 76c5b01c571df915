---------------------------- MODULE MCNodeServer ----------------------------
(* NodeServer for TLC: two volumes at most, one path of each kind. *)
EXTENDS NodeServer, TLC

CONSTANTS c1, c2, c3, v1, v2, s1, t1, t2, e1

MCVol == [p \in Paths |-> IF p = e1 THEN v2 ELSE v1]
MCSource == [p \in PublishPaths |-> s1]

Symmetric == Permutations(Calls)
=============================================================================
