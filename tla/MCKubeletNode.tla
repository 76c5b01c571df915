--------------------------- MODULE MCKubeletNode ---------------------------
(* KubeletNode for TLC: one volume, its staging path and two pods. *)
EXTENDS KubeletNode, TLC

CONSTANTS c1, c2, c3, v1, s1, t1, t2

MCVol == [p \in Paths |-> v1]
MCSource == [p \in PublishPaths |-> s1]

Symmetric == Permutations(Calls) \cup Permutations(PublishPaths)
=============================================================================
