-------------------------- MODULE MCKerberosCache --------------------------
(* KerberosCache for TLC: two volumes of the same user. *)
EXTENDS KerberosCache, TLC

CONSTANTS c1, c2, v1, v2, u1

MCCredUID == [v \in Volumes |-> u1]

Symmetric == Permutations(Calls) \cup Permutations(Volumes)
=============================================================================
