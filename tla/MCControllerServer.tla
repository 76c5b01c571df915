------------------------- MODULE MCControllerServer -------------------------
(* ControllerServer for TLC: a volume v1, and two clones of it. *)
EXTENDS ControllerServer, TLC

CONSTANTS c1, c2, v1, w1, w2

MCSourceOf == [v \in Vols |-> IF v \in {w1, w2} THEN v1 ELSE NoVol]

(* One volume for each policy. *)
MCOnDelete == [v \in Vols |-> CASE v = v1 -> "delete"
                                [] v = w1 -> "archive"
                                [] v = w2 -> "retain"]

MCArchive == [v \in Vols |-> "archive"]

Symmetric == Permutations(Calls)
=============================================================================
