--------------------------- MODULE MCVolumeStats ---------------------------
(* VolumeStats for TLC: the paths of one volume. *)
EXTENDS VolumeStats, TLC

CONSTANTS c1, c2, v1, s1, t1

MCVol == [p \in Paths |-> v1]
MCSource == [p \in PublishPaths |-> s1]
=============================================================================
