----------------------------- MODULE MCVolumeID -----------------------------
(* VolumeID for TLC: every subDir of up to four tokens. *)
EXTENDS VolumeID

MaxTokens == 4
SubDirTokens == {"/", "#", "..", ".", "$pv", "a"}

MCTokens == SubDirTokens \cup Names \cup {"h", "s", "archived-", "retain", "archive"}

MCSubDirs == UNION {[1..k -> SubDirTokens] : k \in 0..MaxTokens}

MCSources ==
  { <<>>, <<"/", "/", "h", "/", "s">>, <<"h", "/", "s", "/">>, <<"/", "/", "h", "/", "#">>,
    <<"/", "/", "h", "/", "..">> }
=============================================================================
