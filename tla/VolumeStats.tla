---------------------------- MODULE VolumeStats ----------------------------
(***************************************************************************)
(* NodeGetVolumeStats (pkg/smb/nodeserver.go) next to the operations of    *)
(* NodeServer.  It takes no lock: it measures the file system of a path,   *)
(* the share or, if nothing is mounted there at that moment, the node's    *)
(* own disk, and keeps the figures in volStatsCache for all paths of the   *)
(* volume.                                                                 *)
(***************************************************************************)
EXTENDS NodeServer

CONSTANTS
  StatsPaths, \* paths kubelet asks statistics of
  TTL         \* lifetime of a cache entry, in steps of the clock

ASSUME StatsAssumption ==
  /\ StatsPaths \subseteq Paths
  /\ TTL \in Nat \ {0}

Figures == {"share", "disk"}
StatsVolumes == {Vol[p] : p \in StatsPaths}

VARIABLES
  figures,  \* volStatsCache: the figures of a volume, "none" if expired
  age,      \* the time since they were set
  missed,   \* paths of handlers that found no entry and go to measure
  measured  \* <<volume, figures>> of handlers on their way to the cache

statsVars == <<figures, age, missed, measured>>

NewStatsCache ==
  /\ figures = [v \in StatsVolumes |-> "none"]
  /\ age = [v \in StatsVolumes |-> 0]
  /\ missed = {}
  /\ measured = {}

(* A restart loses the cache and the handlers. *)
StatsLost ==
  /\ figures' = [v \in StatsVolumes |-> "none"]
  /\ age' = [v \in StatsVolumes |-> 0]
  /\ missed' = {}
  /\ measured' = {}

(* What Lstat and statfs say of a path; "none" is an error. *)
Measure(p) == CASE p \notin dirs                      -> "none"
                [] ~Mounted(p) \/ Top(p) = "local"    -> "disk"
                [] Mounted(p) /\ Top(p) = "stat"      -> "none"
                [] OTHER                              -> "share"

(* Mutant of StatsFromCache: reading an entry renews it. *)
StatsFromCacheRenewing(p) ==
  /\ figures[Vol[p]] # "none"
  /\ age' = [age EXCEPT ![Vol[p]] = 0]
  /\ UNCHANGED <<figures, missed, measured>>

(* The figures are returned as they are, whatever the path is now. *)
StatsFromCache(p) ==
  /\ figures[Vol[p]] # "none"
  /\ UNCHANGED statsVars

(* There is no entry, or it has expired. *)
StatsMiss(p) ==
  /\ figures[Vol[p]] = "none"
  /\ missed' = missed \cup {p}
  /\ UNCHANGED <<figures, age, measured>>

(* A handler that found no entry measures the path as it is by now, or     *)
(* returns the error.                                                      *)
StatsMeasure(p) ==
  /\ p \in missed
  /\ missed' = missed \ {p}
  /\ measured' = IF Measure(p) = "none" THEN measured
                 ELSE measured \cup {<<Vol[p], Measure(p)>>}
  /\ UNCHANGED <<figures, age>>

(* A measurement reaches the cache when its handler does, later ones first *)
(* or last.                                                                *)
StatsSet(m) ==
  /\ m \in measured
  /\ measured' = measured \ {m}
  /\ figures' = [figures EXCEPT ![m[1]] = m[2]]
  /\ age' = [age EXCEPT ![m[1]] = 0]
  /\ UNCHANGED missed

(* Time passes. *)
Clock ==
  /\ \E v \in StatsVolumes : figures[v] # "none"
  /\ LET expired == {v \in StatsVolumes : age[v] + 1 = TTL}
     IN  /\ figures' = [v \in StatsVolumes |-> IF v \in expired THEN "none" ELSE figures[v]]
         /\ age' = [v \in StatsVolumes |->
                      IF v \in expired \/ figures[v] = "none" THEN 0 ELSE age[v] + 1]
  /\ UNCHANGED <<missed, measured>>

NodeGetVolumeStats ==
  \/ \E p \in StatsPaths : StatsFromCache(p)
  \/ \E p \in StatsPaths : StatsMiss(p)
  \/ \E p \in StatsPaths : StatsMeasure(p)
  \/ \E m \in StatsVolumes \X Figures : StatsSet(m)

StatsNext ==
  \/ Next /\ IF crashes' = crashes THEN UNCHANGED statsVars ELSE StatsLost
  \/ NodeGetVolumeStats /\ UNCHANGED vars
  \/ Clock /\ UNCHANGED vars

(* The fairness of RetrySpec, and time that does not stand still. *)
StatsSpec ==
  /\ Init /\ NewStatsCache
  /\ [][StatsNext]_<<vars, statsVars>>
  /\ Fairness /\ RetryFairness
  /\ WF_<<vars, statsVars>>(Clock /\ UNCHANGED vars)

-----------------------------------------------------------------------------
(* Cached figures may be of the wrong file system: of the share after it   *)
(* was unmounted, or of the node's disk if a request came between the      *)
(* directory and the mount of a target, or after an unmount.  They are not *)
(* served for ever, however often kubelet asks and in whatever order slow  *)
(* requests get to the cache: once the paths of a volume stay as they are, *)
(* the cache comes to hold nothing but what they measure.                  *)
StatsCatchUp ==
  \A v \in StatsVolumes, f \in Figures :
    <>[](\A p \in StatsPaths : Vol[p] = v => Measure(p) = f)
      => <>[](figures[v] \in {f, "none"})
=============================================================================
