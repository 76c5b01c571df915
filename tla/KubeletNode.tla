---------------------------- MODULE KubeletNode ----------------------------
(***************************************************************************)
(* NodeServer driven by kubelet (external): the order in which kubelet     *)
(* calls the node service, as the CSI specification and the driver assume  *)
(* it.  A volume is published only once it is staged, and unstaged only    *)
(* once all its targets are unpublished; stage and publish of a volume are *)
(* never run next to another operation of that volume.                     *)
(***************************************************************************)
EXTENDS NodeServer

(* A publish names the staging path of its own volume. *)
ASSUME KubeletAssumption == \A t \in PublishPaths : Vol[Source[t]] = Vol[t]

(* No handler works for a caller on a path of the volume. *)
VolumeIdle(v) == \A c \in Calls : path[c] \in Paths /\ Vol[path[c]] = v => Answered(c)

KubeletStage(c, p) == VolumeIdle(Vol[p]) /\ NodeStageVolume(c, p)

KubeletUnstage(c, p) ==
  /\ VolumeIdle(Vol[p])
  /\ \A t \in PublishPaths : Source[t] = p => view[t] = "unmounted"
  /\ NodeUnstageVolume(c, p)

KubeletPublish(c, t) ==
  /\ VolumeIdle(Vol[t])
  /\ view[Source[t]] = "mounted"
  /\ NodePublishVolume(c, t)

(* Unpublishes of different pods run in parallel. *)
KubeletUnpublish(c, t) ==
  /\ \A d \in Calls : path[d] \in Paths /\ Vol[path[d]] = Vol[t]
                        => Answered(d) \/ op[d] = "unpublish"
  /\ NodeUnpublishVolume(c, t)

KubeletNext ==
  \/ \E c \in Calls, p \in StagingPaths : KubeletStage(c, p) \/ KubeletUnstage(c, p)
  \/ \E c \in Calls, t \in PublishPaths : KubeletPublish(c, t) \/ KubeletUnpublish(c, t)
  \/ \E c \in Calls : Abandon(c)
  \/ \E c \in Calls : Handler(c)
  \/ \E c \in Calls : MountGoroutine(c)
  \/ \E p \in Paths : Server(p)
  \/ Crash

KubeletSpec == Init /\ [][KubeletNext]_vars

(* A pod never gets the node's own disk in place of its share: publish     *)
(* does not look whether the staging path is mounted before it binds it,   *)
(* so this rests on stage and unstage answering truthfully, and on the     *)
(* unmount of an invalid link being answered as an error.                  *)
PublishedCarriesShare ==
  \A t \in PublishPaths : \A i \in 1..Len(mounts[t]) : mounts[t][i] # "local"

(* Under kubelet's order a volume that is in use is never unstaged: while  *)
(* kubelet holds a target for published, its staging path loses its mount  *)
(* only to a repeated stage of it, and a stage sets out to unmount only    *)
(* when its own probe, at that moment, finds the link invalid.  Whether it *)
(* still is when the unmount comes is not looked at again: a link that     *)
(* recovers in between is unmounted although it is valid and in use.       *)
InUseUnmountedOnlyAfterProbe ==
  [][/\ \A t \in PublishPaths :
          view[t] = "mounted" /\ Mounted(Source[t]) /\ ~Mounted(Source[t])'
            => \E c \in Calls :
                 path[c] = Source[t] /\ op[c] = "stage" /\ pc[c] = "unmount"
     /\ \A c \in Calls :
          path[c] \in StagingPaths /\ pc[c] # "unmount" /\ pc'[c] = "unmount"
            => Invalid(path[c])]_vars
=============================================================================
