--------------------------- MODULE KubeletProofs ---------------------------
(***************************************************************************)
(* Proofs about KubeletNode: under kubelet's order of calls a pod gets its *)
(* share, and the mount under a running pod is not taken away.  Kubelet    *)
(* waits for the answers about targets (CallersWait), while it may give up *)
(* on a stage or unstage and go on.                                        *)
(***************************************************************************)
EXTENDS KubeletNode, TargetProofs

Shares == {"live"} \cup FailModes

(* Only shares are mounted, never the node's own disk. *)
OnlyShares == \A p \in Paths : mounts[p] \in Seq(Shares)

(* A volume that is being published stays staged. *)
PublishStaged ==
  \A c \in Calls : op[c] = "publish" => view[Source[path[c]]] = "mounted"

(* A volume that is being unstaged is published nowhere. *)
UnstageUnused ==
  \A c \in Calls : op[c] = "unstage" =>
    \A t \in PublishPaths : Source[t] = path[c] => view[t] # "mounted"

KInv == TInv /\ OnlyShares /\ PublishStaged /\ UnstageUnused

USE DEF Paths, Key, Locking, Targets

-----------------------------------------------------------------------------
(* Kubelet's order only restricts the requests of NodeServer. *)
LEMMA KubeletIsNode == [KubeletNext]_vars => [Next]_vars
<1>1. ASSUME NEW c \in Calls, NEW p \in StagingPaths, KubeletStage(c, p) \/ KubeletUnstage(c, p)
      PROVE  Request(c)
  BY <1>1 DEF KubeletStage, KubeletUnstage, Request
<1>2. ASSUME NEW c \in Calls, NEW t \in PublishPaths,
             KubeletPublish(c, t) \/ KubeletUnpublish(c, t)
      PROVE  Request(c)
  BY <1>2 DEF KubeletPublish, KubeletUnpublish, Request
<1> QED BY <1>1, <1>2 DEF KubeletNext, Next

LEMMA KubeletInit == CallersWait /\ Init => KInv
<1> SUFFICES ASSUME CallersWait, Init PROVE KInv
  OBVIOUS
<1>1. TInv
  BY TargetInit
<1>2. OnlyShares
  BY DEF Init, OnlyShares
<1>3. PublishStaged /\ UnstageUnused
  BY DEF Init, PublishStaged, UnstageUnused
<1> QED BY <1>1, <1>2, <1>3 DEF KInv

(* A handler works on a staging path only while no answer about it stands. *)
LEMMA StagedIsQuiet ==
  ASSUME TInv, NEW c \in Calls, path[c] \in StagingPaths
  PROVE  view[path[c]] = "unknown"
BY DEF TInv, IInv, StagingOK

(* The paths of publish and unstage, and the answers about a publish.      *)
LEMMA RequestPaths ==
  ASSUME TInv, NEW c \in Calls
  PROVE  /\ op[c] = "publish" => /\ path[c] \in PublishPaths /\ Source[path[c]] \in StagingPaths
                                 /\ Vol[Source[path[c]]] = Vol[path[c]] /\ ~Answered(c)
         /\ op[c] = "unstage" => path[c] \in StagingPaths
<1>1. op[c] = "publish" => path[c] \in PublishPaths /\ pc[c] \in EnsurePCs \cup {"bind", "rmtarget"}
  BY DEF TInv, IInv, TypeInv, ControlOK
<1>2. op[c] = "unstage" => path[c] \in StagingPaths
  BY DEF TInv, IInv, TypeInv, ControlOK
<1>3. path[c] \in PublishPaths => c \notin abandoned
  BY DEF TInv, CallersWait, AbandonedAllowed
<1>4. op[c] = "publish" => ~Answered(c)
  BY <1>1, <1>3 DEF Answered, EnsurePCs
<1> QED BY <1>1, <1>2, <1>4, PathsAssumption, KubeletAssumption

-----------------------------------------------------------------------------
(* Kubelet's requests. *)
LEMMA RequestKubelet ==
  ASSUME KInv, NEW c \in Calls, NEW p \in Paths, NEW o \in Ops, NEW first,
         Begin(c, o, p, first),
         o \in {"stage", "unstage"} /\ p \in StagingPaths =>
           VolumeIdle(Vol[p]),
         p \in StagingPaths => o \in {"stage", "unstage"},
         o = "unstage" =>
           \A t \in PublishPaths : Source[t] = p => view[t] = "unmounted",
         o = "publish" => p \in PublishPaths /\ view[Source[p]] = "mounted"
  PROVE  OnlyShares' /\ PublishStaged' /\ UnstageUnused'
<1>1. /\ path' = [path EXCEPT ![c] = p] /\ op' = [op EXCEPT ![c] = o]
      /\ pc' = [pc EXCEPT ![c] = first] /\ view' = [view EXCEPT ![p] = "unknown"]
      /\ UNCHANGED mounts
  BY DEF Begin
<1>2. /\ \A d \in Calls : /\ path'[d] = IF d = c THEN p ELSE path[d]
                          /\ op'[d] = IF d = c THEN o ELSE op[d]
                          /\ pc'[d] = IF d = c THEN first ELSE pc[d]
      /\ \A q \in Paths : view'[q] = IF q = p THEN "unknown" ELSE view[q]
  BY <1>1 DEF KInv, TInv, IInv, TypeInv, TypeOK
<1>3. OnlyShares'
  BY <1>1 DEF KInv, OnlyShares
<1>4. \A d \in Calls : op[d] = "publish" =>
        path[d] \in PublishPaths /\ Source[path[d]] \in StagingPaths /\ Source[path[d]] # p
  <2> SUFFICES ASSUME NEW d \in Calls, op[d] = "publish"
               PROVE  path[d] \in PublishPaths /\ Source[path[d]] \in StagingPaths
                      /\ Source[path[d]] # p
    OBVIOUS
  <2>1. /\ path[d] \in PublishPaths /\ Source[path[d]] \in StagingPaths
        /\ Vol[Source[path[d]]] = Vol[path[d]] /\ ~Answered(d)
    BY RequestPaths DEF KInv
  <2> QED BY <2>1 DEF VolumeIdle
<1>5. o = "publish" => Source[p] \in StagingPaths /\ Source[p] # p
  BY PathsAssumption
<1>6. PublishStaged'
  BY <1>2, <1>4, <1>5 DEF KInv, PublishStaged
<1>7. UnstageUnused'
  BY <1>2 DEF KInv, UnstageUnused
<1> QED BY <1>3, <1>6, <1>7

-----------------------------------------------------------------------------
(* A handler or its mount goroutine mounts only shares: a bind finds the   *)
(* staging path mounted.                                                   *)
LEMMA WorkMountsShares ==
  ASSUME KInv, IInv', NEW c \in Calls, Handler(c) \/ MountGoroutine(c)
  PROVE  OnlyShares'
<1>1. /\ path[c] \in Paths
      /\ \A q \in Paths : q # path[c] => mounts'[q] = mounts[q]
  BY WorkIsLocal DEF KInv, TInv
<1>2. mounts \in [Paths -> Seq(Layers)] /\ \A q \in Paths : mounts[q] \in Seq(Shares)
  BY DEF KInv, TInv, IInv, TypeInv, TypeOK, OnlyShares
<1>3. ASSUME NEW q \in Paths, Mounted(q) PROVE Beneath(q) \in Seq(Shares) /\ Top(q) \in Shares
  BY <1>2, <1>3 DEF Mounted, Beneath, Top
<1>4. mounts'[path[c]] \in Seq(Shares)
  <2>1. CASE UnmountInvalid(c) \/ CleanupUnmount(c)
    BY <1>1, <1>2, <1>3, <2>1 DEF UnmountInvalid, CleanupUnmount, Unmount
  <2>2. CASE MountLands(c)
    BY <1>1, <1>2, <2>2 DEF MountLands, Shares
  <2>3. CASE BindMount(c)
    <3>1. op[c] = "publish"
      BY <2>3 DEF BindMount, KInv, TInv, IInv, TypeInv, TypeOK, ControlOK, Ops,
                  EnsurePCs, MountPCs, CleanupPCs
    <3>2. Source[path[c]] \in StagingPaths /\ view[Source[path[c]]] = "mounted"
      BY <3>1, RequestPaths DEF KInv, PublishStaged
    <3>3. Len(mounts[Source[path[c]]]) = 1
      BY <3>2 DEF KInv, TInv, IInv, StagingOK, StagingAnswersHold
    <3>4. Mounted(Source[path[c]])
      <4>1. PICK s \in Paths : s = Source[path[c]]
        BY <3>2
      <4>2. Len(mounts[s]) = 1 /\ (Mounted(s) <=> Len(mounts[s]) > 0)
        BY <3>3, <4>1, MountedLen DEF KInv, TInv, IInv
      <4> QED BY <4>1, <4>2
    <3>5. Top(Source[path[c]]) \in Shares
      BY <1>3, <3>2, <3>4
    <3> QED BY <1>1, <1>2, <2>3, <3>4, <3>5 DEF BindMount
  <2>4. CASE UNCHANGED mounts
    BY <1>1, <1>2, <2>4
  <2> QED BY <2>1, <2>2, <2>3, <2>4
      DEF Handler, MountGoroutine, HandlerFails, StagePrepare, EnsureNotMounted, EnsureMounted,
          Probe, UnmountOpen, WaitMountDone, Timeout, RecheckMountDone, ReplyKeepLock,
          DeferReleaseLock, BindFails, RemoveTarget, CleanupPathMissing, CleanupPathExists,
          CleanupCheck, CleanupNotMounted, CleanupRemove, MountFails
<1> QED BY <1>1, <1>2, <1>4 DEF OnlyShares

(* Only a failed probe sends a handler to unmount. *)
LEMMA UnmountAfterProbe ==
  ASSUME KInv, NEW c \in Calls, Handler(c), pc'[c] = "unmount"
  PROVE  Probe(c) /\ ReadDirOutcome(path[c]) = "unmount"
<1>t. pc \in [Calls -> PCs]
  BY DEF KInv, TInv, IInv, TypeInv, TypeOK
<1>1. ASSUME NEW told, Reply(c, told) PROVE FALSE
  BY <1>1, <1>t DEF Reply, Finish
<1>2. ASSUME NEW next, Goto(c, next) PROVE next = "unmount"
  BY <1>2, <1>t DEF Goto
<1>3. ~(HandlerFails(c) \/ UnmountInvalid(c) \/ UnmountOpen(c) \/ BindMount(c)
        \/ RemoveTarget(c) \/ CleanupPathMissing(c) \/ CleanupRemove(c)
        \/ WaitMountDone(c) \/ RecheckMountDone(c))
  BY <1>1 DEF HandlerFails, UnmountInvalid, UnmountOpen, BindMount, RemoveTarget,
              CleanupPathMissing, CleanupRemove, CleanupDone, WaitMountDone, RecheckMountDone
<1>4. ~(DeferReleaseLock(c) \/ ReplyKeepLock(c))
  BY <1>t DEF DeferReleaseLock, ReplyKeepLock, Finish
<1>5. ~(StagePrepare(c) \/ EnsureNotMounted(c) \/ EnsureMounted(c) \/ Timeout(c) \/ BindFails(c))
  BY <1>1, <1>2 DEF StagePrepare, EnsureNotMounted, EnsureMounted, Timeout, BindFails
<1>6. ~(CleanupPathExists(c) \/ CleanupUnmount(c) \/ CleanupNotMounted(c))
  BY <1>2 DEF CleanupPathExists, CleanupUnmount, CleanupNotMounted
<1>7. ~CleanupCheck(c)
  BY <1>1, <1>2 DEF CleanupCheck, CleanupDone
<1>8. Probe(c)
  BY <1>3, <1>4, <1>5, <1>6, <1>7 DEF Handler
<1> QED BY <1>1, <1>2, <1>8 DEF Probe

(* The steps of a handler and of its mount goroutine. *)
LEMMA HandlerKubelet ==
  ASSUME KInv, TInv', NEW c \in Calls, Handler(c) \/ MountGoroutine(c)
  PROVE  PublishStaged' /\ UnstageUnused'
<1>1. /\ path[c] \in Paths
      /\ \A q \in Paths : q # path[c] => view'[q] = view[q] /\ mounts'[q] = mounts[q]
  BY WorkIsLocal DEF KInv, TInv
<1>2. /\ \A d \in Calls : d # c => pc'[d] = pc[d] /\ path'[d] = path[d] /\ op'[d] = op[d]
      /\ (path'[c] = path[c] /\ op'[c] = op[c]) \/ path'[c] = NoPath
  BY HandlerLocal DEF KInv
<1>3. path'[c] = NoPath => op'[c] = "none"
  BY DEF TInv, IInv, TypeInv, ControlOK
<1>4. \A d \in Calls : path[d] \in StagingPaths => view[path[d]] = "unknown"
  BY StagedIsQuiet DEF KInv
<1>5. ASSUME NEW d \in Calls, op'[d] = "publish" PROVE view'[Source[path'[d]]] = "mounted"
  <2>1. op[d] = "publish" /\ path'[d] = path[d]
    BY <1>2, <1>3, <1>5
  <2>2. Source[path[d]] \in StagingPaths /\ view[Source[path[d]]] = "mounted"
    BY <2>1, RequestPaths DEF KInv, PublishStaged
  <2>3. Source[path[d]] # path[c]
    BY <1>4, <2>2
  <2> QED BY <1>1, <2>1, <2>2, <2>3
<1>6. ASSUME NEW d \in Calls, op'[d] = "unstage", NEW t \in PublishPaths, Source[t] = path'[d]
      PROVE  view'[t] # "mounted"
  <2>1. op[d] = "unstage" /\ path'[d] = path[d]
    BY <1>2, <1>3, <1>6
  <2>2. view[t] # "mounted"
    BY <1>6, <2>1 DEF KInv, UnstageUnused
  <2>3. CASE path[c] = t
    <3>1. op[c] # "publish"
      <4>1. path[d] \in StagingPaths /\ view[path[d]] = "unknown"
        BY <1>4, <2>1, RequestPaths DEF KInv
      <4> QED BY <1>6, <2>1, <2>3, <4>1 DEF KInv, PublishStaged
    <3>2. op[c] = "unpublish"
      BY <2>3, <3>1, PathsAssumption DEF KInv, TInv, IInv, TypeInv, TypeOK, ControlOK, Ops
    <3>3. IInv' /\ TInv
      BY DEF TInv, KInv
    <3>4. view'[t] \in {"unknown", "unmounted"}
      BY <2>3, <3>2, <3>3, OwnTarget
    <3> QED BY <3>4
  <2>4. CASE path[c] # t
    BY <1>1, <2>2, <2>4
  <2> QED BY <2>3, <2>4
<1> QED BY <1>5, <1>6 DEF PublishStaged, UnstageUnused

-----------------------------------------------------------------------------
(* The requests of kubelet keep the invariant. *)
LEMMA KubeletRequestStep ==
  ASSUME KInv, NEW c \in Calls,
         \/ \E p \in StagingPaths : KubeletStage(c, p) \/ KubeletUnstage(c, p)
         \/ \E t \in PublishPaths : KubeletPublish(c, t) \/ KubeletUnpublish(c, t)
  PROVE  OnlyShares' /\ PublishStaged' /\ UnstageUnused'
<1>1. ASSUME NEW p \in StagingPaths, KubeletStage(c, p)
      PROVE  OnlyShares' /\ PublishStaged' /\ UnstageUnused'
  <2>1. VolumeIdle(Vol[p]) /\ Begin(c, "stage", p, "prepare")
    BY <1>1 DEF KubeletStage, NodeStageVolume
  <2> QED BY <2>1, RequestKubelet DEF Ops
<1>2. ASSUME NEW p \in StagingPaths, KubeletUnstage(c, p)
      PROVE  OnlyShares' /\ PublishStaged' /\ UnstageUnused'
  <2>1. /\ VolumeIdle(Vol[p]) /\ Begin(c, "unstage", p, "cleanup")
        /\ \A t \in PublishPaths : Source[t] = p => view[t] = "unmounted"
    BY <1>2 DEF KubeletUnstage, NodeUnstageVolume
  <2> QED BY <2>1, RequestKubelet DEF Ops
<1>3. ASSUME NEW t \in PublishPaths, KubeletPublish(c, t)
      PROVE  OnlyShares' /\ PublishStaged' /\ UnstageUnused'
  <2>1. view[Source[t]] = "mounted" /\ Begin(c, "publish", t, "ensure")
    BY <1>3 DEF KubeletPublish, NodePublishVolume
  <2>2. t \notin StagingPaths
    BY PathsAssumption
  <2> QED BY <2>1, <2>2, RequestKubelet DEF Ops
<1>4. ASSUME NEW t \in PublishPaths, KubeletUnpublish(c, t)
      PROVE  OnlyShares' /\ PublishStaged' /\ UnstageUnused'
  <2>1. Begin(c, "unpublish", t, "cleanup")
    BY <1>4 DEF KubeletUnpublish, NodeUnpublishVolume
  <2>2. t \notin StagingPaths
    BY PathsAssumption
  <2> QED BY <2>1, <2>2, RequestKubelet DEF Ops
<1> QED BY <1>1, <1>2, <1>3, <1>4

(* A share that fails or recovers stays a share. *)
LEMMA ServerKubelet ==
  ASSUME KInv, NEW p \in Paths, Server(p)
  PROVE  OnlyShares' /\ PublishStaged' /\ UnstageUnused'
<1>1. PICK layer \in Shares : LinkBecomes(p, layer) /\ Mounted(p)
  BY DEF Server, ServerFails, ServerRecovers, Invalid, Shares
<1>2. /\ mounts' = [mounts EXCEPT ![p] = Append(Beneath(p), layer)]
      /\ UNCHANGED <<op, path, view>>
      /\ mounts \in [Paths -> Seq(Layers)] /\ \A q \in Paths : mounts[q] \in Seq(Shares)
  BY <1>1 DEF LinkBecomes, KInv, TInv, IInv, TypeInv, TypeOK, OnlyShares
<1>3. Append(Beneath(p), layer) \in Seq(Shares)
  BY <1>1, <1>2 DEF Mounted, Beneath
<1>4. OnlyShares'
  BY <1>2, <1>3 DEF OnlyShares
<1>5. PublishStaged' /\ UnstageUnused'
  BY <1>2 DEF KInv, PublishStaged, UnstageUnused
<1> QED BY <1>4, <1>5

LEMMA KubeletStep == KInv /\ [KubeletNext]_vars => KInv'
<1> SUFFICES ASSUME KInv, [KubeletNext]_vars PROVE KInv'
  OBVIOUS
<1> DEFINE Kept == OnlyShares' /\ PublishStaged' /\ UnstageUnused'
<1>1. TInv' /\ IInv'
  BY KubeletIsNode, TargetStep DEF KInv, TInv
<1>2. ASSUME NEW c \in Calls, NEW p \in StagingPaths, KubeletStage(c, p) \/ KubeletUnstage(c, p)
      PROVE  Kept
  BY <1>2, KubeletRequestStep
<1>3. ASSUME NEW c \in Calls, NEW t \in PublishPaths,
             KubeletPublish(c, t) \/ KubeletUnpublish(c, t)
      PROVE  Kept
  BY <1>3, KubeletRequestStep
<1>4. ASSUME NEW c \in Calls, Handler(c) \/ MountGoroutine(c) PROVE Kept
  BY <1>1, <1>4, WorkMountsShares, HandlerKubelet
<1>5. ASSUME NEW p \in Paths, Server(p) PROVE Kept
  BY <1>5, ServerKubelet
<1>6. ASSUME UNCHANGED <<pc, op, path, mounts, view>> PROVE Kept
  BY <1>6 DEF KInv, OnlyShares, PublishStaged, UnstageUnused
<1>7. ASSUME NEW c \in Calls, Abandon(c) PROVE Kept
  BY <1>6, <1>7 DEF Abandon
<1>8. ASSUME Crash PROVE Kept
  BY <1>8 DEF Crash, KInv, OnlyShares, PublishStaged, UnstageUnused
<1>9. ASSUME UNCHANGED vars PROVE Kept
  BY <1>6, <1>9 DEF vars
<1>10. Kept
  BY <1>2, <1>3, <1>4, <1>5, <1>7, <1>8, <1>9 DEF KubeletNext
<1> QED BY <1>1, <1>10 DEF KInv

LEMMA KubeletInvariant == CallersWait /\ KubeletSpec => []KInv
BY KubeletInit, KubeletStep, PTL DEF KubeletSpec

-----------------------------------------------------------------------------
(* A pod never gets the node's own disk in place of its share: publish     *)
(* binds the staging path unseen, yet it is always mounted then, also when *)
(* kubelet gave up on earlier stages and unstages of the volume.           *)
THEOREM PodsGetTheirShare == CallersWait /\ KubeletSpec => []PublishedCarriesShare
<1>1. KInv => PublishedCarriesShare
  <2> SUFFICES ASSUME KInv, NEW t \in PublishPaths, NEW i \in 1..Len(mounts[t])
               PROVE  mounts[t][i] # "local"
    BY DEF PublishedCarriesShare
  <2>1. mounts[t] \in Seq(Shares)
    BY DEF KInv, OnlyShares
  <2>2. mounts[t][i] \in Shares
    BY <2>1
  <2> QED BY <2>2, FaultAssumption DEF Shares
<1> QED BY <1>1, KubeletInvariant, PTL

(* A step that does the work of no handler leaves what is mounted alone,   *)
(* and sends no handler to unmount.                                        *)
LEMMA OnlyWorkUnmounts ==
  ASSUME KInv, [KubeletNext]_vars, ~\E c \in Calls : Handler(c) \/ MountGoroutine(c)
  PROVE  /\ \A q \in Paths : Mounted(q)' <=> Mounted(q)
         /\ \A c \in Calls : pc'[c] = "unmount" => pc[c] = "unmount"
<1>t. pc \in [Calls -> PCs]
  BY DEF KInv, TInv, IInv, TypeInv, TypeOK
<1>1. ASSUME NEW c \in Calls, NEW p, NEW o, NEW first, Begin(c, o, p, first), first # "unmount"
      PROVE  UNCHANGED mounts /\ \A d \in Calls : pc'[d] = "unmount" => pc[d] = "unmount"
  BY <1>t, <1>1 DEF Begin
<1>2. ASSUME NEW c \in Calls, NEW p \in StagingPaths, KubeletStage(c, p) \/ KubeletUnstage(c, p)
      PROVE  UNCHANGED mounts /\ \A d \in Calls : pc'[d] = "unmount" => pc[d] = "unmount"
  BY <1>1, <1>2 DEF KubeletStage, KubeletUnstage, NodeStageVolume, NodeUnstageVolume
<1>3. ASSUME NEW c \in Calls, NEW t \in PublishPaths,
             KubeletPublish(c, t) \/ KubeletUnpublish(c, t)
      PROVE  UNCHANGED mounts /\ \A d \in Calls : pc'[d] = "unmount" => pc[d] = "unmount"
  BY <1>1, <1>3 DEF KubeletPublish, KubeletUnpublish, NodePublishVolume, NodeUnpublishVolume
<1>4. ASSUME NEW p \in Paths, Server(p)
      PROVE  UNCHANGED pc /\ \A q \in Paths : Mounted(q)' <=> Mounted(q)
  BY <1>4, ServerStaging, ServerShape DEF LinkBecomes, KInv, TInv
<1>5. CASE UNCHANGED mounts /\ \A d \in Calls : pc'[d] = "unmount" => pc[d] = "unmount"
  BY <1>5 DEF Mounted
<1>6. CASE Crash \/ (\E c \in Calls : Abandon(c)) \/ UNCHANGED vars
  BY <1>5, <1>6 DEF Crash, Abandon, vars
<1> QED BY <1>2, <1>3, <1>4, <1>5, <1>6 DEF KubeletNext

(* A stage sets out to unmount only a link its probe finds invalid. *)
LEMMA UnmountsFoundInvalid ==
  ASSUME KInv, KInv', [KubeletNext]_vars, NEW c \in Calls,
         path[c] \in StagingPaths, pc[c] # "unmount", pc'[c] = "unmount"
  PROVE  Invalid(path[c])
<1>1. PICK d \in Calls : Handler(d) \/ MountGoroutine(d)
  BY OnlyWorkUnmounts
<1>2. d = c
  BY <1>1, HandlerLocal DEF KInv
<1>3. Handler(c)
  BY <1>1, <1>2 DEF MountGoroutine, MountLands, MountFails
<1>4. Probe(c) /\ ReadDirOutcome(path[c]) = "unmount"
  BY <1>3, UnmountAfterProbe
<1>5. Mounted(path[c])
  BY <1>4 DEF Probe, KInv, TInv, IInv, StagingOK
<1>6. Top(path[c]) \in Shares
  BY <1>5 DEF KInv, OnlyShares, Mounted, Top
<1> QED BY <1>4, <1>5, <1>6 DEF ReadDirOutcome, Invalid, Shares

(* While kubelet holds a target for published, only a repeated stage takes *)
(* the mount from its staging path, never an unstage, and only after its   *)
(* own probe found the link invalid, for links that fail and recover at    *)
(* any moment.                                                             *)
THEOREM InUseStaysMounted == CallersWait /\ KubeletSpec => InUseUnmountedOnlyAfterProbe
<1> DEFINE InUseKept ==
      /\ \A t \in PublishPaths :
           view[t] = "mounted" /\ Mounted(Source[t]) /\ ~Mounted(Source[t])'
             => \E c \in Calls : path[c] = Source[t] /\ op[c] = "stage" /\ pc[c] = "unmount"
      /\ \A c \in Calls :
           path[c] \in StagingPaths /\ pc[c] # "unmount" /\ pc'[c] = "unmount"
             => Invalid(path[c])
<1>1. ASSUME KInv, KInv', [KubeletNext]_vars,
             NEW t \in PublishPaths, view[t] = "mounted",
             Mounted(Source[t]), ~Mounted(Source[t])'
      PROVE  \E c \in Calls : path[c] = Source[t] /\ op[c] = "stage" /\ pc[c] = "unmount"
  <2>1. PICK s \in StagingPaths : s = Source[t]
    BY PathsAssumption
  <2>2. mounts'[s] # mounts[s]
    BY <1>1, <2>1 DEF Mounted
  <2>3. PICK c \in Calls : Handler(c) \/ MountGoroutine(c)
    BY <1>1, <2>1, OnlyWorkUnmounts
  <2>4. path[c] = s
    BY <1>1, <2>2, <2>3, WorkIsLocal DEF KInv, TInv
  <2>5. op[c] # "unstage"
    BY <1>1, <2>1, <2>4 DEF KInv, UnstageUnused
  <2>6. pc[c] \notin CleanupPCs /\ pc[c] # "bind"
    BY <1>1, <2>4, <2>5, PathsAssumption
    DEF KInv, TInv, IInv, TypeInv, TypeOK, ControlOK, Ops, EnsurePCs, MountPCs, CleanupPCs
  <2>7. ~MountLands(c)
    BY <1>1, <2>1, <2>4 DEF MountLands, KInv, TInv, IInv, StagingOK
  <2>8. UnmountInvalid(c)
    BY <2>2, <2>3, <2>6, <2>7
    DEF Handler, MountGoroutine, HandlerFails, StagePrepare, EnsureNotMounted, EnsureMounted,
        Probe, UnmountOpen, WaitMountDone, Timeout, RecheckMountDone, ReplyKeepLock,
        DeferReleaseLock, BindMount, BindFails, RemoveTarget, CleanupPathMissing,
        CleanupPathExists, CleanupCheck, CleanupUnmount, CleanupNotMounted, CleanupRemove,
        MountFails, CleanupPCs
  <2>9. op[c] = "stage"
    BY <1>1, <2>4, <2>5, <2>8, PathsAssumption
    DEF UnmountInvalid, KInv, TInv, IInv, TypeInv, TypeOK, ControlOK, Ops
  <2> QED BY <2>1, <2>4, <2>8, <2>9 DEF UnmountInvalid
<1>2. KInv /\ KInv' /\ [KubeletNext]_vars => [InUseKept]_vars
  BY <1>1, UnmountsFoundInvalid
<1> QED BY <1>2, KubeletInvariant, PTL DEF KubeletSpec, InUseUnmountedOnlyAfterProbe
=============================================================================
