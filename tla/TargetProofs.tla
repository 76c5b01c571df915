---------------------------- MODULE TargetProofs ----------------------------
(***************************************************************************)
(* Proofs about the targets of NodeServer.  Publish and unpublish take no  *)
(* lock: what keeps their answers true is that the caller waits for the    *)
(* answer about a target before it asks again (CallersWait), and that the  *)
(* one thing that can still run then, the late mount of an ephemeral       *)
(* volume, holds the lock of its stage and needs the directory that an     *)
(* unpublish removes.                                                      *)
(***************************************************************************)
EXTENDS NodeServerProofs

Targets == PublishPaths \cup EphemeralPaths

(* The callers of publish and unpublish wait for the answer. *)
CallersWait == Abandonable \cap Targets = {}

(* What an answer about a target stands for. *)
PathTrue(p) ==
  /\ Len(mounts[p]) <= 1
  /\ view[p] = "mounted" => Mounted(p)
  /\ view[p] = "unmounted" => p \notin dirs

(* What a handler on a target has established so far.  Next to the late    *)
(* mount of an ephemeral volume only an unpublish of it can be answered.   *)
CallTrue(c) ==
  path[c] \in Targets =>
    /\ view[path[c]] = "unknown" \/ (pc[c] = "late" /\ view[path[c]] = "unmounted")
    /\ pc[c] = "probe" => Mounted(path[c])
    /\ pc[c] = "bind" \/ mountDone[c] = "running" => ~Mounted(path[c])
    /\ mountDone[c] = "ok" /\ pc[c] # "late" => Mounted(path[c])

(* No two handlers serve a caller on the same target. *)
ServedOnce ==
  \A c, d \in Calls :
    path[c] \in Targets /\ path[c] = path[d] /\ pc[c] # "late" /\ pc[d] # "late" => c = d

AbandonedAllowed == \A c \in abandoned : path[c] \in Abandonable

TInv ==
  /\ CallersWait
  /\ IInv
  /\ AbandonedAllowed
  /\ ServedOnce
  /\ \A p \in Targets : PathTrue(p)
  /\ \A c \in Calls : CallTrue(c)

USE DEF Paths, Key, Locking, Targets

-----------------------------------------------------------------------------
LEMMA TargetInit == CallersWait /\ Init => TInv
<1> SUFFICES ASSUME CallersWait, Init PROVE TInv
  OBVIOUS
<1>1. IInv
  BY InvInit
<1>2. AbandonedAllowed /\ ServedOnce
  BY PathsAssumption DEF Init, AbandonedAllowed, ServedOnce
<1>3. \A p \in Targets : PathTrue(p)
  BY DEF Init, PathTrue
<1>4. \A c \in Calls : CallTrue(c)
  BY PathsAssumption DEF Init, CallTrue
<1> QED BY <1>1, <1>2, <1>3, <1>4 DEF TInv

(* Two handlers on a target: the late mount of an ephemeral volume and an  *)
(* unpublish.                                                              *)
LEMMA TargetShared ==
  ASSUME TInv, NEW c \in Calls, NEW d \in Calls, c # d,
         path[c] \in Targets, path[d] = path[c]
  PROVE  \/ pc[c] = "late" /\ op[d] = "unpublish"
         \/ pc[d] = "late" /\ op[c] = "unpublish"
<1>1. pc[c] = "late" \/ pc[d] = "late"
  BY DEF TInv, ServedOnce
<1>2. \A e \in Calls : /\ path[e] = path[c] => op[e] \in {"stage", "publish", "unpublish"}
                       /\ pc[e] = "late" => op[e] = "stage"
                       /\ op[e] = "publish" => path[e] \in PublishPaths
                       /\ op[e] = "stage" => path[e] \in StagingPaths \cup EphemeralPaths
  BY PathsAssumption
  DEF TInv, IInv, TypeInv, TypeOK, ControlOK, Ops, EnsurePCs, CleanupPCs, MountPCs
<1>3. ~(op[c] = "stage" /\ op[d] = "stage")
  BY DEF TInv, IInv, LockOwned
<1> QED BY <1>1, <1>2, <1>3, PathsAssumption

(* A request for a target is accepted when nobody but a late mount works   *)
(* on it.                                                                  *)
LEMMA RequestTarget ==
  ASSUME TInv, NEW c \in Calls, Request(c)
  PROVE  /\ ServedOnce' /\ AbandonedAllowed'
         /\ \A p \in Targets : PathTrue(p)'
         /\ \A d \in Calls : CallTrue(d)'
<1>1. PICK p \in Paths, o \in Ops, first \in {"prepare", "cleanup", "ensure"} :
        Begin(c, o, p, first)
  BY DEF Request, NodeStageVolume, NodeUnstageVolume, NodePublishVolume,
         NodeUnpublishVolume, Ops
<1>2. /\ path' = [path EXCEPT ![c] = p]
      /\ pc' = [pc EXCEPT ![c] = first]
      /\ view' = [view EXCEPT ![p] = "unknown"]
      /\ UNCHANGED <<mountDone, mounts, dirs, abandoned>>
      /\ pc[c] = "idle"
      /\ \A d \in Calls : path[d] = p => Answered(d)
  BY <1>1 DEF Begin
<1>3. mountDone[c] = "none" /\ path[c] = NoPath /\ NoPath \notin Paths
  BY <1>2, PathsAssumption DEF TInv, IInv, TypeInv, ControlOK, MountPCs
<1>4. \A d \in Calls : /\ path'[d] = IF d = c THEN p ELSE path[d]
                       /\ pc'[d] = IF d = c THEN first ELSE pc[d]
  BY <1>2 DEF TInv, IInv, TypeInv, TypeOK
<1>5. \A q \in Paths : view'[q] = IF q = p THEN "unknown" ELSE view[q]
  BY <1>2 DEF TInv, IInv, TypeInv, TypeOK
<1>6. \A q : Mounted(q)' <=> Mounted(q)
  BY <1>2 DEF Mounted
<1>7. c \notin abandoned
  BY <1>3, PathsAssumption DEF TInv, AbandonedAllowed
<1>8. AbandonedAllowed'
  BY <1>2, <1>4, <1>7 DEF TInv, AbandonedAllowed, IInv, TypeInv, TypeOK
<1>9. p \in Targets => \A d \in Calls : path[d] = p => pc[d] = "late"
  <2> SUFFICES ASSUME p \in Targets, NEW d \in Calls, path[d] = p PROVE pc[d] = "late"
    OBVIOUS
  <2>1. d \notin abandoned
    BY DEF TInv, AbandonedAllowed, CallersWait
  <2>2. pc[d] # "idle"
    BY <1>3 DEF TInv, IInv, TypeInv, ControlOK
  <2> QED BY <1>2, <2>1, <2>2 DEF Answered
<1>10. ServedOnce'
  BY <1>4, <1>9 DEF TInv, ServedOnce
<1>11. ASSUME NEW q \in Targets PROVE PathTrue(q)'
  BY <1>2, <1>5, <1>6 DEF TInv, PathTrue
<1>12. ASSUME NEW d \in Calls PROVE CallTrue(d)'
  <2>1. CASE d = c
    BY <1>2, <1>3, <1>4, <1>5, <2>1 DEF CallTrue
  <2>2. CASE d # c
    BY <1>2, <1>4, <1>5, <1>6, <2>2 DEF TInv, CallTrue
  <2> QED BY <2>1, <2>2
<1> QED BY <1>8, <1>10, <1>11, <1>12

-----------------------------------------------------------------------------
(* What is common to the steps of a handler and its mount goroutine: they  *)
(* leave the other handlers and the directories of other paths alone, and  *)
(* a late handler only returns.                                            *)
LEMMA HandlerLocal ==
  ASSUME TInv, NEW c \in Calls, Handler(c) \/ MountGoroutine(c)
  PROVE  /\ \A d \in Calls : d # c =>
              /\ pc'[d] = pc[d] /\ path'[d] = path[d]
              /\ op'[d] = op[d] /\ mountDone'[d] = mountDone[d]
         /\ \/ path'[c] = path[c] /\ op'[c] = op[c] /\ (pc'[c] # "late" => pc[c] # "late")
               /\ abandoned' \subseteq abandoned
            \/ path'[c] = NoPath /\ abandoned' = abandoned \ {c}
         /\ \A q \in Paths : q # path[c] => (q \in dirs' <=> q \in dirs)
<1>t. /\ pc \in [Calls -> PCs] /\ path \in [Calls -> Paths \cup {NoPath}]
      /\ op \in [Calls -> Ops] /\ mountDone \in [Calls -> {"none", "running", "ok", "err"}]
  BY DEF TInv, IInv, TypeInv, TypeOK
<1>1. ASSUME Finish(c)
      PROVE  /\ \A d \in Calls : d # c =>
                  pc'[d] = pc[d] /\ path'[d] = path[d] /\ op'[d] = op[d]
             /\ path'[c] = NoPath /\ abandoned' = abandoned \ {c}
  BY <1>1, <1>t DEF Finish
<1>2. ASSUME NEW next, Goto(c, next)
      PROVE  /\ \A d \in Calls : d # c =>
                  pc'[d] = pc[d] /\ path'[d] = path[d] /\ op'[d] = op[d]
             /\ path'[c] = path[c] /\ op'[c] = op[c] /\ pc'[c] = next /\ abandoned' = abandoned
  BY <1>2, <1>t DEF Goto
<1>3. CASE HandlerFails(c) \/ UnmountInvalid(c) \/ UnmountOpen(c) \/ BindMount(c)
           \/ RemoveTarget(c) \/ CleanupPathMissing(c) \/ CleanupRemove(c)
  BY <1>1, <1>3, <1>t
  DEF HandlerFails, UnmountInvalid, UnmountOpen, BindMount, RemoveTarget,
      CleanupPathMissing, CleanupRemove, CleanupDone, Reply
<1>4. CASE WaitMountDone(c) \/ RecheckMountDone(c) \/ DeferReleaseLock(c)
  <2>1. Finish(c) /\ mountDone' = [mountDone EXCEPT ![c] = "none"] /\ UNCHANGED dirs
    BY <1>4 DEF WaitMountDone, RecheckMountDone, DeferReleaseLock, ReceiveMountDone, Reply
  <2> QED BY <1>1, <1>t, <2>1
<1>5. CASE StagePrepare(c) \/ EnsureNotMounted(c) \/ EnsureMounted(c)
  BY <1>1, <1>2, <1>5, <1>t DEF StagePrepare, EnsureNotMounted, EnsureMounted, Reply
<1>6. CASE Probe(c)
  BY <1>1, <1>2, <1>6, <1>t DEF Probe, Reply
<1>7. CASE Timeout(c) \/ BindFails(c) \/ CleanupPathExists(c) \/ CleanupUnmount(c)
           \/ CleanupNotMounted(c)
  BY <1>2, <1>7, <1>t
  DEF Timeout, BindFails, CleanupPathExists, CleanupUnmount, CleanupNotMounted
<1>8. CASE CleanupCheck(c)
  BY <1>1, <1>2, <1>8, <1>t DEF CleanupCheck, CleanupDone, Reply
<1>9. CASE ReplyKeepLock(c)
  BY <1>9, <1>t DEF ReplyKeepLock
<1>10. CASE MountGoroutine(c)
  BY <1>10, <1>t DEF MountGoroutine, MountLands, MountFails
<1> QED BY <1>3, <1>4, <1>5, <1>6, <1>7, <1>8, <1>9, <1>10 DEF Handler

(* A step of c on p keeps the truth about p and c. *)
LEMMA OwnTarget ==
  ASSUME TInv, IInv', NEW c \in Calls, Handler(c) \/ MountGoroutine(c),
         NEW p \in Targets, path[c] = p
  PROVE  /\ PathTrue(p)' /\ CallTrue(c)'
         /\ pc[c] = "late" => view'[p] = view[p]
         /\ op[c] = "unpublish" => /\ view'[p] \in {"unknown", "unmounted"}
                                   /\ Mounted(p)' => Mounted(p)
<1>t. /\ pc \in [Calls -> PCs] /\ path \in [Calls -> Paths \cup {NoPath}]
      /\ mountDone \in [Calls -> {"none", "running", "ok", "err"}]
      /\ mounts \in [Paths -> Seq(Layers)]
      /\ view \in [Paths -> {"unknown", "mounted", "unmounted"}]
      /\ NoPath \notin Targets
  BY PathsAssumption DEF TInv, IInv, TypeInv, TypeOK
<1>i. /\ PathTrue(p) /\ CallTrue(c)
      /\ Mounted(p) => p \in dirs
  BY DEF TInv, IInv, StagingOK
<1>l. /\ Len(mounts[p]) \in Nat /\ (Mounted(p) <=> Len(mounts[p]) > 0)
  BY MountedLen DEF TInv, IInv
<1>c. /\ mountDone[c] # "none" <=> pc[c] \in MountPCs
      /\ op[c] = "unpublish" <=> pc[c] \in CleanupPCs
      /\ pc[c] # "idle"
  <2>1. ControlOK /\ op[c] \in Ops
    BY DEF TInv, IInv, TypeInv, TypeOK
  <2>2. op[c] \in {"stage", "publish", "unpublish"}
    BY <1>t, <2>1, PathsAssumption DEF ControlOK, Ops
  <2> QED BY <2>1, <2>2 DEF ControlOK, EnsurePCs, CleanupPCs, MountPCs
<1>r. ASSUME NEW told \in {"unknown", "mounted", "unmounted"}, Reply(c, told), pc[c] # "late"
      PROVE  /\ view'[p] \in {"unknown", told}
             /\ CallTrue(c)'
  BY <1>r, <1>t, <1>i DEF Reply, Finish, CallTrue
<1>g. ASSUME NEW next, Goto(c, next)
      PROVE  /\ view' = view /\ path'[c] = p /\ pc'[c] = next
             /\ pc[c] # "late" => view[p] = "unknown"
  BY <1>g, <1>t, <1>i DEF Goto, CallTrue
<1>u. ASSUME Unmount(p)
      PROVE  Mounted(p) /\ Len(mounts'[p]) = 0 /\ ~Mounted(p)'
  <2>1. /\ mounts' = [mounts EXCEPT ![p] = Beneath(p)] /\ Mounted(p)
        /\ Len(Beneath(p)) = Len(mounts[p]) - 1
    BY <1>u, BeneathType DEF Unmount, TInv, IInv, TypeInv
  <2>2. Len(mounts'[p]) = 0
    BY <1>t, <1>i, <1>l, <2>1 DEF PathTrue
  <2> QED BY <2>1, <2>2, MountedLen DEF IInv, TypeInv, TypeOK, Mounted
<1> USE <1>c DEF MountPCs, CleanupPCs
<1>1. CASE HandlerFails(c) \/ UnmountOpen(c)
  BY <1>1, <1>i, <1>r DEF HandlerFails, UnmountOpen, PathTrue, Mounted
<1>2. CASE StagePrepare(c)
  BY <1>2, <1>i, <1>r, <1>g DEF StagePrepare, PathTrue, CallTrue, Mounted
<1>3. CASE EnsureNotMounted(c)
  BY <1>3, <1>t, <1>i, <1>g DEF EnsureNotMounted, PathTrue, CallTrue, Mounted
<1>4. CASE EnsureMounted(c)
  BY <1>4, <1>t, <1>i, <1>g DEF EnsureMounted, PathTrue, CallTrue, Mounted
<1>5. CASE Probe(c)
  BY <1>5, <1>t, <1>i, <1>r, <1>g DEF Probe, ReadDirOutcome, PathTrue, CallTrue, Mounted
<1>6. CASE UnmountInvalid(c)
  BY <1>6, <1>i, <1>r, <1>u DEF UnmountInvalid, PathTrue
<1>7. CASE WaitMountDone(c) \/ RecheckMountDone(c)
  BY <1>7, <1>i, <1>r DEF WaitMountDone, RecheckMountDone, PathTrue, CallTrue, Mounted
<1>8. CASE Timeout(c) \/ BindFails(c)
  BY <1>8, <1>t, <1>i, <1>g DEF Timeout, BindFails, PathTrue, CallTrue, Mounted
<1>9. CASE ReplyKeepLock(c)
  BY <1>9, <1>t, <1>i DEF ReplyKeepLock, PathTrue, CallTrue, Mounted
<1>10. CASE DeferReleaseLock(c)
  BY <1>10, <1>t, <1>i DEF DeferReleaseLock, Finish, PathTrue, CallTrue, Mounted
<1>11. CASE BindMount(c)
  BY <1>11, <1>t, <1>i, <1>l, <1>r DEF BindMount, PathTrue, CallTrue, Mounted
<1>12. CASE RemoveTarget(c)
  BY <1>12, <1>i, <1>r DEF RemoveTarget, PathTrue, Mounted
<1>13. CASE CleanupPathMissing(c)
  BY <1>13, <1>i, <1>r DEF CleanupPathMissing, CleanupDone, PathTrue, Mounted
<1>14. CASE CleanupPathExists(c) \/ CleanupNotMounted(c)
  BY <1>14, <1>i, <1>g DEF CleanupPathExists, CleanupNotMounted, PathTrue, CallTrue, Mounted
<1>15. CASE CleanupCheck(c)
  BY <1>15, <1>i, <1>r, <1>g DEF CleanupCheck, CleanupDone, PathTrue, CallTrue, Mounted
<1>16. CASE CleanupUnmount(c)
  BY <1>16, <1>i, <1>g, <1>u DEF CleanupUnmount, PathTrue, CallTrue
<1>17. CASE CleanupRemove(c)
  BY <1>17, <1>i, <1>r DEF CleanupRemove, CleanupDone, PathTrue, Mounted
<1>18. CASE MountLands(c)
  BY <1>18, <1>t, <1>i, <1>l DEF MountLands, PathTrue, CallTrue, Mounted
<1>19. CASE MountFails(c)
  BY <1>19, <1>t, <1>i DEF MountFails, PathTrue, CallTrue, Mounted
<1> QED BY <1>1, <1>2, <1>3, <1>4, <1>5, <1>6, <1>7, <1>8, <1>9, <1>10, <1>11, <1>12, <1>13,
           <1>14, <1>15, <1>16, <1>17, <1>18, <1>19 DEF Handler, MountGoroutine

(* The steps of a handler and of its mount goroutine keep the invariant. *)
LEMMA HandlerTarget ==
  ASSUME TInv, IInv', NEW c \in Calls, Handler(c) \/ MountGoroutine(c)
  PROVE  /\ ServedOnce' /\ AbandonedAllowed'
         /\ \A p \in Targets : PathTrue(p)'
         /\ \A d \in Calls : CallTrue(d)'
<1>1. /\ path[c] \in Paths
      /\ \A q \in Paths : q # path[c] => view'[q] = view[q] /\ mounts'[q] = mounts[q]
  BY WorkIsLocal DEF TInv
<1>2. /\ \A d \in Calls : d # c =>
           pc'[d] = pc[d] /\ path'[d] = path[d] /\ mountDone'[d] = mountDone[d]
      /\ \/ path'[c] = path[c] /\ (pc'[c] # "late" => pc[c] # "late")
            /\ abandoned' \subseteq abandoned
         \/ path'[c] = NoPath /\ abandoned' = abandoned \ {c}
      /\ \A q \in Paths : q # path[c] => (q \in dirs' <=> q \in dirs)
  BY HandlerLocal
<1>3. NoPath \notin Targets
  BY PathsAssumption
<1>4. ServedOnce'
  BY <1>2, <1>3 DEF TInv, ServedOnce
<1>5. AbandonedAllowed'
  BY <1>2 DEF TInv, AbandonedAllowed, IInv, TypeInv, TypeOK
<1>6. ASSUME NEW p \in Targets PROVE PathTrue(p)'
  <2>1. CASE p = path[c]
    BY <2>1, OwnTarget
  <2>2. CASE p # path[c]
    BY <1>1, <1>2, <2>2 DEF TInv, PathTrue, Mounted
  <2> QED BY <2>1, <2>2
<1>7. ASSUME NEW d \in Calls PROVE CallTrue(d)'
  <2>1. CASE d = c /\ path[c] \in Targets
    BY <2>1, OwnTarget
  <2>2. CASE d = c /\ path[c] \notin Targets
    BY <1>2, <1>3, <2>2 DEF CallTrue
  <2>3. CASE d # c /\ path[d] = path[c] /\ path[d] \in Targets
    <3>1. CallTrue(d)
      BY DEF TInv
    <3>2. CASE pc[c] = "late" /\ op[d] = "unpublish"
      <4>1. view'[path[d]] = view[path[d]]
        BY <2>3, <3>2, OwnTarget
      <4>2. pc[d] \in CleanupPCs /\ mountDone[d] = "none"
        BY <3>2 DEF TInv, IInv, TypeInv, ControlOK, CleanupPCs, MountPCs
      <4> QED BY <1>2, <2>3, <3>1, <4>1, <4>2 DEF CallTrue, CleanupPCs
    <3>3. CASE pc[d] = "late" /\ op[c] = "unpublish"
      <4>1. /\ view'[path[d]] \in {"unknown", "unmounted"}
            /\ Mounted(path[d])' => Mounted(path[d])
        <5>1. PICK p \in Targets : p = path[d]
          BY <2>3
        <5>2. view'[p] \in {"unknown", "unmounted"} /\ (Mounted(p)' => Mounted(p))
          BY <2>3, <3>3, <5>1, OwnTarget
        <5>3. path'[d] = path[d]
          BY <1>2, <2>3
        <5> QED BY <5>1, <5>2, <5>3
      <4> QED BY <1>2, <2>3, <3>1, <3>3, <4>1 DEF CallTrue
    <3> QED BY <2>3, <3>2, <3>3, TargetShared
  <2>4. CASE d # c /\ ~(path[d] = path[c] /\ path[d] \in Targets)
    <3>1. CASE path[d] \in Targets
      BY <1>1, <1>2, <2>4, <3>1 DEF TInv, CallTrue, Mounted
    <3>2. CASE path[d] \notin Targets
      BY <1>2, <2>4, <3>2 DEF CallTrue
    <3> QED BY <3>1, <3>2
  <2> QED BY <2>1, <2>2, <2>3, <2>4
<1> QED BY <1>4, <1>5, <1>6, <1>7

LEMMA TargetStep == TInv /\ [Next]_vars => TInv'
<1> SUFFICES ASSUME TInv, [Next]_vars PROVE TInv'
  OBVIOUS
<1> DEFINE Kept == /\ ServedOnce' /\ AbandonedAllowed'
                   /\ \A p \in Targets : PathTrue(p)'
                   /\ \A d \in Calls : CallTrue(d)'
<1>1. IInv'
  BY InvStep DEF TInv
<1>2. ASSUME NEW c \in Calls, Request(c) PROVE Kept
  BY <1>2, RequestTarget
<1>3. ASSUME NEW c \in Calls, Handler(c) \/ MountGoroutine(c) PROVE Kept
  BY <1>1, <1>3, HandlerTarget
<1>4. ASSUME NEW c \in Calls, Abandon(c) PROVE Kept
  <2>1. /\ UNCHANGED <<pc, path, mountDone, mounts, dirs, view>>
        /\ abandoned' = abandoned \cup {c} /\ path[c] \in Abandonable
    BY <1>4 DEF Abandon
  <2>2. ServedOnce' /\ AbandonedAllowed'
    BY <2>1 DEF TInv, ServedOnce, AbandonedAllowed
  <2>3. \A p \in Targets : PathTrue(p)'
    BY <2>1 DEF TInv, PathTrue, Mounted
  <2>4. \A d \in Calls : CallTrue(d)'
    BY <2>1 DEF TInv, CallTrue, Mounted
  <2> QED BY <2>2, <2>3, <2>4
<1>5. ASSUME NEW p \in Paths, Server(p) PROVE Kept
  <2>1. /\ UNCHANGED <<pc, path, mountDone, dirs, view, abandoned>>
        /\ \A q \in Paths : Len(mounts'[q]) = Len(mounts[q]) /\ (Mounted(q)' <=> Mounted(q))
    BY <1>5, ServerStaging, ServerShape DEF LinkBecomes, TInv
  <2>2. ServedOnce' /\ AbandonedAllowed'
    BY <2>1 DEF TInv, ServedOnce, AbandonedAllowed
  <2>3. \A q \in Targets : PathTrue(q)'
    BY <2>1 DEF TInv, PathTrue
  <2>4. ASSUME NEW d \in Calls PROVE CallTrue(d)'
    <3>1. CASE path[d] \in Targets
      <4>1. PICK q \in Targets : q = path[d]
        BY <3>1
      <4>2. Mounted(q)' <=> Mounted(q)
        BY <2>1
      <4>3. Mounted(path[d])' <=> Mounted(path[d])
        BY <2>1, <4>1, <4>2
      <4> QED BY <2>1, <4>3 DEF TInv, CallTrue
    <3>2. CASE path[d] \notin Targets
      BY <2>1, <3>2 DEF CallTrue
    <3> QED BY <3>1, <3>2
  <2> QED BY <2>2, <2>3, <2>4
<1>6. ASSUME Crash PROVE Kept
  <2>1. NoPath \notin Targets
    BY PathsAssumption
  <2>2. ServedOnce' /\ AbandonedAllowed'
    BY <1>6, <2>1 DEF Crash, ServedOnce, AbandonedAllowed
  <2>3. \A p \in Targets : PathTrue(p)'
    BY <1>6 DEF Crash, TInv, PathTrue, Mounted
  <2>4. \A d \in Calls : CallTrue(d)'
    BY <1>6, <2>1 DEF Crash, CallTrue
  <2> QED BY <2>2, <2>3, <2>4
<1>7. ASSUME UNCHANGED vars PROVE Kept
  <2>1. UNCHANGED <<pc, path, mountDone, mounts, dirs, view, abandoned>>
    BY <1>7 DEF vars
  <2>2. ServedOnce' /\ AbandonedAllowed'
    BY <2>1 DEF TInv, ServedOnce, AbandonedAllowed
  <2>3. \A p \in Targets : PathTrue(p)'
    BY <2>1 DEF TInv, PathTrue, Mounted
  <2>4. \A d \in Calls : CallTrue(d)'
    BY <2>1 DEF TInv, CallTrue, Mounted
  <2> QED BY <2>2, <2>3, <2>4
<1>8. Kept
  BY <1>2, <1>3, <1>4, <1>5, <1>6, <1>7 DEF Next
<1>9. CallersWait'
  BY DEF TInv, CallersWait
<1> QED BY <1>1, <1>8, <1>9 DEF TInv

LEMMA TargetInvariant == CallersWait /\ Spec => []TInv
BY TargetInit, TargetStep, PTL DEF Spec

-----------------------------------------------------------------------------
(* If callers of publish and unpublish wait for their answers, these stay  *)
(* true until the next request for the target, although no lock is taken:  *)
(* "published" means one mount, "unpublished" none, and neither failing    *)
(* shares, restarts nor the late mount of an ephemeral volume change that. *)
THEOREM TargetAnswers == CallersWait /\ Spec => []TargetAnswersHold
<1>1. TInv => TargetAnswersHold
  <2> SUFFICES ASSUME TInv, NEW p \in Targets
               PROVE  /\ view[p] = "mounted" => Len(mounts[p]) = 1
                      /\ view[p] = "unmounted" => ~Mounted(p)
    BY DEF TargetAnswersHold
  <2>1. /\ Len(mounts[p]) \in Nat /\ (Mounted(p) <=> Len(mounts[p]) > 0)
        /\ Mounted(p) => p \in dirs
    BY MountedLen DEF TInv, IInv, StagingOK
  <2>2. PathTrue(p)
    BY DEF TInv
  <2>3. \A n \in Nat : n <= 1 /\ n > 0 => n = 1
    OBVIOUS
  <2> QED BY <2>1, <2>2, <2>3 DEF PathTrue
<1> QED BY <1>1, TargetInvariant, PTL

(* Under the same assumption no path, staging path or target, ever carries *)
(* two mounts, also when a stage or an ephemeral publish is retried while  *)
(* the mount of its first attempt is still under way.                      *)
THEOREM NeverMountedTwice == CallersWait /\ Spec => []MountedOnce
<1>1. TInv => MountedOnce
  BY DEF TInv, PathTrue, IInv, StagingOK, MountedOnce
<1> QED BY <1>1, TargetInvariant, PTL

-----------------------------------------------------------------------------
(***************************************************************************)
(* Publish and unpublish implement MountContract.                          *)
(***************************************************************************)
toldTargets == [p \in Targets |-> view[p]]
mountedTargets == {p \in Targets : Mounted(p)}

(* Every step maps to a step of the contract or to a stutter. *)
LEMMA TargetContractStep ==
  TInv /\ TInv' /\ [Next]_vars => [TargetContract!Next]_<<toldTargets, mountedTargets>>
<1> SUFFICES ASSUME TInv, TInv', [Next]_vars
             PROVE  [TargetContract!Next]_<<toldTargets, mountedTargets>>
  OBVIOUS
<1>a. ASSUME NEW p \in Targets,
             toldTargets' = [toldTargets EXCEPT ![p] = "unknown"], mountedTargets' = mountedTargets
      PROVE  TargetContract!Next
  BY <1>a DEF TargetContract!Next, TargetContract!Ask, toldTargets, mountedTargets
<1>b. ASSUME NEW p \in Targets, toldTargets[p] = "unknown",
             mountedTargets' \in {mountedTargets, mountedTargets \cup {p}, mountedTargets \ {p}},
             toldTargets' \in {toldTargets,
               [toldTargets EXCEPT ![p] = TargetContract!Truth(p, mountedTargets')]}
      PROVE  TargetContract!Next
  BY <1>b DEF TargetContract!Next, TargetContract!Serve, toldTargets, mountedTargets
<1>1. ASSUME NEW c \in Calls, Request(c)
      PROVE  [TargetContract!Next]_<<toldTargets, mountedTargets>>
  <2>1. PICK p \in Paths : view' = [view EXCEPT ![p] = "unknown"] /\ mounts' = mounts
    BY <1>1 DEF Request, NodeStageVolume, NodeUnstageVolume, NodePublishVolume,
                NodeUnpublishVolume, Begin
  <2>2. mountedTargets' = mountedTargets
    BY <2>1 DEF mountedTargets, Mounted
  <2>3. CASE p \in Targets
    <3>1. toldTargets' = [toldTargets EXCEPT ![p] = "unknown"]
      BY <2>1, <2>3 DEF toldTargets, TInv, IInv, TypeInv, TypeOK
    <3> QED BY <1>a, <2>2, <2>3, <3>1
  <2>4. CASE p \notin Targets
    <3>1. toldTargets' = toldTargets
      BY <2>1, <2>4 DEF toldTargets, TInv, IInv, TypeInv, TypeOK
    <3> QED BY <2>2, <3>1
  <2> QED BY <2>3, <2>4
<1>2. ASSUME NEW c \in Calls, Handler(c) \/ MountGoroutine(c)
      PROVE  [TargetContract!Next]_<<toldTargets, mountedTargets>>
  <2>0. IInv /\ IInv'
    BY DEF TInv
  <2>1. PICK p \in Paths : p = path[c]
    BY <1>2, <2>0, WorkIsLocal
  <2>2. \A q \in Paths : q # p => view'[q] = view[q] /\ mounts'[q] = mounts[q]
    BY <1>2, <2>0, <2>1, WorkIsLocal
  <2>3. CASE p \in Targets
    <3>1. /\ PathTrue(p)' /\ PathTrue(p)
          /\ Mounted(p)' => p \in dirs'
          /\ Mounted(p) => p \in dirs
      BY <2>3 DEF TInv, IInv, StagingOK
    <3>2. view'[p] \in {"unknown", "mounted", "unmounted"}
      BY <2>3 DEF TInv, IInv, TypeInv, TypeOK
    <3>3. CASE view[p] = "unknown"
      <4>1. mountedTargets' \in {mountedTargets, mountedTargets \cup {p}, mountedTargets \ {p}}
        BY <2>2, <2>3 DEF mountedTargets, Mounted
      <4>2. p \in mountedTargets' <=> Mounted(p)'
        BY <2>3 DEF mountedTargets
      <4>3. view'[p] \in {"unknown", TargetContract!Truth(p, mountedTargets')}
        BY <3>1, <3>2, <4>2 DEF PathTrue, TargetContract!Truth
      <4>4. toldTargets' = [toldTargets EXCEPT ![p] = view'[p]]
        BY <2>2, <2>3 DEF toldTargets
      <4>5. toldTargets[p] = "unknown" /\ toldTargets = [toldTargets EXCEPT ![p] = "unknown"]
        BY <2>3, <3>3 DEF toldTargets
      <4> QED BY <1>b, <2>3, <4>1, <4>3, <4>4, <4>5
    <3>4. CASE view[p] # "unknown"
      <4>1. pc[c] = "late" /\ view[p] = "unmounted"
        BY <2>1, <2>3, <3>4 DEF TInv, CallTrue
      <4>2. view'[p] = view[p]
        BY <1>2, <2>0, <2>1, <2>3, <4>1, OwnTarget
      <4>3. ~Mounted(p) /\ ~Mounted(p)'
        BY <3>1, <4>1, <4>2 DEF PathTrue
      <4>4. toldTargets' = toldTargets
        BY <2>2, <4>2 DEF toldTargets
      <4>5. mountedTargets' = mountedTargets
        BY <2>2, <4>3 DEF mountedTargets, Mounted
      <4> QED BY <4>4, <4>5
    <3> QED BY <3>3, <3>4
  <2>4. CASE p \notin Targets
    BY <2>2, <2>4 DEF toldTargets, mountedTargets, Mounted
  <2> QED BY <2>3, <2>4
<1>3. ASSUME NEW p \in Paths, Server(p)
      PROVE  UNCHANGED <<toldTargets, mountedTargets>>
  <2>1. IInv
    BY DEF TInv
  <2> QED BY <1>3, <2>1, ServerStaging, ServerShape DEF toldTargets, mountedTargets, LinkBecomes
<1>4. ASSUME NEW c \in Calls, Abandon(c) PROVE UNCHANGED <<toldTargets, mountedTargets>>
  BY <1>4 DEF toldTargets, mountedTargets, Abandon, Mounted
<1>5. ASSUME Crash PROVE UNCHANGED <<toldTargets, mountedTargets>>
  BY <1>5 DEF toldTargets, mountedTargets, Crash, Mounted
<1>6. ASSUME UNCHANGED vars PROVE UNCHANGED <<toldTargets, mountedTargets>>
  BY <1>6 DEF toldTargets, mountedTargets, vars, Mounted
<1> QED BY <1>1, <1>2, <1>3, <1>4, <1>5, <1>6 DEF Next

(* If callers of publish and unpublish wait for their answers, these       *)
(* implement MountContract without a lock: a target changes only between   *)
(* an accepted request and its answer, and answers are true.               *)
THEOREM TargetsRefinement == CallersWait /\ Spec => TargetsImplementContract
<1>1. Init => TargetContract!Init
  BY DEF Init, TargetContract!Init, Mounted
<1>2. TInv /\ TInv' /\ [Next]_vars => [TargetContract!Next]_TargetContract!contractVars
  BY TargetContractStep DEF toldTargets, mountedTargets, TargetContract!contractVars
<1> QED BY <1>1, <1>2, TargetInvariant, PTL
        DEF Spec, TargetsImplementContract, TargetContract!Spec

-----------------------------------------------------------------------------
(***************************************************************************)
(* Without CallersWait a bind target can be mounted twice: the handlers of *)
(* two publishes of it both find it free.  Where the driver takes a lock,  *)
(* for staging paths and ephemeral volumes, no assumption about callers is *)
(* needed: the lock outlives the answer of a timed-out stage, and nobody   *)
(* else looks at the path before the late mount is over.                   *)
(***************************************************************************)
LockedPaths == StagingPaths \cup EphemeralPaths

(* No path that NodeStageVolume locks carries two mounts. *)
LockedMountedOnce == \A p \in LockedPaths : Len(mounts[p]) <= 1

(* A mount command is started, and remains, over a free path. *)
RunsOverFree ==
  \A c \in Calls : path[c] \in LockedPaths /\ mountDone[c] = "running" => ~Mounted(path[c])

LInv == IInv /\ LockedMountedOnce /\ RunsOverFree

(* A handler mounts nothing itself on a locked path, and starts a mount    *)
(* command only where ensureMountPoint found none.                         *)
LEMMA HandlerMountsNothing ==
  ASSUME IInv, NEW c \in Calls, Handler(c)
  PROVE  /\ \A p \in LockedPaths : mounts'[p] = mounts[p] \/ (Mounted(p) /\ mounts'[p] = Beneath(p))
         /\ \A d \in Calls : mountDone'[d] = "running" =>
              mountDone[d] = "running" \/ ~Mounted(path[d])
<1>t. /\ mounts \in [Paths -> Seq(Layers)]
      /\ mountDone \in [Calls -> {"none", "running", "ok", "err"}]
  BY DEF IInv, TypeInv, TypeOK
<1>1. CASE UnmountInvalid(c) \/ CleanupUnmount(c)
  <2>1. /\ UNCHANGED mountDone /\ Mounted(path[c])
        /\ mounts' = [mounts EXCEPT ![path[c]] = Beneath(path[c])]
    BY <1>1 DEF UnmountInvalid, CleanupUnmount, Unmount
  <2>2. ASSUME NEW p \in Paths
        PROVE  mounts'[p] = mounts[p] \/ (Mounted(p) /\ mounts'[p] = Beneath(p))
    <3>1. CASE p = path[c]
      BY <1>t, <2>1, <2>2, <3>1
    <3>2. CASE p # path[c]
      BY <1>t, <2>1, <2>2, <3>2
    <3> QED BY <3>1, <3>2
  <2> QED BY <2>1, <2>2 DEF LockedPaths
<1>2. CASE BindMount(c)
  <2>1. path[c] \in PublishPaths
    BY <1>2, PathsAssumption
    DEF BindMount, IInv, TypeInv, TypeOK, ControlOK, Ops, EnsurePCs, MountPCs, CleanupPCs
  <2>2. path[c] \notin LockedPaths
    BY <2>1, PathsAssumption DEF LockedPaths
  <2> QED BY <1>2, <1>t, <2>2 DEF BindMount, LockedPaths
<1>3. CASE EnsureNotMounted(c)
  BY <1>3, <1>t DEF EnsureNotMounted
<1>4. CASE WaitMountDone(c) \/ RecheckMountDone(c) \/ DeferReleaseLock(c)
  BY <1>4, <1>t DEF WaitMountDone, RecheckMountDone, DeferReleaseLock, ReceiveMountDone
<1>5. CASE UNCHANGED <<mountDone, mounts>>
  BY <1>5
<1> QED BY <1>1, <1>2, <1>3, <1>4, <1>5
        DEF Handler, HandlerFails, StagePrepare, EnsureMounted, Probe, UnmountOpen,
            Timeout, ReplyKeepLock, BindFails, RemoveTarget, CleanupPathMissing,
            CleanupPathExists, CleanupCheck, CleanupNotMounted, CleanupRemove

(* No two mount commands run for the same locked path. *)
LEMMA OneMountCommand ==
  ASSUME IInv, NEW c \in Calls, NEW d \in Calls,
         mountDone[c] = "running", mountDone[d] = "running", path[c] = path[d]
  PROVE  c = d
<1>1. Locking(c) /\ Locking(d)
  BY DEF IInv, TypeInv, TypeOK, ControlOK, Ops, MountPCs, EnsurePCs, CleanupPCs
<1> QED BY <1>1 DEF IInv, LockOwned

(* A step keeps the locked paths mounted once. *)
LEMMA LockedStep == LInv /\ [Next]_vars => LInv'
<1> SUFFICES ASSUME LInv, [Next]_vars PROVE LockedMountedOnce' /\ RunsOverFree'
  BY InvStep DEF LInv
<1>t. /\ mounts \in [Paths -> Seq(Layers)] /\ path \in [Calls -> Paths \cup {NoPath}]
      /\ mountDone \in [Calls -> {"none", "running", "ok", "err"}]
  BY DEF LInv, IInv, TypeInv, TypeOK
<1>i. IInv /\ IInv' /\ LockedPaths \subseteq Paths
  BY InvStep DEF LInv, LockedPaths
<1>1. ASSUME NEW c \in Calls, Request(c) PROVE LockedMountedOnce' /\ RunsOverFree'
  <2>1. /\ UNCHANGED <<mountDone, mounts>> /\ mountDone[c] = "none"
        /\ \A d \in Calls : d # c => path'[d] = path[d]
    BY <1>1, <1>t DEF Request, NodeStageVolume, NodeUnstageVolume, NodePublishVolume,
                NodeUnpublishVolume, Begin, LInv, IInv, TypeInv, ControlOK, MountPCs
  <2> QED BY <2>1 DEF LInv, LockedMountedOnce, RunsOverFree, Mounted
<1>2. ASSUME NEW c \in Calls, Handler(c) PROVE LockedMountedOnce' /\ RunsOverFree'
  <2>1. ASSUME NEW p \in LockedPaths
        PROVE  Len(mounts'[p]) <= 1 /\ (~Mounted(p) => ~Mounted(p)')
    <3>1. Len(mounts[p]) \in Nat /\ Len(mounts[p]) <= 1
      BY <1>i, <2>1, MountedLen DEF LInv, IInv, LockedMountedOnce
    <3>2. Mounted(p) => Len(Beneath(p)) = Len(mounts[p]) - 1
      BY <1>i, <2>1, BeneathType DEF IInv, TypeInv
    <3>3. mounts'[p] = mounts[p] \/ (Mounted(p) /\ mounts'[p] = Beneath(p))
      BY <1>2, <1>i, <2>1, HandlerMountsNothing
    <3> QED BY <3>1, <3>2, <3>3 DEF Mounted
  <2>2. ASSUME NEW d \in Calls, path'[d] \in LockedPaths, mountDone'[d] = "running"
        PROVE  ~Mounted(path[d])'
    <3>1. path'[d] = path[d]
      <4>1. \A e \in Calls : path'[e] \in {path[e], NoPath}
        BY <1>2, <1>t, HandlerShape DEF Finish
      <4> QED BY <2>2, <4>1, PathsAssumption DEF LockedPaths
    <3>2. ~Mounted(path[d])
      BY <1>2, <1>i, <2>2, <3>1, HandlerMountsNothing DEF LInv, RunsOverFree
    <3> QED BY <2>1, <2>2, <3>1, <3>2 DEF Mounted
  <2> QED BY <2>1, <2>2 DEF LockedMountedOnce, RunsOverFree
<1>3. ASSUME NEW c \in Calls, MountFails(c) PROVE LockedMountedOnce' /\ RunsOverFree'
  <2>1. UNCHANGED <<path, mounts>> /\ mountDone' = [mountDone EXCEPT ![c] = "err"]
    BY <1>3 DEF MountFails
  <2> QED BY <1>t, <2>1 DEF LInv, LockedMountedOnce, RunsOverFree, Mounted
<1>4. ASSUME NEW c \in Calls, MountLands(c) PROVE LockedMountedOnce' /\ RunsOverFree'
  <2>1. /\ UNCHANGED path /\ mountDone[c] = "running"
        /\ mounts' = [mounts EXCEPT ![path[c]] = Append(@, "live")]
        /\ mountDone' = [mountDone EXCEPT ![c] = "ok"]
    BY <1>4 DEF MountLands
  <2>2. path[c] \in LockedPaths
    BY <2>1 DEF LInv, IInv, TypeInv, TypeOK, ControlOK, Ops, MountPCs, EnsurePCs,
                CleanupPCs, LockedPaths
  <2>3. mounts[path[c]] = <<>>
    BY <2>1, <2>2 DEF LInv, RunsOverFree, Mounted
  <2>4. mounts'[path[c]] = Append(<<>>, "live")
    BY <1>i, <1>t, <2>1, <2>2, <2>3
  <2>5. Len(mounts'[path[c]]) <= 1
    <3>1. Len(Append(<<>>, "live")) <= 1
      OBVIOUS
    <3> QED BY <2>4, <3>1
  <2>6. \A p \in Paths : p # path[c] => mounts'[p] = mounts[p]
    BY <1>t, <2>1
  <2>7. LockedMountedOnce'
    <3> SUFFICES ASSUME NEW p \in LockedPaths PROVE Len(mounts'[p]) <= 1
      BY DEF LockedMountedOnce
    <3>1. CASE p = path[c]
      BY <2>5, <3>1
    <3>2. CASE p # path[c]
      BY <1>i, <2>6, <3>2 DEF LInv, LockedMountedOnce
    <3> QED BY <3>1, <3>2
  <2>8. ASSUME NEW d \in Calls, path'[d] \in LockedPaths, mountDone'[d] = "running"
        PROVE  ~Mounted(path[d])'
    <3>1. d # c /\ mountDone[d] = "running" /\ path[d] \in LockedPaths
      BY <1>t, <2>1, <2>8
    <3>2. path[d] # path[c]
      BY <1>i, <2>1, <3>1, OneMountCommand
    <3> QED BY <1>i, <2>1, <2>6, <3>1, <3>2 DEF LInv, RunsOverFree, Mounted
  <2> QED BY <2>7, <2>8 DEF RunsOverFree
<1>5. ASSUME NEW p \in Paths, Server(p) PROVE LockedMountedOnce' /\ RunsOverFree'
  <2>1. /\ UNCHANGED <<path, mountDone>>
        /\ \A q \in Paths : Len(mounts'[q]) = Len(mounts[q]) /\ (Mounted(q)' <=> Mounted(q))
    BY <1>i, <1>5, ServerStaging, ServerShape DEF LinkBecomes
  <2>2. LockedMountedOnce'
    BY <1>i, <2>1 DEF LInv, LockedMountedOnce
  <2>3. ASSUME NEW d \in Calls, path'[d] \in LockedPaths, mountDone'[d] = "running"
        PROVE  ~Mounted(path[d])'
    <3>1. PICK q \in LockedPaths : q = path[d]
      BY <2>1, <2>3
    <3>2. ~Mounted(q) /\ (Mounted(q)' <=> Mounted(q))
      BY <1>i, <2>1, <2>3, <3>1 DEF LInv, RunsOverFree
    <3> QED BY <2>1, <3>1, <3>2 DEF Mounted
  <2> QED BY <2>2, <2>3 DEF RunsOverFree
<1>6. ASSUME Crash PROVE LockedMountedOnce' /\ RunsOverFree'
  BY <1>6 DEF Crash, LInv, LockedMountedOnce, RunsOverFree
<1>7. ASSUME UNCHANGED <<path, mountDone, mounts>> PROVE LockedMountedOnce' /\ RunsOverFree'
  BY <1>7 DEF LInv, LockedMountedOnce, RunsOverFree, Mounted
<1> QED BY <1>1, <1>2, <1>3, <1>4, <1>5, <1>6, <1>7
        DEF Next, MountGoroutine, Abandon, vars

(* Staging paths and ephemeral volumes never carry two mounts, whatever    *)
(* callers do: give up at any point, retry while the mount of a timed-out  *)
(* attempt is under way, or unpublish next to it, with failing shares and  *)
(* restarts.  The lock of NodeStageVolume, kept until a late mount is      *)
(* over, is what bind targets lack.                                        *)
THEOREM LockedNeverStack == Spec => []LockedMountedOnce
<1>1. Init => LInv
  BY InvInit DEF Init, LInv, LockedMountedOnce, RunsOverFree, LockedPaths
<1>2. LInv => LockedMountedOnce
  BY DEF LInv
<1> QED BY <1>1, <1>2, LockedStep, PTL DEF Spec
=============================================================================
