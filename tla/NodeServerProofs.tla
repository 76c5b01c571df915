-------------------------- MODULE NodeServerProofs --------------------------
(***************************************************************************)
(* Proofs about NodeServer, for any number of handlers, volumes and paths, *)
(* any way shares fail, callers that give up on any path, and any number   *)
(* of restarts.                                                            *)
(***************************************************************************)
EXTENDS NodeServer, SequenceTheorems, TLAPS

CleanupPCs == {"cleanup", "check", "umount", "umount2", "check2", "remove", "rmdir"}
EnsurePCs == {"ensure", "probe", "unmount", "unmount_fd"}
MountPCs == {"wait", "recheck", "late"}

(* Where a handler can be, and on which path, given the RPC it runs. *)
ControlOK ==
  \A c \in Calls :
    /\ op[c] = "none" <=> pc[c] = "idle"
    /\ op[c] = "none" <=> path[c] = NoPath
    /\ op[c] = "stage" => /\ path[c] \in StagingPaths \cup EphemeralPaths
                          /\ pc[c] \in {"prepare"} \cup EnsurePCs \cup MountPCs
    /\ op[c] = "publish" => /\ path[c] \in PublishPaths
                            /\ pc[c] \in EnsurePCs \cup {"bind", "rmtarget"}
    /\ op[c] = "unstage" => path[c] \in StagingPaths /\ pc[c] \in CleanupPCs
    /\ op[c] = "unpublish" => /\ path[c] \in PublishPaths \cup EphemeralPaths
                              /\ pc[c] \in CleanupPCs
    /\ mountDone[c] # "none" <=> pc[c] \in MountPCs

TypeInv == TypeOK /\ ControlOK

USE DEF Paths, Key, Locking

-----------------------------------------------------------------------------
(* What is left under the visible mount is a stack of mounts again. *)
LEMMA BeneathType ==
  ASSUME TypeOK, NEW p \in Paths, Mounted(p)
  PROVE  /\ Beneath(p) \in Seq(Layers)
         /\ Len(Beneath(p)) = Len(mounts[p]) - 1
         /\ Top(p) \in Layers
BY DEF TypeOK, Mounted, Beneath, Top

(* A share that fails or recovers only changes the visible layer. *)
LEMMA ServerShape ==
  ASSUME NEW p \in Paths, Server(p)
  PROVE  Mounted(p) /\ \E layer \in Layers : LinkBecomes(p, layer)
BY DEF Server, ServerFails, ServerRecovers, Invalid, Layers

(* A handler that returns frees its slot, and keeps the types. *)
LEMMA FinishType ==
  ASSUME TypeInv, NEW c \in Calls, pc[c] # "idle", Finish(c),
         mountDone' = [mountDone EXCEPT ![c] = "none"],
         mounts' \in [Paths -> Seq(Layers)], dirs' \subseteq Paths,
         view' \in [Paths -> {"unknown", "mounted", "unmounted"}]
  PROVE  TypeInv'
<1> USE PathsAssumption DEF TypeInv, TypeOK
<1>1. TypeOK'
  BY DEF Finish, Release, PCs, Ops
<1>2. ControlOK'
  BY DEF Finish, ControlOK, MountPCs
<1> QED BY <1>1, <1>2

(* An answer keeps the types. *)
LEMMA ReplyType ==
  ASSUME TypeInv, NEW c \in Calls, pc[c] # "idle",
         NEW told \in {"unknown", "mounted", "unmounted"}, Reply(c, told),
         mountDone' = [mountDone EXCEPT ![c] = "none"],
         mounts' \in [Paths -> Seq(Layers)], dirs' \subseteq Paths
  PROVE  TypeInv'
<1>1. path[c] \in Paths
  BY PathsAssumption DEF TypeInv, TypeOK, ControlOK
<1>2. view' \in [Paths -> {"unknown", "mounted", "unmounted"}]
  BY <1>1 DEF Reply, TypeInv, TypeOK
<1> QED BY <1>2, FinishType DEF Reply

(* An answer given before the mount goroutine started. *)
LEMMA ReplyEarlyType ==
  ASSUME TypeInv, NEW c \in Calls, pc[c] \notin MountPCs \cup {"idle"},
         NEW told \in {"unknown", "mounted", "unmounted"}, Reply(c, told),
         UNCHANGED mountDone,
         mounts' \in [Paths -> Seq(Layers)], dirs' \subseteq Paths
  PROVE  TypeInv'
<1>1. mountDone' = [mountDone EXCEPT ![c] = "none"]
  BY DEF TypeInv, TypeOK, ControlOK
<1> QED BY <1>1, ReplyType

(* A request takes a free slot. *)
LEMMA BeginType ==
  ASSUME TypeInv, NEW c \in Calls, NEW o \in Ops, NEW p \in Paths, NEW first \in PCs,
         Begin(c, o, p, first), locks' \subseteq Volumes \X Paths,
         \/ o = "stage" /\ p \in StagingPaths \cup EphemeralPaths /\ first = "prepare"
         \/ o = "unstage" /\ p \in StagingPaths /\ first = "cleanup"
         \/ o = "publish" /\ p \in PublishPaths /\ first = "ensure"
         \/ o = "unpublish" /\ p \in PublishPaths \cup EphemeralPaths /\ first = "cleanup"
  PROVE  TypeInv'
<1> USE PathsAssumption DEF TypeInv, TypeOK
<1>1. TypeOK'
  BY DEF Begin
<1>2. ControlOK'
  BY DEF Begin, ControlOK, MountPCs, EnsurePCs, CleanupPCs
<1> QED BY <1>1, <1>2

(* A step of the handler that stays inside the RPC keeps the types. *)
LEMMA GotoType ==
  ASSUME TypeInv, NEW c \in Calls, NEW next \in PCs, Goto(c, next),
         mounts' \in [Paths -> Seq(Layers)], dirs' \subseteq Paths,
         pc[c] # "idle", next # "idle",
         op[c] = "stage" => next \in {"prepare"} \cup EnsurePCs \cup MountPCs,
         op[c] = "publish" => next \in EnsurePCs \cup {"bind", "rmtarget"},
         op[c] \in {"unstage", "unpublish"} => next \in CleanupPCs,
         \/ UNCHANGED mountDone /\ (pc[c] \in MountPCs <=> next \in MountPCs)
         \/ mountDone' = [mountDone EXCEPT ![c] = "running"] /\ next \in MountPCs
  PROVE  TypeInv'
<1> USE PathsAssumption DEF TypeInv, TypeOK
<1>1. TypeOK'
  BY DEF Goto
<1>2. ControlOK'
  BY DEF Goto, ControlOK
<1> QED BY <1>1, <1>2

(* Every step keeps the types and the control structure. *)
LEMMA TypeStep == TypeInv /\ [Next]_vars => TypeInv'
<1> SUFFICES ASSUME TypeInv, [Next]_vars PROVE TypeInv'
  OBVIOUS
<1>f. /\ mounts \in [Paths -> Seq(Layers)]
      /\ dirs \subseteq Paths
      /\ \A c \in Calls : /\ pc[c] # "idle" => path[c] \in Paths
                          /\ pc[c] \in MountPCs <=> mountDone[c] # "none"
  BY PathsAssumption DEF TypeInv, TypeOK, ControlOK
<1>1. ASSUME NEW c \in Calls, Request(c) PROVE TypeInv'
  <2>1. ASSUME NEW p \in StagingPaths \cup EphemeralPaths, NodeStageVolume(c, p)
        PROVE  TypeInv'
    <3>1. locks' \subseteq Volumes \X Paths
      BY <2>1, PathsAssumption DEF NodeStageVolume, TryAcquire, TypeInv, TypeOK
    <3> QED BY <2>1, <3>1, BeginType DEF NodeStageVolume, Ops, PCs
  <2>2. ASSUME NEW p \in StagingPaths, NodeUnstageVolume(c, p) PROVE TypeInv'
    <3>1. locks' \subseteq Volumes \X Paths
      BY <2>2, PathsAssumption DEF NodeUnstageVolume, TryAcquire, TypeInv, TypeOK
    <3> QED BY <2>2, <3>1, BeginType DEF NodeUnstageVolume, Ops, PCs
  <2>3. ASSUME NEW p \in PublishPaths, NodePublishVolume(c, p) PROVE TypeInv'
    BY <2>3, BeginType DEF NodePublishVolume, TypeInv, TypeOK, Ops, PCs
  <2>4. ASSUME NEW p \in PublishPaths \cup EphemeralPaths, NodeUnpublishVolume(c, p)
        PROVE  TypeInv'
    BY <2>4, BeginType DEF NodeUnpublishVolume, TypeInv, TypeOK, Ops, PCs
  <2> QED BY <1>1, <2>1, <2>2, <2>3, <2>4 DEF Request
<1>2. ASSUME NEW c \in Calls, Abandon(c) PROVE TypeInv'
  BY <1>2 DEF Abandon, TypeInv, TypeOK, ControlOK
<1>3. ASSUME NEW c \in Calls, Handler(c) PROVE TypeInv'
  <2> USE DEF MountPCs
  <2>1. CASE HandlerFails(c)
    BY <2>1, <1>f, ReplyEarlyType DEF HandlerFails
  <2>2. CASE StagePrepare(c)
    <3>1. CASE Reply(c, "unknown") /\ UNCHANGED dirs
      BY <2>2, <3>1, <1>f, ReplyEarlyType DEF StagePrepare
    <3>2. CASE Goto(c, "ensure") /\ dirs' = dirs \cup {path[c]}
      BY <2>2, <3>2, <1>f, GotoType
      DEF StagePrepare, PCs, EnsurePCs, CleanupPCs, TypeInv, ControlOK
    <3> QED BY <2>2, <3>1, <3>2 DEF StagePrepare
  <2>3. CASE EnsureNotMounted(c)
    <3>1. CASE op[c] = "stage"
      BY <2>3, <3>1, <1>f, GotoType
      DEF EnsureNotMounted, PCs, EnsurePCs, CleanupPCs, TypeInv, ControlOK
    <3>2. CASE op[c] # "stage"
      BY <2>3, <3>2, <1>f, GotoType
      DEF EnsureNotMounted, PCs, EnsurePCs, CleanupPCs, TypeInv, TypeOK, ControlOK, Ops
    <3> QED BY <3>1, <3>2
  <2>4. CASE EnsureMounted(c)
    BY <2>4, <1>f, GotoType
    DEF EnsureMounted, PCs, EnsurePCs, CleanupPCs, TypeInv, ControlOK
  <2>5. CASE Probe(c)
    <3>1. CASE Reply(c, "mounted")
      BY <2>5, <3>1, <1>f, ReplyEarlyType DEF Probe
    <3>2. CASE Goto(c, "unmount") \/ Goto(c, "unmount_fd")
      BY <2>5, <3>2, <1>f, GotoType
      DEF Probe, PCs, EnsurePCs, CleanupPCs, TypeInv, ControlOK
    <3> QED BY <2>5, <3>1, <3>2 DEF Probe, ReadDirOutcome
  <2>6. CASE UnmountInvalid(c)
    <3>1. mounts' \in [Paths -> Seq(Layers)]
      BY <2>6, <1>f, BeneathType DEF UnmountInvalid, Unmount, TypeInv
    <3> QED BY <2>6, <3>1, <1>f, ReplyEarlyType DEF UnmountInvalid
  <2>7. CASE UnmountOpen(c)
    BY <2>7, <1>f, ReplyEarlyType DEF UnmountOpen
  <2>8. CASE WaitMountDone(c) \/ RecheckMountDone(c)
    <3> DEFINE told == IF mountDone[c] = "ok" THEN "mounted" ELSE "unknown"
    <3>1. Reply(c, told) /\ pc[c] # "idle"
      BY <2>8 DEF WaitMountDone, RecheckMountDone
    <3>2. /\ mountDone' = [mountDone EXCEPT ![c] = "none"]
          /\ UNCHANGED <<mounts, dirs>>
      BY <2>8 DEF WaitMountDone, RecheckMountDone, ReceiveMountDone
    <3>3. told \in {"unknown", "mounted", "unmounted"}
      OBVIOUS
    <3> QED BY <3>1, <3>2, <3>3, <1>f, ReplyType
  <2>9. CASE Timeout(c)
    BY <2>9, <1>f, GotoType DEF Timeout, PCs, EnsurePCs, CleanupPCs, TypeInv, ControlOK
  <2>10. CASE ReplyKeepLock(c)
    BY <2>10, <1>f
    DEF ReplyKeepLock, PCs, EnsurePCs, CleanupPCs, TypeInv, TypeOK, ControlOK
  <2>11. CASE DeferReleaseLock(c)
    BY <2>11, <1>f, FinishType DEF DeferReleaseLock, ReceiveMountDone, TypeInv, TypeOK
  <2>12. CASE BindMount(c)
    <3>1. Source[path[c]] \in Paths /\ path[c] \in Paths
      BY <2>12, PathsAssumption
      DEF BindMount, TypeInv, TypeOK, ControlOK, Ops, EnsurePCs, CleanupPCs
    <3>2. mounts' \in [Paths -> Seq(Layers)]
      BY <2>12, <3>1, <1>f, BeneathType DEF BindMount, TypeInv, Layers
    <3> QED BY <2>12, <3>2, <1>f, ReplyEarlyType DEF BindMount
  <2>13. CASE BindFails(c)
    BY <2>13, <1>f, GotoType DEF BindFails, PCs, EnsurePCs, CleanupPCs, TypeInv, ControlOK
  <2>14. CASE RemoveTarget(c)
    BY <2>14, <1>f, ReplyEarlyType DEF RemoveTarget
  <2>15. CASE CleanupPathMissing(c)
    BY <2>15, <1>f, ReplyEarlyType DEF CleanupPathMissing, CleanupDone
  <2>16. CASE CleanupPathExists(c)
    BY <2>16, <1>f, GotoType
    DEF CleanupPathExists, PCs, EnsurePCs, CleanupPCs, TypeInv, ControlOK
  <2>17. CASE CleanupCheck(c)
    <3>1. CASE Goto(c, "umount2") \/ Goto(c, "rmdir")
      BY <2>17, <3>1, <1>f, GotoType
      DEF CleanupCheck, PCs, EnsurePCs, CleanupPCs, TypeInv, ControlOK
    <3>2. CASE CleanupDone(c)
      BY <2>17, <3>2, <1>f, ReplyEarlyType DEF CleanupCheck, CleanupDone
    <3> QED BY <2>17, <3>1, <3>2 DEF CleanupCheck
  <2>18. CASE CleanupUnmount(c)
    <3>1. mounts' \in [Paths -> Seq(Layers)]
      BY <2>18, <1>f, BeneathType DEF CleanupUnmount, Unmount, TypeInv
    <3> QED BY <2>18, <3>1, <1>f, GotoType
            DEF CleanupUnmount, PCs, EnsurePCs, CleanupPCs, TypeInv, ControlOK
  <2>19. CASE CleanupNotMounted(c)
    BY <2>19, <1>f, GotoType
    DEF CleanupNotMounted, PCs, EnsurePCs, CleanupPCs, TypeInv, ControlOK
  <2>20. CASE CleanupRemove(c)
    BY <2>20, <1>f, ReplyEarlyType DEF CleanupRemove, CleanupDone
  <2> QED BY <1>3, <2>1, <2>2, <2>3, <2>4, <2>5, <2>6, <2>7, <2>8, <2>9, <2>10,
             <2>11, <2>12, <2>13, <2>14, <2>15, <2>16, <2>17, <2>18, <2>19, <2>20
          DEF Handler
<1>4. ASSUME NEW c \in Calls, MountGoroutine(c) PROVE TypeInv'
  <2>1. path[c] \in Paths /\ pc[c] \in MountPCs
    BY <1>4, <1>f DEF MountGoroutine, MountLands, MountFails, MountPCs
  <2>2. mounts' \in [Paths -> Seq(Layers)]
    <3>1. CASE MountLands(c)
      <4>1. "live" \in Layers
        BY DEF Layers
      <4>2. Append(mounts[path[c]], "live") \in Seq(Layers)
        BY <4>1, <1>f, <2>1
      <4>3. mounts' = [mounts EXCEPT ![path[c]] = Append(mounts[path[c]], "live")]
        BY <3>1 DEF MountLands
      <4> QED BY <1>f, <4>2, <4>3
    <3>2. CASE MountFails(c)
      BY <3>2, <1>f DEF MountFails
    <3> QED BY <1>4, <3>1, <3>2 DEF MountGoroutine
  <2> QED BY <1>4, <2>1, <2>2
          DEF MountGoroutine, MountLands, MountFails, TypeInv, TypeOK, ControlOK
<1>5. ASSUME NEW p \in Paths, Server(p) PROVE TypeInv'
  <2>1. PICK layer \in Layers : LinkBecomes(p, layer) /\ Mounted(p)
    BY <1>5, ServerShape
  <2>2. mounts' \in [Paths -> Seq(Layers)]
    BY <2>1, BeneathType DEF LinkBecomes, TypeInv, TypeOK
  <2> QED BY <2>1, <2>2 DEF LinkBecomes, TypeInv, TypeOK, ControlOK
<1>6. ASSUME Crash PROVE TypeInv'
  <2>1. crashes' \in 0..MaxCrashes
    BY <1>6, FaultAssumption DEF Crash, TypeInv, TypeOK
  <2> QED BY <1>6, <2>1 DEF Crash, TypeInv, TypeOK, ControlOK, PCs, Ops, MountPCs
<1>7. CASE UNCHANGED vars
  BY <1>7 DEF vars, TypeInv, TypeOK, ControlOK
<1> QED BY <1>1, <1>2, <1>3, <1>4, <1>5, <1>6, <1>7 DEF Next

LEMMA TypeCorrectInit == Init => TypeInv
BY PathsAssumption, FaultAssumption
DEF Init, NewVolumeLocks, TypeInv, TypeOK, ControlOK, PCs, Ops, MountPCs

(* The type invariant holds: among others, every handler is at a control   *)
(* point of the RPC it runs, and a mount goroutine has a handler that      *)
(* waits for it or a background goroutine that will release its lock.      *)
THEOREM TypeCorrect == Spec => [](TypeOK /\ ControlOK)
<1>1. TypeInv => TypeOK /\ ControlOK
  BY DEF TypeInv
<1> QED BY <1>1, TypeCorrectInit, TypeStep, PTL DEF Spec

-----------------------------------------------------------------------------
(***************************************************************************)
(* The lock table.                                                         *)
(***************************************************************************)

(* A step of a handler either leaves the lock table and the request alone  *)
(* or is the return of the handler.                                        *)
LEMMA HandlerShape ==
  ASSUME NEW c \in Calls, Handler(c)
  PROVE  pc[c] # "idle" /\ (UNCHANGED <<locks, op, path>> \/ Finish(c))
BY DEF Handler, HandlerFails, StagePrepare, EnsureNotMounted, EnsureMounted, Probe,
       UnmountInvalid, UnmountOpen, WaitMountDone, Timeout, RecheckMountDone,
       ReplyKeepLock, DeferReleaseLock, BindMount, BindFails, RemoveTarget,
       CleanupPathMissing, CleanupPathExists, CleanupCheck, CleanupUnmount,
       CleanupNotMounted, CleanupRemove, CleanupDone, Goto, Reply

(* A returning handler releases its own key and nobody else's. *)
LEMMA FinishLock ==
  ASSUME TypeInv, LockOwned, NEW c \in Calls, pc[c] # "idle", Finish(c)
  PROVE  LockOwned'
<1>1. /\ op' = [op EXCEPT ![c] = "none"]
      /\ path' = [path EXCEPT ![c] = NoPath]
      /\ op \in [Calls -> Ops]
      /\ path \in [Calls -> Paths \cup {NoPath}]
  BY DEF Finish, TypeInv, TypeOK
<1>2. CASE Locking(c)
  <2>1. locks' = locks \ {Key(path[c])}
    BY <1>2 DEF Finish, Release
  <2>2. \A d \in Calls : Locking(d) /\ d # c => Key(path[d]) # Key(path[c])
    BY <1>2 DEF LockOwned
  <2> QED BY <1>1, <2>1, <2>2 DEF LockOwned
<1>3. CASE ~Locking(c)
  <2>1. locks' = locks
    BY <1>3 DEF Finish
  <2> QED BY <1>1, <1>3, <2>1 DEF LockOwned
<1> QED BY <1>2, <1>3

(* Every step keeps the correspondence of keys and handlers. *)
LEMMA LockStep == TypeInv /\ LockOwned /\ [Next]_vars => LockOwned'
<1> SUFFICES ASSUME TypeInv, LockOwned, [Next]_vars PROVE LockOwned'
  OBVIOUS
<1>f. op \in [Calls -> Ops] /\ path \in [Calls -> Paths \cup {NoPath}]
  BY DEF TypeInv, TypeOK
<1>1. ASSUME NEW c \in Calls, Request(c) PROVE LockOwned'
  <2>1. ASSUME NEW p \in Paths, NEW o \in {"stage", "unstage"}, NEW first,
               TryAcquire(Key(p)), Begin(c, o, p, first)
        PROVE  LockOwned'
    <3>1. ~Locking(c)
      BY <2>1 DEF Begin, TypeInv, ControlOK
    <3>2. \A d \in Calls : Locking(d) => path[d] # p
      BY <2>1 DEF TryAcquire, LockOwned
    <3>3. /\ op' = [op EXCEPT ![c] = o]
          /\ path' = [path EXCEPT ![c] = p]
          /\ locks' = locks \cup {Key(p)}
      BY <2>1 DEF Begin, TryAcquire
    <3> QED BY <1>f, <3>1, <3>2, <3>3 DEF LockOwned
  <2>2. ASSUME NEW p \in Paths, NEW o \in {"publish", "unpublish"}, NEW first,
               UNCHANGED locks, Begin(c, o, p, first)
        PROVE  LockOwned'
    <3>1. ~Locking(c)
      BY <2>2 DEF Begin, TypeInv, ControlOK
    <3> QED BY <1>f, <2>2, <3>1 DEF Begin, LockOwned
  <2> QED BY <1>1, <2>1, <2>2
          DEF Request, NodeStageVolume, NodeUnstageVolume, NodePublishVolume,
              NodeUnpublishVolume
<1>2. ASSUME NEW c \in Calls, Handler(c) PROVE LockOwned'
  <2>1. CASE UNCHANGED <<locks, op, path>>
    BY <2>1 DEF LockOwned
  <2> QED BY <1>2, <2>1, HandlerShape, FinishLock
<1>3. CASE UNCHANGED <<locks, op, path>>
  BY <1>3 DEF LockOwned
<1>4. CASE Crash
  BY <1>4 DEF Crash, LockOwned
<1> QED BY <1>1, <1>2, <1>3, <1>4
        DEF Next, vars, Abandon, MountGoroutine, MountLands, MountFails,
            Server, ServerFails, ServerRecovers, LinkBecomes

(* Mutual exclusion and lock ownership of stage and unstage: a path's key  *)
(* is held exactly while one handler works on the path, until the mount    *)
(* goroutine of a timed-out stage is over, although the lock table itself  *)
(* records no owner.                                                       *)
THEOREM LockOwnership == Spec => []LockOwned
<1>1. Init => LockOwned
  BY DEF Init, NewVolumeLocks, LockOwned
<1>2. Init => TypeInv
  BY TypeCorrectInit
<1> QED BY <1>1, <1>2, TypeStep, LockStep, PTL DEF Spec

-----------------------------------------------------------------------------
(***************************************************************************)
(* Answers about staging paths.  StagingAnswersHold is not inductive: it   *)
(* needs to know what a handler in the middle of its work has established, *)
(* and that no two handlers are in the middle of theirs.                   *)
(***************************************************************************)
StagingOK ==
  /\ \A p \in Paths : Mounted(p) => p \in dirs
  /\ \A p \in StagingPaths : Len(mounts[p]) <= 1
  /\ \A c \in Calls : path[c] \in StagingPaths =>
       /\ view[path[c]] = "unknown"
       /\ pc[c] = "probe" => Mounted(path[c])
       /\ mountDone[c] = "running" => ~Mounted(path[c])
       /\ mountDone[c] = "ok" => Mounted(path[c])
  /\ StagingAnswersHold

IInv == TypeInv /\ LockOwned /\ StagingOK

(* At most one handler works on a staging path. *)
LEMMA StagingExclusive ==
  ASSUME TypeInv, LockOwned, NEW c \in Calls, NEW d \in Calls,
         path[c] \in StagingPaths, path[d] = path[c]
  PROVE  c = d
<1>1. Locking(c) /\ Locking(d)
  BY PathsAssumption DEF TypeInv, TypeOK, ControlOK, Ops
<1> QED BY <1>1 DEF LockOwned

(* One mount at most: mounted means exactly one. *)
LEMMA MountedLen ==
  ASSUME TypeInv, NEW p \in Paths
  PROVE  /\ Len(mounts[p]) \in Nat
         /\ Mounted(p) <=> Len(mounts[p]) > 0
BY EmptySeq, LenProperties DEF TypeInv, TypeOK, Mounted

(* A returning handler keeps the invariant if its answer is true. *)
LEMMA ReplyStaging ==
  ASSUME IInv, TypeInv', NEW c \in Calls, pc[c] # "idle",
         NEW told \in {"unknown", "mounted", "unmounted"}, Reply(c, told),
         \A d \in Calls : d # c => mountDone'[d] = mountDone[d],
         \A p \in StagingPaths : p # path[c] => mounts'[p] = mounts[p],
         \A p \in Paths : Mounted(p)' => p \in dirs',
         path[c] \in StagingPaths =>
           /\ Len(mounts'[path[c]]) <= 1
           /\ told = "mounted" => Len(mounts'[path[c]]) = 1
           /\ told = "unmounted" => mounts'[path[c]] = <<>>
  PROVE  StagingOK'
<1>1. /\ path' = [path EXCEPT ![c] = NoPath]
      /\ pc' = [pc EXCEPT ![c] = "idle"]
      /\ path[c] \in Paths /\ NoPath \notin StagingPaths
      /\ \/ view' = view
         \/ view' = [view EXCEPT ![path[c]] = told]
  BY PathsAssumption DEF Reply, Finish, IInv, TypeInv, TypeOK, ControlOK
<1>2. \A d \in Calls : d # c => path'[d] = path[d] /\ pc'[d] = pc[d]
  BY <1>1 DEF IInv, TypeInv, TypeOK
<1>3. path'[c] = NoPath
  BY <1>1 DEF IInv, TypeInv, TypeOK
<1>4. \A d \in Calls : d # c /\ path[d] \in StagingPaths => path[d] # path[c]
  BY StagingExclusive DEF IInv
<1>5. \A p \in Paths : p # path[c] => view'[p] = view[p]
  BY <1>1 DEF IInv, TypeInv, TypeOK
<1>6. path[c] \in StagingPaths => view'[path[c]] \in {"unknown", told}
  BY <1>1 DEF IInv, TypeInv, TypeOK, StagingOK
<1>7. \A p \in StagingPaths : Len(mounts'[p]) <= 1
  BY DEF IInv, StagingOK
<1>8. \A d \in Calls : path'[d] \in StagingPaths =>
        /\ view'[path'[d]] = "unknown"
        /\ pc'[d] = "probe" => Mounted(path[d])'
        /\ mountDone'[d] = "running" => ~Mounted(path[d])'
        /\ mountDone'[d] = "ok" => Mounted(path[d])'
  BY <1>1, <1>2, <1>3, <1>4, <1>5 DEF IInv, StagingOK, Mounted
<1>9. StagingAnswersHold'
  BY <1>1, <1>5, <1>6 DEF IInv, StagingOK, StagingAnswersHold, Mounted
<1> QED BY <1>7, <1>8, <1>9 DEF StagingOK

(* A step inside an RPC keeps the invariant if it leaves the mounts alone. *)
LEMMA GotoStaging ==
  ASSUME IInv, TypeInv', NEW c \in Calls, NEW next, Goto(c, next), pc[c] # "idle",
         \/ UNCHANGED mountDone
         \/ mountDone' = [mountDone EXCEPT ![c] = "running"] /\ ~Mounted(path[c]),
         UNCHANGED mounts, dirs \subseteq dirs',
         next = "probe" => Mounted(path[c])
  PROVE  StagingOK'
<1>1. /\ UNCHANGED <<path, view>>
      /\ pc' = [pc EXCEPT ![c] = next]
  BY DEF Goto
<1>2. \A d \in Calls : pc'[d] = IF d = c THEN next ELSE pc[d]
  BY <1>1 DEF IInv, TypeInv, TypeOK
<1>3. \A d \in Calls : \/ mountDone'[d] = mountDone[d]
                       \/ d = c /\ mountDone'[d] = "running" /\ ~Mounted(path[c])
  BY DEF IInv, TypeInv, TypeOK
<1>4. StagingAnswersHold'
  BY <1>1 DEF IInv, StagingOK, StagingAnswersHold, Mounted
<1> QED BY <1>1, <1>2, <1>3, <1>4 DEF IInv, StagingOK, Mounted

(* What the invariant says about the path of a busy handler. *)
LEMMA StagingFacts ==
  ASSUME IInv, NEW c \in Calls, pc[c] # "idle"
  PROVE  /\ path[c] \in Paths
         /\ path[c] \in StagingPaths =>
              /\ Len(mounts[path[c]]) = 0 \/ Len(mounts[path[c]]) = 1
              /\ Mounted(path[c]) <=> Len(mounts[path[c]]) = 1
         /\ \A p \in Paths : Mounted(p) => p \in dirs
<1>1. path[c] \in Paths
  BY PathsAssumption DEF IInv, TypeInv, TypeOK, ControlOK
<1>2. Len(mounts[path[c]]) \in Nat /\ (Mounted(path[c]) <=> Len(mounts[path[c]]) > 0)
  BY <1>1, MountedLen DEF IInv
<1>3. path[c] \in StagingPaths => Len(mounts[path[c]]) <= 1
  BY DEF IInv, StagingOK
<1>4. \A p \in Paths : Mounted(p) => p \in dirs
  BY DEF IInv, StagingOK
<1>n. \A n \in Nat : n <= 1 => n = 0 \/ n = 1
  OBVIOUS
<1>5. path[c] \in StagingPaths => Len(mounts[path[c]]) = 0 \/ Len(mounts[path[c]]) = 1
  BY <1>2, <1>3, <1>n
<1>6. path[c] \in StagingPaths => (Mounted(path[c]) <=> Len(mounts[path[c]]) = 1)
  BY <1>2, <1>5
<1> QED BY <1>1, <1>4, <1>5, <1>6

(* The usual return: the mounts stay, and only an unmounted directory may  *)
(* have been removed.                                                      *)
LEMMA ReplyStagingSame ==
  ASSUME IInv, TypeInv', NEW c \in Calls, pc[c] # "idle",
         NEW told \in {"unknown", "mounted", "unmounted"}, Reply(c, told),
         UNCHANGED mountDone \/ mountDone' = [mountDone EXCEPT ![c] = "none"],
         UNCHANGED mounts,
         UNCHANGED dirs \/ (~Mounted(path[c]) /\ dirs' = dirs \ {path[c]}),
         path[c] \in StagingPaths =>
           /\ told = "mounted" => Mounted(path[c])
           /\ told = "unmounted" => ~Mounted(path[c])
  PROVE  StagingOK'
<1>1. \A d \in Calls : d # c => mountDone'[d] = mountDone[d]
  BY DEF IInv, TypeInv, TypeOK
<1>2. \A p \in Paths : Mounted(p)' <=> Mounted(p)
  BY DEF Mounted
<1>3. \A p \in Paths : Mounted(p)' => p \in dirs'
  BY <1>2, StagingFacts
<1>4. path[c] \in StagingPaths =>
        /\ Len(mounts'[path[c]]) <= 1
        /\ told = "mounted" => Len(mounts'[path[c]]) = 1
  <2>1. mounts'[path[c]] = mounts[path[c]]
    OBVIOUS
  <2>2. path[c] \in StagingPaths => Len(mounts[path[c]]) <= 1
    BY DEF IInv, StagingOK
  <2>3. path[c] \in StagingPaths /\ Mounted(path[c]) => Len(mounts[path[c]]) = 1
    BY StagingFacts
  <2> QED BY <2>1, <2>2, <2>3
<1>5. path[c] \in StagingPaths /\ told = "unmounted" => mounts'[path[c]] = <<>>
  BY DEF Mounted
<1> QED BY <1>1, <1>3, <1>4, <1>5, ReplyStaging

(* Every step of a handler keeps the invariant of the staging paths. *)
LEMMA HandlerStaging ==
  ASSUME IInv, TypeInv', NEW c \in Calls, Handler(c)
  PROVE  StagingOK'
<1>f. /\ path[c] \in Paths /\ pc[c] # "idle"
      /\ path[c] \in StagingPaths =>
           /\ Len(mounts[path[c]]) = 0 \/ Len(mounts[path[c]]) = 1
           /\ Mounted(path[c]) <=> Len(mounts[path[c]]) = 1
      /\ \A p \in Paths : Mounted(p) => p \in dirs
  BY HandlerShape, StagingFacts
<1>r. ASSUME UNCHANGED mountDone \/ mountDone' = [mountDone EXCEPT ![c] = "none"]
      PROVE  \A d \in Calls : d # c => mountDone'[d] = mountDone[d]
  BY <1>r DEF IInv, TypeInv, TypeOK
<1>u. ASSUME Unmount(path[c])
      PROVE  /\ \A p \in Paths : p # path[c] => mounts'[p] = mounts[p]
             /\ Mounted(path[c])
             /\ path[c] \in StagingPaths => Len(mounts'[path[c]]) = 0
             /\ \A p \in Paths : mounts'[p] # <<>> => p \in dirs
  <2>1. /\ mounts' = [mounts EXCEPT ![path[c]] = Beneath(path[c])]
        /\ mounts \in [Paths -> Seq(Layers)]
    BY <1>u DEF Unmount, IInv, TypeInv, TypeOK
  <2>2. /\ Mounted(path[c])
        /\ Len(Beneath(path[c])) = Len(mounts[path[c]]) - 1
    BY <1>u, <1>f, BeneathType DEF Unmount, IInv, TypeInv
  <2>3. \A p \in Paths : mounts'[p] = IF p = path[c] THEN Beneath(p) ELSE mounts[p]
    BY <2>1
  <2>4. \A p \in Paths : mounts'[p] # <<>> => p \in dirs
    BY <2>2, <2>3, <1>f DEF Mounted
  <2>5. mounts'[path[c]] = Beneath(path[c])
    BY <1>f, <2>3
  <2>6. path[c] \in StagingPaths => Len(Beneath(path[c])) = 0
    BY <1>f, <2>2
  <2> QED BY <2>2, <2>3, <2>4, <2>5, <2>6
<1>1. CASE HandlerFails(c)
  BY <1>1, <1>f, ReplyStagingSame DEF HandlerFails
<1>2. CASE StagePrepare(c)
  <2>1. CASE Reply(c, "unknown") /\ UNCHANGED dirs
    BY <1>2, <2>1, <1>f, ReplyStagingSame DEF StagePrepare
  <2>2. CASE Goto(c, "ensure") /\ dirs' = dirs \cup {path[c]}
    BY <1>2, <2>2, <1>f, GotoStaging DEF StagePrepare
  <2> QED BY <1>2, <2>1, <2>2 DEF StagePrepare
<1>3. CASE EnsureNotMounted(c)
  BY <1>3, <1>f, GotoStaging DEF EnsureNotMounted
<1>4. CASE EnsureMounted(c)
  BY <1>4, <1>f, GotoStaging DEF EnsureMounted
<1>5. CASE Probe(c)
  <2>1. CASE Reply(c, "mounted")
    <3>1. path[c] \in StagingPaths => Mounted(path[c])
      BY <1>5 DEF Probe, IInv, StagingOK
    <3> QED BY <1>5, <2>1, <3>1, <1>f, ReplyStagingSame DEF Probe
  <2>2. CASE Goto(c, "unmount") \/ Goto(c, "unmount_fd")
    BY <1>5, <2>2, <1>f, GotoStaging DEF Probe
  <2> QED BY <1>5, <2>1, <2>2 DEF Probe, ReadDirOutcome
<1>6. CASE UnmountInvalid(c)
  <2>1. /\ Unmount(path[c]) /\ Reply(c, "unknown")
        /\ UNCHANGED <<mountDone, dirs>>
    BY <1>6 DEF UnmountInvalid
  <2>2. \A p \in Paths : Mounted(p)' => p \in dirs'
    BY <2>1, <1>u DEF Mounted
  <2>3. /\ \A d \in Calls : d # c => mountDone'[d] = mountDone[d]
        /\ \A p \in StagingPaths : p # path[c] => mounts'[p] = mounts[p]
        /\ path[c] \in StagingPaths => Len(mounts'[path[c]]) <= 1
    BY <2>1, <1>r, <1>u
  <2> QED BY <2>1, <2>2, <2>3, <1>f, ReplyStaging
<1>7. CASE UnmountOpen(c)
  BY <1>7, <1>f, ReplyStagingSame DEF UnmountOpen
<1>8. CASE WaitMountDone(c) \/ RecheckMountDone(c)
  <2> DEFINE told == IF mountDone[c] = "ok" THEN "mounted" ELSE "unknown"
  <2>1. /\ Reply(c, told)
        /\ mountDone' = [mountDone EXCEPT ![c] = "none"]
        /\ UNCHANGED <<mounts, dirs>>
    BY <1>8 DEF WaitMountDone, RecheckMountDone, ReceiveMountDone
  <2>2. /\ told \in {"unknown", "mounted", "unmounted"}
        /\ path[c] \in StagingPaths /\ told = "mounted" => Mounted(path[c])
        /\ told # "unmounted"
    BY DEF IInv, StagingOK
  <2> HIDE DEF told
  <2> QED BY <2>1, <2>2, <1>f, ReplyStagingSame
<1>9. CASE Timeout(c)
  BY <1>9, <1>f, GotoStaging DEF Timeout
<1>10. CASE ReplyKeepLock(c)
  BY <1>10 DEF ReplyKeepLock, IInv, TypeInv, TypeOK, StagingOK, StagingAnswersHold, Mounted
<1>11. CASE DeferReleaseLock(c)
  <2>1. Reply(c, "unknown")
    BY <1>11 DEF DeferReleaseLock, Reply
  <2> QED BY <1>11, <2>1, <1>f, ReplyStagingSame
          DEF DeferReleaseLock, ReceiveMountDone
<1>12. CASE BindMount(c)
  <2>1. path[c] \in PublishPaths
    BY <1>12 DEF BindMount, IInv, TypeInv, TypeOK, ControlOK, Ops, EnsurePCs, MountPCs, CleanupPCs
  <2>2. \A p \in Paths : p # path[c] => mounts'[p] = mounts[p]
    BY <1>12 DEF BindMount, IInv, TypeInv, TypeOK
  <2>3. path[c] \notin StagingPaths
    BY <2>1, PathsAssumption
  <2>4. \A p \in Paths : Mounted(p)' => p \in dirs'
    BY <1>12, <2>2, <1>f DEF BindMount, Mounted
  <2>5. /\ Reply(c, "mounted")
        /\ \A d \in Calls : d # c => mountDone'[d] = mountDone[d]
    BY <1>12, <1>r DEF BindMount
  <2> QED BY <2>2, <2>3, <2>4, <2>5, <1>f, ReplyStaging
<1>13. CASE BindFails(c)
  BY <1>13, <1>f, GotoStaging DEF BindFails
<1>14. CASE RemoveTarget(c)
  BY <1>14, <1>f, ReplyStagingSame DEF RemoveTarget
<1>15. CASE CleanupPathMissing(c)
  BY <1>15, <1>f, ReplyStagingSame DEF CleanupPathMissing, CleanupDone
<1>16. CASE CleanupPathExists(c)
  BY <1>16, <1>f, GotoStaging DEF CleanupPathExists
<1>17. CASE CleanupCheck(c)
  <2>1. CASE Goto(c, "umount2") \/ Goto(c, "rmdir")
    BY <1>17, <2>1, <1>f, GotoStaging DEF CleanupCheck
  <2>2. CASE path[c] \notin dirs /\ CleanupDone(c)
    BY <1>17, <2>2, <1>f, ReplyStagingSame DEF CleanupCheck, CleanupDone
  <2> QED BY <1>17, <2>1, <2>2 DEF CleanupCheck
<1>18. CASE CleanupUnmount(c)
  <2>1. /\ UNCHANGED <<path, view, mountDone, dirs>>
        /\ pc[c] \notin MountPCs
        /\ \A d \in Calls : /\ pc'[d] = "probe" => pc[d] = "probe" /\ d # c
    BY <1>18 DEF CleanupUnmount, Goto, IInv, TypeInv, TypeOK, MountPCs
  <2>2. mountDone[c] = "none"
    BY <2>1 DEF IInv, TypeInv, ControlOK
  <2>3. \A d \in Calls : path[d] \in StagingPaths /\ path[d] = path[c] => d = c
    BY StagingExclusive DEF IInv
  <2>4. \A p \in StagingPaths : Len(mounts'[p]) <= 1
    BY <1>18, <1>u DEF CleanupUnmount, IInv, StagingOK
  <2>5. StagingAnswersHold'
    BY <1>18, <1>u, <2>1 DEF CleanupUnmount, IInv, StagingOK, StagingAnswersHold, Mounted
  <2>6. \A p \in Paths : Mounted(p)' => p \in dirs'
    BY <1>18, <1>u, <2>1 DEF CleanupUnmount, Mounted
  <2>7. \A d \in Calls : path'[d] \in StagingPaths =>
          /\ view'[path'[d]] = "unknown"
          /\ pc'[d] = "probe" => Mounted(path[d])'
          /\ mountDone'[d] = "running" => ~Mounted(path[d])'
          /\ mountDone'[d] = "ok" => Mounted(path[d])'
    BY <1>18, <1>u, <2>1, <2>2, <2>3 DEF CleanupUnmount, IInv, StagingOK, Mounted
  <2> QED BY <2>4, <2>5, <2>6, <2>7 DEF StagingOK
<1>19. CASE CleanupNotMounted(c)
  BY <1>19, <1>f, GotoStaging DEF CleanupNotMounted
<1>20. CASE CleanupRemove(c)
  BY <1>20, <1>f, ReplyStagingSame DEF CleanupRemove, CleanupDone
<1> QED BY <1>1, <1>2, <1>3, <1>4, <1>5, <1>6, <1>7, <1>8, <1>9, <1>10, <1>11, <1>12,
           <1>13, <1>14, <1>15, <1>16, <1>17, <1>18, <1>19, <1>20 DEF Handler

(* Accepting a request keeps the invariant of the staging paths. *)
LEMMA RequestStaging ==
  ASSUME IInv, TypeInv', NEW c \in Calls, Request(c)
  PROVE  StagingOK'
<1>1. PICK p \in Paths, o \in Ops, first \in {"prepare", "cleanup", "ensure"} :
        /\ Begin(c, o, p, first)
        /\ p \in StagingPaths => Key(p) \notin locks
  <2>1. ASSUME NEW p \in StagingPaths \cup EphemeralPaths, NodeStageVolume(c, p)
        PROVE  Begin(c, "stage", p, "prepare") /\ Key(p) \notin locks
    BY <2>1 DEF NodeStageVolume, TryAcquire
  <2>2. ASSUME NEW p \in StagingPaths, NodeUnstageVolume(c, p)
        PROVE  Begin(c, "unstage", p, "cleanup") /\ Key(p) \notin locks
    BY <2>2 DEF NodeUnstageVolume, TryAcquire
  <2>3. ASSUME NEW p \in PublishPaths, NodePublishVolume(c, p)
        PROVE  Begin(c, "publish", p, "ensure") /\ p \notin StagingPaths
    BY <2>3, PathsAssumption DEF NodePublishVolume
  <2>4. ASSUME NEW p \in PublishPaths \cup EphemeralPaths, NodeUnpublishVolume(c, p)
        PROVE  Begin(c, "unpublish", p, "cleanup") /\ p \notin StagingPaths
    BY <2>4, PathsAssumption DEF NodeUnpublishVolume
  <2> QED BY <2>1, <2>2, <2>3, <2>4 DEF Request, Ops
<1>2. /\ path' = [path EXCEPT ![c] = p]
      /\ pc' = [pc EXCEPT ![c] = first]
      /\ view' = [view EXCEPT ![p] = "unknown"]
      /\ UNCHANGED <<mountDone, mounts, dirs>>
      /\ pc[c] = "idle"
  BY <1>1 DEF Begin
<1>3. mountDone[c] = "none"
  BY <1>2 DEF IInv, TypeInv, ControlOK, MountPCs
<1>4. \A d \in Calls : /\ path'[d] = IF d = c THEN p ELSE path[d]
                       /\ pc'[d] = IF d = c THEN first ELSE pc[d]
  BY <1>2 DEF IInv, TypeInv, TypeOK
<1>5. \A q \in Paths : view'[q] = IF q = p THEN "unknown" ELSE view[q]
  BY <1>2 DEF IInv, TypeInv, TypeOK
<1>6. \A q \in Paths : Mounted(q)' <=> Mounted(q)
  BY <1>2 DEF Mounted
<1>7. \A d \in Calls : path'[d] \in StagingPaths =>
        /\ view'[path'[d]] = "unknown"
        /\ pc'[d] = "probe" => Mounted(path[d])'
        /\ mountDone'[d] = "running" => ~Mounted(path[d])'
        /\ mountDone'[d] = "ok" => Mounted(path[d])'
  BY <1>1, <1>2, <1>3, <1>4, <1>5 DEF IInv, StagingOK, Mounted
<1>8. StagingAnswersHold'
  BY <1>2, <1>5 DEF IInv, StagingOK, StagingAnswersHold, Mounted
<1> QED BY <1>2, <1>6, <1>7, <1>8 DEF IInv, StagingOK

(* The mount goroutine lands on a staging path only if nothing is mounted  *)
(* there, and while no answer about it stands.                             *)
LEMMA MountStaging ==
  ASSUME IInv, TypeInv', NEW c \in Calls, MountGoroutine(c)
  PROVE  StagingOK'
<1>1. CASE MountFails(c)
  BY <1>1 DEF MountFails, IInv, TypeInv, TypeOK, StagingOK, StagingAnswersHold, Mounted
<1>2. CASE MountLands(c)
  <2>1. /\ path[c] \in Paths /\ pc[c] \in MountPCs
        /\ mountDone[c] = "running" /\ path[c] \in dirs
        /\ UNCHANGED <<pc, path, view, dirs>>
        /\ mounts' = [mounts EXCEPT ![path[c]] = Append(@, "live")]
        /\ mountDone' = [mountDone EXCEPT ![c] = "ok"]
    BY <1>2, PathsAssumption
    DEF MountLands, IInv, TypeInv, TypeOK, ControlOK, MountPCs
  <2>2. \A p \in Paths : p # path[c] => mounts'[p] = mounts[p]
    BY <2>1 DEF IInv, TypeInv, TypeOK
  <2>3. mounts'[path[c]] = Append(mounts[path[c]], "live")
    BY <2>1 DEF IInv, TypeInv, TypeOK
  <2>4. mounts'[path[c]] # <<>> /\ Len(mounts'[path[c]]) = Len(mounts[path[c]]) + 1
    <3>1. mounts[path[c]] \in Seq(Layers)
      BY <2>1 DEF IInv, TypeInv, TypeOK
    <3> QED BY <2>3, <3>1, AppendProperties DEF Layers
  <2>5. path[c] \in StagingPaths => view[path[c]] = "unknown" /\ mounts[path[c]] = <<>>
    BY <2>1 DEF IInv, StagingOK, Mounted
  <2>6. \A p \in StagingPaths : Len(mounts'[p]) <= 1
    BY <2>2, <2>4, <2>5 DEF IInv, StagingOK
  <2>7. \A d \in Calls : path[d] \in StagingPaths /\ d # c => path[d] # path[c]
    BY StagingExclusive DEF IInv
  <2>8. \A d \in Calls : d # c => mountDone'[d] = mountDone[d]
    BY <2>1 DEF IInv, TypeInv, TypeOK
  <2>9. mountDone'[c] = "ok"
    BY <2>1 DEF IInv, TypeInv, TypeOK
  <2>10. \A d \in Calls : path'[d] \in StagingPaths =>
          /\ view'[path'[d]] = "unknown"
          /\ pc'[d] = "probe" => Mounted(path[d])'
          /\ mountDone'[d] = "running" => ~Mounted(path[d])'
          /\ mountDone'[d] = "ok" => Mounted(path[d])'
    BY <2>1, <2>2, <2>4, <2>7, <2>8, <2>9 DEF IInv, StagingOK, Mounted
  <2>11. StagingAnswersHold'
    BY <2>1, <2>2, <2>5 DEF IInv, StagingOK, StagingAnswersHold, Mounted
  <2>12. \A p \in Paths : Mounted(p)' => p \in dirs'
    BY <2>1, <2>2 DEF IInv, StagingOK, Mounted
  <2> QED BY <2>6, <2>10, <2>11, <2>12 DEF StagingOK
<1> QED BY <1>1, <1>2 DEF MountGoroutine

(* A share that fails or recovers stays mounted. *)
LEMMA ServerStaging ==
  ASSUME IInv, NEW p \in Paths, Server(p)
  PROVE  /\ \A q \in Paths : Len(mounts'[q]) = Len(mounts[q]) /\ (Mounted(q)' <=> Mounted(q))
         /\ StagingOK'
<1>0. PICK layer \in Layers : LinkBecomes(p, layer) /\ Mounted(p)
  BY ServerShape
<1>1. mounts' = [mounts EXCEPT ![p] = Append(Beneath(p), layer)]
  BY <1>0 DEF LinkBecomes
<1>2. /\ mounts \in [Paths -> Seq(Layers)] /\ Mounted(p)
      /\ UNCHANGED <<pc, path, mountDone, dirs, view>>
  BY <1>0 DEF LinkBecomes, IInv, TypeInv, TypeOK
<1>3. Beneath(p) \in Seq(Layers) /\ Len(Beneath(p)) = Len(mounts[p]) - 1
  BY <1>2, BeneathType DEF IInv, TypeInv
<1>4. mounts'[p] # <<>> /\ Len(mounts'[p]) = Len(Beneath(p)) + 1
  BY <1>1, <1>2, <1>3, AppendProperties
<1>5. Len(mounts[p]) \in Nat
  BY MountedLen DEF IInv
<1>6. Len(mounts'[p]) = Len(mounts[p])
  BY <1>3, <1>4, <1>5
<1>7. \A q \in Paths : q # p => mounts'[q] = mounts[q]
  BY <1>1, <1>2
<1>8. \A q \in Paths : Len(mounts'[q]) = Len(mounts[q]) /\ (Mounted(q)' <=> Mounted(q))
  BY <1>2, <1>4, <1>6, <1>7 DEF Mounted
<1>9. \A c \in Calls : path'[c] \in StagingPaths =>
        /\ view'[path'[c]] = "unknown"
        /\ pc'[c] = "probe" => Mounted(path[c])'
        /\ mountDone'[c] = "running" => ~Mounted(path[c])'
        /\ mountDone'[c] = "ok" => Mounted(path[c])'
  BY <1>2, <1>4, <1>7 DEF IInv, StagingOK, Mounted
<1>10. StagingAnswersHold'
  BY <1>2, <1>8 DEF IInv, StagingOK, StagingAnswersHold
<1> QED BY <1>2, <1>8, <1>9, <1>10 DEF IInv, StagingOK

(* The inductive invariant is kept by every step. *)
LEMMA InvStep == IInv /\ [Next]_vars => IInv'
<1> SUFFICES ASSUME IInv, [Next]_vars PROVE IInv'
  OBVIOUS
<1>1. TypeInv' /\ LockOwned'
  BY TypeStep, LockStep DEF IInv
<1>2. ASSUME NEW c \in Calls, Abandon(c) PROVE StagingOK'
  BY <1>2 DEF Abandon, IInv, StagingOK, StagingAnswersHold, Mounted
<1>3. ASSUME Crash PROVE StagingOK'
  BY <1>3, PathsAssumption DEF Crash, IInv, StagingOK, StagingAnswersHold, Mounted
<1>4. ASSUME UNCHANGED vars PROVE StagingOK'
  <2>1. UNCHANGED <<pc, path, mountDone, mounts, dirs, view>>
    BY <1>4 DEF vars
  <2> QED BY <2>1 DEF IInv, StagingOK, StagingAnswersHold, Mounted
<1>5. ASSUME NEW c \in Calls, Request(c) \/ Handler(c) \/ MountGoroutine(c)
      PROVE  StagingOK'
  BY <1>1, <1>5, RequestStaging, HandlerStaging, MountStaging
<1>6. ASSUME NEW p \in Paths, Server(p) PROVE StagingOK'
  BY <1>6, ServerStaging
<1>7. StagingOK'
  BY <1>2, <1>3, <1>4, <1>5, <1>6 DEF Next
<1> QED BY <1>1, <1>7 DEF IInv

LEMMA InvInit == Init => IInv
BY TypeCorrectInit, PathsAssumption
DEF Init, NewVolumeLocks, IInv, LockOwned, StagingOK, StagingAnswersHold, Mounted

(* What stage and unstage answered stays true until the next request for   *)
(* the path, with any number of callers that give up and retry, mounts     *)
(* that outlive their timeout, failing shares and restarts.                *)
THEOREM StagingAnswers == Spec => []StagingAnswersHold
<1>1. IInv => StagingAnswersHold
  BY DEF IInv, StagingOK
<1> QED BY <1>1, InvInit, InvStep, PTL DEF Spec

-----------------------------------------------------------------------------
(***************************************************************************)
(* Stage and unstage implement MountContract.                              *)
(***************************************************************************)

(* A handler or mount goroutine changes one path only, and a staging path  *)
(* only while no answer about it stands.                                   *)
LEMMA WorkIsLocal ==
  ASSUME IInv, IInv', NEW c \in Calls, Handler(c) \/ MountGoroutine(c)
  PROVE  /\ path[c] \in Paths
         /\ \A q \in Paths : q # path[c] => view'[q] = view[q] /\ mounts'[q] = mounts[q]
         /\ path[c] \in StagingPaths => view[path[c]] = "unknown"
<1>1. pc[c] # "idle"
  BY HandlerShape DEF MountGoroutine, MountLands, MountFails, IInv, TypeInv, ControlOK, MountPCs
<1>2. path[c] \in Paths
  BY <1>1, StagingFacts
<1>3. path[c] \in StagingPaths => view[path[c]] = "unknown"
  BY DEF IInv, StagingOK
<1>4. \A q \in Paths : q # path[c] => mounts'[q] = mounts[q]
  BY <1>2
  DEF Handler, HandlerFails, StagePrepare, EnsureNotMounted, EnsureMounted, Probe,
      UnmountInvalid, UnmountOpen, WaitMountDone, Timeout, RecheckMountDone,
      ReplyKeepLock, DeferReleaseLock, BindMount, BindFails, RemoveTarget,
      CleanupPathMissing, CleanupPathExists, CleanupCheck, CleanupUnmount,
      CleanupNotMounted, CleanupRemove, Unmount, MountGoroutine, MountLands, MountFails,
      IInv, TypeInv, TypeOK
<1>5. \/ UNCHANGED view
      \/ \E told \in {"unknown", "mounted", "unmounted"} :
           view' = [view EXCEPT ![path[c]] = told]
  BY DEF Handler, HandlerFails, StagePrepare, EnsureNotMounted, EnsureMounted, Probe,
         UnmountInvalid, UnmountOpen, WaitMountDone, Timeout, RecheckMountDone,
         ReplyKeepLock, DeferReleaseLock, BindMount, BindFails, RemoveTarget,
         CleanupPathMissing, CleanupPathExists, CleanupCheck, CleanupUnmount,
         CleanupNotMounted, CleanupRemove, CleanupDone, MountGoroutine, MountLands,
         MountFails, Goto, Reply
<1>6. \A q \in Paths : q # path[c] => view'[q] = view[q]
  BY <1>5 DEF IInv, TypeInv, TypeOK
<1> QED BY <1>2, <1>3, <1>4, <1>6

toldBar == [p \in StagingPaths |-> view[p]]
mountedBar == {p \in StagingPaths : Mounted(p)}

(* Every step maps to a step of the contract or to a stutter. *)
LEMMA ContractStep ==
  IInv /\ IInv' /\ [Next]_vars => [StagingContract!Next]_<<toldBar, mountedBar>>
<1> SUFFICES ASSUME IInv, IInv', [Next]_vars
             PROVE  [StagingContract!Next]_<<toldBar, mountedBar>>
  OBVIOUS
<1>a. ASSUME NEW p \in StagingPaths,
             toldBar' = [toldBar EXCEPT ![p] = "unknown"], mountedBar' = mountedBar
      PROVE  StagingContract!Next
  BY <1>a DEF StagingContract!Next, StagingContract!Ask, toldBar, mountedBar
<1>b. ASSUME NEW p \in StagingPaths, toldBar[p] = "unknown",
             mountedBar' \in {mountedBar, mountedBar \cup {p}, mountedBar \ {p}},
             toldBar' \in {toldBar, [toldBar EXCEPT ![p] = StagingContract!Truth(p, mountedBar')]}
      PROVE  StagingContract!Next
  BY <1>b DEF StagingContract!Next, StagingContract!Serve, toldBar, mountedBar
<1>1. ASSUME NEW c \in Calls, Request(c)
      PROVE  [StagingContract!Next]_<<toldBar, mountedBar>>
  <2>1. PICK p \in Paths : view' = [view EXCEPT ![p] = "unknown"] /\ mounts' = mounts
    BY <1>1 DEF Request, NodeStageVolume, NodeUnstageVolume, NodePublishVolume,
                NodeUnpublishVolume, Begin
  <2>2. mountedBar' = mountedBar
    BY <2>1 DEF mountedBar, Mounted
  <2>3. CASE p \in StagingPaths
    <3>1. toldBar' = [toldBar EXCEPT ![p] = "unknown"]
      BY <2>1, <2>3 DEF toldBar, IInv, TypeInv, TypeOK
    <3> QED BY <1>a, <2>2, <2>3, <3>1
  <2>4. CASE p \notin StagingPaths
    <3>1. toldBar' = toldBar
      BY <2>1, <2>4 DEF toldBar, IInv, TypeInv, TypeOK
    <3> QED BY <2>2, <3>1
  <2> QED BY <2>3, <2>4
<1>2. ASSUME NEW c \in Calls, Handler(c) \/ MountGoroutine(c)
      PROVE  [StagingContract!Next]_<<toldBar, mountedBar>>
  <2>0. PICK p \in Paths : p = path[c]
    BY <1>2, WorkIsLocal
  <2>1. /\ \A q \in Paths : q # p => view'[q] = view[q] /\ mounts'[q] = mounts[q]
        /\ p \in StagingPaths => view[p] = "unknown"
    BY <1>2, <2>0, WorkIsLocal
  <2>2. CASE p \in StagingPaths
    <3>1. mountedBar' \in {mountedBar, mountedBar \cup {p}, mountedBar \ {p}}
      BY <2>1, <2>2 DEF mountedBar, Mounted
    <3>2. /\ p \in mountedBar' <=> Mounted(p)'
          /\ view'[p] \in {"unknown", "mounted", "unmounted"}
          /\ view'[p] = "mounted" => Len(mounts'[p]) = 1
          /\ view'[p] = "unmounted" => ~Mounted(p)'
      BY <2>2 DEF mountedBar, IInv, StagingOK, StagingAnswersHold, TypeInv, TypeOK
    <3>3. view'[p] = "mounted" => Mounted(p)'
      BY <3>2, EmptySeq DEF Mounted
    <3>4. view'[p] \in {"unknown", StagingContract!Truth(p, mountedBar')}
      BY <3>2, <3>3 DEF StagingContract!Truth
    <3>5. toldBar' = [toldBar EXCEPT ![p] = view'[p]]
      BY <2>1, <2>2 DEF toldBar
    <3>6. toldBar[p] = "unknown" /\ toldBar = [toldBar EXCEPT ![p] = "unknown"]
      BY <2>1, <2>2 DEF toldBar
    <3> QED BY <1>b, <2>2, <3>1, <3>4, <3>5, <3>6
  <2>3. CASE p \notin StagingPaths
    BY <2>1, <2>3 DEF toldBar, mountedBar, Mounted
  <2> QED BY <2>2, <2>3
<1>3. ASSUME NEW p \in Paths, Server(p)
      PROVE  UNCHANGED <<toldBar, mountedBar>>
  BY <1>3, ServerStaging, ServerShape DEF toldBar, mountedBar, LinkBecomes
<1>4. ASSUME NEW c \in Calls, Abandon(c) PROVE UNCHANGED <<toldBar, mountedBar>>
  BY <1>4 DEF toldBar, mountedBar, Abandon, Mounted
<1>5. ASSUME Crash PROVE UNCHANGED <<toldBar, mountedBar>>
  BY <1>5 DEF toldBar, mountedBar, Crash, Mounted
<1>6. ASSUME UNCHANGED vars PROVE UNCHANGED <<toldBar, mountedBar>>
  BY <1>6 DEF toldBar, mountedBar, vars, Mounted
<1> QED BY <1>1, <1>2, <1>3, <1>4, <1>5, <1>6 DEF Next

(* Stage and unstage implement the contract of MountContract: a mount      *)
(* appears or goes only between an accepted request and its answer, and    *)
(* answers are true.                                                       *)
THEOREM NodeImplementsContract == Spec => ImplementsContract
<1>1. Init => StagingContract!Init
  BY DEF Init, StagingContract!Init, Mounted
<1>2. IInv /\ IInv' /\ [Next]_vars => [StagingContract!Next]_StagingContract!contractVars
  BY ContractStep DEF toldBar, mountedBar, StagingContract!contractVars
<1> QED BY <1>1, <1>2, InvInit, InvStep, PTL
        DEF Spec, ImplementsContract, StagingContract!Spec
=============================================================================
