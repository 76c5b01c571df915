-------------------------- MODULE ControllerProofs --------------------------
(***************************************************************************)
(* Proofs about ControllerServer, for any number of handlers and volumes,  *)
(* any clones (of clones, too), policies, secrets and subdirectories, and  *)
(* any number of restarts.                                                 *)
(***************************************************************************)
EXTENDS ControllerServer, TLAPS

CopyPCs == {"srcmount", "dstmount", "cp", "copying", "dstumount", "srcumount"}
CreatePCs == {"mount", "mkdir", "umount", "reply"} \cup CopyPCs
RemovePCs == {"cache", "dmount", "rmarchived", "rename", "removeall", "umount"}
DeletePCs == {"setcache", "reply"} \cup RemovePCs

(* Where a handler can be, given the RPC it runs and the volume. *)
ControlOK ==
  \A c \in Calls :
    /\ op[c] = "none" <=> pc[c] = "idle"
    /\ op[c] # "none" => vol[c] \in Vols
    /\ op[c] = "create" => /\ pc[c] \in CreatePCs
                           /\ pc[c] \in CopyPCs => IsClone(vol[c])
    /\ op[c] = "delete" =>
         /\ pc[c] \in DeletePCs
         /\ pc[c] \in RemovePCs => vol[c] \in Secrets /\ PolicyOf(vol[c]) # "retain"
         /\ pc[c] \in {"rmarchived", "rename"} => PolicyOf(vol[c]) = "archive"
         /\ pc[c] = "removeall" => PolicyOf(vol[c]) # "archive"
         /\ pc[c] = "rmarchived" => RemoveArchivedVolumePath

(* No two handlers work on a volume: two of the same RPC are kept apart by *)
(* the lock, a creation and a deletion by the order of the provisioner's   *)
(* calls.  The source of a clone is not touched by a handler of its own.   *)
VolumesOwned ==
  /\ \A c \in Calls :
       /\ op[c] = "create" => /\ <<"name", vol[c]>> \in locks
                              /\ told[vol[c]] = "creating"
                              /\ IsClone(vol[c]) => told[SourceOf[vol[c]]] = "created"
       /\ op[c] = "delete" => <<"id", vol[c]>> \in locks /\ told[vol[c]] = "deleting"
  /\ \A c, d \in Calls : op[c] # "none" /\ op[d] # "none" /\ vol[c] = vol[d] => c = d

(* A handler that works under its internal mount still has it. *)
MountKept == \A c \in Calls : pc[c] \in {"mkdir", "rmarchived", "removeall"} => vol[c] \in mnt

(* What a successful deletion has done to the data of a volume. *)
Disposed(v) ==
  /\ OnDelete[v] = "delete" => share[v] = "absent"
  /\ OnDelete[v] = "archive" => Whole(v, archived)

(* What is on the share of a volume, given what the provisioner was told   *)
(* and what the cache remembers: while it is created nothing but what      *)
(* CreateVolume makes, once it is created all of it, and after that what   *)
(* its policy wants; what is left of data to be archived is all of it.     *)
VolumeTrue(v) ==
  /\ told[v] \in {"none", "creating"} /\ ~IsClone(v) => share[v] \in {"absent", "dir"}
  /\ CreateSubDir(v) \/ IsClone(v) =>
       /\ told[v] = "created" => Whole(v, share)
       /\ OnDelete[v] = "retain" /\ told[v] \in {"deleting", "deleted"} => Whole(v, share)
  /\ v \in volDeletionCache => told[v] \in {"deleting", "deleted"}
  /\ v \in Secrets =>
       /\ told[v] = "deleted" \/ v \in volDeletionCache => Disposed(v)
       /\ OnDelete[v] = "archive" /\ told[v] = "deleting" =>
            share[v] = "absent" \/ Whole(v, share)

(* What a handler has done when it is about to succeed.  A deletion does   *)
(* not touch a volume that the cache remembers.                            *)
CallTrue(c) ==
  /\ /\ op[c] = "create" /\ res[c] = "ok"
     /\ pc[c] \in {"dstumount", "srcumount", "umount", "reply"}
     /\ CreateSubDir(vol[c]) \/ IsClone(vol[c])
     => Whole(vol[c], share)
  /\ op[c] = "delete" =>
       /\ pc[c] \in {"dmount", "rmarchived", "rename", "removeall"} =>
            vol[c] \notin volDeletionCache
       /\ \/ pc[c] = "setcache"
          \/ pc[c] \in {"umount", "reply"} /\ res[c] = "ok"
          => (vol[c] \in Secrets => Disposed(vol[c]))

IInv ==
  /\ TypeOK
  /\ ControlOK
  /\ VolumesOwned
  /\ MountKept
  /\ \A v \in Vols : VolumeTrue(v)
  /\ \A c \in Calls : CallTrue(c)

-----------------------------------------------------------------------------
(* What the volume ID makes of the policies. *)
LEMMA Policy ==
  ASSUME NEW v \in Vols
  PROVE  /\ PolicyOf(v) = "retain" <=> OnDelete[v] = "retain"
         /\ PolicyOf(v) = "archive" <=> OnDelete[v] = "archive"
BY ControllerAssumption DEF PolicyOf, idOnDelete, onDelete, defaultOnDeletePolicy, Policies

(* The source of a clone is a volume. *)
LEMMA CloneSource ==
  ASSUME NEW v \in Vols, IsClone(v)
  PROVE  SourceOf[v] \in Vols
BY ControllerAssumption DEF IsClone

LEMMA InvInit == Init => IInv
<1> SUFFICES ASSUME Init PROVE IInv
  OBVIOUS
<1> USE ControllerAssumption DEF Init, NewVolumeLocks
<1>1. TypeOK
  BY DEF TypeOK, PCs
<1>2. ControlOK /\ VolumesOwned /\ MountKept
  BY DEF ControlOK, VolumesOwned, MountKept, CreatePCs, CopyPCs, RemovePCs, DeletePCs
<1>3. \A v \in Vols : VolumeTrue(v)
  BY DEF VolumeTrue
<1>4. \A c \in Calls : CallTrue(c)
  BY DEF CallTrue
<1> QED BY <1>1, <1>2, <1>3, <1>4 DEF IInv

-----------------------------------------------------------------------------
(* A step of a handler goes on with its request or returns. *)
LEMMA HandlerShape ==
  ASSUME NEW c \in Calls, Handler(c)
  PROVE  /\ pc[c] # "idle"
         /\ \/ \E next \in PCs \ {"idle"}, r \in {"ok", "err"} : Step(c, next, r)
            \/ Reply(c)
<1> USE DEF PCs
<1>1. CASE CreateMount(c) \/ CopyMountSource(c) \/ CopyMountTarget(c) \/ DeleteMount(c)
  BY <1>1 DEF CreateMount, CopyMountSource, CopyMountTarget, DeleteMount, internalMount, AfterCopy
<1>2. CASE CopyUnmountTarget(c) \/ CopyUnmountSource(c) \/ DeferredUnmount(c)
  BY <1>2 DEF CopyUnmountTarget, CopyUnmountSource, DeferredUnmount, internalUnmount, AfterCopy
<1>3. CASE CreateMkdir(c) \/ MkdirFails(c) \/ CopyStart(c) \/ CopyEnd(c)
  BY <1>3 DEF CreateMkdir, MkdirFails, CopyStart, CopyEnd
<1>4. CASE DeleteCheckCache(c) \/ DeleteRemoveArchived(c) \/ DeleteRename(c)
           \/ DeleteRemoveAll(c) \/ DeleteFails(c) \/ DeleteSetCache(c)
  BY <1>4 DEF DeleteCheckCache, DeleteRemoveArchived, DeleteRename, DeleteRemoveAll,
              DeleteFails, DeleteSetCache
<1>5. CASE Reply(c)
  BY <1>5 DEF Reply
<1> QED BY <1>1, <1>2, <1>3, <1>4, <1>5 DEF Handler

(* A handler of v changes the data, the answer and the cache entry of v    *)
(* only, and takes the mounts of v and of the source it is cloned from     *)
(* only.                                                                   *)
LEMMA WorkIsLocal ==
  ASSUME TypeOK, ControlOK, NEW c \in Calls, Handler(c)
  PROVE  /\ vol[c] \in Vols
         /\ \A v \in Vols \ {vol[c]} :
              /\ share'[v] = share[v] /\ archived'[v] = archived[v] /\ told'[v] = told[v]
              /\ v \in volDeletionCache' <=> v \in volDeletionCache
         /\ \A v \in mnt : \/ v \in mnt' \cup {vol[c]}
                           \/ op[c] = "create" /\ IsClone(vol[c]) /\ v = SourceOf[vol[c]]
         /\ mnt' \subseteq Vols /\ late' \subseteq Vols /\ volDeletionCache' \subseteq Vols
         /\ share' \in [Vols -> {"absent", "dir", "partial", "full"}]
         /\ archived' \in [Vols -> {"absent", "dir", "partial", "full"}]
<1>0. vol[c] \in Vols
  BY HandlerShape DEF TypeOK, ControlOK
<1>1. pc[c] \in CopyPCs =>
        op[c] = "create" /\ IsClone(vol[c]) /\ SourceOf[vol[c]] \in Vols
  BY <1>0, CloneSource DEF TypeOK, ControlOK, CopyPCs, CreatePCs, DeletePCs, RemovePCs
<1> USE <1>0 DEF TypeOK, Step
<1>2. CASE CreateMount(c) \/ CopyMountTarget(c) \/ DeleteMount(c)
  BY <1>2 DEF CreateMount, CopyMountTarget, DeleteMount, internalMount, MountOk, MountErr
<1>3. CASE CopyMountSource(c)
  BY <1>1, <1>3 DEF CopyMountSource, internalMount, MountOk, MountErr, CopyPCs
<1>4. CASE CopyUnmountTarget(c) \/ DeferredUnmount(c)
  BY <1>4 DEF CopyUnmountTarget, DeferredUnmount, internalUnmount
<1>5. CASE CopyUnmountSource(c)
  BY <1>1, <1>5 DEF CopyUnmountSource, internalUnmount, CopyPCs
<1>6. CASE CreateMkdir(c) \/ MkdirFails(c) \/ CopyStart(c) \/ CopyEnd(c)
  BY <1>6 DEF CreateMkdir, MkdirFails, CopyStart, CopyEnd
<1>7. CASE DeleteCheckCache(c) \/ DeleteRemoveArchived(c) \/ DeleteSetCache(c)
  BY <1>7 DEF DeleteCheckCache, DeleteRemoveArchived, DeleteSetCache
<1>8. CASE DeleteRename(c) \/ DeleteRemoveAll(c) \/ DeleteFails(c)
  BY <1>8 DEF DeleteRename, DeleteRemoveAll, DeleteFails, RemoveAllFails, shareVars
<1>9. CASE Reply(c)
  BY <1>9 DEF Reply
<1> QED BY <1>2, <1>3, <1>4, <1>5, <1>6, <1>7, <1>8, <1>9 DEF Handler

(* Every step keeps the types. *)
LEMMA TypeStep == TypeOK /\ ControlOK /\ [Next]_vars => TypeOK'
<1> SUFFICES ASSUME TypeOK, ControlOK, [Next]_vars PROVE TypeOK'
  OBVIOUS
<1> USE ControllerAssumption
<1>1. ASSUME NEW c \in Calls, NEW v \in Vols, NEW first \in PCs, NEW kind \in {"name", "id"},
             NEW o \in {"create", "delete"}, NEW asked \in {"creating", "deleting"},
             Begin(c, o, v, first), TryAcquire(<<kind, v>>),
             told' = [told EXCEPT ![v] = asked]
      PROVE  TypeOK'
  BY <1>1 DEF Begin, TryAcquire, TypeOK
<1>2. ASSUME NEW c \in Calls, NEW v \in Vols, CreateVolume(c, v) \/ DeleteVolume(c, v)
      PROVE  TypeOK'
  BY <1>1, <1>2 DEF CreateVolume, DeleteVolume, PCs
<1>3. ASSUME NEW c \in Calls, Handler(c) PROVE TypeOK'
  <2>1. ASSUME NEW next \in PCs, NEW r \in {"ok", "err"}, Step(c, next, r)
        PROVE  TypeOK'
    BY <1>3, <2>1, WorkIsLocal DEF Step, TypeOK
  <2>2. CASE Reply(c)
    BY <1>3, <2>2, WorkIsLocal DEF Reply, Release, TypeOK, PCs
  <2> QED BY <1>3, <2>1, <2>2, HandlerShape
<1>4. ASSUME NEW v \in Vols, LateMountEnds(v) \/ CacheExpires(v) PROVE TypeOK'
  BY <1>4 DEF LateMountEnds, CacheExpires, handlerVars, shareVars, TypeOK
<1>5. CASE Crash
  BY <1>5 DEF Crash, TypeOK, PCs
<1>6. CASE UNCHANGED vars
  BY <1>6 DEF vars, TypeOK
<1> QED BY <1>2, <1>3, <1>4, <1>5, <1>6 DEF Next

(* A step inside an RPC keeps the control structure if it goes to a point  *)
(* that the RPC has for the volume.                                        *)
LEMMA StepControl ==
  ASSUME TypeOK, ControlOK, NEW c \in Calls, NEW next \in PCs \ {"idle"}, NEW r,
         pc[c] # "idle", Step(c, next, r),
         op[c] = "create" => /\ next \in CreatePCs
                             /\ next \in CopyPCs => IsClone(vol[c]),
         op[c] = "delete" =>
           /\ next \in DeletePCs
           /\ next \in RemovePCs => vol[c] \in Secrets /\ PolicyOf(vol[c]) # "retain"
           /\ next \in {"rmarchived", "rename"} => PolicyOf(vol[c]) = "archive"
           /\ next = "removeall" => PolicyOf(vol[c]) # "archive"
           /\ next = "rmarchived" => RemoveArchivedVolumePath
  PROVE  ControlOK'
<1>1. \A d \in Calls : d # c => pc'[d] = pc[d]
  BY DEF Step, TypeOK
<1>2. pc'[c] = next /\ UNCHANGED <<op, vol>>
  BY DEF Step, TypeOK
<1> QED BY <1>1, <1>2 DEF ControlOK

(* Every step keeps the control structure. *)
LEMMA ControlStep == TypeOK /\ ControlOK /\ [Next]_vars => ControlOK'
<1> SUFFICES ASSUME TypeOK, ControlOK, [Next]_vars PROVE ControlOK'
  OBVIOUS
<1>1. ASSUME NEW c \in Calls, NEW v \in Vols, CreateVolume(c, v) PROVE ControlOK'
  BY <1>1 DEF CreateVolume, Begin, TypeOK, ControlOK, CreatePCs, CopyPCs
<1>2. ASSUME NEW c \in Calls, NEW v \in Vols, DeleteVolume(c, v) PROVE ControlOK'
  BY <1>2 DEF DeleteVolume, Begin, TypeOK, ControlOK, DeletePCs, RemovePCs
<1>3. ASSUME NEW c \in Calls, Handler(c) PROVE ControlOK'
  <2>1. /\ op[c] = "create" \/ op[c] = "delete"
        /\ pc[c] # "idle"
        /\ op[c] = "create" => /\ pc[c] \in CreatePCs
                               /\ pc[c] \in CopyPCs => IsClone(vol[c])
        /\ op[c] = "delete" =>
             /\ pc[c] \in DeletePCs
             /\ pc[c] \in RemovePCs => vol[c] \in Secrets /\ PolicyOf(vol[c]) # "retain"
             /\ pc[c] \in {"rmarchived", "rename"} => PolicyOf(vol[c]) = "archive"
    BY <1>3, HandlerShape DEF TypeOK, ControlOK
  <2> USE <2>1 DEF PCs, CreatePCs, CopyPCs, DeletePCs, RemovePCs
  <2>2. CASE CreateMount(c) \/ CopyMountSource(c) \/ CopyMountTarget(c)
    BY <2>2, StepControl
    DEF CreateMount, CopyMountSource, CopyMountTarget, internalMount, AfterCopy
  <2>3. CASE CreateMkdir(c) \/ MkdirFails(c) \/ CopyStart(c) \/ CopyEnd(c)
    BY <2>3, StepControl DEF CreateMkdir, MkdirFails, CopyStart, CopyEnd
  <2>4. CASE CopyUnmountTarget(c) \/ CopyUnmountSource(c) \/ DeferredUnmount(c)
    BY <2>4, StepControl
    DEF CopyUnmountTarget, CopyUnmountSource, DeferredUnmount, internalUnmount, AfterCopy
  <2>5. CASE DeleteCheckCache(c) \/ DeleteSetCache(c)
    BY <2>5, StepControl DEF DeleteCheckCache, DeleteSetCache
  <2>6. CASE DeleteMount(c)
    BY <2>6, StepControl DEF DeleteMount, internalMount
  <2>7. CASE DeleteRemoveArchived(c) \/ DeleteRename(c) \/ DeleteRemoveAll(c) \/ DeleteFails(c)
    BY <2>7, StepControl DEF DeleteRemoveArchived, DeleteRename, DeleteRemoveAll, DeleteFails, RemoveAllFails
  <2>8. CASE Reply(c)
    BY <2>8 DEF Reply, TypeOK, ControlOK
  <2> QED BY <1>3, <2>2, <2>3, <2>4, <2>5, <2>6, <2>7, <2>8 DEF Handler
<1>4. ASSUME NEW v \in Vols, LateMountEnds(v) \/ CacheExpires(v) PROVE ControlOK'
  BY <1>4 DEF LateMountEnds, CacheExpires, handlerVars, ControlOK
<1>5. CASE Crash
  BY <1>5 DEF Crash, ControlOK
<1>6. CASE UNCHANGED vars
  BY <1>6 DEF vars, ControlOK
<1> QED BY <1>1, <1>2, <1>3, <1>4, <1>5, <1>6 DEF Next

(* Handlers stay apart, and sources of clones stay created. *)
LEMMA OwnedStep == TypeOK /\ ControlOK /\ VolumesOwned /\ [Next]_vars => VolumesOwned'
<1> SUFFICES ASSUME TypeOK, ControlOK, VolumesOwned, [Next]_vars PROVE VolumesOwned'
  OBVIOUS
<1>1. ASSUME NEW c \in Calls, NEW v \in Vols, CreateVolume(c, v) PROVE VolumesOwned'
  <2>1. /\ op' = [op EXCEPT ![c] = "create"] /\ vol' = [vol EXCEPT ![c] = v]
        /\ told' = [told EXCEPT ![v] = "creating"] /\ locks' = locks \cup {<<"name", v>>}
        /\ op[c] = "none" /\ told[v] \in {"none", "creating"} /\ <<"name", v>> \notin locks
        /\ IsClone(v) => told[SourceOf[v]] = "created"
    BY <1>1 DEF CreateVolume, Begin, TryAcquire, ControlOK
  <2>2. \A d \in Calls : op[d] # "none" => vol[d] # v
    <3> SUFFICES ASSUME NEW d \in Calls, op[d] # "none", vol[d] = v PROVE FALSE
      OBVIOUS
    <3>1. op[d] = "create" \/ op[d] = "delete"
      BY DEF TypeOK
    <3> QED BY <2>1, <3>1 DEF VolumesOwned
  <2>3. \A d \in Calls : op[d] = "create" /\ IsClone(vol[d]) => SourceOf[vol[d]] # v
    BY <2>1 DEF VolumesOwned
  <2>4. \A d \in Calls : d # c => op'[d] = op[d] /\ vol'[d] = vol[d]
    BY <2>1 DEF TypeOK
  <2>5. op'[c] = "create" /\ vol'[c] = v /\ told'[v] = "creating"
    BY <2>1 DEF TypeOK
  <2>6. \A w : w # v => told'[w] = told[w]
    BY <2>1 DEF TypeOK
  <2> QED BY <2>1, <2>2, <2>3, <2>4, <2>5, <2>6 DEF VolumesOwned, ControlOK
<1>2. ASSUME NEW c \in Calls, NEW v \in Vols, DeleteVolume(c, v) PROVE VolumesOwned'
  <2>1. /\ op' = [op EXCEPT ![c] = "delete"] /\ vol' = [vol EXCEPT ![c] = v]
        /\ told' = [told EXCEPT ![v] = "deleting"] /\ locks' = locks \cup {<<"id", v>>}
        /\ op[c] = "none" /\ told[v] \in {"created", "deleting"} /\ <<"id", v>> \notin locks
        /\ \A w \in Vols : SourceOf[w] = v => told[w] # "creating"
    BY <1>2 DEF DeleteVolume, Begin, TryAcquire, ControlOK
  <2>2. \A d \in Calls : op[d] # "none" => vol[d] # v
    <3> SUFFICES ASSUME NEW d \in Calls, op[d] # "none", vol[d] = v PROVE FALSE
      OBVIOUS
    <3>1. op[d] = "create" \/ op[d] = "delete"
      BY DEF TypeOK
    <3> QED BY <2>1, <3>1 DEF VolumesOwned
  <2>3. \A d \in Calls : op[d] = "create" => SourceOf[vol[d]] # v
    BY <2>1 DEF VolumesOwned, ControlOK
  <2>4. \A d \in Calls : d # c => op'[d] = op[d] /\ vol'[d] = vol[d]
    BY <2>1 DEF TypeOK
  <2>5. op'[c] = "delete" /\ vol'[c] = v /\ told'[v] = "deleting"
    BY <2>1 DEF TypeOK
  <2>6. \A w : w # v => told'[w] = told[w]
    BY <2>1 DEF TypeOK
  <2> QED BY <2>1, <2>2, <2>3, <2>4, <2>5, <2>6 DEF VolumesOwned, ControlOK
<1>3. ASSUME NEW c \in Calls, Handler(c) PROVE VolumesOwned'
  <2>1. ASSUME NEW next, NEW r, Step(c, next, r) PROVE VolumesOwned'
    BY <2>1 DEF Step, VolumesOwned
  <2>2. CASE Reply(c)
    <3>1. vol[c] \in Vols /\ op[c] # "none"
      BY <2>2 DEF Reply, TypeOK, ControlOK
    <3>2. /\ op' = [op EXCEPT ![c] = "none"] /\ vol' = [vol EXCEPT ![c] = NoVol]
          /\ locks' = locks \ {<<IF op[c] = "create" THEN "name" ELSE "id", vol[c]>>}
      BY <2>2 DEF Reply, Release
    <3>3. \A d \in Calls : d # c /\ op[d] # "none" => vol[d] # vol[c]
      BY <3>1 DEF VolumesOwned
    <3>4. \A d \in Calls : op[d] = "create" /\ IsClone(vol[d]) => SourceOf[vol[d]] # vol[c]
      BY <3>1 DEF VolumesOwned, TypeOK
    <3>5. \A w \in Vols : w # vol[c] => told'[w] = told[w]
      BY <1>3, WorkIsLocal
    <3>6. \A d \in Calls : d # c => op'[d] = op[d] /\ vol'[d] = vol[d]
      BY <3>2 DEF TypeOK
    <3>7. op'[c] = "none"
      BY <3>2 DEF TypeOK
    <3> QED BY <3>2, <3>3, <3>4, <3>5, <3>6, <3>7, CloneSource DEF VolumesOwned, ControlOK
  <2> QED BY <1>3, <2>1, <2>2, HandlerShape
<1>4. ASSUME NEW v \in Vols, LateMountEnds(v) \/ CacheExpires(v) PROVE VolumesOwned'
  BY <1>4 DEF LateMountEnds, CacheExpires, handlerVars, VolumesOwned
<1>5. CASE Crash
  BY <1>5 DEF Crash, VolumesOwned
<1>6. CASE UNCHANGED vars
  BY <1>6 DEF vars, VolumesOwned
<1> QED BY <1>1, <1>2, <1>3, <1>4, <1>5, <1>6 DEF Next

(* No other handler unmounts what a handler works under: that of a clone   *)
(* unmounts its source only while the source is created and nobody works   *)
(* on it.                                                                  *)
LEMMA MountStep == IInv /\ [Next]_vars => MountKept'
<1> SUFFICES ASSUME IInv, [Next]_vars PROVE MountKept'
  OBVIOUS
<1>1. ASSUME NEW c \in Calls, NEW v \in Vols, CreateVolume(c, v) \/ DeleteVolume(c, v)
      PROVE  MountKept'
  BY <1>1 DEF CreateVolume, DeleteVolume, Begin, IInv, TypeOK, MountKept
<1>2. ASSUME NEW c \in Calls, Handler(c) PROVE MountKept'
  <2>1. ASSUME NEW d \in Calls, d # c, op[d] # "none", vol[d] \in mnt
        PROVE  vol[d] \in mnt'
    <3>1. op[c] # "none" /\ op[d] \in {"create", "delete"}
      BY <1>2, <2>1, HandlerShape DEF IInv, TypeOK, ControlOK
    <3>2. vol[d] # vol[c]
      BY <2>1, <3>1 DEF IInv, VolumesOwned
    <3>3. op[c] = "create" /\ IsClone(vol[c]) => SourceOf[vol[c]] # vol[d]
      BY <3>1 DEF IInv, VolumesOwned
    <3> QED BY <1>2, <2>1, <3>2, <3>3, WorkIsLocal DEF IInv
  <2>2. \A d \in Calls : d # c => pc'[d] = pc[d] /\ vol'[d] = vol[d]
    <3>1. ASSUME NEW next, NEW r, Step(c, next, r)
          PROVE  \A d \in Calls : d # c => pc'[d] = pc[d] /\ vol'[d] = vol[d]
      BY <3>1 DEF Step, IInv, TypeOK
    <3>2. CASE Reply(c)
      BY <3>2 DEF Reply, IInv, TypeOK
    <3> QED BY <1>2, <3>1, <3>2, HandlerShape
  <2>3. pc'[c] \in {"mkdir", "rmarchived", "removeall"} => vol'[c] \in mnt'
    <3> USE DEF Step, IInv, TypeOK
    <3>1. CASE CreateMount(c) \/ CopyMountSource(c) \/ CopyMountTarget(c) \/ DeleteMount(c)
      BY <3>1 DEF CreateMount, CopyMountSource, CopyMountTarget, DeleteMount, internalMount,
                  MountOk, AfterCopy
    <3>2. CASE CopyUnmountTarget(c) \/ CopyUnmountSource(c) \/ DeferredUnmount(c)
      BY <3>2 DEF CopyUnmountTarget, CopyUnmountSource, DeferredUnmount, internalUnmount, AfterCopy
    <3>3. CASE CreateMkdir(c) \/ MkdirFails(c) \/ CopyStart(c) \/ CopyEnd(c)
      BY <3>3 DEF CreateMkdir, MkdirFails, CopyStart, CopyEnd
    <3>4. CASE DeleteCheckCache(c) \/ DeleteRemoveArchived(c) \/ DeleteRename(c)
               \/ DeleteRemoveAll(c) \/ DeleteFails(c) \/ DeleteSetCache(c)
      BY <3>4 DEF DeleteCheckCache, DeleteRemoveArchived, DeleteRename, DeleteRemoveAll,
                  DeleteFails, DeleteSetCache
    <3>5. CASE Reply(c)
      BY <3>5 DEF Reply
    <3> QED BY <1>2, <3>1, <3>2, <3>3, <3>4, <3>5 DEF Handler
  <2> QED BY <2>1, <2>2, <2>3 DEF IInv, TypeOK, ControlOK, MountKept
<1>3. ASSUME NEW v \in Vols, LateMountEnds(v) \/ CacheExpires(v) PROVE MountKept'
  BY <1>3 DEF LateMountEnds, CacheExpires, handlerVars, IInv, MountKept
<1>4. CASE Crash
  BY <1>4 DEF Crash, MountKept
<1>5. CASE UNCHANGED vars
  BY <1>5 DEF vars, IInv, MountKept
<1> QED BY <1>1, <1>2, <1>3, <1>4, <1>5 DEF Next

-----------------------------------------------------------------------------
(* A step of a handler leaves the other handlers and their volumes alone. *)
LEMMA OthersKept ==
  ASSUME IInv, NEW c \in Calls, Handler(c), NEW d \in Calls, d # c
  PROVE  /\ pc'[d] = pc[d] /\ op'[d] = op[d] /\ vol'[d] = vol[d] /\ res'[d] = res[d]
         /\ op[d] # "none" => vol[d] \in Vols \ {vol[c]}
<1>1. ASSUME NEW next, NEW r, Step(c, next, r)
      PROVE  pc'[d] = pc[d] /\ op'[d] = op[d] /\ vol'[d] = vol[d] /\ res'[d] = res[d]
  BY <1>1 DEF Step, IInv, TypeOK
<1>2. ASSUME Reply(c)
      PROVE  pc'[d] = pc[d] /\ op'[d] = op[d] /\ vol'[d] = vol[d] /\ res'[d] = res[d]
  BY <1>2 DEF Reply, IInv, TypeOK
<1>3. op[c] # "none" /\ (op[d] # "none" => vol[d] \in Vols)
  BY HandlerShape DEF IInv, ControlOK
<1>4. op[d] # "none" => vol[d] # vol[c]
  BY <1>3 DEF IInv, VolumesOwned
<1> QED BY <1>1, <1>2, <1>3, <1>4, HandlerShape

(* What a handler answers, and what it leaves on the share, is true. *)
LEMMA HandlerTrue ==
  ASSUME IInv, NEW c \in Calls, Handler(c), NEW v \in Vols, v = vol[c]
  PROVE  VolumeTrue(v)' /\ CallTrue(c)'
<1>1. VolumeTrue(v) /\ CallTrue(c)
  BY DEF IInv
<1>2. \/ op[c] = "create" /\ told[v] = "creating"
      \/ op[c] = "delete" /\ told[v] = "deleting"
  BY HandlerShape DEF IInv, TypeOK, ControlOK, VolumesOwned
<1>3. /\ op[c] = "create" => /\ pc[c] \in CreatePCs
                             /\ pc[c] \in CopyPCs => IsClone(v)
      /\ op[c] = "delete" =>
           /\ pc[c] \in DeletePCs
           /\ pc[c] \in RemovePCs => v \in Secrets /\ PolicyOf(v) # "retain"
           /\ pc[c] \in {"rmarchived", "rename"} => PolicyOf(v) = "archive"
           /\ pc[c] = "removeall" => PolicyOf(v) # "archive"
  BY DEF IInv, ControlOK
<1>4. pc[c] \in {"mkdir", "rmarchived", "removeall"} => v \in mnt
  BY DEF IInv, MountKept
<1>5. /\ PolicyOf(v) = "retain" <=> OnDelete[v] = "retain"
      /\ PolicyOf(v) = "archive" <=> OnDelete[v] = "archive"
  BY <1>1, Policy
<1>6. /\ pc \in [Calls -> PCs] /\ res \in [Calls -> {"ok", "err"}]
      /\ share \in [Vols -> {"absent", "dir", "partial", "full"}]
      /\ archived \in [Vols -> {"absent", "dir", "partial", "full"}]
      /\ told \in [Vols -> {"none", "creating", "created", "deleting", "deleted"}]
  BY DEF IInv, TypeOK
<1> USE <1>1, <1>2, <1>3, <1>4, <1>5, <1>6
<1> USE DEF PCs, CreatePCs, CopyPCs, DeletePCs, RemovePCs, VolumeTrue, CallTrue, Disposed, Whole
<1>7. CASE CreateMount(c) \/ CopyMountSource(c) \/ CopyMountTarget(c)
  BY <1>7 DEF CreateMount, CopyMountSource, CopyMountTarget, internalMount, Step, AfterCopy
<1>8. CASE CreateMkdir(c) \/ MkdirFails(c)
  BY <1>8 DEF CreateMkdir, MkdirFails, Step
<1>9. CASE CopyStart(c) \/ CopyEnd(c)
  BY <1>9 DEF CopyStart, CopyEnd, Step
<1>10. CASE CopyUnmountTarget(c) \/ CopyUnmountSource(c) \/ DeferredUnmount(c)
  BY <1>10 DEF CopyUnmountTarget, CopyUnmountSource, DeferredUnmount, internalUnmount, Step, AfterCopy
<1>11. CASE DeleteCheckCache(c)
  BY <1>11 DEF DeleteCheckCache, Step
<1>12. CASE DeleteMount(c)
  BY <1>12 DEF DeleteMount, internalMount, Step
<1>13. CASE DeleteRemoveArchived(c)
  BY <1>13 DEF DeleteRemoveArchived, Step
<1>14. CASE DeleteRename(c)
  BY <1>14 DEF DeleteRename, Step, shareVars
<1>15. CASE DeleteRemoveAll(c)
  BY <1>15 DEF DeleteRemoveAll, Step
<1>16. CASE DeleteFails(c)
  BY <1>16 DEF DeleteFails, RemoveAllFails, Step
<1>17. CASE DeleteSetCache(c)
  BY <1>17 DEF DeleteSetCache, Step
<1>18. CASE Reply(c)
  <2>1. /\ pc[c] = "reply"
        /\ told' \in IF res[c] = "ok"
                    THEN {told, [told EXCEPT ![v] = IF op[c] = "create" THEN "created"
                                                                       ELSE "deleted"]}
                    ELSE {told}
        /\ UNCHANGED <<share, archived, volDeletionCache>>
    BY <1>18 DEF Reply
  <2>2. op'[c] = "none"
    BY <1>18 DEF Reply, IInv, TypeOK
  <2>3. CallTrue(c)'
    BY <2>2
  <2>4. VolumeTrue(v)'
    <3>1. \/ told'[v] = told[v]
          \/ /\ res[c] = "ok"
             /\ told'[v] = IF op[c] = "create" THEN "created" ELSE "deleted"
      BY <2>1
    <3> QED BY <2>1, <3>1
  <2> QED BY <2>3, <2>4
<1> QED BY <1>7, <1>8, <1>9, <1>10, <1>11, <1>12, <1>13, <1>14, <1>15, <1>16, <1>17, <1>18 DEF Handler

(* Every step keeps the truth about the share. *)
LEMMA TruthStep ==
  IInv /\ [Next]_vars => /\ \A v \in Vols : VolumeTrue(v)'
                         /\ \A c \in Calls : CallTrue(c)'
<1> DEFINE Truth == /\ \A v \in Vols : VolumeTrue(v)'
                    /\ \A c \in Calls : CallTrue(c)'
<1> SUFFICES ASSUME IInv, [Next]_vars PROVE Truth
  OBVIOUS
<1>0. /\ \A v \in Vols : VolumeTrue(v)
      /\ \A c \in Calls : CallTrue(c)
  BY DEF IInv
<1>1. ASSUME NEW c \in Calls, NEW v \in Vols, CreateVolume(c, v) \/ DeleteVolume(c, v)
      PROVE  Truth
  <2>1. /\ UNCHANGED <<res, share, archived, volDeletionCache>>
        /\ \A d \in Calls : d # c => pc'[d] = pc[d] /\ op'[d] = op[d] /\ vol'[d] = vol[d]
        /\ \A w \in Vols : w # v => told'[w] = told[w]
    BY <1>1 DEF CreateVolume, DeleteVolume, Begin, IInv, TypeOK
  <2>2. VolumeTrue(v)'
    <3>1. CASE told[v] \in {"none", "creating"} /\ told'[v] = "creating"
      BY <1>0, <2>1, <3>1 DEF VolumeTrue, Disposed, Whole
    <3>2. CASE told[v] \in {"created", "deleting"} /\ told'[v] = "deleting"
      BY <1>0, <2>1, <3>2 DEF VolumeTrue, Disposed, Whole, CreateSubDir
    <3> QED BY <1>1, <3>1, <3>2 DEF CreateVolume, DeleteVolume, IInv, TypeOK
  <2>3. CallTrue(c)'
    <3>1. CASE CreateVolume(c, v)
      <4>1. /\ op'[c] = "create" /\ vol'[c] = v
            /\ pc'[c] = "reply" => ~(CreateSubDir(v) \/ IsClone(v))
            /\ pc'[c] \in {"mount", "srcmount", "reply"}
        BY <3>1 DEF CreateVolume, Begin, IInv, TypeOK
      <4> QED BY <4>1 DEF CallTrue
    <3>2. CASE DeleteVolume(c, v)
      <4>1. /\ op'[c] = "delete" /\ vol'[c] = v /\ pc'[c] \in {"cache", "setcache"}
            /\ pc'[c] = "setcache" => v \notin Secrets \/ OnDelete[v] = "retain"
        BY <3>2, Policy DEF DeleteVolume, Begin, IInv, TypeOK
      <4> QED BY <4>1 DEF CallTrue, Disposed
    <3> QED BY <1>1, <3>1, <3>2
  <2>4. ASSUME NEW w \in Vols, w # v PROVE VolumeTrue(w)'
    BY <1>0, <2>1, <2>4 DEF VolumeTrue, Disposed, Whole
  <2>5. ASSUME NEW d \in Calls, d # c PROVE CallTrue(d)'
    BY <1>0, <2>1, <2>5 DEF CallTrue, Disposed, Whole
  <2> QED BY <2>2, <2>3, <2>4, <2>5
<1>2. ASSUME NEW c \in Calls, Handler(c) PROVE Truth
  <2>1. vol[c] \in Vols
    BY <1>2, WorkIsLocal DEF IInv
  <2>2. ASSUME NEW w \in Vols PROVE VolumeTrue(w)'
    <3>1. CASE w = vol[c]
      BY <1>2, <3>1, HandlerTrue
    <3>2. CASE w # vol[c]
      <4>1. /\ share'[w] = share[w] /\ archived'[w] = archived[w] /\ told'[w] = told[w]
            /\ w \in volDeletionCache' <=> w \in volDeletionCache
        BY <1>2, <3>2, WorkIsLocal DEF IInv
      <4> QED BY <1>0, <4>1 DEF VolumeTrue, Disposed, Whole
    <3> QED BY <3>1, <3>2
  <2>3. ASSUME NEW d \in Calls PROVE CallTrue(d)'
    <3>1. CASE d = c
      BY <1>2, <2>1, <3>1, HandlerTrue
    <3>2. CASE d # c
      <4>1. /\ pc'[d] = pc[d] /\ op'[d] = op[d] /\ vol'[d] = vol[d] /\ res'[d] = res[d]
            /\ op[d] # "none" => vol[d] \in Vols \ {vol[c]}
        BY <1>2, <3>2, OthersKept
      <4>2. op[d] # "none" =>
              /\ share'[vol[d]] = share[vol[d]] /\ archived'[vol[d]] = archived[vol[d]]
              /\ vol[d] \in volDeletionCache' <=> vol[d] \in volDeletionCache
        BY <1>2, <4>1, WorkIsLocal DEF IInv
      <4> QED BY <1>0, <4>1, <4>2 DEF CallTrue, Disposed, Whole
    <3> QED BY <3>1, <3>2
  <2> QED BY <2>2, <2>3
<1>3. ASSUME NEW v \in Vols, LateMountEnds(v) PROVE Truth
  BY <1>0, <1>3 DEF LateMountEnds, handlerVars, shareVars, VolumeTrue, CallTrue, Disposed, Whole
<1>4. ASSUME NEW v \in Vols, CacheExpires(v) PROVE Truth
  BY <1>0, <1>4 DEF CacheExpires, handlerVars, shareVars, VolumeTrue, CallTrue, Disposed, Whole
<1>5. CASE Crash
  BY <1>0, <1>5 DEF Crash, VolumeTrue, CallTrue, Disposed, Whole
<1>6. CASE UNCHANGED vars
  BY <1>0, <1>6 DEF vars, VolumeTrue, CallTrue, Disposed, Whole
<1> QED BY <1>1, <1>2, <1>3, <1>4, <1>5, <1>6 DEF Next

LEMMA InvStep == IInv /\ [Next]_vars => IInv'
BY TypeStep, ControlStep, OwnedStep, MountStep, TruthStep DEF IInv

LEMMA Invariant == Spec => []IInv
BY InvInit, InvStep, PTL DEF Spec

-----------------------------------------------------------------------------
(* The handlers, the lock set, the mounts, the share and the cache of the  *)
(* controller service always have their types.                             *)
THEOREM ControllerTypeCorrect == Spec => []TypeOK
<1>1. IInv => TypeOK
  BY DEF IInv
<1> QED BY <1>1, Invariant, PTL

(* A volume CreateVolume reported is on the share with all of its content, *)
(* for any number of concurrent and repeated requests, clones of clones,   *)
(* late mounts, failed copies and restarts.                                *)
THEOREM CreatedVolumes == Spec => []CreatedIsOnShare
<1>1. IInv => CreatedIsOnShare
  BY DEF IInv, VolumeTrue, CreatedIsOnShare
<1> QED BY <1>1, Invariant, PTL

(* A volume with onDelete=delete that DeleteVolume reported has no         *)
(* directory any more, also when the success comes from the deletion cache *)
(* or follows failed attempts and restarts.                                *)
THEOREM DeletedVolumes == Spec => []DeletedIsGone
<1>1. IInv => DeletedIsGone
  BY ControllerAssumption DEF IInv, VolumeTrue, Disposed, DeletedIsGone
<1> QED BY <1>1, Invariant, PTL

(* A volume with onDelete=archive that DeleteVolume reported has all of    *)
(* its data in the archived copy, also when the success comes from the     *)
(* deletion cache or follows failed attempts and restarts.                 *)
THEOREM ArchivedVolumes == Spec => []DeletedIsArchived
<1>1. IInv => DeletedIsArchived
  BY ControllerAssumption DEF IInv, VolumeTrue, Disposed, DeletedIsArchived
<1> QED BY <1>1, Invariant, PTL

(* No request removes or damages the directory of a volume with            *)
(* onDelete=retain once it is created.                                     *)
THEOREM RetainedVolumes == Spec => []RetainedIsKept
<1>1. IInv => RetainedIsKept
  BY DEF IInv, VolumeTrue, RetainedIsKept
<1> QED BY <1>1, Invariant, PTL

-----------------------------------------------------------------------------
(* ArchiveNeverLost fails by DeleteRemoveArchived (see the run             *)
(* controller_archive), and by nothing else.                               *)
LEMMA ArchiveStep ==
  ~RemoveArchivedVolumePath /\ IInv /\ IInv' /\ ArchiveNeverLost /\ [Next]_vars
    => ArchiveNeverLost'
<1> SUFFICES ASSUME ~RemoveArchivedVolumePath, IInv, IInv', ArchiveNeverLost, [Next]_vars,
                    NEW v \in Vols, OnDelete[v] = "archive", CreateSubDir(v),
                    told'[v] \in {"created", "deleting", "deleted"}
             PROVE  Whole(v, share)' \/ Whole(v, archived)'
  BY DEF ArchiveNeverLost
<1>1. CASE told'[v] = "created"
  BY <1>1 DEF IInv, VolumeTrue
<1>2. CASE share'[v] = share[v] /\ archived'[v] = archived[v] /\ told'[v] # "created"
           /\ told[v] \in {"created", "deleting", "deleted"}
  BY <1>2 DEF ArchiveNeverLost, Whole
<1>3. ASSUME NEW c \in Calls, Handler(c), told'[v] # "created"
      PROVE  Whole(v, share)' \/ Whole(v, archived)'
  <2>1. CASE v # vol[c]
    BY <1>2, <1>3, <2>1, WorkIsLocal DEF IInv
  <2>2. CASE v = vol[c]
    <3>1. op[c] \in {"create", "delete"} /\ ControlOK
      BY <1>3, HandlerShape DEF IInv, TypeOK, ControlOK
    <3>2. CASE op[c] = "create"
      <4>1. told[v] = "creating"
        BY <2>2, <3>2 DEF IInv, VolumesOwned
      <4>2. told'[v] \in {"creating", "created"}
        <5>1. ASSUME NEW next, NEW r, Step(c, next, r) PROVE told'[v] = told[v]
          BY <5>1 DEF Step
        <5>2. ASSUME Reply(c) PROVE told'[v] \in {told[v], "created"}
          BY <2>2, <3>2, <5>2 DEF Reply, IInv, TypeOK
        <5> QED BY <1>3, <4>1, <5>1, <5>2, HandlerShape
      <4> QED BY <1>3, <4>2
    <3>3. CASE op[c] = "delete"
      <4>1. told[v] = "deleting" /\ PolicyOf(v) = "archive"
        BY <2>2, <3>3, Policy DEF IInv, VolumesOwned
      <4>2. /\ pc[c] \in DeletePCs
            /\ pc[c] \in RemovePCs => v \in Secrets
            /\ pc[c] \notin {"rmarchived", "removeall"}
        BY <2>2, <3>1, <3>3, <4>1 DEF ControlOK
      <4>3. CASE DeleteRename(c)
        <5>1. v \in Secrets /\ VolumeTrue(v)
          BY <4>2, <4>3 DEF DeleteRename, RemovePCs, IInv
        <5>2. share[v] = "absent" \/ Whole(v, share)
          BY <4>1, <5>1 DEF VolumeTrue
        <5>3. \/ UNCHANGED <<share, archived>>
              \/ share[v] # "absent" /\ archived'[v] = share[v]
          BY <2>2, <4>3 DEF DeleteRename, shareVars, IInv, TypeOK
        <5>4. CASE UNCHANGED <<share, archived>>
          BY <1>2, <1>3, <4>1, <5>4
        <5> QED BY <5>2, <5>3, <5>4 DEF Whole
      <4>4. CASE ~DeleteRename(c)
        <5>1. UNCHANGED <<share, archived>>
          BY <1>3, <4>2, <4>4
          DEF Handler, CreateMount, CreateMkdir, MkdirFails, CopyMountSource, CopyMountTarget,
              CopyStart, CopyEnd, CopyUnmountTarget, CopyUnmountSource, DeleteCheckCache,
              DeleteMount, DeleteRemoveArchived, DeleteRemoveAll, DeleteFails, DeleteSetCache,
              DeferredUnmount, Reply, internalMount, internalUnmount, DeletePCs, RemovePCs
        <5> QED BY <1>2, <1>3, <4>1, <5>1
      <4> QED BY <4>3, <4>4
    <3> QED BY <3>1, <3>2, <3>3
  <2> QED BY <2>1, <2>2
<1>4. ASSUME ~(\E c \in Calls : Handler(c)), told'[v] # "created"
      PROVE  /\ share'[v] = share[v] /\ archived'[v] = archived[v]
             /\ told[v] \in {"created", "deleting", "deleted"}
  <2>1. ASSUME NEW c \in Calls, NEW w \in Vols, CreateVolume(c, w) \/ DeleteVolume(c, w)
        PROVE  /\ share' = share /\ archived' = archived
               /\ told[v] \in {"created", "deleting", "deleted"}
    BY <2>1 DEF CreateVolume, DeleteVolume, Begin, IInv, TypeOK
  <2> QED BY <1>4, <2>1 DEF Next, vars, LateMountEnds, CacheExpires, Crash, shareVars
<1> QED BY <1>1, <1>2, <1>3, <1>4

(* Without --remove-archived-volume-path the data of a volume to be        *)
(* archived is never lost: at every moment all of it is in its directory   *)
(* or in the archived copy, whatever fails and is retried.                 *)
THEOREM ArchiveKept == ~RemoveArchivedVolumePath /\ Spec => []ArchiveNeverLost
<1>1. Init => ArchiveNeverLost
  BY DEF Init, ArchiveNeverLost
<1> DEFINE AInv == ~RemoveArchivedVolumePath /\ IInv /\ ArchiveNeverLost
<1>2. ~RemoveArchivedVolumePath /\ Init => AInv
  BY <1>1, InvInit
<1>3. AInv /\ [Next]_vars => AInv'
  BY ArchiveStep, InvStep
<1>4. AInv => ArchiveNeverLost
  OBVIOUS
<1> QED BY <1>2, <1>3, <1>4, PTL DEF Spec
=============================================================================
