--------------------------- MODULE WindowsProofs ---------------------------
(***************************************************************************)
(* Proofs about WindowsMounters, for any number of handlers, volumes and   *)
(* remote paths, any of the mounters, and any number of restarts.          *)
(***************************************************************************)
EXTENDS WindowsMounters, TLAPS

ProxyPCs == {"lockmap", "increment", "readlink", "lockunmap", "decrement", "count", "unmap"}
HostPCs == {"query", "validate", "drop", "new", "symlink", "readdir", "scan", "remove"}

(* A handler is inside the calls of the driver's mounter. *)
ControlOK ==
  \A c \in Calls :
    /\ pc[c] \in ProxyPCs => mounter = "proxy"
    /\ pc[c] = "map" => mounter \in {"proxy", "plain"}
    /\ pc[c] \in HostPCs => mounter = "host"

(* The lock of a busy handler's volume is taken and no other handler works *)
(* on that volume; kubelet has no answer for it.                           *)
VolumesOwned ==
  /\ \A c \in Calls : pc[c] # "idle" =>
       vol[c] \in locks /\ told[vol[c]] \in {"staging", "unstaging"}
  /\ \A c, d \in Calls : pc[c] # "idle" /\ pc[d] # "idle" /\ vol[c] = vol[d] => c = d

(* With the csi-proxy mounter that counts references, mapping and count    *)
(* are changed under the mutex of the share, which one handler holds.      *)
MutexOwned ==
  /\ \A c \in Calls :
       \/ pc[c] \in {"increment", "decrement", "count", "unmap"}
       \/ pc[c] = "map" /\ mounter = "proxy"
       => c \in mutexes
  /\ \A c \in mutexes : pc[c] # "idle"
  /\ \A c, d \in mutexes : Share(c) = Share(d) => c = d

(* What a handler under the mutex knows of mapping and references. *)
CountUpToDate ==
  /\ mounter = "host" => refs = {}
  /\ \A c \in Calls :
       /\ pc[c] = "increment" => Share(c) \in mapped /\ vol[c] \in links
       /\ pc[c] = "unmap" => References(Share(c)) = {}

(* With csi-proxy a link the mounter sees has a reference, but for the     *)
(* moments between link and reference of its own handler.                  *)
LinksCounted ==
  mounter # "host" =>
    \A v \in links \ (exposed \cup refs) :
      /\ mounter = "proxy"
      /\ \E c \in Calls : vol[c] = v /\ pc[c] \in {"increment", "count", "unmap", "rmdir"}

(* A scan of the host process passes over no link it could see. *)
ScanComplete ==
  \A c \in Calls :
    /\ pc[c] = "scan" => Users(Share(c)) \ rest[c] \subseteq exposed \cup {vol[c]}
    /\ pc[c] = "remove" => Users(Share(c)) \subseteq exposed \cup {vol[c]}

IInv ==
  /\ TypeOK
  /\ ControlOK
  /\ VolumesOwned
  /\ MutexOwned
  /\ CountUpToDate
  /\ LinksCounted
  /\ ScanComplete
  /\ ReferencedIsMapped
  /\ StagedIsMapped

LEMMA InvInit == Init => IInv
BY WindowsAssumption
DEF Init, NewVolumeLocks, IInv, TypeOK, ControlOK, VolumesOwned, MutexOwned, CountUpToDate,
    LinksCounted, ScanComplete, ReferencedIsMapped, StagedIsMapped, PCs, ProxyPCs, HostPCs

-----------------------------------------------------------------------------
(* A step of a handler goes on with its volume or returns, and the         *)
(* mounters' own steps are taken inside the calls of that mounter.         *)
LEMMA HandlerShape ==
  ASSUME TypeOK, NEW c \in Calls, Handler(c)
  PROVE  /\ pc[c] # "idle"
         /\ \/ \E next \in PCs \ {"idle"} : Goto(c, next)
            \/ \E answer \in {"staged", "unstaged"} : Succeed(c, answer)
            \/ Fail(c)
<1> USE DEF PCs, Step
<1>1. CASE StageEnsure(c) \/ StageUnlink(c) \/ StageClear(c) \/ Rmdir(c) \/ CallFails(c)
  BY <1>1, WindowsAssumption
  DEF StageEnsure, StageUnlink, StageClear, Rmdir, CallFails, SMBMountStart, TypeOK
<1>2. CASE CSIProxyStep(c)
  BY <1>2 DEF CSIProxyStep, MountLock, NewSmbGlobalMapping, IncrementReferences,
              UnmountReadlink, UnmountLock, DecrementReferences, CountReferences,
              RemoveSmbGlobalMapping, Lock
<1>3. CASE HostProcessStep(c)
  BY <1>3 DEF HostProcessStep, IsSmbMapped, PathValid, DropInvalidMapping, NewGlobalMapping,
              Symlink, ReadDir, CheckForDuplicateSMBMounts, RemoveGlobalMapping
<1> QED BY <1>1, <1>2, <1>3 DEF Handler

(* Every step keeps the types: the history of exposed links speaks of      *)
(* links that are there.                                                   *)
LEMMA TypeStep == TypeOK /\ VolumesOwned /\ [Next]_vars => TypeOK'
<1> SUFFICES ASSUME TypeOK, VolumesOwned, [Next]_vars PROVE TypeOK'
  OBVIOUS
<1> USE WindowsAssumption DEF TypeOK, PCs, hostVars
<1>1. ASSUME NEW c \in Calls, NEW v \in Volumes, Stage(c, v) \/ Unstage(c, v)
      PROVE  TypeOK'
  BY <1>1 DEF Stage, Unstage, Begin, TryAcquire, SMBUnmountStart
<1>2. ASSUME NEW c \in Calls, Handler(c) PROVE TypeOK'
  <2>0. vol[c] \in Volumes /\ Share(c) \in Shares
    BY <1>2, HandlerShape DEF VolumesOwned, Share
  <2>1. /\ locks' \subseteq Volumes
        /\ mounter' \in Mounters
        /\ pc' \in [Calls -> PCs]
        /\ vol' \in [Calls -> Volumes \cup {NoVol}]
        /\ told' \in [Volumes -> {"staging", "staged", "unstaging", "unstaged"}]
        /\ crashes' \in 0..MaxCrashes
    BY <1>2, <2>0, HandlerShape DEF Goto, Succeed, Fail, Finish, Release
  <2> USE <2>0 DEF Goto, Step, Succeed, Fail, Finish
  <2>2. CASE StageEnsure(c) \/ StageUnlink(c) \/ StageClear(c) \/ Rmdir(c) \/ CallFails(c)
    BY <2>1, <2>2 DEF StageEnsure, StageUnlink, StageClear, Rmdir, CallFails, RemoveLink, HalfDone
  <2>3. CASE CSIProxyStep(c)
    BY <2>1, <2>3
    DEF CSIProxyStep, MountLock, NewSmbGlobalMapping, IncrementReferences, UnmountReadlink,
        UnmountLock, DecrementReferences, CountReferences, RemoveSmbGlobalMapping, Lock
  <2>4. CASE HostProcessStep(c)
    BY <2>1, <2>4
    DEF HostProcessStep, IsSmbMapped, PathValid, DropInvalidMapping, NewGlobalMapping,
        Symlink, ReadDir, CheckForDuplicateSMBMounts, RemoveGlobalMapping, Users
  <2> QED BY <1>2, <2>2, <2>3, <2>4 DEF Handler
<1>3. CASE Crash
  BY <1>3 DEF Crash, NewSafeMounter, HalfDone
<1>4. CASE UNCHANGED vars
  BY <1>4 DEF vars
<1> QED BY <1>1, <1>2, <1>3, <1>4 DEF Next

(* No step takes a handler into the calls of another mounter. *)
LEMMA ControlStep == TypeOK /\ ControlOK /\ [Next]_vars => ControlOK'
<1> SUFFICES ASSUME TypeOK, ControlOK, [Next]_vars PROVE ControlOK'
  OBVIOUS
<1> USE WindowsAssumption DEF TypeOK, ControlOK, PCs, ProxyPCs, HostPCs
<1>1. ASSUME NEW c \in Calls, NEW v \in Volumes, Stage(c, v) \/ Unstage(c, v)
      PROVE  ControlOK'
  BY <1>1 DEF Stage, Unstage, Begin, SMBUnmountStart
<1>2. ASSUME NEW c \in Calls, Handler(c) PROVE ControlOK'
  <2> USE DEF Goto, Step, Succeed, Fail, Finish
  <2>1. CASE StageEnsure(c) \/ StageUnlink(c) \/ StageClear(c) \/ Rmdir(c) \/ CallFails(c)
    BY <2>1 DEF StageEnsure, StageUnlink, StageClear, Rmdir, CallFails, SMBMountStart
  <2>2. CASE CSIProxyStep(c)
    BY <2>2
    DEF CSIProxyStep, MountLock, NewSmbGlobalMapping, IncrementReferences, UnmountReadlink,
        UnmountLock, DecrementReferences, CountReferences, RemoveSmbGlobalMapping, Lock
  <2>3. CASE HostProcessStep(c)
    BY <2>3
    DEF HostProcessStep, IsSmbMapped, PathValid, DropInvalidMapping, NewGlobalMapping,
        Symlink, ReadDir, CheckForDuplicateSMBMounts, RemoveGlobalMapping
  <2> QED BY <1>2, <2>1, <2>2, <2>3 DEF Handler
<1>3. CASE Crash
  BY <1>3 DEF Crash
<1>4. CASE UNCHANGED vars
  BY <1>4 DEF vars
<1> QED BY <1>1, <1>2, <1>3, <1>4 DEF Next

(* Handlers stay apart: a volume's key is taken while its handler runs,    *)
(* and a returning handler frees only the key of its own volume.           *)
LEMMA OwnedStep == TypeOK /\ VolumesOwned /\ [Next]_vars => VolumesOwned'
<1> SUFFICES ASSUME TypeOK, VolumesOwned, [Next]_vars PROVE VolumesOwned'
  OBVIOUS
<1>1. ASSUME NEW c \in Calls, NEW v \in Volumes, Stage(c, v) \/ Unstage(c, v)
      PROVE  VolumesOwned'
  BY <1>1 DEF Stage, Unstage, Begin, TryAcquire, TypeOK, VolumesOwned
<1>2. ASSUME NEW c \in Calls, Handler(c) PROVE VolumesOwned'
  <2>1. ASSUME NEW next, Goto(c, next), pc[c] # "idle" PROVE VolumesOwned'
    BY <2>1 DEF Goto, TypeOK, VolumesOwned
  <2>2. ASSUME Finish(c), pc[c] # "idle",
               UNCHANGED told \/ \E answer : told' = [told EXCEPT ![vol[c]] = answer]
        PROVE  VolumesOwned'
    BY <2>2 DEF Finish, Release, TypeOK, VolumesOwned
  <2> QED BY <1>2, <2>1, <2>2, HandlerShape DEF Succeed, Fail
<1>3. CASE Crash
  BY <1>3 DEF Crash, VolumesOwned
<1>4. CASE UNCHANGED vars
  BY <1>4 DEF vars, VolumesOwned
<1> QED BY <1>1, <1>2, <1>3, <1>4 DEF Next

(* The mutex of a share has one holder, until it returns. *)
LEMMA MutexStep ==
  TypeOK /\ ControlOK /\ VolumesOwned /\ MutexOwned /\ [Next]_vars => MutexOwned'
<1> SUFFICES ASSUME TypeOK, ControlOK, VolumesOwned, MutexOwned, [Next]_vars
             PROVE  MutexOwned'
  OBVIOUS
<1> USE WindowsAssumption DEF TypeOK, MutexOwned, Share
<1>1. ASSUME NEW c \in Calls, NEW v \in Volumes, Stage(c, v) \/ Unstage(c, v)
      PROVE  MutexOwned'
  BY <1>1 DEF Stage, Unstage, Begin, SMBUnmountStart
<1>2. ASSUME NEW c \in Calls, Handler(c) PROVE MutexOwned'
  <2>1. CASE Finish(c)
    BY <2>1 DEF Finish
  <2>2. ASSUME NEW next \in PCs \ {"idle"}, Goto(c, next), UNCHANGED mutexes,
               next \in {"increment", "decrement", "count", "unmap"}
                 \/ (next = "map" /\ mounter = "proxy") => c \in mutexes
        PROVE  MutexOwned'
    BY <2>2 DEF Goto
  <2>3. ASSUME NEW next \in PCs \ {"idle"}, Lock(c, next), pc[c] # "idle"
        PROVE  MutexOwned'
    BY <2>3 DEF Lock, Goto
  <2> USE DEF PCs, Step, Succeed, Fail
  <2>4. CASE StageEnsure(c) \/ StageUnlink(c) \/ StageClear(c) \/ Rmdir(c) \/ CallFails(c)
    BY <2>1, <2>2, <2>4 DEF StageEnsure, StageUnlink, StageClear, Rmdir, CallFails, SMBMountStart
  <2>5. CASE MountLock(c) \/ UnmountLock(c)
    BY <2>3, <2>5 DEF MountLock, UnmountLock
  <2>6. CASE NewSmbGlobalMapping(c) \/ IncrementReferences(c) \/ UnmountReadlink(c)
             \/ DecrementReferences(c) \/ CountReferences(c) \/ RemoveSmbGlobalMapping(c)
    BY <2>1, <2>2, <2>6
    DEF NewSmbGlobalMapping, IncrementReferences, UnmountReadlink, DecrementReferences,
        CountReferences, RemoveSmbGlobalMapping
  <2>7. CASE HostProcessStep(c)
    BY <2>1, <2>2, <2>7
    DEF HostProcessStep, IsSmbMapped, PathValid, DropInvalidMapping, NewGlobalMapping,
        Symlink, ReadDir, CheckForDuplicateSMBMounts, RemoveGlobalMapping
  <2> QED BY <1>2, <2>4, <2>5, <2>6, <2>7 DEF Handler, CSIProxyStep
<1>3. CASE Crash
  BY <1>3 DEF Crash
<1>4. CASE UNCHANGED vars
  BY <1>4 DEF vars
<1> QED BY <1>1, <1>2, <1>3, <1>4 DEF Next

-----------------------------------------------------------------------------
(* The part of the invariant about mappings, links and references. *)
MappingOK ==
  /\ CountUpToDate
  /\ LinksCounted
  /\ ScanComplete
  /\ ReferencedIsMapped
  /\ StagedIsMapped

(* Steps that all mounters have in common: they take at most the link of   *)
(* the handler's own volume, and an answer is given only for a link to a   *)
(* mapped remote path.                                                     *)
LEMMA CommonMapping ==
  ASSUME IInv, NEW c \in Calls,
         \/ StageEnsure(c) \/ StageUnlink(c) \/ StageClear(c) \/ Rmdir(c) \/ CallFails(c)
  PROVE  MappingOK'
<1> USE WindowsAssumption DEF IInv, TypeOK, VolumesOwned, PCs, Goto, Step, Finish, Succeed,
        Fail, Share
<1>1. CASE StageEnsure(c)
  <2> USE <1>1 DEF StageEnsure, SMBMountStart, hostVars
  <2>1. CountUpToDate' /\ ReferencedIsMapped'
    BY DEF CountUpToDate, ReferencedIsMapped, References
  <2>2. LinksCounted'
    BY DEF LinksCounted
  <2>3. ScanComplete'
    BY DEF ScanComplete, Users
  <2>4. vol[c] \in links \ exposed => mounter = "host" \/ vol[c] \in refs
    BY DEF LinksCounted
  <2>5. StagedIsMapped'
    BY <2>4 DEF StagedIsMapped
  <2> QED BY <2>1, <2>2, <2>3, <2>5 DEF MappingOK
<1>2. CASE StageUnlink(c) \/ StageClear(c) \/ Rmdir(c)
  <2> USE <1>2 DEF StageUnlink, StageClear, Rmdir, RemoveLink, SMBMountStart
  <2>1. CountUpToDate' /\ ReferencedIsMapped'
    BY DEF CountUpToDate, ReferencedIsMapped, References
  <2>2. LinksCounted'
    BY DEF LinksCounted
  <2>3. ScanComplete'
    BY DEF ScanComplete, Users
  <2>4. StagedIsMapped'
    BY DEF StagedIsMapped
  <2> QED BY <2>1, <2>2, <2>3, <2>4 DEF MappingOK
<1>3. CASE CallFails(c)
  <2> USE <1>3 DEF CallFails, HalfDone
  <2>1. CountUpToDate' /\ ReferencedIsMapped'
    BY DEF CountUpToDate, ReferencedIsMapped, References
  <2>2. LinksCounted'
    BY DEF LinksCounted
  <2>3. ScanComplete'
    BY DEF ScanComplete, Users
  <2>4. StagedIsMapped'
    BY DEF StagedIsMapped
  <2> QED BY <2>1, <2>2, <2>3, <2>4 DEF MappingOK
<1> QED BY <1>1, <1>2, <1>3

(* Steps of csi-proxy.  Mapping and count of a share are changed only by   *)
(* the holder of its mutex, so the count it took is still the count when   *)
(* it removes the mapping, and the mapping it made is still there when it  *)
(* writes the reference.                                                   *)
LEMMA ProxyMapping ==
  ASSUME IInv, NEW c \in Calls, CSIProxyStep(c)
  PROVE  MappingOK'
<1> USE WindowsAssumption DEF IInv, TypeOK, VolumesOwned, PCs, Goto, Step, Finish, Succeed,
        Fail, Share
<1>1. CASE MountLock(c) \/ UnmountLock(c) \/ UnmountReadlink(c)
  <2> USE <1>1 DEF MountLock, UnmountLock, UnmountReadlink, Lock, hostVars
  <2>1. CountUpToDate' /\ ReferencedIsMapped'
    BY DEF CountUpToDate, ReferencedIsMapped, References
  <2>2. LinksCounted'
    BY DEF LinksCounted
  <2>3. ScanComplete' /\ StagedIsMapped'
    BY DEF ScanComplete, StagedIsMapped, Users
  <2> QED BY <2>1, <2>2, <2>3 DEF MappingOK
<1>2. CASE NewSmbGlobalMapping(c)
  <2> USE <1>2 DEF NewSmbGlobalMapping
  <2>1. CountUpToDate' /\ ReferencedIsMapped'
    BY DEF CountUpToDate, ReferencedIsMapped, References
  <2>2. LinksCounted'
    BY DEF LinksCounted
  <2>3. ScanComplete'
    BY DEF ScanComplete, Users, ControlOK, HostPCs
  <2>4. StagedIsMapped'
    BY DEF StagedIsMapped
  <2> QED BY <2>1, <2>2, <2>3, <2>4 DEF MappingOK
<1>3. CASE IncrementReferences(c)
  <2> USE <1>3 DEF IncrementReferences
  <2>1. Share(c) \in mapped /\ vol[c] \in links
    BY DEF CountUpToDate
  <2>2. \A d \in Calls : pc[d] = "unmap" => Share(d) # Share(c)
    BY DEF MutexOwned
  <2>3. CountUpToDate'
    BY <2>2 DEF CountUpToDate, References, ControlOK, ProxyPCs
  <2>4. LinksCounted'
    BY DEF LinksCounted
  <2>5. ScanComplete'
    BY DEF ScanComplete, Users
  <2>6. ReferencedIsMapped' /\ StagedIsMapped'
    BY <2>1 DEF ReferencedIsMapped, StagedIsMapped
  <2> QED BY <2>3, <2>4, <2>5, <2>6 DEF MappingOK
<1>4. CASE DecrementReferences(c)
  <2> USE <1>4 DEF DecrementReferences
  <2>1. CountUpToDate' /\ ReferencedIsMapped'
    BY DEF CountUpToDate, ReferencedIsMapped, References
  <2>2. LinksCounted'
    BY DEF LinksCounted, ControlOK, ProxyPCs
  <2>3. ScanComplete' /\ StagedIsMapped'
    BY DEF ScanComplete, StagedIsMapped, Users
  <2> QED BY <2>1, <2>2, <2>3 DEF MappingOK
<1>5. CASE CountReferences(c)
  <2> USE <1>5 DEF CountReferences, hostVars
  <2>1. CountUpToDate' /\ ReferencedIsMapped'
    BY DEF CountUpToDate, ReferencedIsMapped, References
  <2>2. LinksCounted'
    BY DEF LinksCounted
  <2>3. ScanComplete' /\ StagedIsMapped'
    BY DEF ScanComplete, StagedIsMapped, Users
  <2> QED BY <2>1, <2>2, <2>3 DEF MappingOK
<1>6. CASE RemoveSmbGlobalMapping(c)
  <2> USE <1>6 DEF RemoveSmbGlobalMapping
  <2>1. \A v \in refs : MappingPath[v] # Share(c)
    BY DEF CountUpToDate, References
  <2>2. \A d \in Calls : pc[d] = "increment" => Share(d) # Share(c)
    BY DEF MutexOwned
  <2>3. CountUpToDate'
    BY <2>2 DEF CountUpToDate, References
  <2>4. LinksCounted'
    BY DEF LinksCounted
  <2>5. ReferencedIsMapped'
    BY <2>1 DEF ReferencedIsMapped
  <2>6. ScanComplete' /\ StagedIsMapped'
    BY <2>1 DEF ScanComplete, StagedIsMapped, Users, ControlOK, ProxyPCs
  <2> QED BY <2>3, <2>4, <2>5, <2>6 DEF MappingOK
<1> QED BY <1>1, <1>2, <1>3, <1>4, <1>5, <1>6 DEF CSIProxyStep

(* Steps of the host process.  A mapping is removed only when every other  *)
(* link to the remote path was passed over or made meanwhile, and a link   *)
(* that is made while an unstage looks for links counts as passed over.    *)
LEMMA HostMapping ==
  ASSUME IInv, NEW c \in Calls, HostProcessStep(c)
  PROVE  MappingOK'
<1> USE WindowsAssumption DEF IInv, TypeOK, VolumesOwned, PCs, Goto, Step, Finish, Succeed,
        Fail, Share
<1>0. mounter = "host" /\ mounter' = "host" /\ refs = {} /\ refs' = {}
  BY DEF HostProcessStep, IsSmbMapped, PathValid, DropInvalidMapping, NewGlobalMapping, Symlink,
         ReadDir, CheckForDuplicateSMBMounts, RemoveGlobalMapping, hostVars, ControlOK, HostPCs,
         CountUpToDate
<1>1. LinksCounted' /\ ReferencedIsMapped'
  BY <1>0 DEF LinksCounted, ReferencedIsMapped
<1>2. \A d \in Calls : pc'[d] \notin {"increment", "unmap"}
  BY ControlStep, <1>0 DEF ControlOK, ProxyPCs, Next, Handler
<1>3. CountUpToDate'
  BY <1>0, <1>2 DEF CountUpToDate
<1>4. ScanComplete' /\ StagedIsMapped'
  <2>1. CASE IsSmbMapped(c) \/ PathValid(c)
    BY <2>1 DEF IsSmbMapped, PathValid, ScanComplete, StagedIsMapped, Users, hostVars
  <2>2. CASE DropInvalidMapping(c)
    BY <2>2 DEF DropInvalidMapping, ScanComplete, StagedIsMapped, Users
  <2>3. CASE NewGlobalMapping(c)
    BY <2>3 DEF NewGlobalMapping, ScanComplete, StagedIsMapped, Users
  <2>4. CASE Symlink(c)
    <3>1. ScanComplete'
      BY <2>4 DEF Symlink, ScanComplete, Users, Unmapping
    <3>2. StagedIsMapped'
      BY <1>0, <2>4 DEF Symlink, StagedIsMapped
    <3> QED BY <3>1, <3>2
  <2>5. CASE ReadDir(c)
    BY <2>5 DEF ReadDir, ScanComplete, StagedIsMapped, Users, hostVars
  <2>6. CASE CheckForDuplicateSMBMounts(c)
    BY <2>6 DEF CheckForDuplicateSMBMounts, ScanComplete, StagedIsMapped, Users
  <2>7. CASE RemoveGlobalMapping(c)
    <3>1. \A v \in links : MappingPath[v] = Share(c) => v \in exposed \cup {vol[c]}
      BY <2>7 DEF RemoveGlobalMapping, ScanComplete, Users
    <3>2. told[vol[c]] # "staged"
      BY <2>7 DEF RemoveGlobalMapping
    <3>3. ScanComplete'
      BY <2>7 DEF RemoveGlobalMapping, ScanComplete, Users
    <3>4. StagedIsMapped'
      BY <1>0, <2>7, <3>1, <3>2 DEF RemoveGlobalMapping, StagedIsMapped
    <3> QED BY <3>3, <3>4
  <2> QED BY <2>1, <2>2, <2>3, <2>4, <2>5, <2>6, <2>7 DEF HostProcessStep
<1> QED BY <1>1, <1>3, <1>4 DEF MappingOK

(* The inductive invariant is kept by every step. *)
LEMMA InvStep == IInv /\ [Next]_vars => IInv'
<1> SUFFICES ASSUME IInv, [Next]_vars PROVE IInv'
  OBVIOUS
<1>1. TypeOK' /\ ControlOK' /\ VolumesOwned' /\ MutexOwned'
  BY TypeStep, ControlStep, OwnedStep, MutexStep DEF IInv
<1>2. ASSUME NEW c \in Calls, NEW v \in Volumes, Stage(c, v) \/ Unstage(c, v)
      PROVE  MappingOK'
  <2> USE <1>2, WindowsAssumption
      DEF Stage, Unstage, Begin, SMBUnmountStart, hostVars, IInv, TypeOK, PCs, Share
  <2>1. CountUpToDate' /\ ReferencedIsMapped'
    BY DEF CountUpToDate, ReferencedIsMapped, References
  <2>2. LinksCounted'
    BY DEF LinksCounted
  <2>3. ScanComplete' /\ StagedIsMapped'
    BY DEF ScanComplete, StagedIsMapped, Users
  <2> QED BY <2>1, <2>2, <2>3 DEF MappingOK
<1>3. ASSUME NEW c \in Calls, Handler(c) PROVE MappingOK'
  BY <1>3, CommonMapping, ProxyMapping, HostMapping DEF Handler
<1>4. ASSUME Crash PROVE MappingOK'
  <2> USE <1>4, WindowsAssumption DEF Crash, IInv, TypeOK
  <2>1. CountUpToDate' /\ ReferencedIsMapped' /\ ScanComplete'
    BY DEF CountUpToDate, ReferencedIsMapped, ScanComplete, NewSafeMounter
  <2>2. mounter # "host" => links \ refs \subseteq exposed'
    BY DEF LinksCounted, HalfDone
  <2>3. LinksCounted'
    BY <2>2 DEF LinksCounted, NewSafeMounter
  <2>4. StagedIsMapped'
    BY DEF StagedIsMapped, NewSafeMounter
  <2> QED BY <2>1, <2>3, <2>4 DEF MappingOK
<1>5. ASSUME UNCHANGED vars PROVE MappingOK'
  BY <1>5 DEF vars, IInv, MappingOK, CountUpToDate, LinksCounted, ScanComplete,
              ReferencedIsMapped, StagedIsMapped, Users, References, Share
<1>6. MappingOK'
  BY <1>2, <1>3, <1>4, <1>5 DEF Next
<1> QED BY <1>1, <1>6 DEF IInv, MappingOK

-----------------------------------------------------------------------------
(* The type invariant of the Windows node, whichever mounter is used. *)
THEOREM WindowsTypeCorrect == Spec => []TypeOK
<1>1. IInv => TypeOK
  BY DEF IInv
<1> QED BY <1>1, InvInit, InvStep, PTL DEF Spec

(* The reference counter is right about the mapping for any number of      *)
(* volumes of a share: RemoveSmbGlobalMapping never takes a mapping that a *)
(* reference file counts on.                                               *)
THEOREM ReferencesKeepMapping == Spec => []ReferencedIsMapped
<1>1. IInv => ReferencedIsMapped
  BY DEF IInv
<1> QED BY <1>1, InvInit, InvStep, PTL DEF Spec

(* A volume kubelet holds for staged keeps its link and its mapping,       *)
(* unless its link is one the mounter could not see; exposed records       *)
(* exactly when that happens.                                              *)
THEOREM StagedKeepsMapping == Spec => []StagedIsMapped
<1>1. IInv => StagedIsMapped
  BY DEF IInv
<1> QED BY <1>1, InvInit, InvStep, PTL DEF Spec

-----------------------------------------------------------------------------
(***************************************************************************)
(* Stage and unstage on Windows implement MountContract.                   *)
(***************************************************************************)
toldBar == [v \in Volumes |-> Promised(v)]

(* A step of a handler changes the link of its own volume only, and an     *)
(* answer says what is there then.                                         *)
LEMMA WorkIsLocal ==
  ASSUME IInv, NEW c \in Calls, Handler(c)
  PROVE  /\ vol[c] \in Volumes
         /\ told[vol[c]] \in {"staging", "unstaging"}
         /\ links' \in {links, links \cup {vol[c]}, links \ {vol[c]}}
         /\ \/ UNCHANGED told
            \/ told' = [told EXCEPT ![vol[c]] = "staged"] /\ vol[c] \in links'
            \/ told' = [told EXCEPT ![vol[c]] = "unstaged"] /\ vol[c] \notin links'
<1>1. vol[c] \in Volumes /\ told[vol[c]] \in {"staging", "unstaging"}
  BY HandlerShape DEF IInv, TypeOK, VolumesOwned
<1>2. ASSUME UNCHANGED links,
             UNCHANGED told \/ (told' = [told EXCEPT ![vol[c]] = "staged"] /\ vol[c] \in links)
      PROVE  /\ links' \in {links, links \cup {vol[c]}, links \ {vol[c]}}
             /\ \/ UNCHANGED told
                \/ told' = [told EXCEPT ![vol[c]] = "staged"] /\ vol[c] \in links'
  BY <1>2
<1> USE DEF Goto, Step, Succeed, Fail, hostVars
<1>3. CASE StageEnsure(c)
  BY <1>1, <1>2, <1>3 DEF StageEnsure
<1>4. CASE StageUnlink(c) \/ StageClear(c) \/ Rmdir(c)
  BY <1>1, <1>4 DEF StageUnlink, StageClear, Rmdir, RemoveLink
<1>5. CASE CallFails(c)
  BY <1>1, <1>2, <1>5 DEF CallFails
<1>6. CASE NewSmbGlobalMapping(c)
  BY <1>1, <1>6 DEF NewSmbGlobalMapping
<1>7. CASE IncrementReferences(c)
  <2>1. vol[c] \in links
    BY <1>7 DEF IncrementReferences, IInv, CountUpToDate
  <2> QED BY <1>1, <1>2, <1>7, <2>1 DEF IncrementReferences
<1>8. CASE MountLock(c) \/ UnmountReadlink(c) \/ UnmountLock(c) \/ DecrementReferences(c)
           \/ CountReferences(c) \/ RemoveSmbGlobalMapping(c)
  BY <1>1, <1>2, <1>8 DEF MountLock, UnmountReadlink, UnmountLock, DecrementReferences,
                          CountReferences, RemoveSmbGlobalMapping, Lock
<1>9. CASE Symlink(c)
  BY <1>1, <1>9 DEF Symlink
<1>10. CASE IsSmbMapped(c) \/ PathValid(c) \/ DropInvalidMapping(c) \/ NewGlobalMapping(c)
            \/ ReadDir(c) \/ CheckForDuplicateSMBMounts(c) \/ RemoveGlobalMapping(c)
  BY <1>1, <1>2, <1>10 DEF IsSmbMapped, PathValid, DropInvalidMapping, NewGlobalMapping,
                           ReadDir, CheckForDuplicateSMBMounts, RemoveGlobalMapping
<1> QED BY <1>3, <1>4, <1>5, <1>6, <1>7, <1>8, <1>9, <1>10, <1>1
        DEF Handler, CSIProxyStep, HostProcessStep

(* Every step maps to a step of the contract or to a stutter. *)
LEMMA ContractStep ==
  IInv /\ [Next]_vars => [WindowsContract!Next]_<<toldBar, links>>
<1> SUFFICES ASSUME IInv, [Next]_vars PROVE [WindowsContract!Next]_<<toldBar, links>>
  OBVIOUS
<1>a. ASSUME NEW v \in Volumes, toldBar' = [toldBar EXCEPT ![v] = "unknown"], UNCHANGED links
      PROVE  WindowsContract!Next
  BY <1>a DEF WindowsContract!Next, WindowsContract!Ask, toldBar
<1>b. ASSUME NEW v \in Volumes, toldBar[v] = "unknown",
             links' \in {links, links \cup {v}, links \ {v}},
             toldBar' \in {toldBar, [toldBar EXCEPT ![v] = WindowsContract!Truth(v, links')]}
      PROVE  WindowsContract!Next
  BY <1>b DEF WindowsContract!Next, WindowsContract!Serve, toldBar
<1>1. ASSUME NEW c \in Calls, NEW v \in Volumes, Stage(c, v) \/ Unstage(c, v)
      PROVE  WindowsContract!Next
  <2>1. toldBar' = [toldBar EXCEPT ![v] = "unknown"] /\ UNCHANGED links
    BY <1>1 DEF Stage, Unstage, Begin, hostVars, toldBar, Promised, IInv, TypeOK
  <2> QED BY <1>a, <2>1
<1>2. ASSUME NEW c \in Calls, Handler(c) PROVE WindowsContract!Next
  <2>1. PICK v \in Volumes : v = vol[c]
    BY <1>2, WorkIsLocal
  <2>2. /\ told[v] \in {"staging", "unstaging"}
        /\ links' \in {links, links \cup {v}, links \ {v}}
        /\ \/ UNCHANGED told
           \/ told' = [told EXCEPT ![v] = "staged"] /\ v \in links'
           \/ told' = [told EXCEPT ![v] = "unstaged"] /\ v \notin links'
    BY <1>2, <2>1, WorkIsLocal
  <2>3. toldBar[v] = "unknown"
    BY <2>2 DEF toldBar, Promised
  <2>4. toldBar' \in {toldBar, [toldBar EXCEPT ![v] = WindowsContract!Truth(v, links')]}
    BY <2>2 DEF toldBar, Promised, WindowsContract!Truth, IInv, TypeOK
  <2> QED BY <1>b, <2>2, <2>3, <2>4
<1>3. CASE Crash
  BY <1>3 DEF Crash, toldBar, Promised
<1>4. CASE UNCHANGED vars
  BY <1>4 DEF vars, toldBar, Promised
<1> QED BY <1>1, <1>2, <1>3, <1>4 DEF Next

(* Stage and unstage on Windows implement the contract of MountContract    *)
(* with links for mounts, whichever mounter is used and however restarts   *)
(* change it: links come and go only between an accepted request and its   *)
(* answer, and answers are true.                                           *)
THEOREM WindowsRefinement == Spec => WindowsImplementsContract
<1>1. Init => WindowsContract!Init
  BY DEF Init, WindowsContract!Init, Promised
<1>2. IInv /\ [Next]_vars => [WindowsContract!Next]_WindowsContract!contractVars
  BY ContractStep DEF toldBar, WindowsContract!contractVars
<1> QED BY <1>1, <1>2, InvInit, InvStep, PTL
        DEF Spec, WindowsImplementsContract, WindowsContract!Spec
=============================================================================
