-------------------------- MODULE ControllerServer --------------------------
(***************************************************************************)
(* The controller service of the SMB CSI driver                            *)
(* (pkg/smb/controllerserver.go): CreateVolume, with clones, and           *)
(* DeleteVolume, run by concurrent gRPC handlers on directories of a       *)
(* share.  Both mount the base share on an internal path of the volume     *)
(* (NodeStageVolume), work under it and unmount it (NodeUnstageVolume).    *)
(*                                                                         *)
(* Stage and unstage are single steps here: that their answers hold is     *)
(* what NodeServerProofs shows.  A volume v stands for its name, its ID    *)
(* and its directory; a request refused by validation or with Aborted is a *)
(* stuttering step.                                                        *)
(***************************************************************************)
EXTENDS VolumeLocks, Naturals

CONSTANTS
  Calls,                    \* handler goroutines
  Vols,                     \* volumes
  NoVol,                    \* the volume of an idle handler; no clone source
  SourceOf,                 \* the volume a volume is cloned from, or NoVol
  OnDelete,                 \* the onDelete parameter of the storage class
  Secrets,                  \* volumes whose requests carry secrets
  SubDirs,                  \* volumes with subDir or guest mount options
  RemoveArchivedVolumePath, \* the flag --remove-archived-volume-path
  MaxCrashes                \* bound: restarts of the driver

Policies == {"", "delete", "retain", "archive"}

ASSUME ControllerAssumption ==
  /\ NoVol \notin Vols
  /\ SourceOf \in [Vols -> Vols \cup {NoVol}]
  /\ OnDelete \in [Vols -> Policies]
  /\ Secrets \subseteq Vols
  /\ SubDirs \subseteq Vols
  /\ RemoveArchivedVolumePath \in BOOLEAN
  /\ MaxCrashes \in Nat

PCs == {"idle", "mount", "mkdir", "srcmount", "dstmount", "cp", "copying",
        "dstumount", "srcumount", "cache", "dmount", "rmarchived", "rename",
        "removeall", "setcache", "umount", "reply"}

VARIABLES
  pc, op, vol,      \* handlers: control point, RPC, volume of the request
  res,              \* handlers: the answer so far
  mnt,              \* volumes whose internal path has the base share mounted
  late,             \* volumes whose internal mount outlived its timeout
  share, archived,  \* the volume's directory and its archived copy on the share
  volDeletionCache, \* volumes deleted in the last minute
  told,             \* what the provisioner knows of each volume
  crashes

vars == <<locks, pc, op, vol, res, mnt, late, share, archived,
          volDeletionCache, told, crashes>>
handlerVars == <<pc, op, vol, res>>
shareVars == <<share, archived>>

(***************************************************************************)
(* Volumes.                                                                *)
(***************************************************************************)

(* NewDriver never assigns driver.defaultOnDeletePolicy: it stays empty    *)
(* whatever the flag says.                                                 *)
defaultOnDeletePolicy == ""

(* Mutant of idOnDelete: the ID carries archive only. *)
idArchiveOnly(v) == IF OnDelete[v] = "archive" THEN "archive" ELSE ""

(* newSMBVolume: the parameter, or the default if it is not given. *)
onDelete(v) == IF OnDelete[v] # "" THEN OnDelete[v] ELSE defaultOnDeletePolicy

(* getVolumeIDFromSmbVol: only retain and archive make it into the ID. *)
idOnDelete(v) == IF onDelete(v) \in {"retain", "archive"} THEN onDelete(v) ELSE ""

(* The policy DeleteVolume finds: getSmbVolFromID, then the default. *)
PolicyOf(v) == IF idOnDelete(v) = "" THEN defaultOnDeletePolicy ELSE idOnDelete(v)

CreateSubDir(v) == v \in Secrets \cup SubDirs
IsClone(v) == SourceOf[v] # NoVol

Init ==
  /\ NewVolumeLocks
  /\ pc = [c \in Calls |-> "idle"]
  /\ op = [c \in Calls |-> "none"]
  /\ vol = [c \in Calls |-> NoVol]
  /\ res = [c \in Calls |-> "ok"]
  /\ mnt = {}
  /\ late = {}
  /\ share = [v \in Vols |-> "absent"]
  /\ archived = [v \in Vols |-> "absent"]
  /\ volDeletionCache = {}
  /\ told = [v \in Vols |-> "none"]
  /\ crashes = 0

-----------------------------------------------------------------------------
(***************************************************************************)
(* Requests, in the order the external provisioner sends them: it creates  *)
(* a volume until that succeeds, clones only volumes it has, deletes none  *)
(* that is being cloned (its clone-protection finalizer), and deletes      *)
(* until that succeeds.  It does not wait for earlier attempts.            *)
(***************************************************************************)
Begin(c, o, v, first) ==
  /\ pc[c] = "idle"
  /\ pc' = [pc EXCEPT ![c] = first]
  /\ op' = [op EXCEPT ![c] = o]
  /\ vol' = [vol EXCEPT ![c] = v]
  /\ UNCHANGED <<res, mnt, late, share, archived, volDeletionCache, crashes>>

CreateVolume(c, v) ==
  /\ told[v] \in {"none", "creating"}
  /\ IsClone(v) => told[SourceOf[v]] = "created"
  /\ TryAcquire(<<"name", v>>)
  /\ Begin(c, "create", v, IF CreateSubDir(v) THEN "mount"
                           ELSE IF IsClone(v) THEN "srcmount" ELSE "reply")
  /\ told' = [told EXCEPT ![v] = "creating"]

DeleteVolume(c, v) ==
  /\ told[v] \in {"created", "deleting"}
  /\ \A w \in Vols : SourceOf[w] = v => told[w] # "creating"
  /\ TryAcquire(<<"id", v>>)
  /\ Begin(c, "delete", v, IF v \in Secrets /\ PolicyOf(v) # "retain"
                           THEN "cache" ELSE "setcache")
  /\ told' = [told EXCEPT ![v] = "deleting"]

(* The handler returns.  Its answer may be lost. *)
Reply(c) ==
  /\ pc[c] = "reply"
  /\ LET v == vol[c]
         done == IF op[c] = "create" THEN "created" ELSE "deleted"
     IN /\ Release(<<IF op[c] = "create" THEN "name" ELSE "id", v>>)
        /\ told' \in IF res[c] = "ok" THEN {told, [told EXCEPT ![v] = done]} ELSE {told}
  /\ pc' = [pc EXCEPT ![c] = "idle"]
  /\ op' = [op EXCEPT ![c] = "none"]
  /\ vol' = [vol EXCEPT ![c] = NoVol]
  /\ res' = [res EXCEPT ![c] = "ok"]
  /\ UNCHANGED <<mnt, late, share, archived, volDeletionCache, crashes>>

-----------------------------------------------------------------------------
(***************************************************************************)
(* internalMount and internalUnmount.                                      *)
(***************************************************************************)
Step(c, next, r) ==
  /\ pc' = [pc EXCEPT ![c] = next]
  /\ res' = [res EXCEPT ![c] = IF @ = "err" THEN "err" ELSE r]
  /\ UNCHANGED <<locks, op, vol, told, crashes>>

(* A running cp has the mounts of its source and its target in use. *)
InUse(v) == \E d \in Calls : pc[d] = "copying" /\ v \in {vol[d], SourceOf[vol[d]]}

(* A mount that is there already is taken as it is. *)
MountOk(v) ==
  /\ v \notin late
  /\ mnt' = mnt \cup {v}
  /\ UNCHANGED late

(* The stage fails, maybe after it unmounted an invalid link, or times out *)
(* with its mount under way.                                               *)
MountErr(v) ==
  \/ UNCHANGED <<mnt, late>>
  \/ v \notin late /\ ~InUse(v) /\ mnt' = mnt \ {v} /\ UNCHANGED late
  \/ v \notin mnt /\ late' = late \cup {v} /\ UNCHANGED mnt

internalMount(c, v, next, failed) ==
  /\ \/ MountOk(v) /\ Step(c, next, "ok")
     \/ MountErr(v) /\ Step(c, failed, "err")
  /\ UNCHANGED <<share, archived, volDeletionCache>>

(* A failed unmount is only logged. *)
internalUnmount(c, v, next) ==
  /\ \/ v \notin late /\ ~InUse(v) /\ mnt' = mnt \ {v}
     \/ UNCHANGED mnt
  /\ Step(c, next, "ok")
  /\ UNCHANGED <<late, share, archived, volDeletionCache>>

(* The mount goroutine of a timed-out stage ends. *)
LateMountEnds(v) ==
  /\ v \in late
  /\ late' = late \ {v}
  /\ mnt' \in {mnt, mnt \cup {v}}
  /\ UNCHANGED <<locks, handlerVars, shareVars, volDeletionCache, told, crashes>>

-----------------------------------------------------------------------------
(***************************************************************************)
(* CreateVolume.                                                           *)
(***************************************************************************)
CreateMount(c) ==
  /\ pc[c] = "mount"
  /\ internalMount(c, vol[c], "mkdir", "reply")

(* Mutant of CreateMkdir: every volume is taken for a clone. *)
CreateMkdirAlwaysCopy(c) ==
  /\ pc[c] = "mkdir"
  /\ share' = IF vol[c] \in mnt /\ share[vol[c]] = "absent"
              THEN [share EXCEPT ![vol[c]] = "dir"] ELSE share
  /\ Step(c, "srcmount", "ok")
  /\ UNCHANGED <<mnt, late, archived, volDeletionCache>>

(* os.MkdirAll under the internal path.  Without the mount it makes a      *)
(* directory of the driver's own file system and succeeds as well.         *)
CreateMkdir(c) ==
  /\ pc[c] = "mkdir"
  /\ LET v == vol[c]
     IN /\ share' = IF v \in mnt /\ share[v] = "absent"
                    THEN [share EXCEPT ![v] = "dir"] ELSE share
        /\ Step(c, IF IsClone(v) THEN "srcmount" ELSE "umount", "ok")
  /\ UNCHANGED <<mnt, late, archived, volDeletionCache>>

MkdirFails(c) ==
  /\ pc[c] = "mkdir"
  /\ Step(c, "umount", "err")
  /\ UNCHANGED <<mnt, late, share, archived, volDeletionCache>>

(* copyFromVolume: where it returns to. *)
AfterCopy(v) == IF CreateSubDir(v) THEN "umount" ELSE "reply"

CopyMountSource(c) ==
  /\ pc[c] = "srcmount"
  /\ internalMount(c, SourceOf[vol[c]], "dstmount", AfterCopy(vol[c]))

CopyMountTarget(c) ==
  /\ pc[c] = "dstmount"
  /\ internalMount(c, vol[c], "cp", "srcumount")

(* cp -a starts: both directories must be there. *)
CopyStart(c) ==
  /\ pc[c] = "cp"
  /\ LET v == vol[c]
         s == SourceOf[v]
     IN IF {v, s} \subseteq mnt /\ share[s] # "absent"
        THEN share' = [share EXCEPT ![v] = "partial"] /\ Step(c, "copying", "ok")
        ELSE UNCHANGED share /\ Step(c, "dstumount", "err")
  /\ UNCHANGED <<mnt, late, archived, volDeletionCache>>

(* Mutant of CopyEnd: the error of cp is ignored. *)
CopyEndIgnoringError(c) ==
  /\ pc[c] = "copying"
  /\ share' \in {share, [share EXCEPT ![vol[c]] = "full"]}
  /\ Step(c, "dstumount", "ok")
  /\ UNCHANGED <<mnt, late, archived, volDeletionCache>>

CopyEnd(c) ==
  /\ pc[c] = "copying"
  /\ \/ share' = [share EXCEPT ![vol[c]] = "full"] /\ Step(c, "dstumount", "ok")
     \/ UNCHANGED share /\ Step(c, "dstumount", "err")
  /\ UNCHANGED <<mnt, late, archived, volDeletionCache>>

CopyUnmountTarget(c) ==
  /\ pc[c] = "dstumount"
  /\ internalUnmount(c, vol[c], "srcumount")

CopyUnmountSource(c) ==
  /\ pc[c] = "srcumount"
  /\ internalUnmount(c, SourceOf[vol[c]], AfterCopy(vol[c]))

-----------------------------------------------------------------------------
(***************************************************************************)
(* DeleteVolume.                                                           *)
(***************************************************************************)
(* Mutant of DeleteCheckCache: the deletion is recorded before it is done. *)
DeleteCacheEarly(c) ==
  /\ pc[c] = "cache"
  /\ Step(c, IF vol[c] \in volDeletionCache THEN "reply" ELSE "dmount", "ok")
  /\ volDeletionCache' = volDeletionCache \cup {vol[c]}
  /\ UNCHANGED <<mnt, late, share, archived>>

DeleteCheckCache(c) ==
  /\ pc[c] = "cache"
  /\ Step(c, IF vol[c] \in volDeletionCache THEN "reply" ELSE "dmount", "ok")
  /\ UNCHANGED <<mnt, late, share, archived, volDeletionCache>>

DeleteMount(c) ==
  /\ pc[c] = "dmount"
  /\ LET next == IF PolicyOf(vol[c]) # "archive" THEN "removeall"
                 ELSE IF RemoveArchivedVolumePath THEN "rmarchived" ELSE "rename"
     IN internalMount(c, vol[c], next, "reply")

(* os.RemoveAll of the archived copy; nothing to remove is a success. *)
DeleteRemoveArchived(c) ==
  /\ pc[c] = "rmarchived"
  /\ archived' = IF vol[c] \in mnt THEN [archived EXCEPT ![vol[c]] = "absent"]
                                   ELSE archived
  /\ Step(c, "rename", "ok")
  /\ UNCHANGED <<mnt, late, share, volDeletionCache>>

(* Mutant of DeleteRename: a directory that is not there counts as archived. *)
DeleteRenameMissingOk(c) ==
  /\ pc[c] = "rename"
  /\ LET v == vol[c]
     IN IF v \in mnt /\ share[v] # "absent" /\ archived[v] = "absent"
        THEN /\ archived' = [archived EXCEPT ![v] = share[v]]
             /\ share' = [share EXCEPT ![v] = "absent"]
        ELSE UNCHANGED shareVars
  /\ Step(c, "setcache", "ok")
  /\ UNCHANGED <<mnt, late, volDeletionCache>>

(* os.Rename fails if the directory is not there or the archived copy is.  *)
DeleteRename(c) ==
  /\ pc[c] = "rename"
  /\ LET v == vol[c]
     IN IF v \in mnt /\ share[v] # "absent" /\ archived[v] = "absent"
        THEN /\ archived' = [archived EXCEPT ![v] = share[v]]
             /\ share' = [share EXCEPT ![v] = "absent"]
             /\ Step(c, "setcache", "ok")
        ELSE Step(c, "umount", "err") /\ UNCHANGED shareVars
  /\ UNCHANGED <<mnt, late, volDeletionCache>>

(* chmod of all files, its errors ignored, and os.RemoveAll. *)
DeleteRemoveAll(c) ==
  /\ pc[c] = "removeall"
  /\ share' = IF vol[c] \in mnt THEN [share EXCEPT ![vol[c]] = "absent"] ELSE share
  /\ Step(c, "setcache", "ok")
  /\ UNCHANGED <<mnt, late, archived, volDeletionCache>>

(* What a RemoveAll that gives up may leave of v's directory in d: all its *)
(* files or some of them.                                                  *)
RemoveAllFails(v, d) ==
  {d} \cup (IF v \in mnt /\ d[v] # "absent" THEN {[d EXCEPT ![v] = "partial"]} ELSE {})

(* RemoveAll of the archived copy or of the directory, or Rename, fails.   *)
DeleteFails(c) ==
  /\ pc[c] \in {"rmarchived", "rename", "removeall"}
  /\ archived' \in IF pc[c] = "rmarchived" THEN RemoveAllFails(vol[c], archived) ELSE {archived}
  /\ share' \in IF pc[c] = "removeall" THEN RemoveAllFails(vol[c], share) ELSE {share}
  /\ Step(c, "umount", "err")
  /\ UNCHANGED <<mnt, late, volDeletionCache>>

(* The deletion is recorded before the deferred unmount runs. *)
DeleteSetCache(c) ==
  /\ pc[c] = "setcache"
  /\ volDeletionCache' = volDeletionCache \cup {vol[c]}
  /\ Step(c, IF vol[c] \in Secrets /\ PolicyOf(vol[c]) # "retain" THEN "umount"
                                                                 ELSE "reply", "ok")
  /\ UNCHANGED <<mnt, late, share, archived>>

(* The deferred unmount of CreateVolume and DeleteVolume. *)
DeferredUnmount(c) ==
  /\ pc[c] = "umount"
  /\ internalUnmount(c, vol[c], "reply")

-----------------------------------------------------------------------------
(* The entry of v is older than a minute. *)
CacheExpires(v) ==
  /\ v \in volDeletionCache
  /\ volDeletionCache' = volDeletionCache \ {v}
  /\ UNCHANGED <<locks, handlerVars, mnt, late, shareVars, told, crashes>>

(* The driver restarts: all its memory is lost, and with its container its *)
(* internal mounts and a running cp.                                       *)
Crash ==
  /\ crashes < MaxCrashes
  /\ crashes' = crashes + 1
  /\ locks' = {}
  /\ pc' = [c \in Calls |-> "idle"]
  /\ op' = [c \in Calls |-> "none"]
  /\ vol' = [c \in Calls |-> NoVol]
  /\ res' = [c \in Calls |-> "ok"]
  /\ mnt' = {}
  /\ late' = {}
  /\ volDeletionCache' = {}
  /\ UNCHANGED <<share, archived, told>>

Handler(c) ==
  \/ CreateMount(c)
  \/ CreateMkdir(c)
  \/ MkdirFails(c)
  \/ CopyMountSource(c)
  \/ CopyMountTarget(c)
  \/ CopyStart(c)
  \/ CopyEnd(c)
  \/ CopyUnmountTarget(c)
  \/ CopyUnmountSource(c)
  \/ DeleteCheckCache(c)
  \/ DeleteMount(c)
  \/ DeleteRemoveArchived(c)
  \/ DeleteRename(c)
  \/ DeleteRemoveAll(c)
  \/ DeleteFails(c)
  \/ DeleteSetCache(c)
  \/ DeferredUnmount(c)
  \/ Reply(c)

Next ==
  \/ \E c \in Calls, v \in Vols : CreateVolume(c, v)
  \/ \E c \in Calls, v \in Vols : DeleteVolume(c, v)
  \/ \E c \in Calls : Handler(c)
  \/ \E v \in Vols : LateMountEnds(v)
  \/ \E v \in Vols : CacheExpires(v)
  \/ Crash

Spec == Init /\ [][Next]_vars

-----------------------------------------------------------------------------
(* Type invariant. *)
TypeOK ==
  /\ locks \subseteq {"name", "id"} \X Vols
  /\ pc \in [Calls -> PCs]
  /\ op \in [Calls -> {"none", "create", "delete"}]
  /\ vol \in [Calls -> Vols \cup {NoVol}]
  /\ res \in [Calls -> {"ok", "err"}]
  /\ mnt \subseteq Vols
  /\ late \subseteq Vols
  /\ share \in [Vols -> {"absent", "dir", "partial", "full"}]
  /\ archived \in [Vols -> {"absent", "dir", "partial", "full"}]
  /\ volDeletionCache \subseteq Vols
  /\ told \in [Vols -> {"none", "creating", "created", "deleting", "deleted"}]
  /\ crashes \in 0..MaxCrashes

(* The content a volume is created with, wherever it lies. *)
Whole(v, place) == place[v] = IF IsClone(v) THEN "full" ELSE "dir"

(* A volume the provisioner was told is created has its directory on the   *)
(* share, never only on the driver's own disk, and a clone all of its      *)
(* source's content: no failed copy, late mount or unmount by another      *)
(* request is ever answered as a success.                                  *)
CreatedIsOnShare ==
  \A v \in Vols : told[v] = "created" /\ (CreateSubDir(v) \/ IsClone(v)) => Whole(v, share)

(* DeleteVolume of a volume with onDelete=delete that succeeds has removed *)
(* the directory of the share, whatever attempts, restarts and cached      *)
(* answers led to it.                                                      *)
DeletedIsGone ==
  \A v \in Secrets : told[v] = "deleted" /\ OnDelete[v] = "delete" => share[v] = "absent"

(* DeleteVolume of a volume with onDelete=archive that succeeds leaves all *)
(* of its data in the archived copy.                                       *)
DeletedIsArchived ==
  \A v \in Secrets : told[v] = "deleted" /\ OnDelete[v] = "archive" => Whole(v, archived)

(* "keep the directory if it's retain": nothing ever removes the directory *)
(* of such a volume once it is created.                                    *)
RetainedIsKept ==
  \A v \in Vols :
    /\ OnDelete[v] = "retain" /\ (CreateSubDir(v) \/ IsClone(v))
    /\ told[v] \in {"created", "deleting", "deleted"}
    => Whole(v, share)

(* "Remove stale archived copy if exists": the copy DeleteVolume removes   *)
(* is a stale one, never the data of the volume it is archiving.  At every *)
(* moment the data is in the directory or in the archived copy.            *)
ArchiveNeverLost ==
  \A v \in Vols :
    /\ OnDelete[v] = "archive" /\ CreateSubDir(v)
    /\ told[v] \in {"created", "deleting", "deleted"}
    => Whole(v, share) \/ Whole(v, archived)
=============================================================================
