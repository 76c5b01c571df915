----------------------------- MODULE NodeServer -----------------------------
(***************************************************************************)
(* The node service of the SMB CSI driver on Linux (pkg/smb/nodeserver.go):*)
(* NodeStageVolume with its mount goroutine, NodeUnstageVolume,            *)
(* NodePublishVolume (bind mounts and ephemeral volumes) and               *)
(* NodeUnpublishVolume, run by concurrent gRPC handlers.                   *)
(*                                                                         *)
(* A handler is a goroutine slot c in Calls with a program counter pc[c].  *)
(* One step of a handler is one call of the code that another goroutine,   *)
(* the kernel or a crash can get in front of.  A request the handler       *)
(* refuses before it changes anything (validation, Aborted) is a           *)
(* stuttering step and has no action.                                      *)
(***************************************************************************)
EXTENDS VolumeLocks, Naturals, Sequences

CONSTANTS
  Calls,               \* handler goroutines
  Volumes,             \* volume IDs
  StagingPaths,        \* staging paths (NodeStage / NodeUnstage)
  PublishPaths,        \* targets of bind mounts (NodePublish / NodeUnpublish)
  EphemeralPaths,      \* targets of ephemeral volumes: publish stages them
  Vol,                 \* the volume ID a path is used with
  Source,              \* the staging path a publish target is bound from
  NoPath,              \* the path of an idle handler
  FailModes,           \* how a mounted share may fail: see Layers
  Abandonable,         \* paths whose caller may stop waiting (kubelet restart)
  SkipMountPointCheck, \* mounter.CanSafelySkipMountPointCheck()
  MaxMounts,           \* bound: mounts stacked on one path
  MaxCrashes           \* bound: restarts of the driver

Paths == StagingPaths \cup PublishPaths \cup EphemeralPaths

ASSUME PathsAssumption ==
  /\ StagingPaths \cap PublishPaths = {}
  /\ StagingPaths \cap EphemeralPaths = {}
  /\ PublishPaths \cap EphemeralPaths = {}
  /\ NoPath \notin Paths
  /\ Vol \in [Paths -> Volumes]
  /\ Source \in [PublishPaths -> StagingPaths]
  /\ Abandonable \subseteq Paths

ASSUME FaultAssumption ==
  /\ FailModes \subseteq {"stat", "open", "read"}
  /\ SkipMountPointCheck \in BOOLEAN
  /\ MaxMounts \in Nat \ {0}
  /\ MaxCrashes \in Nat

(***************************************************************************)
(* What a path may have mounted on it: a "live" share, a bind of the       *)
(* node's own "local" directory (the source was not mounted), or a share   *)
(* whose link is invalid, named after the first call that fails on it:     *)
(* stat, open, or only the read of the opened directory.                   *)
(***************************************************************************)
Layers == {"live", "local"} \cup FailModes

Ops == {"none", "stage", "unstage", "publish", "unpublish"}

PCs == {"idle", "prepare", "ensure", "probe", "unmount", "unmount_fd",
        "wait", "recheck", "late", "bind", "rmtarget",
        "cleanup", "check", "umount", "umount2", "check2", "remove", "rmdir"}

VARIABLES
  pc,        \* control point of each handler
  op,        \* the RPC each handler runs
  path,      \* the path of its request
  mountDone, \* the mount goroutine of the handler and its channel of size 1
  mounts,    \* mounts stacked on each path, the visible one last
  dirs,      \* the paths whose directory exists
  abandoned, \* handlers whose caller does not wait for the answer any more
  view,      \* history: what the caller was last told about each path
  crashes    \* number of driver restarts so far

vars == <<locks, pc, op, path, mountDone, mounts, dirs, abandoned, view, crashes>>

(* Mutant of Key: the parts of the key are swapped. *)
KeySwapped(p) == <<p, Vol[p]>>

(* Handlers of stage and unstage lock <<volume ID, path>>; an ephemeral    *)
(* publish runs as a stage.  Publish and unpublish take no lock.           *)
Key(p) == <<Vol[p], p>>
Locking(c) == op[c] \in {"stage", "unstage"}

Mounted(p) == mounts[p] # <<>>
Top(p) == mounts[p][Len(mounts[p])]
Beneath(p) == SubSeq(mounts[p], 1, Len(mounts[p]) - 1)
Invalid(p) == Mounted(p) /\ Top(p) \in FailModes

Init ==
  /\ NewVolumeLocks
  /\ pc = [c \in Calls |-> "idle"]
  /\ op = [c \in Calls |-> "none"]
  /\ path = [c \in Calls |-> NoPath]
  /\ mountDone = [c \in Calls |-> "none"]
  /\ mounts = [p \in Paths |-> <<>>]
  /\ dirs = {}
  /\ abandoned = {}
  /\ view = [p \in Paths |-> "unmounted"]
  /\ crashes = 0

-----------------------------------------------------------------------------
(***************************************************************************)
(* Requests.  A caller has one request at a time per path, except that it  *)
(* does not wait for a request it abandoned, nor for the background part   *)
(* of a stage that was answered with a timeout.                            *)
(***************************************************************************)
Answered(c) == pc[c] \in {"idle", "late"} \/ c \in abandoned

Begin(c, o, p, first) ==
  /\ pc[c] = "idle"
  /\ \A d \in Calls : path[d] = p => Answered(d)
  /\ pc' = [pc EXCEPT ![c] = first]
  /\ op' = [op EXCEPT ![c] = o]
  /\ path' = [path EXCEPT ![c] = p]
  /\ view' = [view EXCEPT ![p] = "unknown"]
  /\ UNCHANGED <<mountDone, mounts, dirs, abandoned, crashes>>

NodeStageVolume(c, p) ==
  /\ TryAcquire(Key(p))
  /\ Begin(c, "stage", p, "prepare")

(* Mutant of NodeUnstageVolume: it takes no lock, like unpublish. *)
NodeUnstageUnlocked(c, p) ==
  /\ Begin(c, "unstage", p, "cleanup")
  /\ UNCHANGED locks

NodeUnstageVolume(c, p) ==
  /\ TryAcquire(Key(p))
  /\ Begin(c, "unstage", p, "cleanup")

NodePublishVolume(c, p) ==
  /\ Begin(c, "publish", p, "ensure")
  /\ UNCHANGED locks

NodeUnpublishVolume(c, p) ==
  /\ Begin(c, "unpublish", p, "cleanup")
  /\ UNCHANGED locks

Request(c) ==
  \/ \E p \in StagingPaths \cup EphemeralPaths : NodeStageVolume(c, p)
  \/ \E p \in StagingPaths : NodeUnstageVolume(c, p)
  \/ \E p \in PublishPaths : NodePublishVolume(c, p)
  \/ \E p \in PublishPaths \cup EphemeralPaths : NodeUnpublishVolume(c, p)

(* The caller of c stops waiting: the gRPC context is cancelled, and only  *)
(* mountWithTimeout looks at it; the handler runs on.                      *)
Abandon(c) ==
  /\ path[c] \in Abandonable
  /\ ~Answered(c)
  /\ abandoned' = abandoned \cup {c}
  /\ UNCHANGED <<locks, pc, op, path, mountDone, mounts, dirs, view, crashes>>

-----------------------------------------------------------------------------
(***************************************************************************)
(* Steps of a handler.                                                     *)
(***************************************************************************)
Goto(c, next) ==
  /\ pc' = [pc EXCEPT ![c] = next]
  /\ UNCHANGED <<locks, op, path, abandoned, view, crashes>>

(* The handler c is over: its slot is free again and the deferred Release  *)
(* has run.                                                                *)
Finish(c) ==
  /\ pc' = [pc EXCEPT ![c] = "idle"]
  /\ op' = [op EXCEPT ![c] = "none"]
  /\ path' = [path EXCEPT ![c] = NoPath]
  /\ abandoned' = abandoned \ {c}
  /\ IF Locking(c) THEN Release(Key(path[c])) ELSE UNCHANGED locks
  /\ UNCHANGED crashes

(* Return of the handler; told is what the answer says about the path:     *)
(* "unknown" for every error.  The answer may be lost on the way (the      *)
(* driver dies or the connection breaks first), and it does not reach a    *)
(* caller that is gone.                                                    *)
Reply(c, told) ==
  /\ Finish(c)
  /\ \/ view' = view
     \/ c \notin abandoned /\ view' = [view EXCEPT ![path[c]] = told]

(* The secret or the Kerberos cache cannot be had, List, mkdir, umount or  *)
(* rmdir fails, or the source path is invalid: the handler answers an      *)
(* error.                                                                  *)
HandlerFails(c) ==
  /\ pc[c] \in {"prepare", "ensure", "unmount", "cleanup", "check", "check2",
                "umount", "umount2", "remove", "rmdir"}
  /\ Reply(c, "unknown")
  /\ UNCHANGED <<mountDone, mounts, dirs>>

(* NodeStageVolume from the lock to ensureMountPoint.  os.MkdirAll of a    *)
(* mount point whose stat fails ends in the EEXIST of mkdir.               *)
StagePrepare(c) ==
  /\ pc[c] = "prepare"
  /\ IF Mounted(path[c]) /\ Top(path[c]) = "stat"
     THEN Reply(c, "unknown") /\ UNCHANGED dirs
     ELSE Goto(c, "ensure") /\ dirs' = dirs \cup {path[c]}
  /\ UNCHANGED <<mountDone, mounts>>

(* Mutant of EnsureNotMounted: the mount list is not looked at. *)
EnsureUnchecked(c) ==
  /\ pc[c] = "ensure"
  /\ dirs' = dirs \cup {path[c]}
  /\ IF op[c] = "stage"
     THEN Goto(c, "wait") /\ mountDone' = [mountDone EXCEPT ![c] = "running"]
     ELSE Goto(c, "bind") /\ UNCHANGED mountDone
  /\ UNCHANGED mounts

(* ensureMountPoint finds nothing mounted and makes the directory.  Stage  *)
(* then starts the mount goroutine and waits, publish goes on to bind.     *)
EnsureNotMounted(c) ==
  /\ pc[c] = "ensure"
  /\ ~Mounted(path[c])
  /\ dirs' = dirs \cup {path[c]}
  /\ IF op[c] = "stage"
     THEN Goto(c, "wait") /\ mountDone' = [mountDone EXCEPT ![c] = "running"]
     ELSE Goto(c, "bind") /\ UNCHANGED mountDone
  /\ UNCHANGED mounts

(* ensureMountPoint finds a mount, by stat or in the mount list (a mount   *)
(* whose stat fails is a corrupted one).                                   *)
EnsureMounted(c) ==
  /\ pc[c] = "ensure"
  /\ Mounted(path[c])
  /\ Goto(c, "probe")
  /\ UNCHANGED <<mountDone, mounts, dirs>>

(* Mutant of ReadDirOutcome: io.EOF of an empty share counts as an error. *)
ReadDirOutcomeEOF(p) == IF Mounted(p) /\ Top(p) = "read" THEN "unmount_fd" ELSE "unmount"

(* Open and ReadDir(1) of the mount point.  An open that succeeds holds    *)
(* its descriptor until ensureMountPoint returns.                          *)
ReadDirOutcome(p) ==
  IF Mounted(p) THEN CASE Top(p) \in {"stat", "open"} -> "unmount"
                       [] Top(p) = "read"             -> "unmount_fd"
                       [] OTHER                       -> "valid"
                ELSE IF p \in dirs THEN "valid" ELSE "unmount"

Probe(c) ==
  /\ pc[c] = "probe"
  /\ LET outcome == ReadDirOutcome(path[c])
     IN IF outcome = "valid" THEN Reply(c, "mounted") ELSE Goto(c, outcome)
  /\ UNCHANGED <<mountDone, mounts, dirs>>

(* umount(8) of p fails with EBUSY while a handler has the directory open. *)
Busy(p) == \E d \in Calls : pc[d] = "unmount_fd" /\ path[d] = p

Unmount(p) ==
  /\ Mounted(p)
  /\ ~Busy(p)
  /\ mounts' = [mounts EXCEPT ![p] = Beneath(p)]

(* Mutant of UnmountInvalid: the unmount is answered as "already mounted". *)
UnmountInvalidAsMounted(c) ==
  /\ pc[c] = "unmount"
  /\ Unmount(path[c])
  /\ Reply(c, "mounted")
  /\ UNCHANGED <<mountDone, dirs>>

(* Mutant of UnmountInvalid: the invalid link is reported but left alone. *)
UnmountInvalidSkipped(c) ==
  /\ pc[c] = "unmount"
  /\ Reply(c, "unknown")
  /\ UNCHANGED <<mountDone, mounts, dirs>>

(* ensureMountPoint unmounts the link the probe found invalid, whatever it *)
(* is by now.  The error of the probe is returned even when the unmount    *)
(* succeeds.                                                               *)
UnmountInvalid(c) ==
  /\ pc[c] = "unmount"
  /\ Unmount(path[c])
  /\ Reply(c, "unknown")
  /\ UNCHANGED <<mountDone, dirs>>

(* The same with the descriptor of the probe still open: always EBUSY.     *)
UnmountOpen(c) ==
  /\ pc[c] = "unmount_fd"
  /\ Reply(c, "unknown")
  /\ UNCHANGED <<mountDone, mounts, dirs>>

-----------------------------------------------------------------------------
(***************************************************************************)
(* mountWithTimeout: the mount goroutine, the wait for it, the timer, and  *)
(* the goroutine that keeps the lock until a late mount is over.           *)
(***************************************************************************)
MountLands(c) ==
  /\ mountDone[c] = "running"
  /\ path[c] \in dirs
  /\ Len(mounts[path[c]]) < MaxMounts
  /\ mounts' = [mounts EXCEPT ![path[c]] = Append(@, "live")]
  /\ mountDone' = [mountDone EXCEPT ![c] = "ok"]
  /\ UNCHANGED <<locks, pc, op, path, dirs, abandoned, view, crashes>>

MountFails(c) ==
  /\ mountDone[c] = "running"
  /\ mountDone' = [mountDone EXCEPT ![c] = "err"]
  /\ UNCHANGED <<locks, pc, op, path, mounts, dirs, abandoned, view, crashes>>

ReceiveMountDone(c) ==
  /\ mountDone[c] \in {"ok", "err"}
  /\ mountDone' = [mountDone EXCEPT ![c] = "none"]

WaitMountDone(c) ==
  /\ pc[c] = "wait"
  /\ ReceiveMountDone(c)
  /\ Reply(c, IF mountDone[c] = "ok" THEN "mounted" ELSE "unknown")
  /\ UNCHANGED <<mounts, dirs>>

(* The timer fires or the context is done; the select may pick this case   *)
(* although the mount is over as well.                                     *)
Timeout(c) ==
  /\ pc[c] = "wait"
  /\ Goto(c, "recheck")
  /\ UNCHANGED <<mountDone, mounts, dirs>>

(* Mutant of RecheckMountDone: the result is received, yet the lock is     *)
(* left to a background goroutine that waits for it again.                 *)
RecheckKeepsLock(c) ==
  /\ pc[c] = "recheck"
  /\ ReceiveMountDone(c)
  /\ pc' = [pc EXCEPT ![c] = "late"]
  /\ abandoned' = abandoned \ {c}
  /\ UNCHANGED <<locks, op, path, mounts, dirs, view, crashes>>

RecheckMountDone(c) ==
  /\ pc[c] = "recheck"
  /\ ReceiveMountDone(c)
  /\ Reply(c, IF mountDone[c] = "ok" THEN "mounted" ELSE "unknown")
  /\ UNCHANGED <<mounts, dirs>>

(* Mutant of ReplyKeepLock: the lock is released with the answer. *)
ReplyReleaseLock(c) ==
  /\ pc[c] = "recheck"
  /\ mountDone[c] = "running"
  /\ pc' = [pc EXCEPT ![c] = "late"]
  /\ abandoned' = abandoned \ {c}
  /\ Release(Key(path[c]))
  /\ UNCHANGED <<op, path, mountDone, mounts, dirs, view, crashes>>

(* The mount is still running: answer DeadlineExceeded or Canceled and     *)
(* leave the lock to the background goroutine (keepLockHeld).              *)
ReplyKeepLock(c) ==
  /\ pc[c] = "recheck"
  /\ mountDone[c] = "running"
  /\ pc' = [pc EXCEPT ![c] = "late"]
  /\ abandoned' = abandoned \ {c}
  /\ UNCHANGED <<locks, op, path, mountDone, mounts, dirs, view, crashes>>

DeferReleaseLock(c) ==
  /\ pc[c] = "late"
  /\ ReceiveMountDone(c)
  /\ Finish(c)
  /\ UNCHANGED <<mounts, dirs, view>>

-----------------------------------------------------------------------------
(***************************************************************************)
(* NodePublishVolume after ensureMountPoint.                               *)
(***************************************************************************)
BindMount(c) ==
  /\ pc[c] = "bind"
  /\ {path[c], Source[path[c]]} \subseteq dirs
  /\ Len(mounts[path[c]]) < MaxMounts
  /\ LET s == Source[path[c]]
     IN mounts' = [mounts EXCEPT ![path[c]] =
                     Append(@, IF Mounted(s) THEN Top(s) ELSE "local")]
  /\ Reply(c, "mounted")
  /\ UNCHANGED <<mountDone, dirs>>

BindFails(c) ==
  /\ pc[c] = "bind"
  /\ Goto(c, "rmtarget")
  /\ UNCHANGED <<mountDone, mounts, dirs>>

(* os.Remove(target): EBUSY on a mount point.  Both answers are errors.    *)
RemoveTarget(c) ==
  /\ pc[c] = "rmtarget"
  /\ dirs' = IF Mounted(path[c]) THEN dirs ELSE dirs \ {path[c]}
  /\ Reply(c, "unknown")
  /\ UNCHANGED <<mountDone, mounts>>

-----------------------------------------------------------------------------
(***************************************************************************)
(* mount.CleanupMountPoint, the body of unpublish and unstage.  Unstage    *)
(* also deletes the Kerberos cache, which may fail.                        *)
(***************************************************************************)
CleanupDone(c) ==
  \/ Reply(c, "unmounted")
  \/ op[c] = "unstage" /\ Reply(c, "unknown")

CleanupPathMissing(c) ==
  /\ pc[c] = "cleanup"
  /\ path[c] \notin dirs
  /\ CleanupDone(c)
  /\ UNCHANGED <<mountDone, mounts, dirs>>

CleanupPathExists(c) ==
  /\ pc[c] = "cleanup"
  /\ path[c] \in dirs
  /\ LET corrupted == Mounted(path[c]) /\ Top(path[c]) = "stat"
     IN Goto(c, IF corrupted \/ SkipMountPointCheck THEN "umount" ELSE "check")
  /\ UNCHANGED <<mountDone, mounts, dirs>>

(* removePathIfNotMountPoint before and after the unmount: a path that is  *)
(* gone counts as removed; still mounted after the unmount is an error     *)
(* (HandlerFails), and so is a stat that fails.                            *)
CleanupCheck(c) ==
  /\ pc[c] \in {"check", "check2"}
  /\ \/ Mounted(path[c]) /\ Top(path[c]) # "stat" /\ pc[c] = "check" /\ Goto(c, "umount2")
     \/ ~Mounted(path[c]) /\ path[c] \in dirs /\ Goto(c, "rmdir")
     \/ path[c] \notin dirs /\ CleanupDone(c)
  /\ UNCHANGED <<mountDone, mounts, dirs>>

CleanupUnmount(c) ==
  /\ pc[c] \in {"umount", "umount2"}
  /\ Unmount(path[c])
  /\ Goto(c, IF pc[c] = "umount" THEN "remove" ELSE "check2")
  /\ UNCHANGED <<mountDone, dirs>>

(* umount of a path that is not mounted is a success for a mounter that    *)
(* can skip the check, an error (HandlerFails) otherwise.                  *)
CleanupNotMounted(c) ==
  /\ pc[c] = "umount"
  /\ ~Mounted(path[c])
  /\ SkipMountPointCheck
  /\ Goto(c, "remove")
  /\ UNCHANGED <<mountDone, mounts, dirs>>

(* Mutant of CleanupRemove: an os.Remove that fails counts as done. *)
CleanupRemoveIgnoringError(c) ==
  /\ pc[c] \in {"remove", "rmdir"}
  /\ dirs' \in {dirs, IF Mounted(path[c]) THEN dirs ELSE dirs \ {path[c]}}
  /\ CleanupDone(c)
  /\ UNCHANGED <<mountDone, mounts>>

(* os.Remove of the directory.  removePath takes a missing directory for   *)
(* removed, removePathIfNotMountPoint does not; on a mount point it is     *)
(* EBUSY.                                                                  *)
CleanupRemove(c) ==
  /\ pc[c] \in {"remove", "rmdir"}
  /\ ~Mounted(path[c])
  /\ pc[c] = "rmdir" => path[c] \in dirs
  /\ dirs' = dirs \ {path[c]}
  /\ CleanupDone(c)
  /\ UNCHANGED <<mountDone, mounts>>

-----------------------------------------------------------------------------
(***************************************************************************)
(* The environment: a mounted share stops answering, and answers again     *)
(* when CIFS reconnects, at any moment and on each path by itself; the     *)
(* driver restarts (mounts and directories live in the host's kernel, all  *)
(* else is lost).                                                          *)
(***************************************************************************)
LinkBecomes(p, layer) ==
  /\ mounts' = [mounts EXCEPT ![p] = Append(Beneath(p), layer)]
  /\ UNCHANGED <<locks, pc, op, path, mountDone, dirs, abandoned, view, crashes>>

ServerFails(p) ==
  /\ Mounted(p)
  /\ Top(p) = "live"
  /\ \E mode \in FailModes : LinkBecomes(p, mode)

ServerRecovers(p) ==
  /\ Invalid(p)
  /\ LinkBecomes(p, "live")

Server(p) == ServerFails(p) \/ ServerRecovers(p)

Crash ==
  /\ crashes < MaxCrashes
  /\ crashes' = crashes + 1
  /\ locks' = {}
  /\ pc' = [c \in Calls |-> "idle"]
  /\ op' = [c \in Calls |-> "none"]
  /\ path' = [c \in Calls |-> NoPath]
  /\ mountDone' = [c \in Calls |-> "none"]
  /\ abandoned' = {}
  /\ UNCHANGED <<mounts, dirs, view>>

MountGoroutine(c) == MountLands(c) \/ MountFails(c)

Handler(c) ==
  \/ StagePrepare(c)
  \/ EnsureNotMounted(c)
  \/ EnsureMounted(c)
  \/ Probe(c)
  \/ UnmountInvalid(c)
  \/ UnmountOpen(c)
  \/ WaitMountDone(c)
  \/ Timeout(c)
  \/ RecheckMountDone(c)
  \/ ReplyKeepLock(c)
  \/ DeferReleaseLock(c)
  \/ BindMount(c)
  \/ BindFails(c)
  \/ RemoveTarget(c)
  \/ CleanupPathMissing(c)
  \/ CleanupPathExists(c)
  \/ CleanupCheck(c)
  \/ CleanupUnmount(c)
  \/ CleanupNotMounted(c)
  \/ CleanupRemove(c)
  \/ HandlerFails(c)

Next ==
  \/ \E c \in Calls : Request(c)
  \/ \E c \in Calls : Abandon(c)
  \/ \E c \in Calls : Handler(c)
  \/ \E c \in Calls : MountGoroutine(c)
  \/ \E p \in Paths : Server(p)
  \/ Crash

Spec == Init /\ [][Next]_vars

(* Go schedules every runnable goroutine, and a mount command ends at last *)
(* (mount.cifs gives up after the kernel's retries).                       *)
Fairness ==
  \A c \in Calls : WF_vars(Handler(c)) /\ WF_vars(MountGoroutine(c))

(* Kubelet stages the volume again until it succeeds, and no outside fault *)
(* (HandlerFails) strikes every one of these attempts at the same place.   *)
RetryFairness ==
  \A p \in StagingPaths :
    /\ SF_vars(\E c \in Calls : NodeStageVolume(c, p))
    /\ SF_vars(\E c \in Calls : path[c] = p /\ StagePrepare(c))
    /\ SF_vars(\E c \in Calls : path[c] = p /\ EnsureMounted(c))
    /\ SF_vars(\E c \in Calls : path[c] = p /\ UnmountInvalid(c))

RetrySpec == Spec /\ Fairness /\ RetryFairness

-----------------------------------------------------------------------------
(* Type invariant. *)
TypeOK ==
  /\ locks \subseteq Volumes \X Paths
  /\ pc \in [Calls -> PCs]
  /\ op \in [Calls -> Ops]
  /\ path \in [Calls -> Paths \cup {NoPath}]
  /\ mountDone \in [Calls -> {"none", "running", "ok", "err"}]
  /\ mounts \in [Paths -> Seq(Layers)]
  /\ dirs \subseteq Paths
  /\ abandoned \subseteq Calls
  /\ view \in [Paths -> {"unknown", "mounted", "unmounted"}]
  /\ crashes \in 0..MaxCrashes

(* The lock table records no owner, so nothing in it stops one handler     *)
(* from releasing the key of another.  Yet a key is in the table exactly   *)
(* as long as one stage or unstage of that path is running, the background *)
(* part of a timed-out stage included, and never two of them run.          *)
LockOwned ==
  /\ \A c \in Calls : Locking(c) => Key(path[c]) \in locks
  /\ \A key \in locks : \E c \in Calls : Locking(c) /\ Key(path[c]) = key
  /\ \A c, d \in Calls : Locking(c) /\ Locking(d) /\ path[c] = path[d] => c = d

(* An answer of stage or unstage stays true until the next request for the *)
(* path: "staged" means exactly one mount, "unstaged" none, and no mount   *)
(* goroutine left over from a timed-out stage can land later, whatever     *)
(* callers gave up, retried or raced in between.                           *)
StagingAnswersHold ==
  \A p \in StagingPaths :
    /\ view[p] = "mounted" => Len(mounts[p]) = 1
    /\ view[p] = "unmounted" => ~Mounted(p)

(* The same for targets of pods, although publish and unpublish take no    *)
(* lock: a target is mounted once after a publish, and after an unpublish  *)
(* nothing is mounted, not even by the late mount of an ephemeral volume   *)
(* whose publish timed out.                                                *)
TargetAnswersHold ==
  \A p \in PublishPaths \cup EphemeralPaths :
    /\ view[p] = "mounted" => Len(mounts[p]) = 1
    /\ view[p] = "unmounted" => ~Mounted(p)

(* No path ever carries two mounts: retries of a stage whose mount is      *)
(* still under way never stack a second one on it.                         *)
MountedOnce == \A p \in Paths : Len(mounts[p]) <= 1

(* No lock is leaked: whatever error, timeout or cancellation ends a stage *)
(* or unstage, its key leaves the table.                                   *)
LockReleased ==
  \A p \in StagingPaths \cup EphemeralPaths : Key(p) \in locks ~> Key(p) \notin locks

(* "mount link is invalid, now unmount and remount later": when the link   *)
(* of a staged volume goes bad and does not recover by itself, retries of  *)
(* the stage get rid of it.                                                *)
InvalidLinkUnmounted ==
  \A p \in StagingPaths : Invalid(p) ~> ~Invalid(p)

(***************************************************************************)
(* The contract of staging, see MountContract.                             *)
(***************************************************************************)
StagingContract ==
  INSTANCE MountContract WITH
    Places  <- StagingPaths,
    told    <- [p \in StagingPaths |-> view[p]],
    mounted <- {p \in StagingPaths : Mounted(p)}

(* Stage and unstage implement the contract: what is mounted on a staging  *)
(* path changes only between an accepted request and its answer, and every *)
(* answer tells the truth.                                                 *)
ImplementsContract == StagingContract!Spec

(***************************************************************************)
(* The same contract for targets of pods.                                  *)
(***************************************************************************)
TargetContract ==
  INSTANCE MountContract WITH
    Places  <- PublishPaths \cup EphemeralPaths,
    told    <- [p \in PublishPaths \cup EphemeralPaths |-> view[p]],
    mounted <- {p \in PublishPaths \cup EphemeralPaths : Mounted(p)}

(* Publish and unpublish implement it without a lock: in particular the    *)
(* late mount of an ephemeral volume cannot come up once the unpublish of  *)
(* its target has succeeded.                                               *)
TargetsImplementContract == TargetContract!Spec
=============================================================================
