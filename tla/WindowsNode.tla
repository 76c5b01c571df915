---------------------------- MODULE WindowsNode ----------------------------
(***************************************************************************)
(* Stage and unstage on Windows (pkg/smb/nodeserver.go over pkg/mounter):  *)
(* what all mounters have in common.  A staged volume is a symbolic link   *)
(* to a remote path; the remote path itself is mapped once for the whole   *)
(* node and shared by all volumes that use it.  CSIProxyMounter and        *)
(* HostProcessMounter add how the mappings are made and removed,           *)
(* WindowsMounters puts them together.                                     *)
(*                                                                         *)
(* Stage and unstage hold the lock of their volume until SMBMount or       *)
(* SMBUnmount has returned (LockOwned of NodeServer).                      *)
(***************************************************************************)
EXTENDS VolumeLocks, Naturals

CONSTANTS
  Calls,       \* handler goroutines
  Volumes,     \* volumes
  NoVol,       \* the volume of an idle handler
  Shares,      \* remote paths
  MappingPath, \* the remote path a volume needs a mapping of
  Mounters,    \* what NewSafeMounter may return
  MaxCrashes   \* bound: restarts of the driver

(***************************************************************************)
(* "proxy": csi-proxy v1 with --remove-smb-mapping-during-unmount, the     *)
(* default; "plain": csi-proxy v1beta, or v1 without that flag; "host":    *)
(* the host-process mounter, with --enable-windows-host-process.           *)
(***************************************************************************)
ASSUME WindowsAssumption ==
  /\ NoVol \notin Volumes
  /\ MappingPath \in [Volumes -> Shares]
  /\ Mounters \subseteq {"proxy", "plain", "host"}
  /\ MaxCrashes \in Nat

PCs == {"idle", "ensure", "unlink", "clear", "rmdir",
        "lockmap", "map", "increment", "readlink", "lockunmap", "decrement", "count", "unmap",
        "query", "validate", "drop", "new", "symlink", "readdir", "scan", "remove"}

VARIABLES
  mounter,     \* the mounter of this run of the driver
  pc, vol,     \* handlers: control point and volume of the request
  mutexes,     \* csi-proxy: handlers that hold the mutex of their remote path
  rest,        \* host process: directories the scan has yet to look at
  mapped,      \* remote paths with a global mapping
  links,       \* volumes whose staging path is a link to the remote path
  refs,        \* csi-proxy: volumes with a reference file
  exposed,     \* history: links the mounter does not see when it counts users
  told,        \* history: what kubelet was last told, or has asked for since
  crashes

vars == <<locks, mounter, pc, vol, mutexes, rest, mapped, links, refs, exposed, told, crashes>>
hostVars == <<mapped, links, refs, exposed>>

Share(c) == MappingPath[vol[c]]
Users(s) == {v \in links : MappingPath[v] = s}

Begin(c, v, asked) ==
  /\ pc[c] = "idle"
  /\ TryAcquire(v)
  /\ vol' = [vol EXCEPT ![c] = v]
  /\ told' = [told EXCEPT ![v] = asked]
  /\ UNCHANGED <<mounter, mutexes, rest, hostVars, crashes>>

Stage(c, v) ==
  /\ Begin(c, v, "staging")
  /\ pc' = [pc EXCEPT ![c] = "ensure"]

Goto(c, next) ==
  /\ pc' = [pc EXCEPT ![c] = next]
  /\ UNCHANGED <<locks, mounter, vol, told, crashes>>

(* A step that neither takes a mutex nor scans. *)
Step(c, next) == Goto(c, next) /\ UNCHANGED <<mutexes, rest>>

(* The handler returns: the deferred unlock of the mutex and the release   *)
(* of the volume's lock.                                                   *)
Finish(c) ==
  /\ pc' = [pc EXCEPT ![c] = "idle"]
  /\ vol' = [vol EXCEPT ![c] = NoVol]
  /\ mutexes' = mutexes \ {c}
  /\ rest' = [rest EXCEPT ![c] = {}]
  /\ Release(vol[c])
  /\ UNCHANGED <<mounter, crashes>>

(* A success; the answer may be lost. *)
Succeed(c, answer) ==
  /\ Finish(c)
  /\ told' \in {told, [told EXCEPT ![vol[c]] = answer]}

Fail(c) == Finish(c) /\ UNCHANGED told

-----------------------------------------------------------------------------
(* Where SMBMount begins. *)
SMBMountStart == CASE mounter = "proxy" -> "lockmap"
                   [] mounter = "plain" -> "map"
                   [] mounter = "host"  -> "query"

(* ensureMountPoint.  A link whose remote path exists is a mount point,    *)
(* and it is probed: a directory that can be read is a success, one that   *)
(* cannot is unmounted.  A link whose remote path does not exist is not a  *)
(* mount point: prepareStagePath clears it away for SMBMount.              *)
StageEnsure(c) ==
  /\ pc[c] = "ensure"
  /\ \/ vol[c] \notin links /\ Step(c, SMBMountStart)
     \/ vol[c] \in links /\ Share(c) \in mapped /\ Succeed(c, "staged")
     \/ vol[c] \in links /\ Share(c) \in mapped /\ Step(c, "unlink")
     \/ vol[c] \in links /\ Step(c, "clear")
  /\ UNCHANGED hostVars

RemoveLink(c) ==
  /\ links' = links \ {vol[c]}
  /\ exposed' = exposed \ {vol[c]}
  /\ UNCHANGED <<mapped, refs>>

(* Mutant of StageUnlink: the unmount is answered as a success. *)
StageUnlinkAsStaged(c) ==
  /\ pc[c] = "unlink"
  /\ RemoveLink(c)
  /\ Succeed(c, "staged")

(* Unmount of the invalid link: it goes, its reference file stays, and the *)
(* stage is answered with an error.                                        *)
StageUnlink(c) ==
  /\ pc[c] = "unlink"
  /\ RemoveLink(c)
  /\ Fail(c)

StageClear(c) ==
  /\ pc[c] = "clear"
  /\ RemoveLink(c)
  /\ Step(c, SMBMountStart)

(* The end of every SMBUnmount. *)
Rmdir(c) ==
  /\ pc[c] = "rmdir"
  /\ RemoveLink(c)
  /\ Succeed(c, "unstaged")
=============================================================================
