--------------------------- MODULE KerberosCache ---------------------------
(***************************************************************************)
(* The Kerberos ticket caches of the node service (ensureKerberosCache and *)
(* deleteKerberosCache, pkg/smb/nodeserver.go).  The ticket of a volume is *)
(* a file of its own; the kernel looks it up under krb5cc_<cruid>, a       *)
(* symbolic link that all volumes of that user share and that stage        *)
(* replaces by a temporary link and a rename.                              *)
(*                                                                         *)
(* Stage and unstage hold the lock of their volume (LockOwned of           *)
(* NodeServer), so two handlers work at the same time only on different    *)
(* volumes, which may have the same cruid.                                 *)
(***************************************************************************)
EXTENDS VolumeLocks, Naturals

CONSTANTS
  Calls,      \* handler goroutines
  Volumes,    \* volumes mounted with sec=krb5
  NoVol,      \* the volume of an idle handler
  Uids,       \* the cruid mount options
  CredUID,    \* the cruid of a volume (getCredUID)
  MaxCrashes  \* bound: restarts of the driver

PCs == {"idle", "write", "fill", "lstat", "rmdir", "symlink", "rename", "mount",
        "stat", "scan"}

(* Uids and volumes are told apart from each other, from the control       *)
(* points, next to which they may be in pc, and from "none" and "dir",     *)
(* next to which volumes may be in link.                                   *)
ASSUME KerberosAssumption ==
  /\ NoVol \notin Volumes
  /\ Uids \cap Volumes = {}
  /\ PCs \cap (Uids \cup Volumes) = {}
  /\ {"none", "dir"} \cap Volumes = {}
  /\ CredUID \in [Volumes -> Uids]
  /\ MaxCrashes \in Nat

VARIABLES
  pc, vol,  \* handlers: control point and volume of the request
  rest,     \* handlers: directory entries deleteKerberosCache has yet to look at
  files,    \* volumes whose cache file exists
  partial,  \* volumes whose cache file was truncated and not yet written
  link,     \* what krb5cc_<uid> is: a link to a volume's file, "dir" or "none"
  temps,    \* volumes with a temporary link a restart left behind
  unclean,  \* history: volumes whose cleanup met an error it only logged
  told,     \* history: what kubelet was last told of each volume
  crashes

vars == <<locks, pc, vol, rest, files, partial, link, temps, unclean, told, crashes>>
dirVars == <<files, partial, link, temps, unclean>>

Init ==
  /\ NewVolumeLocks
  /\ pc = [c \in Calls |-> "idle"]
  /\ vol = [c \in Calls |-> NoVol]
  /\ rest = [c \in Calls |-> {}]
  /\ files = {}
  /\ partial = {}
  /\ link \in [Uids -> {"none", "dir"}]
  /\ temps = {}
  /\ unclean = {}
  /\ told = [v \in Volumes |-> "unstaged"]
  /\ crashes = 0

Begin(c, v, first) ==
  /\ pc[c] = "idle"
  /\ TryAcquire(v)
  /\ pc' = [pc EXCEPT ![c] = first]
  /\ vol' = [vol EXCEPT ![c] = v]
  /\ told' = [told EXCEPT ![v] = "unknown"]
  /\ UNCHANGED <<rest, dirVars, crashes>>

Stage(c, v) == Begin(c, v, "write")
Unstage(c, v) == Begin(c, v, "stat")

Goto(c, next) ==
  /\ pc' = [pc EXCEPT ![c] = next]
  /\ UNCHANGED <<locks, vol, told, crashes>>

(* The handler returns; its answer may be lost. *)
Reply(c, answer) ==
  /\ pc' = [pc EXCEPT ![c] = "idle"]
  /\ vol' = [vol EXCEPT ![c] = NoVol]
  /\ Release(vol[c])
  /\ told' \in {told, [told EXCEPT ![vol[c]] = answer]}
  /\ UNCHANGED crashes

-----------------------------------------------------------------------------
(***************************************************************************)
(* ensureKerberosCache, and the rest of the stage as its last step.        *)
(***************************************************************************)
(* os.WriteFile truncates a file that exists, then fills it. *)
EnsureTruncateFile(c) ==
  /\ pc[c] = "write"
  /\ files' = files \cup {vol[c]}
  /\ partial' = partial \cup {vol[c]}
  /\ unclean' = unclean \ {vol[c]}
  /\ Goto(c, "fill")
  /\ UNCHANGED <<rest, link, temps>>

EnsureWriteFile(c) ==
  /\ pc[c] = "fill"
  /\ partial' = partial \ {vol[c]}
  /\ Goto(c, "lstat")
  /\ UNCHANGED <<rest, files, link, temps, unclean>>

(* Lstat and RemoveAll of a directory at the place of the link are two     *)
(* calls: the second removes whatever is there by then.                    *)
EnsureLstat(c) ==
  /\ pc[c] = "lstat"
  /\ Goto(c, IF link[CredUID[vol[c]]] = "dir" THEN "rmdir" ELSE "symlink")
  /\ UNCHANGED <<rest, dirVars>>

EnsureRemoveDir(c) ==
  /\ pc[c] = "rmdir"
  /\ link' = [link EXCEPT ![CredUID[vol[c]]] = "none"]
  /\ Goto(c, "symlink")
  /\ UNCHANGED <<rest, files, partial, temps, unclean>>

(* The temporary link exists while pc[c] = "rename". *)
EnsureSymlink(c) ==
  /\ pc[c] = "symlink"
  /\ Goto(c, "rename")
  /\ UNCHANGED <<rest, dirVars>>

(* Mutant of EnsureRename: the link is made to itself. *)
EnsureRenameSelf(c) ==
  /\ pc[c] = "rename"
  /\ link' = [link EXCEPT ![CredUID[vol[c]]] = CredUID[vol[c]]]
  /\ Goto(c, "mount")
  /\ UNCHANGED <<rest, files, partial, temps, unclean>>

EnsureRename(c) ==
  /\ pc[c] = "rename"
  /\ link[CredUID[vol[c]]] # "dir"
  /\ link' = [link EXCEPT ![CredUID[vol[c]]] = vol[c]]
  /\ Goto(c, "mount")
  /\ UNCHANGED <<rest, files, partial, temps, unclean>>

(* A call fails and the stage is answered with an error.  What was written *)
(* stays; a failed rename removes the temporary link, ignoring the error   *)
(* of that.                                                                *)
EnsureFails(c) ==
  /\ pc[c] \in {"write", "fill", "lstat", "rmdir", "symlink", "rename", "mount"}
  /\ temps' \in {temps} \cup (IF pc[c] = "rename" THEN {temps \cup {vol[c]}} ELSE {})
  /\ Reply(c, "unknown")
  /\ UNCHANGED <<rest, files, partial, link, unclean>>

Mount(c) ==
  /\ pc[c] = "mount"
  /\ Reply(c, "staged")
  /\ UNCHANGED <<rest, dirVars>>

-----------------------------------------------------------------------------
(***************************************************************************)
(* deleteKerberosCache, the end of unstage.  An entry of the directory is  *)
(* a uid, for krb5cc_<uid>, or a volume, for its left-over temporary link. *)
(***************************************************************************)
Readlink(e) == IF e \in Uids THEN link[e] ELSE IF e \in temps THEN e ELSE "none"

(* Mutant of Entries: only the links of users are looked at. *)
EntriesNoTemps == {u \in Uids : link[u] # "none"}

Entries == {u \in Uids : link[u] # "none"} \cup temps

(* Nothing to do without the volume's file.  A stat of the directory that  *)
(* fails is taken for a missing directory: the cleanup is skipped.         *)
DeleteStat(c) ==
  /\ pc[c] = "stat"
  /\ \/ /\ vol[c] \notin files
        /\ Reply(c, "unstaged")
        /\ UNCHANGED <<rest, dirVars>>
     \/ /\ unclean' = unclean \cup {vol[c]}
        /\ Reply(c, "unstaged")
        /\ UNCHANGED <<rest, files, partial, link, temps>>
     \/ /\ vol[c] \in files
        /\ rest' = [rest EXCEPT ![c] = Entries]
        /\ Goto(c, "scan")
        /\ UNCHANGED dirVars

(* The stat of the file fails: the unstage is answered with an error. *)
DeleteFails(c) ==
  /\ pc[c] = "stat"
  /\ Reply(c, "unknown")
  /\ UNCHANGED <<rest, dirVars>>

(* Lstat and Readlink of one entry; if it leads to the volume's file, the  *)
(* next step (with pc[c] the entry) removes it.                            *)
DeleteScan(c) ==
  /\ pc[c] = "scan"
  /\ \E e \in rest[c] :
       /\ rest' = [rest EXCEPT ![c] = @ \ {e}]
       /\ Goto(c, IF Readlink(e) = vol[c] THEN e ELSE "scan")
  /\ UNCHANGED dirVars

(* os.Remove of the entry pc[c], whatever it is by now.  Its error is only *)
(* logged, those of ReadDir, Lstat and Readlink are ignored: in each case  *)
(* the entry stays.                                                        *)
DeleteEntry(c) ==
  /\ pc[c] \in Uids \cup Volumes
  /\ \/ /\ link' = [u \in Uids |-> IF u = pc[c] THEN "none" ELSE link[u]]
        /\ temps' = temps \ {pc[c]}
        /\ UNCHANGED unclean
     \/ unclean' = unclean \cup {vol[c]} /\ UNCHANGED <<link, temps>>
  /\ Goto(c, "scan")
  /\ UNCHANGED <<rest, files, partial>>

(* Mutant of DeleteFile: the file is removed before the links to it. *)
DeleteFileFirst(c) ==
  /\ pc[c] = "scan"
  /\ files' = files \ {vol[c]}
  /\ partial' = partial \ {vol[c]}
  /\ IF rest[c] = {} THEN Reply(c, "unstaged") ELSE Goto(c, "scan")
  /\ UNCHANGED <<rest, link, temps, unclean>>

DeleteFile(c) ==
  /\ pc[c] = "scan"
  /\ rest[c] = {}
  /\ \/ /\ files' = files \ {vol[c]}
        /\ partial' = partial \ {vol[c]}
        /\ UNCHANGED unclean
     \/ unclean' = unclean \cup {vol[c]} /\ UNCHANGED <<files, partial>>
  /\ Reply(c, "unstaged")
  /\ UNCHANGED <<rest, link, temps>>

-----------------------------------------------------------------------------
Crash ==
  /\ crashes < MaxCrashes
  /\ crashes' = crashes + 1
  /\ locks' = {}
  /\ temps' = temps \cup {vol[c] : c \in {d \in Calls : pc[d] = "rename"}}
  /\ pc' = [c \in Calls |-> "idle"]
  /\ vol' = [c \in Calls |-> NoVol]
  /\ rest' = [c \in Calls |-> {}]
  /\ UNCHANGED <<files, partial, link, unclean, told>>

Handler(c) ==
  \/ EnsureTruncateFile(c)
  \/ EnsureWriteFile(c)
  \/ EnsureLstat(c)
  \/ EnsureRemoveDir(c)
  \/ EnsureSymlink(c)
  \/ EnsureRename(c)
  \/ EnsureFails(c)
  \/ Mount(c)
  \/ DeleteStat(c)
  \/ DeleteFails(c)
  \/ DeleteScan(c)
  \/ DeleteEntry(c)
  \/ DeleteFile(c)

Next ==
  \/ \E c \in Calls, v \in Volumes : Stage(c, v)
  \/ \E c \in Calls, v \in Volumes : Unstage(c, v)
  \/ \E c \in Calls : Handler(c)
  \/ Crash

Spec == Init /\ [][Next]_vars

-----------------------------------------------------------------------------
(* Type invariant. *)
TypeOK ==
  /\ locks \subseteq Volumes
  /\ pc \in [Calls -> PCs \cup Uids \cup Volumes]
  /\ vol \in [Calls -> Volumes \cup {NoVol}]
  /\ rest \in [Calls -> SUBSET (Uids \cup Volumes)]
  /\ files \subseteq Volumes
  /\ partial \subseteq files
  /\ link \in [Uids -> Volumes \cup {"none", "dir"}]
  /\ temps \subseteq Volumes
  /\ unclean \subseteq Volumes
  /\ told \in [Volumes -> {"unknown", "staged", "unstaged"}]
  /\ crashes \in 0..MaxCrashes

(* krb5cc_<uid> never leads nowhere: stage writes the file before the      *)
(* link, unstage removes the links before the file, and neither a restart  *)
(* in between nor the stage or unstage of another volume of the same user  *)
(* changes that; only a removal that failed does.                          *)
LinkNotDangling ==
  \A u \in Uids : link[u] \in Volumes \ unclean => link[u] \in files

(* "The kerberos cache files are created for each volume and cleaned up    *)
(* during UnstageVolume phase": after a successful unstage no file, no     *)
(* link and no temporary link of the volume is left, whatever attempts     *)
(* were cut short by a restart, unless a removal failed.                   *)
UnstagedIsClean ==
  \A v \in Volumes \ unclean :
    told[v] = "unstaged" => v \notin files \cup temps /\ \A u \in Uids : link[u] # v

(* "Concurrent callers for the same cruid are safe": a stage that gets to  *)
(* its mount finds a whole ticket under krb5cc_<uid>, its own or that of   *)
(* another volume of the user, whatever stages and unstages of that user   *)
(* run beside it.                                                          *)
MountFindsTicket ==
  \A c \in Calls : pc[c] = "mount" => link[CredUID[vol[c]]] \in files \ partial
=============================================================================
