-------------------------- MODULE WindowsMounters --------------------------
(***************************************************************************)
(* A Windows node: NewSafeMounter chooses one of the mounters when the     *)
(* driver starts, and handlers stage and unstage volumes through it.       *)
(***************************************************************************)
EXTENDS CSIProxyMounter, HostProcessMounter

Init ==
  /\ NewVolumeLocks
  /\ mounter \in Mounters
  /\ pc = [c \in Calls |-> "idle"]
  /\ vol = [c \in Calls |-> NoVol]
  /\ mutexes = {}
  /\ rest = [c \in Calls |-> {}]
  /\ mapped = {}
  /\ links = {}
  /\ refs = {}
  /\ exposed = {}
  /\ told = [v \in Volumes |-> "unstaged"]
  /\ crashes = 0

(* Where SMBUnmount begins. *)
SMBUnmountStart == CASE mounter = "proxy" -> "readlink"
                     [] mounter = "plain" -> "rmdir"
                     [] mounter = "host"  -> "readdir"

Unstage(c, v) ==
  /\ Begin(c, v, "unstaging")
  /\ pc' = [pc EXCEPT ![c] = SMBUnmountStart]

(* Any call of csi-proxy, PowerShell or the file system may fail without   *)
(* effect.  What SMBMount or SMBUnmount did before is not undone.          *)
CallFails(c) ==
  /\ pc[c] \in {"ensure", "unlink", "clear", "rmdir",
                "map", "increment", "decrement", "unmap",
                "query", "drop", "new", "symlink"}
  /\ exposed' = IF HalfDone(c) THEN exposed \cup {vol[c]} ELSE exposed
  /\ Fail(c)
  /\ UNCHANGED <<mapped, links, refs>>

(* NewSafeMounter after a restart: the host-process mounter is a matter of *)
(* the deployment, which csi-proxy mounter it is depends on a flag and on  *)
(* which API answers.                                                      *)
NewSafeMounter == IF mounter = "host" THEN {"host"} ELSE Mounters \ {"host"}

Crash ==
  /\ crashes < MaxCrashes
  /\ crashes' = crashes + 1
  /\ mounter' \in NewSafeMounter
  /\ locks' = {}
  /\ exposed' = exposed \cup {vol[c] : c \in {d \in Calls : HalfDone(d)}}
  /\ pc' = [c \in Calls |-> "idle"]
  /\ vol' = [c \in Calls |-> NoVol]
  /\ mutexes' = {}
  /\ rest' = [c \in Calls |-> {}]
  /\ UNCHANGED <<mapped, links, refs, told>>

Handler(c) ==
  \/ StageEnsure(c)
  \/ StageUnlink(c)
  \/ StageClear(c)
  \/ CSIProxyStep(c)
  \/ HostProcessStep(c)
  \/ Rmdir(c)
  \/ CallFails(c)

Next ==
  \/ \E c \in Calls, v \in Volumes : Stage(c, v)
  \/ \E c \in Calls, v \in Volumes : Unstage(c, v)
  \/ \E c \in Calls : Handler(c)
  \/ Crash

Spec == Init /\ [][Next]_vars

(* Kubelet unstages again until it succeeds, and no call that can succeed  *)
(* fails every time.                                                       *)
RetrySpec ==
  /\ Spec
  /\ \A c \in Calls : WF_vars(Handler(c))
  /\ \A v \in Volumes :
       /\ SF_vars(\E c \in Calls : Unstage(c, v))
       /\ SF_vars(\E c \in Calls : vol[c] = v /\ DecrementReferences(c))
       /\ SF_vars(\E c \in Calls : vol[c] = v /\ RemoveSmbGlobalMapping(c))
       /\ SF_vars(\E c \in Calls : vol[c] = v /\ Rmdir(c) /\ told'[v] = "unstaged")

-----------------------------------------------------------------------------
(* Type invariant. *)
TypeOK ==
  /\ locks \subseteq Volumes
  /\ mounter \in Mounters
  /\ pc \in [Calls -> PCs]
  /\ vol \in [Calls -> Volumes \cup {NoVol}]
  /\ mutexes \subseteq Calls
  /\ rest \in [Calls -> SUBSET Volumes]
  /\ mapped \subseteq Shares
  /\ links \subseteq Volumes
  /\ refs \subseteq Volumes
  /\ exposed \subseteq links
  /\ told \in [Volumes -> {"staging", "staged", "unstaging", "unstaged"}]
  /\ crashes \in 0..MaxCrashes

(* The mapping of a share outlives every reference to it: no unstage of    *)
(* another volume, however it interleaves with a stage, fails, is retried  *)
(* or is cut short by a restart, removes a mapping a reference file counts *)
(* on.                                                                     *)
ReferencedIsMapped == \A v \in refs : MappingPath[v] \in mapped

(* A volume kubelet holds for staged has a link to a mapped remote path,   *)
(* and with csi-proxy a reference.  It may lose the mapping only where the *)
(* mounter cannot see the link: csi-proxy when an SMBMount or SMBUnmount   *)
(* ended between link and reference, by an error or a restart, or when the *)
(* link is of a driver that did not count; the host process when the link  *)
(* was made while an unstage of the same remote path was past its look at  *)
(* the directories, when that could not read the link, or when a stage     *)
(* found the mapping invalid.                                              *)
StagedIsMapped ==
  \A v \in Volumes :
    told[v] = "staged" =>
      /\ v \in links
      /\ \/ v \in exposed
         \/ MappingPath[v] \in mapped /\ (mounter = "host" \/ v \in refs)

(* "remove SMBMapping during unmount on Windows node": an unstage that is  *)
(* retried after an error or a restart comes to its end.                   *)
UnstageCompletes ==
  \A v \in Volumes : told[v] = "unstaging" ~> told[v] # "unstaging"

(* Stage and unstage keep the contract of the Linux node with links for    *)
(* mounts, whichever mounter is used: what kubelet was last told of a      *)
(* volume stays true until it asks again.                                  *)
Promised(v) == CASE told[v] = "staged"   -> "mounted"
                 [] told[v] = "unstaged" -> "unmounted"
                 [] OTHER                -> "unknown"

WindowsContract ==
  INSTANCE MountContract WITH
    Places <- Volumes,
    told <- [v \in Volumes |-> Promised(v)],
    mounted <- links

WindowsImplementsContract == WindowsContract!Spec
=============================================================================
