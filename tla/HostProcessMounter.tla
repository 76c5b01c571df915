------------------------- MODULE HostProcessMounter -------------------------
(***************************************************************************)
(* The mounter of a host-process container (safe_mounter_host_process,     *)
(* pkg/os/smb, pkg/os/filesystem): it runs PowerShell itself and takes no  *)
(* lock but that of the volume.  The users of a mapping are not counted:   *)
(* SMBUnmount looks through the staging directories of the driver for      *)
(* another link to the same remote path.                                   *)
(***************************************************************************)
EXTENDS WindowsNode

(* Unstages that looked, or will look, at the directories without seeing   *)
(* a link that is made now.                                                *)
Unmapping(s) == {c \in Calls : pc[c] \in {"scan", "remove"} /\ Share(c) = s}

(* An error of Get-SmbGlobalMapping counts as not mapped. *)
IsSmbMapped(c) ==
  /\ pc[c] = "query"
  /\ \/ Share(c) \in mapped /\ Step(c, "validate")
     \/ Step(c, "new")
  /\ UNCHANGED hostVars

(* A path that cannot be tested counts as invalid. *)
PathValid(c) ==
  /\ pc[c] = "validate"
  /\ \/ Share(c) \in mapped /\ Step(c, "symlink")
     \/ Step(c, "drop")
  /\ UNCHANGED hostVars

(* The invalid mapping goes, whoever else uses it. *)
DropInvalidMapping(c) ==
  /\ pc[c] = "drop"
  /\ Share(c) \in mapped
  /\ mapped' = mapped \ {Share(c)}
  /\ exposed' = exposed \cup Users(Share(c))
  /\ Step(c, "new")
  /\ UNCHANGED <<links, refs>>

(* Mutant of NewGlobalMapping: the local path is mapped. *)
NewGlobalMappingOfTarget(c) ==
  /\ pc[c] = "new"
  /\ mapped' = mapped \cup {vol[c]}
  /\ Step(c, "symlink")
  /\ UNCHANGED <<links, refs, exposed>>

NewGlobalMapping(c) ==
  /\ pc[c] = "new"
  /\ mapped' = mapped \cup {Share(c)}
  /\ Step(c, "symlink")
  /\ UNCHANGED <<links, refs, exposed>>

(* The mapping is not looked at again: another stage may have dropped it,  *)
(* or an unstage that does not know of the new link may be about to.       *)
Symlink(c) ==
  /\ pc[c] = "symlink"
  /\ vol[c] \notin links
  /\ links' = links \cup {vol[c]}
  /\ exposed' = IF Share(c) \notin mapped \/ Unmapping(Share(c)) # {}
                THEN exposed \cup {vol[c]} ELSE exposed
  /\ Succeed(c, "staged")
  /\ UNCHANGED <<mapped, refs>>

(* GetRemoteServerFromTarget and the listing of the driver's staging       *)
(* directories, which exist for every link and may exist without one.  If  *)
(* either cannot be read the mapping stays.                                *)
ReadDir(c) ==
  /\ pc[c] = "readdir"
  /\ \/ /\ vol[c] \in links
        /\ \E dirs \in SUBSET (Volumes \ {vol[c]}) :
             /\ links \ {vol[c]} \subseteq dirs
             /\ rest' = [rest EXCEPT ![c] = dirs]
        /\ Goto(c, "scan") /\ UNCHANGED mutexes
     \/ Step(c, "rmdir")
  /\ UNCHANGED hostVars

(* Mutant of CheckForDuplicateSMBMounts: the first directory decides. *)
CheckFirstDirectory(c) ==
  /\ pc[c] = "scan"
  /\ UNCHANGED hostVars
  /\ IF rest[c] = {} THEN Step(c, "remove")
     ELSE \E e \in rest[c] :
            Step(c, IF e \in Users(Share(c)) THEN "rmdir" ELSE "remove")

(* The next directory: a link to the same remote path ends the search, and *)
(* a link that cannot be read is passed over.                              *)
CheckForDuplicateSMBMounts(c) ==
  /\ pc[c] = "scan"
  /\ UNCHANGED <<mapped, links, refs>>
  /\ \/ rest[c] = {} /\ Step(c, "remove") /\ UNCHANGED exposed
     \/ \E e \in rest[c] :
          \/ e \in Users(Share(c)) /\ Step(c, "rmdir") /\ UNCHANGED exposed
          \/ /\ rest' = [rest EXCEPT ![c] = @ \ {e}]
             /\ exposed' = exposed \cup (Users(Share(c)) \cap {e})
             /\ Goto(c, "scan") /\ UNCHANGED mutexes

(* An error is logged. *)
RemoveGlobalMapping(c) ==
  /\ pc[c] = "remove"
  /\ mapped' \in {mapped, mapped \ {Share(c)}}
  /\ Step(c, "rmdir")
  /\ UNCHANGED <<links, refs, exposed>>

HostProcessStep(c) ==
  \/ IsSmbMapped(c)
  \/ PathValid(c)
  \/ DropInvalidMapping(c)
  \/ NewGlobalMapping(c)
  \/ Symlink(c)
  \/ ReadDir(c)
  \/ CheckForDuplicateSMBMounts(c)
  \/ RemoveGlobalMapping(c)
=============================================================================
