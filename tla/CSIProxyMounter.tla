-------------------------- MODULE CSIProxyMounter --------------------------
(***************************************************************************)
(* The mounters that talk to csi-proxy (safe_mounter_windows,              *)
(* safe_mounter_v1beta_windows, refcounter_windows).  csi-proxy itself is  *)
(* external.  The "proxy" mounter keeps a reference file per volume under  *)
(* c:\csi\smbmounts to count the users of a mapping, and a mutex per share *)
(* guards mapping and count; the "plain" one never removes a mapping.      *)
(***************************************************************************)
EXTENDS WindowsNode

References(s) == {v \in refs : MappingPath[v] = s}

(* Handlers between the link and the reference of their volume. *)
HalfDone(c) == mounter = "proxy" /\ vol[c] \in links \ refs

(* Mutant of Lock: the mutex is never waited for. *)
LockAnyway(c, next) ==
  /\ mutexes' = mutexes \cup {c}
  /\ Goto(c, next)
  /\ UNCHANGED <<rest, hostVars>>

(* lock(mappingPath): wait for the mutex of the share. *)
Lock(c, next) ==
  /\ \A d \in mutexes : Share(d) # Share(c)
  /\ mutexes' = mutexes \cup {c}
  /\ Goto(c, next)
  /\ UNCHANGED <<rest, hostVars>>

MountLock(c) ==
  /\ pc[c] = "lockmap"
  /\ Lock(c, "map")

(* csi-proxy maps the share unless it is mapped and then makes the link,   *)
(* which may fail on its own.  The plain mounter is done then, and its     *)
(* link has no reference.  Of csi-proxy it is assumed that a call that     *)
(* fails takes no mapping away: a server that removes a mapping it finds   *)
(* invalid and then cannot renew it would break ReferencedIsMapped.        *)
NewSmbGlobalMapping(c) ==
  /\ pc[c] = "map"
  /\ mapped' = mapped \cup {Share(c)}
  /\ \/ /\ links' = links \cup {vol[c]}
        /\ IF mounter = "proxy"
           THEN Step(c, "increment") /\ UNCHANGED exposed
           ELSE Succeed(c, "staged") /\ exposed' = exposed \cup {vol[c]}
     \/ UNCHANGED <<links, exposed>> /\ Fail(c)
  /\ UNCHANGED refs

(* Mutant of IncrementReferences: no reference file is written. *)
IncrementNothing(c) ==
  /\ pc[c] = "increment"
  /\ Succeed(c, "staged")
  /\ UNCHANGED hostVars

(* The file counts once it is created, even if writing into it fails. *)
IncrementReferences(c) ==
  /\ pc[c] = "increment"
  /\ refs' = refs \cup {vol[c]}
  /\ Succeed(c, "staged") \/ Fail(c)
  /\ UNCHANGED <<mapped, links, exposed>>

(* Without a link, or if it cannot be read, only the path is removed: a    *)
(* reference stays.                                                        *)
UnmountReadlink(c) ==
  /\ pc[c] = "readlink"
  /\ \/ vol[c] \in links /\ Step(c, "lockunmap")
     \/ Step(c, "rmdir")
  /\ UNCHANGED hostVars

UnmountLock(c) ==
  /\ pc[c] = "lockunmap"
  /\ Lock(c, "decrement")

(* os.Remove of a reference file that is not there is an error (CallFails). *)
DecrementReferences(c) ==
  /\ pc[c] = "decrement"
  /\ vol[c] \in refs
  /\ refs' = refs \ {vol[c]}
  /\ Step(c, "count")
  /\ UNCHANGED <<mapped, links, exposed>>

(* A count that cannot be had is -1: the mapping stays. *)
CountReferences(c) ==
  /\ pc[c] = "count"
  /\ \/ Step(c, IF References(Share(c)) = {} THEN "unmap" ELSE "rmdir")
     \/ Step(c, "rmdir")
  /\ UNCHANGED hostVars

RemoveSmbGlobalMapping(c) ==
  /\ pc[c] = "unmap"
  /\ mapped' = mapped \ {Share(c)}
  /\ Step(c, "rmdir")
  /\ UNCHANGED <<links, refs, exposed>>

CSIProxyStep(c) ==
  \/ MountLock(c)
  \/ NewSmbGlobalMapping(c)
  \/ IncrementReferences(c)
  \/ UnmountReadlink(c)
  \/ UnmountLock(c)
  \/ DecrementReferences(c)
  \/ CountReferences(c)
  \/ RemoveSmbGlobalMapping(c)
=============================================================================
