------------------------------ MODULE VolumeID ------------------------------
(***************************************************************************)
(* The volume ID and the paths of the controller (newSMBVolume,            *)
(* getVolumeIDFromSmbVol, getSmbVolFromID, getInternalVolumePath in        *)
(* pkg/smb/controllerserver.go).  DeleteVolume and a clone know a volume   *)
(* only by its ID: what CreateVolume made of the storage class has to come *)
(* back out of it.                                                         *)
(*                                                                         *)
(* A string is a sequence of tokens: the characters the code looks for     *)
(* ("/" and the separator "#"), ".", "..", the placeholder of the volume's *)
(* name in subDir, and names.                                              *)
(***************************************************************************)
EXTENDS Naturals, Sequences, SequencesExt

CONSTANTS
  Tokens,    \* what strings are made of
  Names,     \* names of volumes
  Sources,   \* parameter source of the storage class
  SubDirs,   \* parameter subDir, <<>> if it is not given
  OnDeletes  \* parameter onDelete, "" if it is not given

ASSUME NamesAssumption == Names \subseteq Tokens \ {"/", "#", "..", "."}

ASSUME ClassAssumption ==
  /\ {"/", "#", "$pv", "archived-", "retain", "archive"} \subseteq Tokens
  /\ Sources \cup SubDirs \subseteq Seq(Tokens)

VARIABLES
  class,    \* parameters of the storage class
  created,  \* what CreateVolume made of them for each volume
  deleted   \* what DeleteVolume made of the volume's ID

vars == <<class, created, deleted>>

Classes == [source : Sources, subDir : SubDirs, onDelete : OnDeletes]
Pending == [status |-> "pending"]
Rejected == [status |-> "rejected"]

-----------------------------------------------------------------------------
(* What is before and after the first separator: strings.Split, taken one  *)
(* segment at a time; the segments after the last are empty.               *)
Cut(s, sep) == IF sep \in ToSet(s) THEN Min({i \in DOMAIN s : s[i] = sep}) ELSE Len(s) + 1
Before(s, sep) == SubSeq(s, 1, Cut(s, sep) - 1)
After(s, sep) == SubSeq(s, Cut(s, sep) + 1, Len(s))

Trim(s, t) ==
  LET kept == {i \in DOMAIN s : s[i] # t}
  IN  IF kept = {} THEN <<>> ELSE SubSeq(s, Min(kept), Max(kept))

(* The element of a path that starts at position i, where the elements of  *)
(* a path start, and the elements filepath.Join leaves, each with its      *)
(* depth.  A path is at or above another one if its elements are a subset. *)
Element(s, i) ==
  [k \in {k \in DOMAIN s : \A j \in i .. i + k - 1 : j \in DOMAIN s /\ s[j] # "/"}
     |-> s[i + k - 1]]

Starts(s) ==
  {i \in DOMAIN s : s[i] # "/" /\ (i = 1 \/ s[i - 1] = "/") /\ Element(s, i) # <<".">>}

Depth(s, i) == Cardinality({j \in Starts(s) : j <= i})

Elements(s) == {<<Depth(s, i), Element(s, i)>> : i \in Starts(s)}

ValidPath(s) == \A i \in Starts(s) : Element(s, i) # <<"..">>

Replace(s, name) == [i \in DOMAIN s |-> IF s[i] = "$pv" THEN name ELSE s[i]]

(* The policy is written only if it is retain or archive. *)
getVolumeIDFromSmbVol(vol) ==
  Trim(vol.source, "/") \o <<"#">> \o Trim(vol.subDir, "/") \o <<"#">> \o vol.uuid \o <<"#">>
    \o IF vol.onDelete \in {"retain", "archive"} THEN <<vol.onDelete>> ELSE <<>>

(* Mutant of newSMBVolume: the name is not kept next to a subDir. *)
newSMBVolumeNoUUID(name, params) ==
  LET vol == [status   |-> "ok",
              source   |-> params.source,
              subDir   |-> IF params.subDir = <<>> THEN <<name>> ELSE Replace(params.subDir, name),
              uuid     |-> <<>>,
              onDelete |-> params.onDelete]
  IN  IF params.source # <<>> /\ ValidPath(vol.source) /\ ValidPath(vol.subDir)
         /\ params.onDelete \in {"", "delete", "retain", "archive"}
      THEN vol ELSE Rejected

newSMBVolume(name, params) ==
  LET given == params.subDir # <<>>
      vol == [status   |-> "ok",
              source   |-> params.source,
              subDir   |-> IF given THEN Replace(params.subDir, name) ELSE <<name>>,
              uuid     |-> IF given THEN <<name>> ELSE <<>>,
              onDelete |-> params.onDelete]
  IN  IF params.source # <<>> /\ ValidPath(vol.source) /\ ValidPath(vol.subDir)
         /\ params.onDelete \in {"", "delete", "retain", "archive"}
      THEN vol ELSE Rejected

(* Mutant of getSmbVolFromID: the last two elements are swapped. *)
getSmbVolFromIDSwapped(id) ==
  LET afterSource == After(id, "#")
      afterSubDir == After(afterSource, "#")
      uuid == Before(afterSubDir, "#")
  IN  [status   |-> "ok",
       source   |-> <<"/", "/">> \o Before(id, "#"),
       subDir   |-> Before(afterSource, "#"),
       uuid     |-> Before(After(afterSubDir, "#"), "#"),
       onDelete |-> IF Len(uuid) = 1 THEN uuid[1] ELSE ""]

(* Elements after the fourth are ignored; an onDelete that is no policy    *)
(* (and is "" here if it has several tokens) acts like none.               *)
getSmbVolFromID(id) ==
  LET afterSource == After(id, "#")
      afterSubDir == After(afterSource, "#")
      source == Before(id, "#")
      subDir == Before(afterSource, "#")
      uuid == Before(afterSubDir, "#")
      onDelete == Before(After(afterSubDir, "#"), "#")
  IN  IF "#" \notin ToSet(id) \/ ~ValidPath(subDir) \/ ~ValidPath(uuid)
      THEN Rejected
      ELSE [status   |-> "ok",
            source   |-> IF IsPrefix(<<"/", "/">>, source) THEN source
                         ELSE <<"/", "/">> \o source,
            subDir   |-> subDir,
            uuid     |-> uuid,
            onDelete |-> IF Len(onDelete) = 1 THEN onDelete[1] ELSE ""]

(* Where the share is mounted, below workingMountDir. *)
getInternalMountPath(vol) == Elements(IF vol.uuid = <<>> THEN vol.subDir ELSE vol.uuid)

(* The directory of the volume, and the one it is archived as, on the      *)
(* share; both are reached through the mount.                              *)
VolumeDir(vol) == Elements(vol.subDir)
ArchivedDir(vol) == Elements(<<"archived-">> \o vol.subDir)

(* Mutant of RemovedDir: the root of a nested subDir is removed. *)
RemovedRootDir(vol) == Elements(Before(vol.subDir, "/"))

RemovedDir(vol) == VolumeDir(vol)

-----------------------------------------------------------------------------
Init ==
  /\ class \in Classes
  /\ created = [n \in Names |-> Pending]
  /\ deleted = [n \in Names |-> Pending]

CreateVolume(n) ==
  /\ created[n] = Pending
  /\ created' = [created EXCEPT ![n] = newSMBVolume(n, class)]
  /\ UNCHANGED <<class, deleted>>

(* An ID that cannot be parsed is answered as deleted. *)
DeleteVolume(n) ==
  /\ created[n].status = "ok"
  /\ deleted[n] = Pending
  /\ deleted' = [deleted EXCEPT ![n] = getSmbVolFromID(getVolumeIDFromSmbVol(created[n]))]
  /\ UNCHANGED <<class, created>>

Next == \E n \in Names : CreateVolume(n) \/ DeleteVolume(n)

Spec == Init /\ [][Next]_vars

-----------------------------------------------------------------------------
(* What a volume is to the controller: its share, its mount, its directory *)
(* and what becomes of it.                                                 *)
Meaning(vol) ==
  <<Trim(vol.source, "/"), getInternalMountPath(vol), VolumeDir(vol),
    IF vol.onDelete \in {"retain", "archive"} THEN vol.onDelete ELSE "delete">>

HasSeparator == "#" \in ToSet(class.source \o class.subDir)

(* DeleteVolume finds in the ID exactly the volume CreateVolume made, its  *)
(* share, directory, mount and policy, however the storage class writes    *)
(* its slashes.  The one exception is a source or subDir with a '#', which *)
(* never comes back: the volume is not found or is taken for another one.  *)
IDParsesBack ==
  \A n \in Names :
    deleted[n] # Pending =>
      (HasSeparator <=> deleted[n] = Rejected \/ Meaning(deleted[n]) # Meaning(created[n]))

Ok == {n \in Names : created[n].status = "ok"}

(* "make volume id unique if subDir is provided": volumes of one storage   *)
(* class never share an ID, and with it a lock, a cache entry and the      *)
(* answer to a deletion, even if they share a directory.  Nor do they      *)
(* share a mount of the controller: CreateVolume's never, DeleteVolume's,  *)
(* which is named after what the ID parses back to, if neither source nor  *)
(* subDir has a '#'.  With one, deletions of two volumes may share a mount *)
(* (subDir 'a#b': both at 'b').                                            *)
VolumesApart ==
  \A m, n \in Ok :
    m # n => /\ getVolumeIDFromSmbVol(created[m]) # getVolumeIDFromSmbVol(created[n])
             /\ getInternalMountPath(created[m]) # getInternalMountPath(created[n])
             /\ ~HasSeparator /\ deleted[m] # Pending /\ deleted[n] # Pending =>
                  getInternalMountPath(deleted[m]) # getInternalMountPath(deleted[n])

(* Nothing that the deletion of a volume removes or renames is at or above *)
(* the directory of another volume.                                        *)
DeletedSpared ==
  \A m, n \in Ok :
    m # n /\ deleted[m].status = "ok" =>
      /\ ~(RemovedDir(deleted[m]) \subseteq VolumeDir(created[n]))
      /\ ~(ArchivedDir(deleted[m]) \subseteq VolumeDir(created[n]))

(* The class names each volume's directory after the volume, and does so   *)
(* in what comes back out of the ID: before any '#' of subDir, with none   *)
(* in source.                                                              *)
NamedBeforeSeparator ==
  /\ "#" \notin ToSet(class.source)
  /\ class.subDir = <<>> \/ "$pv" \in ToSet(Before(class.subDir, "#"))

(* Deleting or archiving a volume spares the directories of the others if  *)
(* the storage class gives each volume a directory of its own, the name of *)
(* the volume comes before any '#' and source has none, however much of    *)
(* subDir a '#' after the name cuts off.  With one before it it does not:  *)
(* subDir 'a/#${pv.metadata.name}' parses back to 'a/', and the deletion   *)
(* of one volume removes the directories of all.                           *)
DeleteSparesOthers == NamedBeforeSeparator => DeletedSpared
=============================================================================
