--------------------------- MODULE KerberosProofs ---------------------------
(***************************************************************************)
(* Proofs about KerberosCache, for any number of handlers, volumes and     *)
(* users, any cruid of a volume, and any number of restarts.               *)
(***************************************************************************)
EXTENDS KerberosCache, TLAPS

EnsurePCs == {"write", "fill", "lstat", "rmdir", "symlink", "rename", "mount"}

(* The lock of a busy handler's volume is taken and no other handler works *)
(* on that volume; kubelet has no answer for it.                           *)
VolumesOwned ==
  /\ \A c \in Calls : pc[c] # "idle" => vol[c] \in locks /\ told[vol[c]] = "unknown"
  /\ \A c, d \in Calls : pc[c] # "idle" /\ pc[d] # "idle" /\ vol[c] = vol[d] => c = d

(* A stage that is past its first call has its file. *)
TicketKept == \A c \in Calls : pc[c] \in EnsurePCs \ {"write"} => vol[c] \in files

(* A temporary link that was left behind leads to a file. *)
TempNotDangling == temps \subseteq files \cup unclean

(* What still leads to the file of v is on the list of an unstage of v, or *)
(* is the entry it is about to remove.                                     *)
ScanComplete ==
  \A c \in Calls : pc[c] \in {"scan"} \cup Uids \cup Volumes /\ vol[c] \notin unclean =>
    /\ \A u \in Uids : link[u] = vol[c] => u \in rest[c] \cup {pc[c]}
    /\ vol[c] \in temps => vol[c] \in rest[c] \cup {pc[c]}

IInv ==
  /\ TypeOK
  /\ VolumesOwned
  /\ TicketKept
  /\ TempNotDangling
  /\ ScanComplete
  /\ LinkNotDangling
  /\ UnstagedIsClean

-----------------------------------------------------------------------------
LEMMA InvInit == Init => IInv
BY KerberosAssumption
DEF Init, NewVolumeLocks, IInv, TypeOK, VolumesOwned, TicketKept, TempNotDangling,
    ScanComplete, LinkNotDangling, UnstagedIsClean, PCs, EnsurePCs

-----------------------------------------------------------------------------
(* Every step keeps the types. *)
LEMMA TypeStep == TypeOK /\ VolumesOwned /\ [Next]_vars => TypeOK'
<1> SUFFICES ASSUME TypeOK, VolumesOwned, [Next]_vars PROVE TypeOK'
  OBVIOUS
<1> USE KerberosAssumption DEF TypeOK, PCs
<1>1. ASSUME NEW c \in Calls, NEW v \in Volumes, Stage(c, v) \/ Unstage(c, v)
      PROVE  TypeOK'
  BY <1>1 DEF Stage, Unstage, Begin, TryAcquire, dirVars
<1>2. ASSUME NEW c \in Calls, Handler(c) PROVE TypeOK'
  <2>0. pc[c] # "idle" => vol[c] \in Volumes
    BY DEF VolumesOwned
  <2>1. CASE EnsureTruncateFile(c) \/ EnsureWriteFile(c)
    BY <2>0, <2>1 DEF EnsureTruncateFile, EnsureWriteFile, Goto
  <2>2. CASE EnsureLstat(c) \/ EnsureRemoveDir(c) \/ EnsureSymlink(c) \/ EnsureRename(c)
    BY <2>0, <2>2 DEF EnsureLstat, EnsureRemoveDir, EnsureSymlink, EnsureRename, Goto, dirVars
  <2>3. CASE EnsureFails(c) \/ Mount(c) \/ DeleteFails(c)
    BY <2>0, <2>3 DEF EnsureFails, Mount, DeleteFails, Reply, Release, dirVars
  <2>4. CASE DeleteStat(c)
    BY <2>0, <2>4 DEF DeleteStat, Reply, Release, Goto, Entries, dirVars
  <2>5. CASE DeleteScan(c) \/ DeleteEntry(c)
    BY <2>0, <2>5 DEF DeleteScan, DeleteEntry, Goto, dirVars
  <2>6. CASE DeleteFile(c)
    BY <2>0, <2>6 DEF DeleteFile, Reply, Release
  <2> QED BY <1>2, <2>1, <2>2, <2>3, <2>4, <2>5, <2>6 DEF Handler
<1>3. CASE Crash
  BY <1>3 DEF Crash, VolumesOwned
<1>4. CASE UNCHANGED vars
  BY <1>4 DEF vars
<1> QED BY <1>1, <1>2, <1>3, <1>4 DEF Next

(* A step of a handler keeps its volume or returns. *)
LEMMA HandlerShape ==
  ASSUME TypeOK, NEW c \in Calls, Handler(c)
  PROVE  /\ pc[c] # "idle"
         /\ \/ \E next \in (PCs \cup Uids \cup Volumes) \ {"idle"} : Goto(c, next)
            \/ \E answer : Reply(c, answer)
<1> USE KerberosAssumption DEF PCs
<1>1. CASE EnsureTruncateFile(c) \/ EnsureWriteFile(c) \/ EnsureLstat(c)
           \/ EnsureRemoveDir(c) \/ EnsureSymlink(c) \/ EnsureRename(c)
  BY <1>1 DEF EnsureTruncateFile, EnsureWriteFile, EnsureLstat, EnsureRemoveDir,
              EnsureSymlink, EnsureRename
<1>2. CASE EnsureFails(c) \/ Mount(c) \/ DeleteFails(c) \/ DeleteFile(c) \/ DeleteStat(c)
  BY <1>2 DEF EnsureFails, Mount, DeleteFails, DeleteFile, DeleteStat
<1>3. CASE DeleteScan(c)
  BY <1>3 DEF DeleteScan, TypeOK
<1>4. CASE DeleteEntry(c)
  BY <1>4 DEF DeleteEntry
<1> QED BY <1>1, <1>2, <1>3, <1>4 DEF Handler

(* Handlers stay apart: a volume's key is taken while its handler runs,    *)
(* and a returning handler frees only the key of its own volume.           *)
LEMMA OwnedStep == TypeOK /\ VolumesOwned /\ [Next]_vars => VolumesOwned'
<1> SUFFICES ASSUME TypeOK, VolumesOwned, [Next]_vars PROVE VolumesOwned'
  OBVIOUS
<1>1. ASSUME NEW c \in Calls, NEW v \in Volumes, Stage(c, v) \/ Unstage(c, v)
      PROVE  VolumesOwned'
  BY <1>1 DEF Stage, Unstage, Begin, TryAcquire, TypeOK, VolumesOwned
<1>2. ASSUME NEW c \in Calls, Handler(c) PROVE VolumesOwned'
  <2>1. ASSUME NEW next, Goto(c, next), pc[c] # "idle" PROVE VolumesOwned'
    BY <2>1 DEF Goto, TypeOK, VolumesOwned
  <2>2. ASSUME NEW answer, Reply(c, answer), pc[c] # "idle" PROVE VolumesOwned'
    BY <2>2 DEF Reply, Release, TypeOK, VolumesOwned
  <2> QED BY <1>2, <2>1, <2>2, HandlerShape
<1>3. CASE Crash
  BY <1>3 DEF Crash, VolumesOwned
<1>4. CASE UNCHANGED vars
  BY <1>4 DEF vars, VolumesOwned
<1> QED BY <1>1, <1>2, <1>3, <1>4 DEF Next

-----------------------------------------------------------------------------
(* The part of the invariant about files and links. *)
CacheOK ==
  /\ TicketKept
  /\ TempNotDangling
  /\ ScanComplete
  /\ LinkNotDangling
  /\ UnstagedIsClean

(* A step of a stage or unstage keeps what holds of the files and links.   *)
(* Only the handler of a volume touches its file and its temporary link    *)
(* and makes the user's link lead to it; what other handlers remove takes  *)
(* nothing from it.                                                        *)
LEMMA HandlerCache ==
  ASSUME IInv, NEW c \in Calls, Handler(c)
  PROVE  CacheOK'
<1> USE KerberosAssumption DEF IInv, TypeOK, VolumesOwned, PCs, EnsurePCs
<1>1. CASE EnsureTruncateFile(c)
  <2> USE <1>1 DEF EnsureTruncateFile, Goto
  <2>1. TicketKept' /\ TempNotDangling'
    BY DEF TicketKept, TempNotDangling
  <2>2. ScanComplete'
    BY DEF ScanComplete
  <2>3. LinkNotDangling' /\ UnstagedIsClean'
    BY DEF LinkNotDangling, UnstagedIsClean
  <2> QED BY <2>1, <2>2, <2>3 DEF CacheOK
<1>2. CASE EnsureWriteFile(c) \/ EnsureLstat(c) \/ EnsureSymlink(c)
  BY <1>2 DEF EnsureWriteFile, EnsureLstat, EnsureSymlink, Goto, dirVars, CacheOK,
              TicketKept, TempNotDangling, ScanComplete, LinkNotDangling, UnstagedIsClean
<1>3. CASE EnsureRemoveDir(c)
  BY <1>3 DEF EnsureRemoveDir, Goto, CacheOK, TicketKept, TempNotDangling, ScanComplete,
              LinkNotDangling, UnstagedIsClean
<1>4. CASE EnsureRename(c)
  <2> USE <1>4 DEF EnsureRename, Goto
  <2>1. vol[c] \in files
    BY DEF TicketKept
  <2>2. TicketKept' /\ TempNotDangling'
    BY DEF TicketKept, TempNotDangling
  <2>3. ScanComplete'
    BY DEF ScanComplete
  <2>4. LinkNotDangling' /\ UnstagedIsClean'
    BY <2>1 DEF LinkNotDangling, UnstagedIsClean
  <2> QED BY <2>2, <2>3, <2>4 DEF CacheOK
<1>5. CASE EnsureFails(c)
  <2> USE <1>5 DEF EnsureFails, Reply
  <2>1. pc[c] = "rename" => vol[c] \in files
    BY DEF TicketKept
  <2>2. TicketKept' /\ TempNotDangling'
    BY <2>1 DEF TicketKept, TempNotDangling
  <2>3. ScanComplete'
    BY DEF ScanComplete
  <2>4. LinkNotDangling' /\ UnstagedIsClean'
    BY DEF LinkNotDangling, UnstagedIsClean
  <2> QED BY <2>2, <2>3, <2>4 DEF CacheOK
<1>6. CASE Mount(c) \/ DeleteFails(c)
  BY <1>6 DEF Mount, DeleteFails, Reply, dirVars, CacheOK, TicketKept, TempNotDangling,
              ScanComplete, LinkNotDangling, UnstagedIsClean
<1>7. CASE DeleteStat(c)
  <2> USE <1>7 DEF DeleteStat, Reply, Goto, dirVars
  <2>1. TicketKept' /\ TempNotDangling'
    BY DEF TicketKept, TempNotDangling
  <2>2. ScanComplete'
    BY DEF ScanComplete, Entries
  <2>3. LinkNotDangling'
    BY DEF LinkNotDangling
  <2>4. vol[c] \notin files \cup unclean =>
          vol[c] \notin temps /\ \A u \in Uids : link[u] # vol[c]
    BY DEF TempNotDangling, LinkNotDangling
  <2>5. UnstagedIsClean'
    BY <2>4 DEF UnstagedIsClean
  <2> QED BY <2>1, <2>2, <2>3, <2>5 DEF CacheOK
<1>8. CASE DeleteScan(c)
  <2> USE <1>8 DEF DeleteScan, Goto, dirVars
  <2>1. TicketKept' /\ TempNotDangling' /\ LinkNotDangling' /\ UnstagedIsClean'
    BY DEF TicketKept, TempNotDangling, LinkNotDangling, UnstagedIsClean
  <2>2. ScanComplete'
    BY DEF ScanComplete, Readlink
  <2> QED BY <2>1, <2>2 DEF CacheOK
<1>9. CASE DeleteEntry(c)
  <2> USE <1>9 DEF DeleteEntry, Goto
  <2>1. TicketKept' /\ TempNotDangling' /\ LinkNotDangling' /\ UnstagedIsClean'
    BY DEF TicketKept, TempNotDangling, LinkNotDangling, UnstagedIsClean
  <2>2. ScanComplete'
    BY DEF ScanComplete
  <2> QED BY <2>1, <2>2 DEF CacheOK
<1>10. CASE DeleteFile(c)
  <2> USE <1>10 DEF DeleteFile, Reply
  <2>1. vol[c] \notin unclean => vol[c] \notin temps /\ \A u \in Uids : link[u] # vol[c]
    BY DEF ScanComplete
  <2>2. TicketKept'
    BY DEF TicketKept
  <2>3. TempNotDangling' /\ LinkNotDangling'
    BY <2>1 DEF TempNotDangling, LinkNotDangling
  <2>4. ScanComplete'
    BY DEF ScanComplete
  <2>5. UnstagedIsClean'
    BY <2>1 DEF UnstagedIsClean
  <2> QED BY <2>2, <2>3, <2>4, <2>5 DEF CacheOK
<1> QED BY <1>1, <1>2, <1>3, <1>4, <1>5, <1>6, <1>7, <1>8, <1>9, <1>10 DEF Handler

(* The inductive invariant is kept by every step. *)
LEMMA InvStep == IInv /\ [Next]_vars => IInv'
<1> SUFFICES ASSUME IInv, [Next]_vars PROVE IInv'
  OBVIOUS
<1>1. TypeOK' /\ VolumesOwned'
  BY TypeStep, OwnedStep DEF IInv
<1>2. ASSUME NEW c \in Calls, NEW v \in Volumes, Stage(c, v) \/ Unstage(c, v)
      PROVE  CacheOK'
  BY <1>2, KerberosAssumption
  DEF Stage, Unstage, Begin, dirVars, IInv, TypeOK, PCs, EnsurePCs, CacheOK, TicketKept,
      TempNotDangling, ScanComplete, LinkNotDangling, UnstagedIsClean
<1>3. ASSUME NEW c \in Calls, Handler(c) PROVE CacheOK'
  BY <1>3, HandlerCache
<1>4. ASSUME Crash PROVE CacheOK'
  <2>1. \A d \in Calls : pc[d] = "rename" => vol[d] \in files /\ told[vol[d]] = "unknown"
    BY DEF IInv, TicketKept, VolumesOwned, EnsurePCs
  <2>2. TicketKept' /\ ScanComplete' /\ LinkNotDangling'
    BY <1>4, KerberosAssumption
    DEF Crash, IInv, TicketKept, ScanComplete, LinkNotDangling, PCs, EnsurePCs
  <2>3. TempNotDangling' /\ UnstagedIsClean'
    BY <1>4, <2>1 DEF Crash, IInv, TempNotDangling, UnstagedIsClean
  <2> QED BY <2>2, <2>3 DEF CacheOK
<1>5. ASSUME UNCHANGED vars PROVE CacheOK'
  BY <1>5 DEF vars, IInv, CacheOK, TicketKept, TempNotDangling, ScanComplete,
              LinkNotDangling, UnstagedIsClean
<1>6. CacheOK'
  BY <1>2, <1>3, <1>4, <1>5 DEF Next
<1> QED BY <1>1, <1>6 DEF IInv, CacheOK

-----------------------------------------------------------------------------
(* The type invariant of the caches; among others an unstage takes a       *)
(* truncated ticket away with its file.                                    *)
THEOREM KerberosTypeCorrect == Spec => []TypeOK
<1>1. IInv => TypeOK
  BY DEF IInv
<1> QED BY <1>1, InvInit, InvStep, PTL DEF Spec

(* krb5cc_<cruid> never leads to a file that is gone, however stages and   *)
(* unstages of the user's volumes interleave and wherever the driver is    *)
(* restarted, unless a removal failed.                                     *)
THEOREM KerberosLinks == Spec => []LinkNotDangling
<1>1. IInv => LinkNotDangling
  BY DEF IInv
<1> QED BY <1>1, InvInit, InvStep, PTL DEF Spec

(* A successful unstage leaves nothing of the volume behind: no file, no   *)
(* link and no temporary link of an attempt that was cut short, unless a   *)
(* removal failed.                                                         *)
THEOREM KerberosCleanup == Spec => []UnstagedIsClean
<1>1. IInv => UnstagedIsClean
  BY DEF IInv
<1> QED BY <1>1, InvInit, InvStep, PTL DEF Spec

-----------------------------------------------------------------------------
(* No two handlers work for the same user at the same time, as a lock per  *)
(* cruid would have it.                                                    *)
OneCallPerUser ==
  \A c, d \in Calls :
    pc[c] # "idle" /\ pc[d] # "idle" /\ CredUID[vol[c]] = CredUID[vol[d]] => c = d

(* The link of a user leads to volumes of that user, and an unstage        *)
(* removes no other user's.                                                *)
LinksOfUser ==
  /\ \A u \in Uids : link[u] \in Volumes => CredUID[link[u]] = u
  /\ \A c \in Calls : pc[c] \in Uids => CredUID[vol[c]] = pc[c]

(* The ticket of a stage is whole once it was written, and after the       *)
(* rename the user's link leads to it.                                     *)
TicketReady ==
  \A c \in Calls :
    /\ pc[c] \in EnsurePCs \ {"write", "fill"} => vol[c] \notin partial
    /\ pc[c] = "mount" => link[CredUID[vol[c]]] = vol[c]

LEMMA LinksOfUserStep == IInv /\ LinksOfUser /\ [Next]_vars => LinksOfUser'
<1> SUFFICES ASSUME IInv, LinksOfUser, [Next]_vars PROVE LinksOfUser'
  OBVIOUS
<1> USE KerberosAssumption DEF IInv, TypeOK, VolumesOwned, PCs, LinksOfUser
<1>1. ASSUME NEW c \in Calls, NEW v \in Volumes, Stage(c, v) \/ Unstage(c, v)
      PROVE  LinksOfUser'
  BY <1>1 DEF Stage, Unstage, Begin, dirVars
<1>2. ASSUME NEW c \in Calls, Handler(c) PROVE LinksOfUser'
  <2>1. CASE EnsureTruncateFile(c) \/ EnsureWriteFile(c) \/ EnsureLstat(c) \/ EnsureSymlink(c)
    BY <2>1 DEF EnsureTruncateFile, EnsureWriteFile, EnsureLstat, EnsureSymlink, Goto, dirVars
  <2>2. CASE EnsureRemoveDir(c) \/ EnsureRename(c)
    BY <2>2 DEF EnsureRemoveDir, EnsureRename, Goto
  <2>3. CASE EnsureFails(c) \/ Mount(c) \/ DeleteFails(c) \/ DeleteFile(c)
    BY <2>3 DEF EnsureFails, Mount, DeleteFails, DeleteFile, Reply, dirVars
  <2>4. CASE DeleteStat(c)
    BY <2>4 DEF DeleteStat, Reply, Goto, dirVars
  <2>5. CASE DeleteScan(c)
    BY <2>5 DEF DeleteScan, Readlink, Goto, dirVars
  <2>6. CASE DeleteEntry(c)
    BY <2>6 DEF DeleteEntry, Goto
  <2> QED BY <1>2, <2>1, <2>2, <2>3, <2>4, <2>5, <2>6 DEF Handler
<1>3. CASE Crash
  BY <1>3 DEF Crash
<1>4. CASE UNCHANGED vars
  BY <1>4 DEF vars
<1> QED BY <1>1, <1>2, <1>3, <1>4 DEF Next

(* What another handler does to links and tickets concerns another volume  *)
(* and another user.                                                       *)
LEMMA TicketReadyStep ==
  IInv /\ LinksOfUser /\ OneCallPerUser /\ TicketReady /\ [Next]_vars => TicketReady'
<1> SUFFICES ASSUME IInv, LinksOfUser, OneCallPerUser, TicketReady, [Next]_vars
             PROVE  TicketReady'
  OBVIOUS
<1> USE KerberosAssumption DEF IInv, TypeOK, VolumesOwned, PCs, EnsurePCs, TicketReady
<1>1. ASSUME NEW c \in Calls, NEW v \in Volumes, Stage(c, v) \/ Unstage(c, v)
      PROVE  TicketReady'
  BY <1>1 DEF Stage, Unstage, Begin, dirVars
<1>2. ASSUME NEW c \in Calls, Handler(c) PROVE TicketReady'
  <2>1. CASE EnsureTruncateFile(c) \/ EnsureWriteFile(c) \/ EnsureLstat(c) \/ EnsureSymlink(c)
    BY <2>1 DEF EnsureTruncateFile, EnsureWriteFile, EnsureLstat, EnsureSymlink, Goto, dirVars
  <2>2. CASE EnsureRemoveDir(c) \/ EnsureRename(c)
    BY <2>2 DEF EnsureRemoveDir, EnsureRename, Goto, OneCallPerUser
  <2>3. CASE EnsureFails(c) \/ Mount(c) \/ DeleteFails(c) \/ DeleteFile(c)
    BY <2>3 DEF EnsureFails, Mount, DeleteFails, DeleteFile, Reply, dirVars
  <2>4. CASE DeleteStat(c)
    BY <2>4 DEF DeleteStat, Reply, Goto, dirVars
  <2>5. CASE DeleteScan(c)
    BY <2>5 DEF DeleteScan, Goto, dirVars
  <2>6. CASE DeleteEntry(c)
    BY <2>6 DEF DeleteEntry, Goto, OneCallPerUser, LinksOfUser
  <2> QED BY <1>2, <2>1, <2>2, <2>3, <2>4, <2>5, <2>6 DEF Handler
<1>3. CASE Crash
  BY <1>3 DEF Crash
<1>4. CASE UNCHANGED vars
  BY <1>4 DEF vars
<1> QED BY <1>1, <1>2, <1>3, <1>4 DEF Next

LEMMA TicketInit == Init => LinksOfUser /\ TicketReady
BY KerberosAssumption DEF Init, LinksOfUser, TicketReady, EnsurePCs, PCs

(* What "concurrent callers for the same cruid are safe" needs: if stages  *)
(* and unstages of a user's volumes take turns, a stage that gets to its   *)
(* mount finds its whole ticket under krb5cc_<cruid>, whatever other users *)
(* do, whatever fails and wherever the driver is restarted.                *)
THEOREM TicketFoundInTurn == Spec /\ []OneCallPerUser => []MountFindsTicket
<1>1. IInv /\ TicketReady => MountFindsTicket
  BY DEF IInv, TicketKept, TicketReady, MountFindsTicket, EnsurePCs
<1> QED BY <1>1, InvInit, InvStep, TicketInit, LinksOfUserStep, TicketReadyStep, PTL DEF Spec

OneVolumePerUser == \A v, w \in Volumes : CredUID[v] = CredUID[w] => v = w

(* Volumes of different users never get into each other's way: with one    *)
(* volume per cruid every stage finds its ticket, with nothing assumed of  *)
(* the callers.                                                            *)
THEOREM TicketFoundAlone == OneVolumePerUser /\ Spec => []MountFindsTicket
<1> SUFFICES ASSUME OneVolumePerUser PROVE Spec => []MountFindsTicket
  OBVIOUS
<1>1. IInv => OneCallPerUser
  BY DEF OneVolumePerUser, IInv, TypeOK, VolumesOwned, OneCallPerUser
<1>2. Spec => []IInv
  BY InvInit, InvStep, PTL DEF Spec
<1> QED BY <1>1, <1>2, TicketFoundInTurn, PTL
=============================================================================
