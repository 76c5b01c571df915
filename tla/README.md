# Verification of the SMB CSI driver

TLA+ models of csi-driver-smb: the node service with its volume statistics, the
controller service and its volume IDs, the lock table, the Kerberos caches and
the Windows mounters, checked with TLC on small instances; and proofs, checked
with TLAPS, that staging, publishing, creation, cloning and deletion, the volume
IDs, the Kerberos caches and the Windows mounters keep their promises for any number
of handlers, volumes, paths and restarts and for storage classes with any source and
subDir.

## 1. Inventory

The driver is one binary. On every node it serves kubelet (node service), next to
the external provisioner it serves volume creation and deletion (controller
service). Both run each gRPC request in a goroutine of its own.

| part | state | operations | hard behaviour | what makes it correct |
|---|---|---|---|---|
| volume locks (`volume_lock.go`) | a set of keys under a mutex, no owners | TryAcquire, Release | keys of volume ID and path for stage and unstage, name for create, ID for delete; handed from a handler to a background goroutine | a key is held exactly while its operation runs; it is always released |
| stage, unstage (`nodeserver.go`) | kernel mounts, directories, locks, mount goroutines | NodeStageVolume, mountWithTimeout, ensureMountPoint, NodeUnstageVolume | mounts that outlive their timeout, retries, cancelled callers, invalid links, restarts | every answer stays true until the next request; mounts never stack |
| publish, unpublish | the same, without locks | NodePublishVolume, ephemeral volumes, NodeUnpublishVolume | check and bind are two steps; a late ephemeral mount | a pod gets its share, once; nothing is left after unpublish |
| controller (`controllerserver.go`) | directories of the share, internal mounts, deletion cache | CreateVolume, copyFromVolume, DeleteVolume | repeated requests, lost answers, failed copies, shared internal mounts, a cache that expires | a success is true of the share; data is removed only as onDelete says |
| volume ID | the ID string carries source, subDir, uuid, onDelete | newSMBVolume, getVolumeIDFromSmbVol, getSmbVolFromID | what the ID forgets; the separator in a parameter | what delete reads is what create meant, and it concerns no other volume |
| Kerberos caches (`nodeserver.go`) | a file per volume, a link per cruid, temporary links | ensureKerberosCache, deleteKerberosCache | volumes of one user share a link; restarts in between; tickets rewritten in place | no dangling link, nothing left after unstage, a mount finds a ticket |
| Windows csi-proxy mounter (`pkg/mounter`) | global mappings, links, reference files, a mutex per share | SMBMount, SMBUnmount, reference counter | volumes share a mapping; errors between mapping, link and reference | a mapping lives as long as its users |
| Windows csi-proxy v1beta mounter | mappings, links | SMBMount, SMBUnmount | it never removes a mapping and counts nothing; a restart may replace it by the v1 mounter | a staged volume has its link |
| Windows host-process mounter | mappings, links | SMBMount, which replaces an invalid mapping; SMBUnmount with a scan for other users | scan and removal without a lock, errors that are only logged | a mapping lives as long as the links the scan can see |
| volume stats | figures of statfs, cached by volume ID | NodeGetVolumeStats | measured without a lock, also while nothing is mounted; slow requests overtake each other | wrong figures do not stay |
| identity, csi-common, util, main | constants, listener, flags | | | only NewDriver is used |

The controller calls the node service directly: internalMount is NodeStageVolume
on a private path, internalUnmount is NodeUnstageVolume. Kubelet and the
provisioner are external; their order of calls is modelled from what the driver
relies on.

`PROJECT.json` lists the hazards, each at its line, with the properties that cover
it; the ones without a property say why.

## 2. Modules

| module | models |
|---|---|
| `VolumeLocks` | the lock table; extended by all modules with handlers |
| `NodeServer` | the node service on Linux |
| `MountContract` | abstract: what a caller may rely on about a place where volumes are mounted |
| `KubeletNode` | NodeServer with kubelet's order of calls |
| `ControllerServer` | the controller service with its provisioner |
| `KerberosCache` | the ticket caches |
| `VolumeStats` | NodeGetVolumeStats and its cache next to NodeServer |
| `VolumeID` | the volume ID, the paths made from it, and what delete does with them |
| `WindowsNode` | stage and unstage on Windows: what the mounters have in common |
| `CSIProxyMounter` | extends WindowsNode: csi-proxy v1 with its reference counter, and v1beta |
| `HostProcessMounter` | extends WindowsNode: the mounter of host-process containers |
| `WindowsMounters` | the three mounters composed; refines MountContract |
| `NodeServerProofs` | theorems about NodeServer: types, locks, staging paths |
| `TargetProofs` | extends NodeServerProofs: the targets of pods, and the paths a stage locks |
| `KubeletProofs` | extends TargetProofs: theorems about KubeletNode |
| `ControllerProofs`, `VolumeIDProofs`, `KerberosProofs`, `WindowsProofs` | theorems about ControllerServer, VolumeID, KerberosCache and WindowsMounters |
| `MC...` | the instances TLC checks |

### NodeServer

A handler is a slot `c` of `Calls` with `pc[c]`, `op[c]` and `path[c]`; a step is
one call another goroutine, the kernel or a restart can get in front of.

| action | code |
|---|---|
| `NodeStageVolume`, `NodeUnstageVolume`, `NodePublishVolume`, `NodeUnpublishVolume` | validation and TryAcquire; an ephemeral publish is a stage of its target |
| `StagePrepare` | secrets, Kerberos cache, `os.MkdirAll`, mount options |
| `EnsureNotMounted`, `EnsureMounted`, `Probe`, `UnmountInvalid`, `UnmountOpen` | ensureMountPoint; `UnmountOpen` is the unmount with the probe's descriptor still open |
| `MountLands`, `MountFails` | the mount goroutine |
| `WaitMountDone`, `Timeout`, `RecheckMountDone`, `ReplyKeepLock`, `DeferReleaseLock` | the selects of mountWithTimeout and its background goroutine |
| `BindMount`, `BindFails`, `RemoveTarget` | the end of NodePublishVolume |
| `Cleanup...` | mount.CleanupMountPoint, with and without the mount point check |
| `HandlerFails` | every call that may fail for outside reasons |
| `Abandon`, `ServerFails`, `ServerRecovers`, `Crash` | environment: a caller stops waiting, a share fails in stat, in open or only in read, a failed link reconnects, the driver restarts |

`mounts[p]` is the stack of mounts on a path. `view[p]` is a history variable: the
last answer the caller has for `p`, or "unknown" since its last request. An answer
may be lost. A caller has one request at a time per path, as kubelet does, unless
it gave up on one (`Abandonable` says where that is explored). `StagingContract` and
`TargetContract` are the two instances of MountContract: staging paths with stage
and unstage, targets with publish, ephemeral publish and unpublish.

A link may fail and come back at any moment, between two calls of a handler too, and
the links of two paths do so independently of each other: a bind mount and the
staging path it was made from are not made to agree, which allows more than the
kernel does. Nothing is assumed about when, or whether, a link recovers.

Left out: the content of mount options, the credentials file, volume mount
groups, read-only binds. A refused request (validation, Aborted) changes nothing
and is a stuttering step.

### ControllerServer

Volume `v` stands for its name, ID and directory. `share[v]` and `archived[v]` say
how much of the data is in the directory and in the archived copy (absent, dir,
partial, full), `mnt` which internal paths are mounted, `late` which mounts
outlived their timeout. Stage and unstage are single steps: what `NodeServer`
proves about their answers is what is used here. The provisioner creates until it
succeeds, clones only volumes it has, does not delete a volume while it is being
cloned, and deletes until it succeeds. Without the mount `MkdirAll` and `RemoveAll`
work on the driver's own disk and succeed, as they do in the code. Restarts take
the internal mounts with the container.

### KerberosCache

`link[u]` is what `krb5cc_<u>` is, `temps` the temporary links a restart or a
failed removal left, `partial` the ticket files that are truncated and not yet
written. Read and removal of a link, and Lstat and RemoveAll, are separate steps. Errors that deleteKerberosCache only logs, or mistakes for a
missing directory, put the volume in the history set `unclean`, which the
properties except.

### VolumeStats

`figures` and `age` are volStatsCache; a figure is that of the "share" or of the
node's "disk". Get, measurement and Set are separate steps and requests overlap:
`missed` holds the paths of handlers that found no entry and have still to measure,
`measured` the measurements that have not reached the cache yet, one handler for each
path and each value. An entry
expires `TTL` steps of the clock after it was set, whoever reads it. An error
leaves no trace and is a stuttering step. Node steps and stats steps interleave;
only a restart changes both.

### VolumeID

Strings are sequences of `Tokens`, so that "/", the separator "#", ".", ".." and the
placeholder `${pv.metadata.name}` are told apart and names are opaque. The
operators have the names of the functions. `strings.Split` is taken one segment at a
time: `Before` and `After` the first separator. A path is what filepath.Join makes of
it: `Elements` is the set of its elements with their depths, without empty ones and
".", so that a path is at or above another one if its elements are a subset. No
operator is recursive, which is what makes the module provable. A '#' in source or
subDir is not excluded: IDParsesBack says that such a volume never comes back,
VolumesApart and DeleteSparesOthers name what of them is left (`HasSeparator`,
`NamedBeforeSeparator`), and section 3 says what is lost. `created` is what CreateVolume makes of
the storage class `class` for two volumes, `deleted` what DeleteVolume reads in
their IDs. Upper case, backslashes and the placeholders of the claim's name are
left out. The default policy is empty, as NewDriver leaves it; were it set,
`onDelete: delete` would be lost, because the ID does not carry it.

### WindowsMounters

`mounter` is what NewSafeMounter returned: "proxy" (csi-proxy v1 that removes
mappings), "plain" (v1beta, or v1 that does not) or "host". A restart may change
between the csi-proxy ones. `mapped`, `links` and `refs` are the global mappings,
the links and the reference files; `mutexes` the handlers inside
`lock(mappingPath)` (for the plain mounter the lock has nothing to protect and is
left out); `rest` what a scan of the host process has yet to look at. csi-proxy,
PowerShell and Windows are external: a share is mapped at most once. The server side
of csi-proxy is not part of the repository; assumed of it is that a call that fails
takes no mapping away. A server that drops a mapping it finds invalid and then cannot
make it again would break ReferencedIsMapped; the host process, whose code does just
that, is modelled with it (`DropInvalidMapping`). `exposed` is a
history set of links the mounter does not see when it looks for users of a
mapping: with csi-proxy links without a reference file; with the host process
links made while an unstage was past its look, links a scan could not read, and
links whose mapping a stage found invalid. StagedIsMapped excepts these links: it says
that nothing else loses its mapping, and would not notice a change in when those do.
That a missing reference also keeps the unstage from ending is shown by
`windows_unstage`.

## 3. Runs

| run | instance | result |
|---|---|---|
| `node_safety` | 3 handlers, a staging path, a target, an ephemeral target, all failure modes, 1 restart, mounter that skips the check | TypeOK, LockOwned, StagingAnswersHold, TargetAnswersHold, MountedOnce, ImplementsContract, TargetsImplementContract hold |
| `node_liveness` | 2 handlers, a staging path, a target with its statistics, failing open and recovery, 1 restart | LockReleased, InvalidLinkUnmounted, StatsCatchUp hold under `StatsSpec` |
| `kubelet_order` | 3 handlers, 2 pods of one volume, all failure modes and recovery, mounter that checks mount points | PublishedCarriesShare, InUseUnmountedOnlyAfterProbe hold |
| `controller_safety` | 2 handlers, a volume and two clones, one for each policy, 1 restart | CreatedIsOnShare, DeletedIsGone, DeletedIsArchived, RetainedIsKept hold |
| `kerberos_cache` | 2 handlers, 2 volumes of one user, 2 restarts | LinkNotDangling, UnstagedIsClean hold |
| `volume_id` | 2 volumes, every subDir of up to 4 tokens of 6, 5 sources, 5 policies | IDParsesBack, VolumesApart, DeleteSparesOthers hold |
| `windows_mapping` | any mounter, 3 handlers, 3 volumes of one remote path, 1 restart | ReferencedIsMapped, StagedIsMapped, WindowsImplementsContract hold |
| `node_invalid_link` | failing stat, or failing read | InvalidLinkUnmounted is violated |
| `node_target_twice` | a publish and its retry | MountedOnce is violated |
| `controller_archive` | a repeated deletion | ArchiveNeverLost is violated |
| `kerberos_link` | two stages of one user | MountFindsTicket is violated |
| `windows_unstage` | 1 volume, retried unstages | UnstageCompletes is violated |

### What the violations show

* `node_invalid_link`: the comment in ensureMountPoint says an invalid link is
  unmounted to be remounted later. If stat of the mount fails, `os.MkdirAll` in
  NodeStageVolume fails first and ensureMountPoint is never reached. If only the
  read fails (`FailModes = {"read"}`), the unmount runs with the probe's own
  descriptor open and always fails with EBUSY. Only a failing open is repaired
  (`node_liveness`).
* `node_target_twice`: publish has no lock between check and bind; a publish that
  was given up and its retry stack two binds. In `node_safety` callers of publish
  always wait for the answer, and there MountedOnce holds; `NeverMountedTwice`
  proves that this is all that is needed. Paths that a stage locks, ephemeral targets
  included, need not even that (`LockedNeverStack`).
* `controller_archive`: a repeated deletion removes the archived copy as a stale
  one although it is the data. DeletedIsArchived holds, because no later attempt
  succeeds. `ArchiveKept` proves that without `--remove-archived-volume-path`
  (`RemoveArchivedVolumePath`, by default on, main.go:51) no data is lost this way.
* `kerberos_link`: two stages of one user that both see a directory at the place
  of the link race: the slower one's RemoveAll takes the faster one's link. Without
  a directory the unstage of another volume of the user does the same between
  Readlink and Remove, and a repeated stage truncates the ticket in place.
  `TicketFoundInTurn` proves that a lock per cruid would be enough, `TicketFoundAlone`
  that only volumes of one user are concerned.
* `windows_unstage`: an unstage that finds a link and no reference file can never
  complete.

Further disagreements between text and code are visible in the model and have no run:

* The comment at getInternalVolumePath promises a mount per request, but the mount of
  a clone's source is shared by all its clones and the first to finish unmounts it
  (CreatedIsOnShare holds all the same: the copy fails and is retried).
* NewDriver never copies the flag `--default-ondelete-policy`
  (`defaultOnDeletePolicy` of ControllerServer).
* "mount link is invalid, now unmount" (nodeserver.go:585): the link is probed at line
  575 and unmounted at line 587. One that reconnects in between is valid when it is
  unmounted, under a published volume. The pod's own bind mount stays; the staging path
  is without its mount until the stage, which is answered with an error, is repeated.
  What the code keeps is InUseUnmountedOnlyAfterProbe: nothing but a stage whose own
  probe failed takes the mount away.
* "delete or archive the subdirectory" (controllerserver.go:201): the ID is cut at every
  '#', and nothing keeps a '#' out of subDir. With `a/#${pv.metadata.name}` every volume
  gets a directory of its own under `a`, but all their IDs parse back to `a/`: deleting
  one volume removes `a` (line 252), and with the '#' at the very beginning the content
  of the share. DeleteSparesOthers is what is left: a '#' behind the name is harmless to
  other volumes. Likewise deletions of two volumes with subDir `a#b` share the
  mount `b` (line 562), which VolumesApart excepts.
* "skip unmount as there are other SMB mounts on the same remote server"
  (safe_mounter_host_process_windows.go:149): search and removal are two steps without a
  lock. A volume that is staged in between is answered with success and loses its
  mapping; its link is in `exposed`.

### Bounds

Two requests on one path and a third elsewhere show every race of two operations
with a late mount, hence three handlers. `MaxMounts = 2` lets a second mount land,
which is what MountedOnce forbids. One restart at any point is enough to lose
every intermediate state once; two for the Kerberos caches, where one leaves a
temporary link and the next interrupts its removal. One share or one user is the
case where volumes interact. Four tokens of subDir make every nested, doubled,
leading and trailing slash next to a separator or a name. `TTL = 2` is the least
for which an entry can be read between two ticks and be renewed. Handlers are symmetric, and so are volumes and pods
where nothing tells them apart. The controller runs and `volume_id` may stop once
every volume is deleted, so deadlock is not checked there; in the other runs it is.

### Fairness

`Fairness` of NodeServer: Go runs every runnable goroutine, and mount(8) returns at
last. `RetryFairness` adds that kubelet repeats a stage, and strong fairness of the
steps that can repair the link: no outside fault strikes each attempt at the same
place. `StatsSpec` adds that time passes; nothing is assumed of stats requests.
`RetrySpec` of WindowsMounters says of unstage what RetryFairness says of stage.
The temporal violations
are found under these specifications, so they are not artefacts of a system that
stops.

## 4. Proofs

Every theorem holds for all values of the constants that satisfy the assumptions of
the module, which TLC evaluates in the runs:

* NodeServer: kinds of paths are disjoint, every path belongs to a volume, a target's
  source is a staging path, bounds are numbers. KubeletNode adds that a target
  and the staging path it is bound from belong to the same volume.
* ControllerServer: sources, policies, secrets and subdirectories are those of
  volumes. Clones may be cloned.
* VolumeID: strings are sequences of tokens, among them the ones the code knows; the
  name of a volume is a token other than "/", "#", "." and "..". A provisioner's
  names (`pvc-` and a UUID) are.
* KerberosCache: volumes, users and control points are different things, which the
  code has by their being strings of different shape (`pc` holds the entry under
  removal); every volume has a user.
* WindowsNode: every volume has a remote path; the mounters are the three there are.

| module | theorem | statement |
|---|---|---|
| `NodeServerProofs` | `TypeCorrect` | `Spec => [](TypeOK /\ ControlOK)` |
| | `LockOwnership` | `Spec => []LockOwned` |
| | `StagingAnswers` | `Spec => []StagingAnswersHold` |
| | `NodeImplementsContract` | `Spec => ImplementsContract` |
| `TargetProofs` | `TargetAnswers` | `CallersWait /\ Spec => []TargetAnswersHold` |
| | `NeverMountedTwice` | `CallersWait /\ Spec => []MountedOnce` |
| | `LockedNeverStack` | `Spec => []LockedMountedOnce` |
| | `TargetsRefinement` | `CallersWait /\ Spec => TargetsImplementContract` |
| `KubeletProofs` | `PodsGetTheirShare` | `CallersWait /\ KubeletSpec => []PublishedCarriesShare` |
| | `InUseStaysMounted` | `CallersWait /\ KubeletSpec => InUseUnmountedOnlyAfterProbe` |
| `ControllerProofs` | `ControllerTypeCorrect` | `Spec => []TypeOK` |
| | `CreatedVolumes` | `Spec => []CreatedIsOnShare` |
| | `DeletedVolumes` | `Spec => []DeletedIsGone` |
| | `ArchivedVolumes` | `Spec => []DeletedIsArchived` |
| | `RetainedVolumes` | `Spec => []RetainedIsKept` |
| | `ArchiveKept` | `~RemoveArchivedVolumePath /\ Spec => []ArchiveNeverLost` |
| `KerberosProofs` | `KerberosTypeCorrect` | `Spec => []TypeOK` |
| | `KerberosLinks` | `Spec => []LinkNotDangling` |
| | `KerberosCleanup` | `Spec => []UnstagedIsClean` |
| | `TicketFoundInTurn` | `Spec /\ []OneCallPerUser => []MountFindsTicket` |
| | `TicketFoundAlone` | `OneVolumePerUser /\ Spec => []MountFindsTicket` |
| `VolumeIDProofs` | `IDRoundTrip` | `Spec => []IDParsesBack` |
| | `DistinctVolumes` | `Spec => []VolumesApart` |
| | `DeletionConfined` | `Spec => []DeleteSparesOthers` |
| `WindowsProofs` | `WindowsTypeCorrect` | `Spec => []TypeOK` |
| | `ReferencesKeepMapping` | `Spec => []ReferencedIsMapped` |
| | `StagedKeepsMapping` | `Spec => []StagedIsMapped` |
| | `WindowsRefinement` | `Spec => WindowsImplementsContract` |

A few hypotheses remain, each one that the finding of a run shows to be needed.
`CallersWait` says that callers of publish and unpublish do not give up before the
answer (`Abandonable` has no target); `node_target_twice` is what happens otherwise.
`~RemoveArchivedVolumePath` is the flag switched off; `controller_archive` is what
happens with it on. `OneCallPerUser`, that stages and unstages of the volumes of a user
take turns, and `OneVolumePerUser`, which implies it, are what `kerberos_link` lacks.
NodeStageVolume and NodeUnstageVolume may be given up in all theorems, and an
ephemeral publish in `LockedNeverStack`.

### The arguments

*Staging paths* (`IInv` of NodeServerProofs). TypeOK is not inductive:
`Key(path[c])` is a key only if a handler that locks has a path. ControlOK ties the
RPC, control point, path and mount goroutine of a handler together.
StagingAnswersHold is not inductive either: that a handler about to answer tells
the truth depends on what it found earlier, and on nobody else having changed it.
`IInv` adds LockOwned and StagingOK, which says for every control point how many
mounts the path has and that a mount goroutine runs only under its own handler's
lock. LockOwned gives the rest: at most one handler works on a staging path, so all
others leave it alone. The refinement uses the same invariant: a step of that one
handler is an Ask or a Serve of MountContract, every other step stutters.

*Targets* (`TInv`). No lock keeps handlers of a target apart, so LockOwned does not
help; what does is ServedOnce: of the handlers on a target at most one serves a
caller. The only other one can be the late mount of an ephemeral volume (TargetShared), and the
only request that gets past its lock is an unpublish. Two facts keep these apart:
CallTrue, that a mount goroutine runs only while nothing is mounted, and PathTrue,
that an unpublished target has no directory, so that a mount that is still to come
fails. That the directory is gone, and not only the mount, is the strengthening
TargetAnswersHold needs.

*Locked paths* (`LInv`). MountedOnce is false as soon as callers of a publish give up.
LockedMountedOnce, its restriction to the paths that a stage locks, is true whatever
callers do. It needs RunsOverFree: a mount command that is under way runs over a free
path. ensureMountPoint found the path free when it was started, LockOwned (the lock
stays with a late mount) excludes a second command, and an unpublish next to it only
unmounts.

*Kubelet's order* (`KInv`). PublishedCarriesShare is about binds of an unmounted
staging path, so a volume that is being published has to stay staged
(PublishStaged), which StagingAnswers turns into a mount; one that is being unstaged
is published nowhere (UnstageUnused); and only shares are ever mounted, on whatever
path (OnlyShares). InUseUnmountedOnlyAfterProbe is about two kinds of steps. One that
takes a mount away is a step of a handler on that path (OnlyWorkUnmounts: failing and
recovering links and restarts leave mounts where they are), not of an unstage, as the
volume is in use, so of a stage at its unmount. One that leads a stage there is its
probe, which has just found the link invalid (UnmountsFoundInvalid). No invariant
carries the verdict to the unmount, because a link may recover. KubeletIsNode lets all that was proved
about NodeServer be used: kubelet's order only restricts its requests.

*Controller* (`IInv` of ControllerProofs). VolumesOwned says why no two handlers
work on one volume: two of one RPC by the lock, a creation and a deletion (whose
keys differ: name and ID) by the order of the provisioner's calls; and that the
source of a running clone is not being deleted. MountKept is what makes MkdirAll and
RemoveAll work on the share and not on the driver's disk. VolumeTrue says what is on
the share for each thing the provisioner was told, and that a cached deletion is a
true one; CallTrue what a handler that is about to succeed has done.
DeletedIsArchived needs one more thing: while a volume to be archived is being
deleted, its directory is gone or whole, so what a rename moves is all the data.

*Kerberos caches* (`IInv` of KerberosProofs). The lock of the volume makes one
handler the owner of its ticket file and temporary links (VolumesOwned), the link of the user is
shared. LinkNotDangling then needs that a stage that is about to rename has its
file (TicketKept), that temporary links a restart left lead to a file
(TempNotDangling), and that an unstage removes the file only when what leads to it
was on its list (ScanComplete): other stages of the user never make the link lead to
this volume. MountFindsTicket needs two facts more: a user's link leads to volumes of
that user only, and so does an entry an unstage removes (LinksOfUser); and from the
rename to the mount the link leads to the stage's own, whole ticket (TicketReady).
The first holds of all callers, the second only if those of a user take turns.

*Volume IDs* (`VolumesInv` of VolumeIDProofs). The invariant is plain: what was created
is newSMBVolume of the class, what was deleted is getSmbVolFromID of its ID. The work
is in the operators, for strings of every length. Instead of recursion and induction
over strings the proofs use positions: Least, that every set of numbers has a least
element (from the well-foundedness of <), gives the first separator, the ends of what
Trim keeps and the start of the element a token is in. IDSegments takes the ID apart
at its separators. Shift relates a path to the same path with slashes around it, and
ElementsShift shows that they have the same elements. For the other direction of
IDParsesBack a '#' is in some element of the directory (ElementOf) and in none that
comes from a segment. DistinctVolumes rests on IDInjective: the parts of two IDs of a
class are equally long (TrimReplace), so equal IDs have equal names. Without a '#' the
mount of DeleteVolume is that of CreateVolume, by the round trip.
DeletionConfined compares what comes back of one volume's subDir with the whole subDir
of another. What comes back is subDir cut off at its first '#' (CutOff, SubDirCutOff),
with the name still in it if the name comes before (NameKept). Up to the element the
cut is in, the paths of two volumes have their elements at the same places
(ElementReplace, CutOffElement, CutOffDepth): the element with the placeholder has the
same depth in both and different tokens (RemovedApart). The archived path has a first
element that is longer than the other volume's or, if the subDir begins with "./", one
element more (ArchivedApart); after a cut the other path may have as many, and then one
of them has a '#' that no archived path has (ArchivedCutApart).

*Windows mounters* (`IInv` of WindowsProofs). With csi-proxy, mapping and count
change under the mutex of the remote path, which one handler has (MutexOwned), so
that the count it decided on is still right when it removes the mapping
(CountUpToDate); a link without a reference belongs to a handler that is just making or removing
it, or is in `exposed` (LinksCounted). With the host process there is no mutex;
ScanComplete says that a scan passes over no link but exposed ones. The refinement
rests on VolumesOwned: only the handler of a volume touches its link, while kubelet
has no answer; CountUpToDate adds that a stage that has counted its reference still has its link.

### Only model-checked

* LockReleased, InvalidLinkUnmounted, StatsCatchUp: liveness under fairness is out
  of the prover's reach.
* The properties that runs show to be violated.

Every inductive invariant was first checked with TLC as an invariant of the run of its
module (`node_safety`, `kubelet_order`, `controller_safety`, `kerberos_cache`, `volume_id`,
`windows_mapping`). Every invariant and action property that a passing run checks is
proved.

## 5. Not modelled

Publish on Windows (a second symbolic link, made and removed without a lock), the
syntax of Windows paths, the content of mount options and of the credentials; the
identity service, csi-common, util, metrics; stateless controller RPCs. A volume
that is created again under an ID deleted a minute ago is not explored: the
provisioner does not reuse names. `PROJECT.json` gives the reason for each part.

## 6. Plan

1. Safety of the volume statistics: what a figure in the cache can be, given what
   was mounted since it was measured, as the inductive invariant behind StatsCatchUp.
2. Publish on Windows, a second symbolic link, against the same contract.
3. Volume IDs of different storage classes, whose sources may differ only in slashes.
