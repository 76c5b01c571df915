\* Every operation, three handlers, all ways a share can fail, one restart.
CONSTANTS
  c1 = c1  c2 = c2  c3 = c3  v1 = v1  v2 = v2  s1 = s1  t1 = t1  t2 = t2  e1 = e1
  Calls = {c1, c2, c3}
  Volumes = {v1, v2}
  StagingPaths = {s1}
  PublishPaths = {t1}
  EphemeralPaths = {e1}
  Vol <- MCVol
  Source <- MCSource
  NoPath = NoPath
  FailModes = {"stat", "open", "read"}
  Abandonable = {s1}
  SkipMountPointCheck = TRUE
  MaxMounts = 2
  MaxCrashes = 1
SPECIFICATION Spec
SYMMETRY Symmetric
INVARIANTS TypeOK LockOwned StagingAnswersHold TargetAnswersHold MountedOnce
PROPERTIES ImplementsContract TargetsImplementContract
