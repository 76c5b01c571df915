\* A publish whose caller gave up, and its retry.
CONSTANTS
  c1 = c1  c2 = c2  c3 = c3  v1 = v1  v2 = v2  s1 = s1  t1 = t1  t2 = t2  e1 = e1
  Calls = {c1, c2}
  Volumes = {v1}
  StagingPaths = {s1}
  PublishPaths = {t1}
  EphemeralPaths = {}
  Vol <- MCVol
  Source <- MCSource
  NoPath = NoPath
  FailModes = {}
  Abandonable = {t1}
  SkipMountPointCheck = TRUE
  MaxMounts = 2
  MaxCrashes = 0
SPECIFICATION Spec
INVARIANTS MountedOnce
