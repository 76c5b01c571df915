\* A staging path and a target of one volume, and the statistics of the target.
CONSTANTS
  c1 = c1  c2 = c2  v1 = v1  s1 = s1  t1 = t1
  Calls = {c1, c2}
  Volumes = {v1}
  StagingPaths = {s1}
  PublishPaths = {t1}
  EphemeralPaths = {}
  Vol <- MCVol
  Source <- MCSource
  NoPath = NoPath
  FailModes = {"open"}
  Abandonable = {}
  SkipMountPointCheck = TRUE
  MaxMounts = 2
  MaxCrashes = 1
  StatsPaths = {t1}
  TTL = 2
SPECIFICATION StatsSpec
PROPERTIES LockReleased InvalidLinkUnmounted StatsCatchUp
