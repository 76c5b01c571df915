\* One volume published to two pods; kubelet may give up waiting for a stage.
CONSTANTS
  c1 = c1  c2 = c2  c3 = c3  v1 = v1  s1 = s1  t1 = t1  t2 = t2
  Calls = {c1, c2, c3}
  Volumes = {v1}
  StagingPaths = {s1}
  PublishPaths = {t1, t2}
  EphemeralPaths = {}
  Vol <- MCVol
  Source <- MCSource
  NoPath = NoPath
  FailModes = {"stat", "open", "read"}
  Abandonable = {s1}
  SkipMountPointCheck = FALSE
  MaxMounts = 2
  MaxCrashes = 1
SPECIFICATION KubeletSpec
SYMMETRY Symmetric
INVARIANTS PublishedCarriesShare
PROPERTIES InUseUnmountedOnlyAfterProbe
