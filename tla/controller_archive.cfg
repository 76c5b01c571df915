\* An archived volume whose deletion is retried.
CONSTANTS
  c1 = c1  c2 = c2  v1 = v1  w1 = w1  w2 = w2
  Calls = {c1, c2}
  Vols = {v1}
  NoVol = NoVol
  SourceOf <- MCSourceOf
  OnDelete <- MCArchive
  Secrets = {v1}
  SubDirs = {}
  RemoveArchivedVolumePath = TRUE
  MaxCrashes = 0
SPECIFICATION Spec
INVARIANTS ArchiveNeverLost
CHECK_DEADLOCK FALSE
