\* A volume that is deleted, and two clones: one archived, one retained.
CONSTANTS
  c1 = c1  c2 = c2  v1 = v1  w1 = w1  w2 = w2
  Calls = {c1, c2}
  Vols = {v1, w1, w2}
  NoVol = NoVol
  SourceOf <- MCSourceOf
  OnDelete <- MCOnDelete
  Secrets = {v1, w1, w2}
  SubDirs = {}
  RemoveArchivedVolumePath = TRUE
  MaxCrashes = 1
SPECIFICATION Spec
SYMMETRY Symmetric
INVARIANTS TypeOK CreatedIsOnShare DeletedIsGone DeletedIsArchived RetainedIsKept
CHECK_DEADLOCK FALSE
