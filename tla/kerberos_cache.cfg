\* Two volumes of one user, two handlers, two restarts.
CONSTANTS
  c1 = c1  c2 = c2  v1 = v1  v2 = v2  u1 = u1
  Calls = {c1, c2}
  Volumes = {v1, v2}
  NoVol = NoVol
  Uids = {u1}
  CredUID <- MCCredUID
  MaxCrashes = 2
SPECIFICATION Spec
SYMMETRY Symmetric
INVARIANTS TypeOK LinkNotDangling UnstagedIsClean
