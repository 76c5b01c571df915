\* Stages of two volumes of one user next to each other.
CONSTANTS
  c1 = c1  c2 = c2  v1 = v1  v2 = v2  u1 = u1
  Calls = {c1, c2}
  Volumes = {v1, v2}
  NoVol = NoVol
  Uids = {u1}
  CredUID <- MCCredUID
  MaxCrashes = 0
SPECIFICATION Spec
INVARIANTS MountFindsTicket
