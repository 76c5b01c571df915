\* Three volumes of one remote path, three handlers, one restart, any mounter.
CONSTANTS
  c1 = c1  c2 = c2  c3 = c3  v1 = v1  v2 = v2  v3 = v3  s1 = s1
  Calls = {c1, c2, c3}
  Volumes = {v1, v2, v3}
  NoVol = NoVol
  Shares = {s1}
  MappingPath <- MCMappingPath
  Mounters = {"proxy", "plain", "host"}
  MaxCrashes = 1
SPECIFICATION Spec
SYMMETRY Symmetric
INVARIANTS TypeOK ReferencedIsMapped StagedIsMapped
PROPERTIES WindowsImplementsContract
