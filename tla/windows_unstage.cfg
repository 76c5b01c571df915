\* Retried unstages of one volume.
CONSTANTS
  c1 = c1  c2 = c2  c3 = c3  v1 = v1  v2 = v2  v3 = v3  s1 = s1
  Calls = {c1, c2}
  Volumes = {v1}
  NoVol = NoVol
  Shares = {s1}
  MappingPath <- MCMappingPath
  Mounters = {"proxy"}
  MaxCrashes = 0
SPECIFICATION RetrySpec
PROPERTIES UnstageCompletes
