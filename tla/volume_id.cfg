\* Two volumes of a storage class, any subDir of up to four tokens.
CONSTANTS
  Tokens <- MCTokens
  Names = {"n", "m"}
  Sources <- MCSources
  SubDirs <- MCSubDirs
  OnDeletes = {"", "delete", "retain", "archive", "other"}
SPECIFICATION Spec
INVARIANTS IDParsesBack VolumesApart DeleteSparesOthers
CHECK_DEADLOCK FALSE
