CONSTANTS
  RootDevice = "UFS"
  MAX_LUNS = 3
  INT32_MAX = 7
  Luns = {0}
  Names <- MCNames
  NumSectors = 8
  EntryBlocks = 2
  Images <- MCImages
  Factory <- MCFactory
  Cuts = {3, 6}
  IoMayFail = TRUE
SPECIFICATION Spec
INVARIANTS
  TypeOK
  CopiesAgree
  OkayMeansWritten
PROPERTIES
  OnlyNamedLunsWritten
