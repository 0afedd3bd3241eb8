\* Wrap = 8 makes MAX_UINT32 7, small enough for every counter to reach it, and
\* PartSize 28 large enough for a sum of 64 bits to wrap around.
CONSTANTS
  Wrap = 8
  BlockSize = 2
  PartSize = 28
  Parts = {"data", "xbl"}
  Critical = {"xbl"}
  Names = {"data", "xbl", "none", "bootloader"}
  MAX_IMAGES_IN_METAIMG = 2
  MaxChunks = 2
  Commands <- MCCommands
  IoMayFail = TRUE
SPECIFICATION Spec
INVARIANTS TypeOK AccessesInside OkayMeansStored GoodImageAccepted
PROPERTY CriticalKept
CHECK_DEADLOCK FALSE
