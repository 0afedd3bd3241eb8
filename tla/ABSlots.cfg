CONSTANTS
  MAX_PRIORITY = 2
  MAX_RETRY_COUNT = 2
  Parts <- MCParts
  Tables <- MCTables
  SlotArgs = {"a", "b", "_b", "", "_", ","}
  RootDevice = "UFS"
  ShortLists <- MCShortLists
  LunMayFail = TRUE
SPECIFICATION Spec
INVARIANTS
  TypeOK
  OneActiveSlot
  BootedSlotSound
  SetActiveHolds
  GuidsFollowActiveSlot
  PublishedFaithful
PROPERTIES
  FallbackToProven
  ImplementsRegister
