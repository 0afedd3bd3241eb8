CONSTANTS
  MAX_PRIORITY = 2
  MAX_RETRY_COUNT = 2
  Parts <- MCParts
  Tables <- MCTables
  SlotArgs = {"a", "b", ""}
  RootDevice = "UFS"
  ShortLists = {}
  LunMayFail = FALSE
SPECIFICATION Spec
PROPERTIES
  SetActiveRaisesOne
