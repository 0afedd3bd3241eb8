SPECIFICATION Spec
CONSTANTS
  None = None
  Defaults <- MCDefaults
  Shell = "shell"
  Own = "own"
  Numbers = {0, 1, 2, 3}
  Images <- MCImages
  Scopes <- MCScopes
  Retries = 1
  MayFail = TRUE
INVARIANTS TypeOK DefaultsOnce
PROPERTIES LockHolds PressHonoured
