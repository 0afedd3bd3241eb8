SPECIFICATION Spec
CONSTANTS
  k1 = k1
  k2 = k2
  Keys = {k1, k2}
  Priv = {"v"}
  Shapes <- MCShapes
  Payloads <- MCPayloads
  Scopes <- MCScopes
  MaxTime = 1
  MaxSigs = 2
  MaxCerts = 1
  Pcds <- MCPcds
  MayFail = TRUE
  MayLose = TRUE
SYMMETRY Symmetry
INVARIANTS TypeOK SignerRecorded VendorKeysKept
PROPERTIES OrphansCleared KeyGivesMode OwnerChanges
