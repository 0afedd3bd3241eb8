CONSTANTS
  Builds <- MCBuilds
  Parts = {"super", "system", "userdata", "xbl", "avb_custom_key"}
  Critical = {"xbl", "bootloader"}
  MergeImages = {"invalid", "merging"}
  MetaParts = {"xbl", "system", "super"}
  VerityModes = {TRUE, FALSE}
  IoMayFail = TRUE
  ResetMayFail = TRUE
SPECIFICATION Spec
INVARIANT TypeOK
PROPERTIES LockedKeepsPartitions SuperCancelsMerge WipeKept ConfirmedByUser
