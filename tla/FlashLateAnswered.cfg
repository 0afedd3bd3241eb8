CONSTANTS
  MultiThread = TRUE
  PromptThreads = FALSE
  MaxImages = 3
  MaxBarriers = 2
  Kinds <- UsualKinds
  Faults = {"write", "create"}
SPECIFICATION FairSpec
PROPERTIES
  Answered
