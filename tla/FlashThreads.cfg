CONSTANTS
  MultiThread = TRUE
  PromptThreads = TRUE
  MaxImages = 4
  MaxBarriers = 2
  Kinds <- UsualKinds
  Faults = {"write", "create", "alloc"}
SPECIFICATION FairSpec
PROPERTIES
  ImplementsQueue
  AllWritten
