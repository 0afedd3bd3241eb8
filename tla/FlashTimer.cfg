CONSTANTS
  MultiThread = FALSE
  PromptThreads = FALSE
  MaxImages = 4
  MaxBarriers = 2
  Kinds <- UsualKinds
  Faults = {"write", "create", "alloc"}
SPECIFICATION FairSpec
INVARIANTS
  TypeOK
  BufferNotShared
PROPERTIES
  FailureStopsFlashing
  Answered
