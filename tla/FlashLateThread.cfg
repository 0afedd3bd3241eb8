CONSTANTS
  MultiThread = TRUE
  PromptThreads = FALSE
  MaxImages = 2
  MaxBarriers = 1
  Kinds = {"big"}
  Faults = {}
SPECIFICATION Spec
PROPERTIES
  BarrierWaits
