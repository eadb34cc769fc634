SPECIFICATION Spec
CONSTANTS
  short = short
  long = long
  Entity <- TwoEntities
  Size <- TheirSizes
  Job = {j1, j2}
  Window = window
  MaxJobs = 1
  Together = FALSE
  None = None

  
PROPERTIES
  CancelledLeavesNothing
  EveryProgressStreamEnds
