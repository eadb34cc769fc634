SPECIFICATION Spec
CONSTANTS
  None = None
  Proc = {1, 2}
  Stopper = {s1, s2}
  Request = {r1, r2, r3}
  Slots = 2
  ServiceSlots = 1
  MaxArtifacts = 2
  MaxActs = 4
  Crashes = 1
INVARIANTS
  ServerKeepsItsBooks
  

  
CHECK_DEADLOCK FALSE
