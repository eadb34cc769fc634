CONSTANTS
  None = None
  Model = {1, 2}
  ImageModel = {4, 5}
  Need <- Needs
  Hash <- Hashes
  Memory <- Free
  Headroom = 10
  Installed <- Skills
  Requests <- Asked
  MaxChanges = 2
SPECIFICATION PlanningSpec
INVARIANTS
  PlansAreSound
  
  
CHECK_DEADLOCK FALSE
