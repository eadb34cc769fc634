SPECIFICATION WindowSpec
CONSTANTS
  None = None
  Model = {1, 2, 3}
  BackendOf <- OneRuntime
  Numeric = {2}
  MaxActs = 6
  TurnCost = 2
  TalkCost = 3
INVARIANTS
  ServersFollowTheWindow
PROPERTIES
  WindowRecovers
CHECK_DEADLOCK FALSE
