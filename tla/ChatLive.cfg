SPECIFICATION FairSpec
CONSTANTS
  c1 = c1
  c2 = c2
  Chat <- OneChat
  Model = {A}
  Grounded <- OneChat
  Panel = {A}
  MaxCalls = 2
  None = None
PROPERTIES
  TurnsEnd
