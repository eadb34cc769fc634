SPECIFICATION Spec
CONSTANTS
  c1 = c1
  c2 = c2
  Chat <- TwoChats
  Model = {A}
  Grounded <- NoChat
  Panel = {A}
  MaxCalls = 1
  None = None
SYMMETRY Chats
INVARIANTS
  TurnsLeaveNothingBehind
  TurnsFitTheirBinding
  BoundChatIsRemembered
PROPERTIES
  OnlyACrashCutsAnAnswer
