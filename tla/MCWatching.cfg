SPECIFICATION AllSpec
CONSTANTS
  Viewers = {v1, v2}
  Outputs = {o1, o2, o3}
  Nobody = Nobody
  NoOutput = NoOutput
  Idle = 1
  TalkMax = 4
  Cooldown = 3
  Retry = 1
  Sessions = {s1, s2}
  MaxOpen = 1
SYMMETRY Symmetry
INVARIANTS TalkbackSafety TheRoomIsCapped ViewersSafety
PROPERTIES ImplementsFloor
CHECK_DEADLOCK FALSE
