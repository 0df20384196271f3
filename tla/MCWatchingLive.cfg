SPECIFICATION AllFairSpec
CONSTANTS
  Viewers = {v1, v2}
  Outputs = {o1, o2}
  Nobody = Nobody
  NoOutput = NoOutput
  Idle = 1
  TalkMax = 2
  Cooldown = 2
  Retry = 1
  Sessions = {s1}
  MaxOpen = 1
PROPERTIES FloorComesBack TheGoneAreForgotten
CHECK_DEADLOCK FALSE
