SPECIFICATION AllSpec
CONSTANTS
  FirstWait = 1
  MaxWait = 3
  Recheck = 6
  Grace = 5
  Confirm = 2
  Accessories = {"tray"}
  Limit = 1
  NoIcon = NoIcon
  Phases = {"home", "fault"}
  Scales = {16, 20}
  MaxMoves = 2
INVARIANTS TunnelSafety ProgramSafety TraySafety
PROPERTIES TunnelGoesOn ProgramGoesOn TheIconTells
CHECK_DEADLOCK FALSE
