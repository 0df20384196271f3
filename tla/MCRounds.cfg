SPECIFICATION AllFairSpec
CONSTANTS
  fault = fault
  other = other
  d1 = d1
  d2 = d2
  Codes <- AllCodes
  Devices <- AllDevices
  MaxNews = 3
  Slots = 2
  MaxTries = 2
  Pixels = 3
  Shades = {50, 200}
  Threshold = 12
  StartCount = 2
  StopCount = 1
  MotionSettle = 2
  Levels <- SomeLevels
  Trigger = 12
  Release = 6
  FloorMin <- Quietest
  FloorMax <- Loudest
  BarkMin = 1
  BarkMax = 2
  CryMin = 3
  CryLong = 4
  MaxBurst = 6
  SoundSettle = 3
  Samples <- SomeSamples
  MaxHeard = 5
  MaxChanges = 2
  Interval = 2
  CryHits = 2
  CryWindow = 4
  VerdictHold = 2
  MaxRuns = 3
  StartGrace = 2
  Stall = 2
  MaxHappens = 4
INVARIANTS NotifierSafety DetectorsSafety RecogniserSafety RoundSafety
PROPERTIES NewsInOrder WhatBeginsEnds
CHECK_DEADLOCK FALSE
