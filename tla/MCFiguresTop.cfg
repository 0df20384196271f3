SPECIFICATION AllSpec
CONSTANTS
  Ceiling = 1200
  AudioKbps = 50
  Estimates = {0, 300, 800, 1230, 3000}
  Losses = {0, 2, 10}
  RiseWait = 2
  LossWindow = 1
  SentSamples = 2
  TargetQP = 26
  QPs <- QuantisersRead
  Caps = {400, 1200}
  QualityWindow = 2
  QualitySettle = 2
  MaxTurns = 1
  Bases <- Captured
  Bandwidths = {0, 100, 700, 1600}
  ScaleSettle = 2
  ScaleDwell = 4
  ScaleConfirm = 2
  ScaleWindow = 2
  Steadies <- ConfirmTicks
  MaxUpsets = 1
  Measured = {80, 290}
  Worlds <- SomeWorlds
  MaxShifts = 2
  Running <- Mine
  Releases <- SomeReleases
  MaxReleases = 3
  Contents <- SomeContents
  Screens = {96, 120, 168}
  Texts = {0, 19, 40, 61, 150}
  Codes = {0, 29, 49}
  DoubleClick = 2
  MaxMessages = 2
  MaxTime = 4
  Lengths = {1, 14, 43, 107}
INVARIANTS
  TheTopIsReached
CHECK_DEADLOCK FALSE
