INIT AllInit
NEXT AllNext
CONSTANTS
  Codes = {4}
  MaxUnits = 4
  MaxChunks = 3
  MaxOdd = 2
  Quantisers <- SomeQuantisers
  InitQPs <- SomeInits
  BlockSizes <- SomeSizes
  Pictures <- SomePictures
  Rates = {500, 2000, 4000, 12000}
  Declared = {31, 32, 40, 42, 51}
  Opus = 4
  MinSample = 1
  Gaps = {0, 1, 3, 9}
  MaxShown = 3
  MaxPackets = 4
  PerTick = 3
  Ticks = 7
  Sets = {sa, sb, cabac}
  Unread = {cabac}
  NoSets = none
  PictureQPs = {0, 20, 40}
  Nailed = 26
  MaxFrames = 4
  MaxEncoders = 3
  Period = 10
  Jitter = 1
  Gates = {0, 20, 30}
  Ages = {1, 12, 30}
  MaxAge = 20
  MaxCaptured = 6
  Packet = 3
  Decim = 2
  LevelN = 2
  MaxBlock = 7
  MaxSamples = 13
  MaxLate = 2
INVARIANTS AssemblerSafety HeadersSafety ClipSafety WaySafety
CHECK_DEADLOCK FALSE
