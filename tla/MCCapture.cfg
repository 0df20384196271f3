SPECIFICATION Spec
CONSTANTS
  Cameras = {c1, c2}
  AnyCamera = anyCamera
  NoCamera = noCamera
  MaxEvents = 2
  MaxBackoff = 2
  Mics = {m1, m2}
  AnyMic = anyMic
  NoMic = noMic
  MaxMicEvents = 2
  Preset = 16
  Rates = {3}
  MaxEncoders = 4
  MaxCommands = 2
  MaxSwitches = 1
  Commanded = {10, 19, 20, 40}
  Scenes = {5, 18, 20, 60}
  Gains = {8, 14}
  ProofScale = 5
  Streak = 2
  ProbeDrop = 2
  MinGap = 1
  Grace = 2
  Enough = 3
  Gop = 0
  MaxFrames = 9
  Early = 4
  EarlyFor = 8
  Late = 8
  Tries = 2
  VerifyAfter = 2
  MaxTaken = 26
INVARIANTS CameraSafety MicrophoneSafety EncoderSafety WatchesSafety
PROPERTIES TheChosenAreOpened
CHECK_DEADLOCK FALSE
