SPECIFICATION AllSpec
CONSTANTS
  Shapes = {small, large}
  NoShape = NoShape
  NoClip = NoClip
  WholeGops = 1
  MaxBytes = 3
  MaxClipBytes = 4
  PostRoll = 1
  MaxDuration = 1
  MaxAudioAge = 1
  MaxFrames = 4
  MaxTime = 2
  Endpoints = {e1, e2, e3}
  PushKeys = {k1, k2}
  Off = off
  MaxSubscriptions = 2
  MaxDeliveries = 1
  MaxFailures = 1
  Quota = 2
  MaxAge = 1
  Sizes = {1, 3}
  NameTries = 2
  PartAge = 1
  LastSecond = 2
  MaxClips = 3
  MaxReaders = 1
  Pages = {p1, p2}
  Devices = {d1, d2}
  NoDevice = none
  MaxSet = 2
  MaxUnsaved = 1
SYMMETRY Symmetry
INVARIANTS RecorderSafety PushSafety ClipsSafety ConfigSafety
PROPERTIES OrderlyEndKeepsAll NothingDearIsDeleted
CHECK_DEADLOCK FALSE
