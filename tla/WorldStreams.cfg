CONSTANTS
  w1 = w1
  w2 = w2
  v1 = v1
  v2 = v2
  None = None
  Worlds = {w1, w2}
  Viewers = {v1, v2}
  FramesPerStep = 1
  QueueLength = 1
  MaxVersion = 2
  MaxJobs = 2
SPECIFICATION Spec
INVARIANTS
  OneStream
  WorldsAtRest
  EditsStandAlone
  VersionsAreShown
  Decodable
PROPERTY VersionsGoForward
SYMMETRY MCSymmetry
CHECK_DEADLOCK FALSE
