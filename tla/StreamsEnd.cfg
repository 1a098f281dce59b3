CONSTANTS
  w1 = w1
  w2 = w2
  v1 = v1
  v2 = v2
  None = None
  Worlds = {w1}
  Viewers = {v1}
  FramesPerStep = 2
  QueueLength = 1
  MaxVersion = 1
  MaxJobs = 2
SPECIFICATION FairSpec
PROPERTY StoppedStreamsEnd
CHECK_DEADLOCK FALSE
