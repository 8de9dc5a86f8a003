CONSTANTS
  l1 = l1
  l2 = l2
  Layer = {l1, l2}
  FrameQueueMaxSize = 3
  Rate = 1
  Frame = 1
  MaxLag = 2
  Horizon = 4
  MaxLoads = 2
  Files = {{0, 1, 2, 3, 4}, {0, 3}, {1, 2, 4}}
  None = None
SPECIFICATION Spec
\* A script that plays two files at once, or updates after endThreads, hangs.
CHECK_DEADLOCK FALSE
INVARIANTS
  DecoderOwnsItsLayer
PROPERTIES
  PictureIsCurrent
  UpdateReturns
  StopReturns
