CONSTANTS
  Kinds = {"sprite"}
  Values = {3}
  Durations = {0, 3}
  FrameTime = 1
  MaxChanges = 3
  MaxReplaced = 1
  Patient = FALSE
  None = None
SPECIFICATION Spec
PROPERTY DestinationKept
CHECK_DEADLOCK FALSE
