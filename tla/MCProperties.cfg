CONSTANTS
  Kinds <- AllKinds
  Values = {3}
  Durations = {0, 3}
  FrameTime = 1
  MaxChanges = 3
  MaxReplaced = 1
  Patient = TRUE
  None = None
SPECIFICATION Spec
PROPERTIES DestinationKept WaitReturns
CHECK_DEADLOCK FALSE
