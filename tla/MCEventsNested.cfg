SPECIFICATION Spec
CONSTANTS
  UserTypes <- Pointer
  MaxEvents = 2
  MaxSounds = 1
  HoverSounds = TRUE
  None = None
INVARIANT LoopNotReentered
CHECK_DEADLOCK FALSE
