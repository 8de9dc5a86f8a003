SPECIFICATION Spec
CONSTANTS
  UserTypes = {}
  MaxEvents = 2
  MaxSounds = 2
  HoverSounds = FALSE
  None = None
PROPERTY EndStopsNoOther
CHECK_DEADLOCK FALSE
