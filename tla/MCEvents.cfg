SPECIFICATION FairSpec
CONSTANTS
  UserTypes <- AllUserTypes
  MaxEvents = 2
  MaxSounds = 2
  HoverSounds = FALSE
  None = None
\* The program may end.
CHECK_DEADLOCK FALSE
INVARIANTS
  NeverPopsEmpty
  InputGoesToOne
  HandledClickAnswersNone
PROPERTIES
  IsEventStream
  ClickEndsWait
  VoiceEndsWait
  QuitHonoured
