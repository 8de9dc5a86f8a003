SPECIFICATION Spec
CONSTANTS
  Scripts <- WaitingScripts
  Pretext <- WaitingPretext
CHECK_DEADLOCK FALSE
INVARIANT NeverWonky
