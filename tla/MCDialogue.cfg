SPECIFICATION FairSpec
CONSTANTS
  Scripts <- SmallScripts
  Pretext <- WaitingPretext
\* A script ends.
CHECK_DEADLOCK FALSE
INVARIANTS
  NeverWonky
  OneContinuation
PROPERTIES
  IsDuet
  ScriptEnds
