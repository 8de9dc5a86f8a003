CONSTANTS
  imageCache = imageCache
  playSound = playSound
  events = events
  t1 = t1
  t2 = t2
  Queue = {imageCache, playSound, events}
  Order <- OrderCacheSound
  QuitOnEmpty = {imageCache}
  Resident = {events}
  EventQueue = events
  Synchronous = {playSound}
  Reporting = {playSound}
  MayFail = {imageCache, playSound}
  Slot = {t1, t2}
  None = None
  Main = Main
  MaxSubmit = 2
  MaxResets = 1
  ResCap = 1
SPECIFICATION FairSpec
\* endThreads can be suspended for ever.
CHECK_DEADLOCK FALSE
INVARIANTS
  NoOrphan
  SemCovers
  NothingSurvivesEndThreads
  UnlockedClearIsSafe
  OwnResult
PROPERTIES
  IsSerialExecutor
  BlockingCallReturns
  EveryInstructionTaken
  EndThreadsReturns
