CONSTANTS
  LcoreCounts = {1, 2, 3, 4}
  RunTimes = {0, 4}
  TIMER_PERIOD_SEC = 3
  LinkWaitSec = 4
  MaxAuxDelay = 1
  MaxTime = 13
SPECIFICATION FairSpec
INVARIANTS
  TimeLimitKept
  SummaryIsFinal
PROPERTIES
  Shutdown
