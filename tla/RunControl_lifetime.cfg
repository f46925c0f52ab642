CONSTANTS
  LcoreCounts = {1, 3}
  RunTimes = {0}
  TIMER_PERIOD_SEC = 3
  LinkWaitSec = 4
  MaxAuxDelay = 1
  MaxTime = 14
SPECIFICATION Spec
INVARIANTS
  AliveForTheRun
