CONSTANTS
  WorkerNum = 2
  TicksPerSec = 3
  UnitNum = 2
  Modes = {TRUE, FALSE}
  Prompt = FALSE
  MaxOvershoot = 1
  MaxTime = 11
SPECIFICATION FairSpec
INVARIANTS
  SharedStart
  OnGrid
PROPERTIES
  PulseSpacing
  AllStart
