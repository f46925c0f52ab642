CONSTANTS
  WorkerNum = 2
  TicksPerSec = 3
  UnitNum = 1
  Modes = {FALSE}
  Prompt = TRUE
  MaxOvershoot = 1
  MaxTime = 12
SPECIFICATION Spec
INVARIANTS
  PulsesTogether
