SPECIFICATION Spec
CONSTANTS
  Scenarios <- MCScenarios
  MaxDistance = 2
  DistanceLimit = 4
  MaxRequests = 1
  MaxTicks = 2
  Cycles = {0, 1, 2}
  HiWatermark = 1
  MinTicks <- MCMinTicks
  WaitTicks = 1
  FIFO_SIZE = 2
INVARIANT LockedGpuIdle
INVARIANT SyncGPUDrains
INVARIANT NoSpuriousDecode
PROPERTY GpuReleasesCpu
PROPERTY CallsReturn
PROPERTY CommandsRun
PROPERTY InterruptFollows
CHECK_DEADLOCK FALSE
