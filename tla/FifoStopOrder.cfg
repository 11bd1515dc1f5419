SPECIFICATION Spec
CONSTANTS
  Scenarios <- MCStopScenario
  MaxDistance = 2
  DistanceLimit = 4
  MaxRequests = 1
  MaxTicks = 2
  Cycles = {0, 1, 2}
  HiWatermark = 1
  MinTicks <- MCMinTicks
  WaitTicks = 1
  FIFO_SIZE = 2
PROPERTY HostReturns
CHECK_DEADLOCK FALSE
