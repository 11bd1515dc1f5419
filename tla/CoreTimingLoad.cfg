SPECIFICATION Spec
CONSTANTS
  MAX_SLICE_LENGTH = 2
  Factors <- MCFactors
  Discs = {d1, d2}
  NoDisc = NoDisc
  BootDisc = d1
  Offsets = {o1}
  ReadTicks = {0, 1}
  OtherTicks = {0}
  Second = 2
  MaxBlock = 1
  MaxTicks = 4
  MaxEvents = 4
  MaxWaiting = 1
  MaxReads = 2
  NoState = NoState
  NoReply = NoReply
  Scenarios <- MCCard
PROPERTY LoadRestoresClock
CHECK_DEADLOCK FALSE
