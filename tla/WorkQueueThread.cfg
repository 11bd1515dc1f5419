SPECIFICATION Spec
CONSTANTS
  Clients = {c1, c2}
  Worker = worker
  NoThread = NoThread
  MaxItems = 2
INVARIANT PopHasElement
INVARIANT QuietOnReturn
INVARIANT NoLostWakeup
PROPERTY ImplementsWorkQueue
PROPERTY CallsReturn
PROPERTY ItemsProcessed
CHECK_DEADLOCK FALSE
