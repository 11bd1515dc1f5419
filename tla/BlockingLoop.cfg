SPECIFICATION Spec
CONSTANTS
  Clients = {owner, c1}
  Owner = owner
  Worker = worker
  NoThread = NoThread
  HasTimeout = TRUE
INVARIANT WaitMeansRun
INVARIANT NoLostWakeup
PROPERTY WakeupRunsPayload
PROPERTY WaitReturns
