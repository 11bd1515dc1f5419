SPECIFICATION Spec
CONSTANTS
  Hosts = {h1, h2}
  NoThread = NoThread
  MaxJobs = 1
  BreakpointsSet = FALSE
  ConfigChanges = TRUE
INVARIANT IntentHonoured
INVARIANT AdjacentFollowsState
PROPERTY StopIsFinal
PROPERTY PauseEventuallyGranted
PROPERTY StopEventuallyExits
PROPERTY JobsRunWhenHeard
