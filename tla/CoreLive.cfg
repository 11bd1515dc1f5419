SPECIFICATION CoreSpec
CONSTANTS
  Hosts = {h1, h2}
  Owners = {h1}
  NoThread = NoThread
  MaxJobs = 1
  MaxSessions = 2
  BreakpointsSet = FALSE
  ConfigChanges = FALSE
PROPERTY LateStopEndsSession
PROPERTY CoreCallsReturn
