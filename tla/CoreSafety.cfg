SPECIFICATION CoreSafety
CONSTANTS
  Hosts = {h1, h2}
  Owners = {h1}
  NoThread = NoThread
  MaxJobs = 1
  MaxSessions = 2
  BreakpointsSet = TRUE
  ConfigChanges = TRUE
INVARIANT LockedHostExcludesGuest
INVARIANT GuardMatchesState
INVARIANT NothingHeldOutside
INVARIANT GuestInSession
