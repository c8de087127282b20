SPECIFICATION Spec
CONSTANTS
  Account = {a, b}
  NoAccount = NoAccount
  Thread = {ui, bg}
  NoThread = NoThread
  Screen = ui
  Actor = {ui, bg}
  NoCache = NoCache
  NoWork = NoWork
  Told = Told
  Interval = 2
  CheckInterval = 1
  RetryAfter = 1
  MaxAge = 2
  MaxFailures = 1
  MaxCalls = 3
  MaxOutside = 1
  MaxTogether = 3
SYMMETRY Renaming
CHECK_DEADLOCK FALSE
INVARIANT ListingCurrent
