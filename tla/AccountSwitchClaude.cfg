SPECIFICATION ClaudeSpec
CONSTANTS
  Account = {a1, a2}
  MaxGen = 3
  MaxFaults = 3
  NoToken = NoToken
  NoLogin = NoLogin
  NoAccount = NoAccount
  NoJournal = NoJournal
  ClaudeCode = TRUE
  StatusNamesToken = TRUE
  Workspace <- OwnWorkspace
  User <- OwnUser
  Writer = {app, claude}
  Missing = Missing
  RefreshStale = 2
  StorageStale = 1
  MaxWrites = 3
  MaxCrashes = 1
  MaxDenials = 1
SYMMETRY ClaudeSymmetry
INVARIANTS
  NativeWhole
  SavedUnderItsAccount
  RecoveryPossible
  OneStore
  ChangesKept
PROPERTIES
  NoLoginLost
