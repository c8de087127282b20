SPECIFICATION Spec
CONSTANTS
  Account = {a1, a2}
  MaxGen = 3
  MaxFaults = 0
  NoToken = NoToken
  NoLogin = NoLogin
  NoAccount = NoAccount
  NoJournal = NoJournal
  ClaudeCode = TRUE
  StatusNamesToken = TRUE
  Workspace <- OwnWorkspace
  User <- OwnUser
SYMMETRY Symmetry
PROPERTIES
  SwitchingAwayCaptures
