SPECIFICATION Spec
CONSTANTS
  Account = {a1, a2}
  MaxGen = 3
  MaxFaults = 2
  NoToken = NoToken
  NoLogin = NoLogin
  NoAccount = NoAccount
  NoJournal = NoJournal
  ClaudeCode = TRUE
  StatusNamesToken = FALSE
  Workspace <- OwnWorkspace
  User <- OwnUser
SYMMETRY Symmetry
INVARIANTS
  SavedUnderItsAccount
