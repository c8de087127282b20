SPECIFICATION FilesSpec
CONSTANTS
  Account = {a1, a2}
  MaxGen = 3
  MaxFaults = 3
  NoToken = NoToken
  NoLogin = NoLogin
  NoAccount = NoAccount
  NoJournal = NoJournal
  ClaudeCode = FALSE
  StatusNamesToken = TRUE
  Workspace <- OwnWorkspace
  User <- OneUser
  Caller = {c1, c2}
  NoCaller = NoCaller
  Listed = {server}
  Overridden = {skill}
  Plugin = {plugin}
  Absent = Absent
  Torn = Torn
  None = None
  RemovesFirst = TRUE
  MaxSwitches = 2
  MaxPublished = 1
  MaxOutside = 1
  MaxSlips = 1
  Worker = {w1, w2}
  NoWorker = NoWorker
  Place = {p1, p2}
  FileName = {"item"}
  NameOf <- SameName
  Repo = {ra}
  Nothing = Nothing
  Mine = Mine
  Unsaid = Unsaid
  MaxCommit = 2
  MaxTarballs = 1
  Keep = 2
  MaxCalls = 3
  MaxMishaps = 1
SYMMETRY FilesSymmetry
CHECK_DEADLOCK FALSE
INVARIANTS
  OwnedIsPrivate
  NothingUndone
  ContentSurvives
  OwnFilesKept
  AnswersRecorded
PROPERTIES
  NoLoginLost
