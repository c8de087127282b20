SPECIFICATION Spec
CONSTANTS
  File = {f, g}
  NoFile = NoFile
  Gone = Gone
  NoHistory = NoHistory
  Damaged = Damaged
  NoIndex = NoIndex
  NoParse = NoParse
  NoSummary = NoSummary
  NoWork = NoWork
  FoldAfter = 0
  Slack = 1
  MaxDay = 3
  MaxRecords = 2
  MaxFaults = 1
  MaxTogether = 5
  SignIn = {a, b}
  NoSignIn = NoSignIn
  NoTicket = NoTicket
  Remembered = 1
  MaxEpoch = 2
  MaxCancels = 3
  Program = {p}
  HomeId = {h, i}
  MaxLogin = 3
  NoHome = NoHome
  NoLogin = NoLogin
  Absent = Absent
SYMMETRY Symmetry
CHECK_DEADLOCK FALSE
INVARIANTS
  CountedOnce
  ServedCurrent
  UnwantedStaysOut
  OneCopy
PROPERTIES
  LoginKept
