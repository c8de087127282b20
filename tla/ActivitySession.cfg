SPECIFICATION MCSpec
CONSTANTS
  App = {app1, app2}
  Worker = {w1, w2, w3}
  Requests = 3
  QueueLimit = 1
  PipeLimit = 2
  MaxLines = 5
  Other = Other
  Bad = Bad
  Instance = {i1, i2}
  NoInstance = NoInstance
  NoJournal = NoJournal
  MaxGen = 4
  MaxFaults = 2
INVARIANTS
  GuardsExact
  AnswersReachTheirRequest
  SpentOnce
  SpentIsPrivate
PROPERTIES
  PromiseKept
  SwitchingEnds
  SessionEnds
  ReplyKept
  ReplyPublished
