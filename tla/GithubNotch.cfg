SPECIFICATION Spec
CONSTANTS
  Viewer = {v, w}
  NoViewer = NoViewer
  NoRow = NoRow
  NoMemory = NoMemory
  NoRecord = NoRecord
  MaxMoves = 3
  MaxMishaps = 1
  MaxOverall = 2
  NoSeen = NoSeen
  NoReply = NoReply
  MaxChanges = 3
  MaxFaults = 2
  NoSettings = NoSettings
  NoFrame = NoFrame
  Threads = 2
  MaxReplaced = 1
  MaxSaves = 2
  MaxLost = 1
  MaxEvents = 3
SYMMETRY Symmetry
CHECK_DEADLOCK FALSE
INVARIANTS
  TypeOK
  BranchStaysDropped
  ToldOnce
  QuietShown
PROPERTIES
  ConflictKept
  NoOlderAnswer
