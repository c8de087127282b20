SPECIFICATION ItemSpec
CONSTANTS
  Worker = {w1, w2}
  NoWorker = NoWorker
  Place = {p}
  FileName = {"item"}
  NameOf <- SameName
  Repo = {ra, rb}
  Nothing = Nothing
  Mine = Mine
  Unsaid = Unsaid
  MaxCommit = 1
  MaxTarballs = 1
  Keep = 2
  MaxCalls = 3
  MaxMishaps = 0
CHECK_DEADLOCK FALSE
INVARIANTS
  SourceTruthful
