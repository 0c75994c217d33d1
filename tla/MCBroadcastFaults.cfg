\* One job; everything may fail, and it may be run twice.
CONSTANTS
  Bots = {b1, b2}
  People = {p1}
  Jobs = {j1}
  MaxRetries = 1
  FlushSize = 2
  StatsEvery = 2
  MaxTries = 2
  Faults = {"db", "net", "kill", "timeout"}

SPECIFICATION Spec
INVARIANTS TypeOK OneCopyPerRun RowsDistinct
CHECK_DEADLOCK FALSE
