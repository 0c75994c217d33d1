\* The ad is sent twice, also at the same time, and may be deleted.
CONSTANTS
  Bots = {b1, b2}
  People = {p1}
  Jobs = {j1, j2}
  MaxRetries = 1
  FlushSize = 2
  StatsEvery = 2
  MaxTries = 1
  Faults = {}

SPECIFICATION FairSpec
INVARIANTS CompletedAddsUp MessagesOnRecord
PROPERTY SendingEnds
CHECK_DEADLOCK FALSE
