\* Redis fails, answers are lost, processes die.  The key lives for two retry
\* intervals, so that a post may come before and after its end.
CONSTANTS
  Updates = {up1, up2}
  Foreign = {up2}
  Processes = {w1, w2}
  MaxPosts = 2
  RetryInterval = 1
  DedupTTL = 2
  MaxClock = 3
  Faults = {"redis", "answer", "crash"}

SPECIFICATION FairSpec
INVARIANTS TypeOK SkippedIsCovered ApartInTime
PROPERTY AnsweredIsProcessed
CHECK_DEADLOCK FALSE
