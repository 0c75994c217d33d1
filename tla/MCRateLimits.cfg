SPECIFICATION Spec
CONSTANTS
  c1 = c1
  c2 = c2
  process = process
  Callers <- TwoCallers
  ProcessOf <- OneProcess
  Limiters <- AllLimiters
  Loads <- LightAndHeavy
  MaxLimit = 2
  Window = 2
  TempBan = 2
  LongBan = 3
  Forget = 3
  SweepEvery = 2
  MaxCalls = 5
  MaxCount = 3
INVARIANTS TypeOK WindowRespected CountersExact
PROPERTIES PenaltiesKept 
CHECK_DEADLOCK FALSE
