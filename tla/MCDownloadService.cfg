SPECIFICATION Spec
CONSTANTS
  Requests = {r1, r2}
  Asks <- MCAsks
  KindsOf <- MCKindsOf
  Sources = {"clip"}
INVARIANTS
  
  IncompleteExplained
  CachedIsSendable
  FilesGoWithSuccess
CHECK_DEADLOCK FALSE
