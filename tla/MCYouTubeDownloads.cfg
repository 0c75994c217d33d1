SPECIFICATION Spec
CONSTANTS
  Callers = {c1, c2}
  Clients <- MCClients
  AudioClients <- MCAudioClients
  CookieModes <- MCCookieModes
  RawFormats <- MCRawFormats
  Workers = 2
  Permits = 1
INVARIANTS
  JamNeedsOutsiders
  NoOrphanProbes
  GivesUpAfterAll
PROPERTY CallEnds
CHECK_DEADLOCK FALSE
