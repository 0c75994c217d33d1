\* No faults: every call ends.  Two handlers, three links, a subscription prompt and
\* a restart.
CONSTANTS
  Users = {u1}
  Bots = {b1}
  Urls = {direct}
  YoutubeUrls = {}
  GatedBots = {b1}
  Messages = {1, 2, 3}
  NoMessage = NoMessage
  Tasks = {t1, t2}
  Faults = {}
  DownloadTimeout = 1
  MaxQueueSize = 3
  QueueTTL = 1
  StaleTimeout = 1
  MaxClock = 3
  MaxRestarts = 1

SPECIFICATION FairSpec
INVARIANTS ActiveLinkHeld OneDownloadPerUser
PROPERTY WaitingServed
