\* One user (no operation looks at two queues), one bot and one link: the message
\* ids tell the downloads apart, and three places let two of them wait in line.
CONSTANTS
  Users = {u1}
  Bots = {b1}
  Urls = {l1}
  Messages = {m1, m2}
  NoMessage = NoMessage
  Nobody = Nobody
  MaxQueueSize = 3
  QueueTTL = 1
  StaleTimeout = 1
  MaxClock = 4
  MaxRestarts = 1

SPECIFICATION QueueSpec
INVARIANTS QueueTypeOK QueueShape
PROPERTY ImplementsSequential
