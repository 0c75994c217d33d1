\* Everything that may go wrong: calls that raise, links that hold the queue too long,
\* a restart, format keyboards, subscription prompts.
CONSTANTS
  Users = {u1}
  Bots = {b1}
  Urls = {direct, video}
  YoutubeUrls = {video}
  GatedBots = {b1}
  Messages = {1, 2, 3}
  NoMessage = NoMessage
  Tasks = {t1, t2}
  Faults = {"raise", "slow"}
  DownloadTimeout = 1
  MaxQueueSize = 2
  QueueTTL = 1
  StaleTimeout = 1
  MaxClock = 3
  MaxRestarts = 1

SPECIFICATION Spec
INVARIANTS TypeOK LinkTakenOnce
SYMMETRY TaskSymmetry
