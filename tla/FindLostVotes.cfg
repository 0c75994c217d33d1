\* One track from a file, and two votes on it at the same time.
CONSTANTS
  one = one
  two = two
  upload = upload
  song = song
  tune = tune
  Jobs = {one}
  Playlist <- OneEach
  Uploads = {}
  Taps = {t1, t2}
  Voters = {v1, v2}
  Faults = {}
  Heard = {song}
  Batches = {{one}}
  MaxTries = 1
  MaxKills = 0

SPECIFICATION Spec
INVARIANT VotesAddUp
CHECK_DEADLOCK FALSE
