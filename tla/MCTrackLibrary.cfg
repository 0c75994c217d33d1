\* Two playlists that overlap; or a file, whose track is voted on, one vote at a
\* time.
CONSTANTS
  one = one
  two = two
  upload = upload
  song = song
  tune = tune
  Jobs = {one, two, upload}
  Playlist <- Overlapping
  Uploads = {upload}
  Taps = {t1}
  Voters = {v1}
  Faults = {"db", "net", "nobot", "timeout", "enqueue"}
  Heard = {upload}
  Batches = {{one, two}, {upload}}
  MaxTries = 2
  MaxKills = 3

SPECIFICATION Spec
INVARIANTS CompletedInLibrary EntriesAccountedFor VotesAddUp
PROPERTY JobsEnd
CHECK_DEADLOCK FALSE
