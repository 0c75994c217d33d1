--------------------------- MODULE MCTrackLibrary ---------------------------
(* TrackLibrary for TLC: two playlists that overlap, or a file and votes on  *)
(* its track; or votes alone, on the track of a playlist.                    *)
EXTENDS TrackLibrary

CONSTANTS one, two, upload, song, tune

Overlapping == [j \in Jobs |-> CASE j = one -> <<song, tune>> [] j = two -> <<song>> [] OTHER -> <<>>]
OneEach == [j \in Jobs |-> IF j = upload THEN <<>> ELSE <<song>>]
=============================================================================
