-------------------------- MODULE MCDownloadService -------------------------
(* What DownloadService is asked for in the runs: a video in the best        *)
(* quality by one bot and as sound by another, and an album of a photo and a *)
(* video.                                                                    *)
EXTENDS DownloadService

MCAsks == {[link |-> "clip", quality |-> Any, bot |-> "bot1"],
           [link |-> "clip", quality |-> "audio", bot |-> "bot2"],
           [link |-> "post", quality |-> Any, bot |-> "bot1"]}

MCKindsOf == [l \in Links |-> IF l = "clip" THEN <<"video">> ELSE <<"photo", "video">>]
=============================================================================
