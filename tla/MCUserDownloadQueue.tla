------------------------- MODULE MCUserDownloadQueue -------------------------
(* UserDownloadQueue for TLC, and its refinement of SequentialDownloads.      *)
EXTENDS QueueRefinement, TLC
=============================================================================
