------------------------- MODULE MCYouTubeDownloads -------------------------
(* YouTubeDownloads for TLC: one client and another for audio, with and     *)
(* without cookies.                                                          *)
EXTENDS YouTubeDownloads

MCClients == <<"tv">>
MCAudioClients == <<"ios">>
MCCookieModes == <<TRUE, FALSE>>

\* A list in HD whose video needs the audio track, and one below HD.
MCRawFormats ==
  { {[height |-> 720, audio |-> FALSE, rank |-> 2], [height |-> 800, audio |-> TRUE, rank |-> 1],
     [height |-> 0, audio |-> TRUE, rank |-> 0]},
    {[height |-> 360, audio |-> TRUE, rank |-> 1]} }
=============================================================================
