-------------------------- MODULE QueueRefinement --------------------------
(***************************************************************************)
(* How the lists of UserDownloadQueue stand for the running and the        *)
(* waiting downloads of SequentialDownloads.                               *)
(***************************************************************************)
EXTENDS UserDownloadQueue

CONSTANTS Nobody  \* what runs for a user when nothing does

\* What identifies a download for the abstract specification.
Link(dl) == [url |-> dl.url, bot_id |-> dl.bot_id, message_id |-> dl.message_id]

Links == [url : Urls, bot_id : Bots, message_id : Messages]

ASSUME NobodyAssumption == Nobody \notin [link : Links, since : Nat]

\* The active download of a list runs; those behind it, all "queued" (QueueShape),
\* are waiting.
RunningIn(dls) ==
  IF With(dls, "downloading") = {}
  THEN Nobody
  ELSE LET dl == dls[First(dls, "downloading")]
       IN  [link |-> Link(dl), since |-> dl.started_at]

WaitingIn(dls) ==
  IF With(dls, "downloading") = {}
  THEN <<>>
  ELSE LET active == First(dls, "downloading")
       IN  [i \in 1..(Len(dls) - active) |-> Link(dls[active + i])]

running == [u \in Users |-> RunningIn(Downloads(u))]
waiting == [u \in Users |-> WaitingIn(Downloads(u))]

Sequential == INSTANCE SequentialDownloads WITH MaxWaiting <- MaxQueueSize - 1

\* The list with its statuses, its flag and its stale reset behaves like one
\* running download and a first-in-first-out line per user: get_next starts the
\* oldest waiting download, a fresh active download is never displaced by add or
\* by the clean-up, and one user's calls never touch another's downloads.
ImplementsSequential == Sequential!Spec
=============================================================================
