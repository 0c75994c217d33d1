-------------------------- MODULE UserDownloadQueue --------------------------
(***************************************************************************)
(* The in-memory download queue of services/user_download_queue.py: one    *)
(* UserQueue per user in the dictionary _queues, every operation under one *)
(* asyncio lock.  No operation awaits while it holds the lock, so each one *)
(* is a single step.  The clients are left free here: any operation, with  *)
(* any argument, at any time.  UpdateProcessor adds the handlers that      *)
(* really call it.                                                         *)
(***************************************************************************)
EXTENDS Naturals, Sequences, FiniteSets

CONSTANTS
  Users,         \* Telegram users
  Bots,          \* bots served by the process
  Urls,          \* links
  Messages,      \* Telegram message ids: the user's links and the bot's replies
  NoMessage,     \* None, for a progress message that was never stored
  MaxQueueSize,  \* MAX_QUEUE_SIZE
  QueueTTL,      \* QUEUE_TTL, in ticks
  StaleTimeout,  \* STALE_DOWNLOAD_TIMEOUT, in ticks
  MaxClock,      \* bound on the clock
  MaxRestarts    \* bound on the restarts of the process

ASSUME QueueAssumption ==
  /\ NoMessage \notin Messages
  /\ MaxQueueSize \in Nat \ {0}
  /\ QueueTTL \in Nat
  /\ StaleTimeout \in Nat
  /\ MaxClock \in Nat
  /\ MaxRestarts \in Nat

VARIABLES
  queues,  \* the dictionary _queues: its domain is the users it has a key for
  now,     \* time.time(), never 0
  epoch    \* which run of the process this is: its memory is lost in between

queueVars == <<queues, now, epoch>>

-----------------------------------------------------------------------------
(* Data *)

Status == {"queued", "downloading", "done"}

\* started_at is None until the download starts; 0 is None here, since the
\* code tests it for truth.
NotStarted == 0

QueuedDownload ==
  [url : Urls, bot_id : Bots, message_id : Messages,
   progress_message_id : Messages \cup {NoMessage},
   status : Status, started_at : Nat]

UserQueue ==
  [downloads : Seq(QueuedDownload), is_processing : BOOLEAN, last_activity : Nat]

\* The positions of a list of downloads that have a status, and the first one.
With(dls, st) == {i \in DOMAIN dls : dls[i].status = st}

First(dls, st) ==
  CHOOSE i \in With(dls, st) : \A j \in With(dls, st) : i <= j

NewQueue == [downloads |-> <<>>, is_processing |-> FALSE, last_activity |-> now]

\* _get_queue: get or create, and touch.
GetQueue(u) ==
  IF u \in DOMAIN queues THEN [queues[u] EXCEPT !.last_activity = now] ELSE NewQueue

\* self._queues[u] = q
Put(u, q) == [v \in DOMAIN queues \cup {u} |-> IF v = u THEN q ELSE queues[v]]

Downloads(u) == IF u \in DOMAIN queues THEN queues[u].downloads ELSE <<>>

-----------------------------------------------------------------------------
(* add *)

IsStale(q) ==
  /\ q.is_processing
  /\ \/ With(q.downloads, "downloading") = {}
     \/ LET active == q.downloads[First(q.downloads, "downloading")]
        IN  /\ active.started_at # NotStarted
            /\ now - active.started_at > StaleTimeout

\* Mutant: the flag is reset, the list is kept.
ResetFlagOnly(q) == IF IsStale(q) THEN [q EXCEPT !.is_processing = FALSE] ELSE q

ResetIfStale(q) ==
  IF IsStale(q) THEN [q EXCEPT !.downloads = <<>>, !.is_processing = FALSE] ELSE q

NewDownload(b, m, url) ==
  [url |-> url, bot_id |-> b, message_id |-> m, progress_message_id |-> NoMessage,
   status |-> "queued", started_at |-> NotStarted]

\* The queue add works on: touched, and reset if its active download is stale.
AddTarget(u) == ResetIfStale(GetQueue(u))

\* Mutant: off by one.
RefusedOneLate(u) == Len(AddTarget(u).downloads) > MaxQueueSize

AddIsRefused(u) == Len(AddTarget(u).downloads) >= MaxQueueSize

AddRefused(u) ==
  /\ AddIsRefused(u)
  /\ queues' = Put(u, AddTarget(u))

\* Mutant: the flag is not looked at.
AddStartedAnyway(u, b, m, url) ==
  LET q  == AddTarget(u)
      dl == [NewDownload(b, m, url) EXCEPT !.status = "downloading", !.started_at = now]
  IN  /\ ~AddIsRefused(u)
      /\ queues' = Put(u, [q EXCEPT !.is_processing = TRUE,
                                    !.downloads = Append(@, dl)])

\* Position 0: nothing is processing, the caller downloads at once.
AddStarted(u, b, m, url) ==
  LET q  == AddTarget(u)
      dl == [NewDownload(b, m, url) EXCEPT !.status = "downloading", !.started_at = now]
  IN  /\ ~AddIsRefused(u)
      /\ ~q.is_processing
      /\ queues' = Put(u, [q EXCEPT !.is_processing = TRUE,
                                    !.downloads = Append(@, dl)])

AddQueued(u, b, m, url) ==
  LET q == AddTarget(u)
  IN  /\ ~AddIsRefused(u)
      /\ q.is_processing
      /\ queues' = Put(u, [q EXCEPT !.downloads = Append(@, NewDownload(b, m, url))])

-----------------------------------------------------------------------------
(* set_progress_message: the first entry with this link and bot that has no  *)
(* progress message yet, whatever its status.                                *)

ProgressSlots(dls, b, url) ==
  {i \in DOMAIN dls : /\ dls[i].url = url
                      /\ dls[i].bot_id = b
                      /\ dls[i].progress_message_id = NoMessage}

WithProgress(dls, b, url, m) ==
  LET slots == ProgressSlots(dls, b, url)
  IN  IF slots = {}
      THEN dls
      ELSE [dls EXCEPT ![CHOOSE i \in slots : \A j \in slots : i <= j]
                         .progress_message_id = m]

SetProgressMessage(u, b, url, m) ==
  queues' = IF u \in DOMAIN queues
            THEN [queues EXCEPT ![u].downloads = WithProgress(@, b, url, m)]
            ELSE queues

\* add, then set_progress_message, by a client that does not await in between.
AddQueuedWithProgress(u, b, m, url) ==
  LET q == AddTarget(u)
  IN  /\ ~AddIsRefused(u)
      /\ q.is_processing
      /\ queues' = Put(u, [q EXCEPT
           !.downloads = WithProgress(Append(@, NewDownload(b, m, url)), b, url, m)])

-----------------------------------------------------------------------------
(* get_next *)

\* The active download becomes "done".
FinishActive(dls) ==
  IF With(dls, "downloading") = {}
  THEN dls
  ELSE [dls EXCEPT ![First(dls, "downloading")].status = "done"]

\* Mutant: last in, first out.
NewestIndex(u) ==
  LET line == With(FinishActive(Downloads(u)), "queued")
  IN  CHOOSE i \in line : \A j \in line : j <= i

\* The position of the download get_next returns, if one is waiting.
NextIndex(u) == First(FinishActive(Downloads(u)), "queued")

HasNext(u) == With(FinishActive(Downloads(u)), "queued") # {}

StartNext(u) ==
  /\ HasNext(u)
  /\ queues' = [queues EXCEPT
       ![u].downloads = [FinishActive(@) EXCEPT ![NextIndex(u)].status = "downloading",
                                                ![NextIndex(u)].started_at = now],
       ![u].last_activity = now]

\* Nothing is left: the list, all "done" by now, is dropped and the queue idles.
\* Without a list get_next returns at once.
DrainQueue(u) ==
  /\ ~HasNext(u)
  /\ queues' = IF Downloads(u) = <<>>
               THEN queues
               ELSE [queues EXCEPT ![u].downloads = <<>>, ![u].is_processing = FALSE]

GetNext(u) == StartNext(u) \/ DrainQueue(u)

-----------------------------------------------------------------------------
(* The clean-up task, the clock and the process *)

Expired(q) ==
  /\ now - q.last_activity > QueueTTL
  /\ ~q.is_processing
  /\ q.downloads = <<>>

CleanupPass ==
  queues' = [u \in {v \in DOMAIN queues : ~Expired(queues[v])} |-> queues[u]]

ClockTick ==
  /\ now < MaxClock
  /\ now' = now + 1

\* The queues live in memory only.
LoseMemory ==
  /\ epoch < MaxRestarts
  /\ epoch' = epoch + 1
  /\ queues' = [u \in {} |-> NewQueue]

-----------------------------------------------------------------------------

QueueInit ==
  /\ queues = [u \in {} |-> NewQueue]
  /\ now = 1
  /\ epoch = 0

QueueCall(u) ==
  \/ AddRefused(u)
  \/ \E b \in Bots, m \in Messages, url \in Urls :
       \/ AddStarted(u, b, m, url)
       \/ AddQueued(u, b, m, url)
       \/ SetProgressMessage(u, b, url, m)
       \/ AddQueuedWithProgress(u, b, m, url)
  \/ GetNext(u)

QueueNext ==
  \/ (\E u \in Users : QueueCall(u)) /\ UNCHANGED <<now, epoch>>
  \/ CleanupPass /\ UNCHANGED <<now, epoch>>
  \/ ClockTick /\ UNCHANGED <<queues, epoch>>
  \/ LoseMemory /\ UNCHANGED now

QueueSpec == QueueInit /\ [][QueueNext]_queueVars

-----------------------------------------------------------------------------
(* Properties *)

\* _queues maps some of the users to queues that never outgrow MAX_QUEUE_SIZE.
QueueTypeOK ==
  /\ DOMAIN queues \subseteq Users
  /\ queues = [u \in DOMAIN queues |-> queues[u]]
  /\ \A u \in DOMAIN queues :
       queues[u] \in UserQueue /\ Len(queues[u].downloads) <= MaxQueueSize
  /\ now \in Nat \ {0}
  /\ epoch \in Nat

\* A busy queue has exactly one active download: what was added before it is
\* done, what was added after it waits.  An idle queue is empty.
Shape(q) ==
  LET dls == q.downloads
  IN  IF q.is_processing
      THEN \E k \in DOMAIN dls :
             \A i \in DOMAIN dls :
               dls[i].status = IF i < k THEN "done"
                               ELSE IF i = k THEN "downloading" ELSE "queued"
      ELSE dls = <<>>

\* Whatever the order of the calls, no user's queue holds two active downloads,
\* no download waits in a queue where nothing is active (add would never start
\* it and no get_next is due), and no download overtakes an earlier one.
QueueShape == \A u \in DOMAIN queues : Shape(queues[u])
=============================================================================
