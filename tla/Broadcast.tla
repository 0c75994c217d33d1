------------------------------ MODULE Broadcast ------------------------------
(***************************************************************************)
(* The broadcast of one ad: the admin's requests of app/controllers/ads.py *)
(* that send and delete it, the ARQ job broadcast_ad of workers/tasks.py   *)
(* that sends it to one recipient after another, and what both leave in    *)
(* the database and in the chats.  A job runs in a worker process, one     *)
(* step from one await to the next; several jobs of the ad may run at once,*)
(* since send_ad does not look at the status.                              *)
(***************************************************************************)
EXTENDS Naturals, Sequences, FiniteSets

CONSTANTS
  Bots,        \* the ad's target bots
  People,      \* Telegram accounts
  Jobs,        \* the send requests, each with its ARQ job
  MaxRetries,  \* _MAX_RETRIES
  FlushSize,   \* _DELIVERY_FLUSH_SIZE
  StatsEvery,  \* _STATS_UPDATE_EVERY
  MaxTries,    \* how often ARQ runs a job that was interrupted
  Faults       \* what may go wrong, out of FaultKinds

FaultKinds ==
  {"db",       \* a transaction raises and is rolled back
   "net",      \* a call to Telegram raises, done or not
   "kill",     \* the worker is stopped or dies
   "timeout"}  \* a job runs into job_timeout

ASSUME BroadcastAssumption ==
  /\ IsFiniteSet(Bots) /\ IsFiniteSet(People) /\ IsFiniteSet(Jobs)
  /\ MaxRetries \in Nat
  /\ FlushSize \in Nat \ {0}
  /\ StatsEvery \in Nat \ {0}
  /\ MaxTries \in Nat \ {0}
  /\ Faults \subseteq FaultKinds

\* A TelegramUser row: an account as one bot knows it.
Recipients == Bots \X People

VARIABLES
  ad,       \* the row of the ad; status "gone" when it is deleted
  rows,     \* its ad_deliveries rows
  blocked,  \* the recipients with is_blocked
  chats,    \* the ad's messages in the chats: <<recipient, message id>>
  arrived,  \* per recipient: the messages that ever arrived, which numbers them
  job,      \* the send requests and their jobs
  deletion  \* the delete request: its snapshot of messages, or none

vars == <<ad, rows, blocked, chats, arrived, job, deletion>>

\* telegram_message_id of a delivery that has none.
NoId == 0

Points ==
  {"idle",    \* not requested
   "enqueue", \* send_ad: marked SENDING, about to push the job
   "queued",  \* in ARQ's queue
   "bot",     \* broadcast_ad: get_bot_by_id of the next bot
   "send",    \* _send_ad_message to the recipient `to`, or the sleep after a flood
   "flush", "stats",   \* the periodical transactions
   "last_flush", "complete", "crashed", "over"}

NewRun(pc, tries) ==
  [pc |-> pc, tries |-> tries, rest |-> {}, todo |-> {}, attempt |-> 0,
   processed |-> 0, buffer |-> <<>>, sent |-> 0, failed |-> 0, total |-> 0]

Exists == ad.status # "gone"

At(j, pc) == job[j].pc = pc

Becomes(j, run) == job' = [job EXCEPT ![j] = run]

Goto(j, pc) == Becomes(j, [job[j] EXCEPT !.pc = pc])

\* ads.update: an update of a deleted ad finds no row and returns None.
UpdateAd(row) == ad' = IF Exists THEN row ELSE ad

ChatsSame == UNCHANGED <<chats, arrived>>

-----------------------------------------------------------------------------
(* send_ad *)

SendAd(j) ==
  /\ At(j, "idle")
  /\ Exists      \* and has target bots; its status does not matter
  /\ ad' = [ad EXCEPT !.status = "SENDING"]
  /\ Goto(j, "enqueue")
  /\ ChatsSame /\ UNCHANGED <<rows, blocked, deletion>>

Enqueued(j) ==
  /\ At(j, "enqueue")
  /\ Becomes(j, NewRun("queued", 1))
  /\ ChatsSame /\ UNCHANGED <<ad, rows, blocked, deletion>>

\* enqueue_broadcast returned None: back to DRAFT, whatever else is sending.
EnqueueFails(j) ==
  /\ At(j, "enqueue")
  /\ UpdateAd([ad EXCEPT !.status = "DRAFT"]) \/ ("db" \in Faults /\ UNCHANGED ad)
  /\ Goto(j, "over")
  /\ ChatsSame /\ UNCHANGED <<rows, blocked, deletion>>

-----------------------------------------------------------------------------
(* broadcast_ad: loading *)

\* The ad is gone.
LoadMissing(j) ==
  /\ At(j, "queued")
  /\ ~Exists
  /\ Goto(j, "over")
  /\ ChatsSame /\ UNCHANGED <<ad, rows, blocked, deletion>>

\* The recipients: not blocked, and any that language, bans and bots leave.
Loaded(j) ==
  /\ At(j, "queued")
  /\ Exists
  /\ \E rs \in (SUBSET (Recipients \ blocked)) \ {{}} :
       Becomes(j, [NewRun("bot", job[j].tries) EXCEPT !.rest = rs, !.total = Cardinality(rs)])
  /\ ad' = [ad EXCEPT !.status = "SENDING"]
  /\ ChatsSame /\ UNCHANGED <<rows, blocked, deletion>>

\* No user, or no target bot any more, in which case the counters stay.  (The two
\* transactions of the first case, SENDING and COMPLETED, are one step here.)
LoadedNobody(j) ==
  /\ At(j, "queued")
  /\ Exists
  /\ ad' \in {[ad EXCEPT !.status = "COMPLETED", !.total = 0],
              [status |-> "COMPLETED", total |-> 0, sent |-> 0, failed |-> 0]}
  /\ Goto(j, "over")
  /\ ChatsSame /\ UNCHANGED <<rows, blocked, deletion>>

-----------------------------------------------------------------------------
(* broadcast_ad: the send loop, bot by bot *)

BotFound(j) ==
  /\ At(j, "bot")
  /\ \E b \in Bots :
       LET mine == {r \in job[j].rest : r[1] = b}
       IN  /\ mine # {}
           /\ Becomes(j, [job[j] EXCEPT !.pc = "send", !.todo = mine, !.rest = @ \ mine,
                                         !.attempt = 0])
  /\ ChatsSame /\ UNCHANGED <<ad, rows, blocked, deletion>>

\* Mutant: the recipients of a missing bot are not counted.
BotSkipped(j) ==
  /\ At(j, "bot")
  /\ \E b \in Bots :
       LET mine == {r \in job[j].rest : r[1] = b}
       IN  /\ mine # {}
           /\ Becomes(j, [job[j] EXCEPT !.rest = @ \ mine])
  /\ ChatsSame /\ UNCHANGED <<ad, rows, blocked, deletion>>

\* The bot is not active: none of its recipients is tried.
BotMissing(j) ==
  /\ At(j, "bot")
  /\ \E b \in Bots :
       LET mine == {r \in job[j].rest : r[1] = b}
       IN  /\ mine # {}
           /\ Becomes(j, [job[j] EXCEPT !.rest = @ \ mine, !.failed = @ + Cardinality(mine)])
  /\ ChatsSame /\ UNCHANGED <<ad, rows, blocked, deletion>>

AllBotsDone(j) ==
  /\ At(j, "bot")
  /\ job[j].rest = {}
  /\ Goto(j, "last_flush")
  /\ ChatsSame /\ UNCHANGED <<ad, rows, blocked, deletion>>

\* The recipient a job is at.
To(j) == CHOOSE r \in job[j].todo : TRUE

\* Where a run goes once a recipient is dealt with: the periodical transactions
\* are each due or not, then the next recipient or the next bot.
AfterStats(run) == IF run.todo = {} THEN "bot" ELSE "send"

AfterFlush(run) ==
  IF run.processed % StatsEvery = 0 THEN "stats" ELSE AfterStats(run)

AfterSend(run) ==
  IF Len(run.buffer) >= FlushSize THEN "flush" ELSE AfterFlush(run)

\* The recipient is dealt with: a delivery is buffered and the count it adds to.
Dealt(j, count, id) ==
  LET is_sent == count = "sent"
      run == [job[j] EXCEPT
                !.todo = @ \ {To(j)}, !.attempt = 0, !.processed = @ + 1,
                !.buffer = Append(@, [to |-> To(j), id |-> id, is_sent |-> is_sent]),
                !.sent = IF is_sent THEN @ + 1 ELSE @,
                !.failed = IF is_sent THEN @ ELSE @ + 1]
  IN  Becomes(j, [run EXCEPT !.pc = AfterSend(run)])

\* A message reaches the chat of r.
Arrives(r) ==
  /\ arrived' = [arrived EXCEPT ![r] = @ + 1]
  /\ chats' = chats \cup {<<r, arrived[r] + 1>>}

Sent(j) ==
  /\ At(j, "send")
  /\ Arrives(To(j))
  /\ Dealt(j, "sent", arrived[To(j)] + 1)
  /\ UNCHANGED <<ad, rows, blocked, deletion>>

\* _send_ad_message returned None: nothing was sent, and it counts as sent.
SilentlyNotSent(j) ==
  /\ At(j, "send")
  /\ Dealt(j, "sent", NoId)
  /\ ChatsSame /\ UNCHANGED <<ad, rows, blocked, deletion>>

\* Mutant: the attempts start over, and the recipient is never given up.
FloodedAgain(j) ==
  /\ At(j, "send")
  /\ Becomes(j, [job[j] EXCEPT !.attempt = IF @ < MaxRetries THEN @ + 1 ELSE 0])
  /\ ChatsSame /\ UNCHANGED <<ad, rows, blocked, deletion>>

\* Mutant: off by one.
FloodedOnceMore(j) ==
  /\ At(j, "send")
  /\ IF job[j].attempt <= MaxRetries
     THEN Becomes(j, [job[j] EXCEPT !.attempt = @ + 1])
     ELSE Dealt(j, "failed", NoId)
  /\ ChatsSame /\ UNCHANGED <<ad, rows, blocked, deletion>>

\* TelegramRetryAfter: sleep and retry, MaxRetries times.
Flooded(j) ==
  /\ At(j, "send")
  /\ IF job[j].attempt < MaxRetries
     THEN Becomes(j, [job[j] EXCEPT !.attempt = @ + 1])
     ELSE Dealt(j, "failed", NoId)
  /\ ChatsSame /\ UNCHANGED <<ad, rows, blocked, deletion>>

\* TelegramForbiddenError: the user is marked, in a transaction of its own.
Forbidden(j) ==
  /\ At(j, "send")
  /\ \/ blocked' = blocked \cup {To(j)}
     \/ "db" \in Faults /\ UNCHANGED blocked
  /\ Dealt(j, "failed", NoId)
  /\ ChatsSame /\ UNCHANGED <<ad, rows, deletion>>

\* Mutant: any error is retried.
ErrorRetried(j) ==
  /\ At(j, "send")
  /\ "net" \in Faults
  /\ Arrives(To(j)) \/ ChatsSame
  /\ IF job[j].attempt < MaxRetries
     THEN Becomes(j, [job[j] EXCEPT !.attempt = @ + 1])
     ELSE Dealt(j, "failed", NoId)
  /\ UNCHANGED <<ad, rows, blocked, deletion>>

\* Any other exception: never tried again, though the message may have arrived.
SendRaises(j) ==
  /\ At(j, "send")
  /\ "net" \in Faults
  /\ Arrives(To(j)) \/ ChatsSame
  /\ Dealt(j, "failed", NoId)
  /\ UNCHANGED <<ad, rows, blocked, deletion>>

-----------------------------------------------------------------------------
(* broadcast_ad: its transactions *)

\* _flush_deliveries: what it raises is logged and the buffer is dropped.  Rows of
\* a deleted ad violate the foreign key.
FlushRows(j) ==
  \/ rows' = IF Exists THEN rows \o job[j].buffer ELSE rows
  \/ "db" \in Faults /\ UNCHANGED rows

\* Mutant: the buffer is not cleared.
FlushedNotCleared(j) ==
  /\ At(j, "flush")
  /\ FlushRows(j)
  /\ Goto(j, AfterFlush(job[j]))
  /\ ChatsSame /\ UNCHANGED <<ad, blocked, deletion>>

Flushed(j) ==
  /\ At(j, "flush")
  /\ FlushRows(j)
  /\ Becomes(j, [job[j] EXCEPT !.pc = AfterFlush(job[j]), !.buffer = <<>>])
  /\ ChatsSame /\ UNCHANGED <<ad, blocked, deletion>>

StatsWritten(j) ==
  /\ At(j, "stats")
  /\ \/ UpdateAd([ad EXCEPT !.sent = job[j].sent, !.failed = job[j].failed])
     \/ "db" \in Faults /\ UNCHANGED ad
  /\ Goto(j, AfterStats(job[j]))
  /\ ChatsSame /\ UNCHANGED <<rows, blocked, deletion>>

\* Mutant: what is left in the buffer is forgotten.
LastNotFlushed(j) ==
  /\ At(j, "last_flush")
  /\ Becomes(j, [job[j] EXCEPT !.pc = "complete", !.buffer = <<>>])
  /\ ChatsSame /\ UNCHANGED <<ad, rows, blocked, deletion>>

LastFlushed(j) ==
  /\ At(j, "last_flush")
  /\ FlushRows(j)
  /\ Becomes(j, [job[j] EXCEPT !.pc = "complete", !.buffer = <<>>])
  /\ ChatsSame /\ UNCHANGED <<ad, blocked, deletion>>

Completed(j) ==
  /\ At(j, "complete")
  /\ UpdateAd([status |-> "COMPLETED", total |-> job[j].total,
               sent |-> job[j].sent, failed |-> job[j].failed])
  /\ Goto(j, "over")
  /\ ChatsSame /\ UNCHANGED <<rows, blocked, deletion>>

\* A transaction outside the send loop's own try blocks raises.
Raises(j) ==
  /\ "db" \in Faults
  /\ job[j].pc \in {"queued", "bot", "complete"}
  /\ IF At(j, "queued")
     THEN \E n \in 0..Cardinality(Recipients \ blocked) :
            Becomes(j, [NewRun("crashed", job[j].tries) EXCEPT !.total = n])
     ELSE Goto(j, "crashed")
  /\ ChatsSame /\ UNCHANGED <<ad, rows, blocked, deletion>>

\* The outer except: COMPLETED, and whoever was not sent to counts as failed.
CrashReported(j) ==
  /\ At(j, "crashed")
  /\ \/ UpdateAd([ad EXCEPT !.status = "COMPLETED", !.sent = job[j].sent,
                            !.failed = job[j].total - job[j].sent])
     \/ UNCHANGED ad
  /\ Goto(j, "over")
  /\ ChatsSame /\ UNCHANGED <<rows, blocked, deletion>>

-----------------------------------------------------------------------------
(* ARQ *)

Running(j) ==
  job[j].pc \in {"bot", "send", "flush", "stats", "last_flush", "complete", "crashed"}

\* An interrupted job is run again from the start, if it may be tried again.
Killed(j) ==
  /\ "kill" \in Faults
  /\ Running(j)
  /\ Becomes(j, IF job[j].tries < MaxTries THEN NewRun("queued", job[j].tries + 1)
                ELSE NewRun("over", job[j].tries))
  /\ ChatsSame /\ UNCHANGED <<ad, rows, blocked, deletion>>

\* job_timeout cancels the job, past every except Exception, for good.
TimedOut(j) ==
  /\ "timeout" \in Faults
  /\ Running(j)
  /\ Goto(j, "over")
  /\ ChatsSame /\ UNCHANGED <<ad, rows, blocked, deletion>>

-----------------------------------------------------------------------------
(* delete_ad and delete_with_messages: one transaction around all of it *)

Quiet == [pc |-> "none", todo |-> {}]

DeleteAd ==
  /\ deletion.pc = "none"
  /\ Exists
  /\ deletion' = [pc |-> "deleting",
                  todo |-> {<<rows[i].to, rows[i].id>> : i \in
                              {k \in DOMAIN rows : rows[k].id # NoId}}]
  /\ ChatsSame /\ UNCHANGED <<ad, rows, blocked, job>>

\* delete_message did it, or the bot is missing or the call failed.
MessageDeleted ==
  /\ deletion.pc = "deleting"
  /\ \E m \in deletion.todo :
       /\ deletion' = [deletion EXCEPT !.todo = @ \ {m}]
       /\ \/ chats' = chats \ {m}
          \/ "net" \in Faults /\ UNCHANGED chats
  /\ UNCHANGED <<ad, rows, blocked, arrived, job>>

AdDeleted ==
  /\ deletion.pc = "deleting"
  /\ deletion.todo = {}
  /\ deletion' = [deletion EXCEPT !.pc = "done"]
  /\ ad' = [ad EXCEPT !.status = "gone"]
  /\ rows' = <<>>
  /\ ChatsSame /\ UNCHANGED <<blocked, job>>

\* The request fails: what was deleted in the chats stays deleted.
DeleteFails ==
  /\ deletion.pc = "deleting"
  /\ "db" \in Faults
  /\ deletion' = Quiet
  /\ ChatsSame /\ UNCHANGED <<ad, rows, blocked, job>>

-----------------------------------------------------------------------------

Init ==
  /\ ad = [status |-> "DRAFT", total |-> 0, sent |-> 0, failed |-> 0]
  /\ rows = <<>>
  /\ blocked = {}
  /\ chats = {}
  /\ arrived = [r \in Recipients |-> 0]
  /\ job = [j \in Jobs |-> NewRun("idle", 0)]
  /\ deletion = Quiet

\* What the controller and the worker do once they are asked.
Proceed(j) ==
  \/ Enqueued(j) \/ EnqueueFails(j)
  \/ LoadMissing(j) \/ Loaded(j) \/ LoadedNobody(j)
  \/ BotFound(j) \/ BotMissing(j) \/ AllBotsDone(j)
  \/ Sent(j) \/ SilentlyNotSent(j) \/ Flooded(j) \/ Forbidden(j) \/ SendRaises(j)
  \/ Flushed(j) \/ StatsWritten(j) \/ LastFlushed(j) \/ Completed(j)
  \/ Raises(j) \/ CrashReported(j)

Delete == DeleteAd \/ MessageDeleted \/ AdDeleted \/ DeleteFails

Next ==
  \/ \E j \in Jobs : SendAd(j) \/ Proceed(j) \/ Killed(j) \/ TimedOut(j)
  \/ Delete

Spec == Init /\ [][Next]_vars

\* The event loops go on with every request and job; a call that is awaited
\* answers or raises.
FairSpec == Spec /\ \A j \in Jobs : WF_vars(Proceed(j))

-----------------------------------------------------------------------------
(* Properties *)

Delivery == [to : Recipients, id : Nat, is_sent : BOOLEAN]

Run ==
  [pc : Points, tries : 0..MaxTries, rest : SUBSET Recipients,
   todo : SUBSET Recipients, attempt : 0..MaxRetries, processed : Nat,
   buffer : Seq(Delivery), sent : Nat, failed : Nat, total : Nat]

TypeOK ==
  /\ ad \in [status : {"DRAFT", "SENDING", "COMPLETED", "gone"},
             total : Nat, sent : Nat, failed : Nat]
  /\ rows \in Seq(Delivery)
  /\ blocked \subseteq Recipients
  /\ chats \subseteq Recipients \X Nat
  /\ arrived \in [Recipients -> Nat]
  /\ job \in [Jobs -> Run]
  /\ deletion \in [pc : {"none", "deleting", "done"}, todo : SUBSET (Recipients \X Nat)]

\* The runs of all jobs so far: <<j, n>> is the n-th run of job j.
Runs == {run \in Jobs \X (1..MaxTries) : run[2] <= job[run[1]].tries}

\* Whatever floods, errors, crashes and re-runs there are, one run of a job puts at
\* most one copy of the ad into a chat.
OneCopyPerRun == \A r \in Recipients : arrived[r] <= Cardinality(Runs)

\* No message is recorded twice, so none is counted or deleted twice.
RowsDistinct ==
  \A i, k \in DOMAIN rows :
    i # k /\ rows[i].id # NoId => <<rows[i].to, rows[i].id>> # <<rows[k].to, rows[k].id>>

\* A broadcast that is reported as completed reports one result per recipient, and
\* the rows bear out what it says was sent: nothing is lost at the boundaries of
\* the buffer, in the retries or with a missing bot.  For an ad that is sent once,
\* while the database answers and the job is not interrupted.
CompletedAddsUp ==
  ad.status = "COMPLETED" /\ Cardinality({j \in Jobs : ~At(j, "idle")}) = 1 =>
    /\ ad.sent + ad.failed = ad.total
    /\ ad.sent = Cardinality({i \in DOMAIN rows : rows[i].is_sent})

Recorded(dls) == {<<dls[i].to, dls[i].id>> : i \in DOMAIN dls}

\* Every message in a chat is known to the database or to a running job, also while
\* several jobs send at once: a deletion that starts when none runs finds them all.
MessagesOnRecord ==
  Exists => chats \subseteq Recorded(rows) \cup UNION {Recorded(job[j].buffer) : j \in Jobs}

Sending == ad.status = "SENDING"

\* A broadcast ends: floods do not keep it going for ever, and no interleaving of
\* two jobs, a failed enqueue and a deletion leaves the ad SENDING.
SendingEnds == Sending ~> ~Sending
=============================================================================
