--------------------------- MODULE UpdateProcessor ---------------------------
(***************************************************************************)
(* The update handlers of bot/processor.py around the download queue.      *)
(* Every webhook update is an asyncio task of its own; tasks interleave at *)
(* each await on Telegram, Redis, the database or a download, and nowhere  *)
(* else.  A step below runs a task from one await to the next, so what the *)
(* code does after a download and before the next await, get_next above    *)
(* all, belongs to the step that ends the download.                        *)
(*                                                                         *)
(* Messages are the user's links, numbered as they are sent; the bot's     *)
(* status message for a link has the link's number.                        *)
(***************************************************************************)
EXTENDS UserDownloadQueue

CONSTANTS
  Tasks,            \* updates handled at the same time
  YoutubeUrls,      \* links answered with format buttons
  GatedBots,        \* bots that require a subscription
  Faults,           \* what may go wrong, out of FaultKinds
  DownloadTimeout   \* the timeout of _process_download, in ticks

FaultKinds ==
  {"raise",  \* an awaited call raises
   "slow"}   \* a link may hold the queue for longer than StaleTimeout

ASSUME ProcessorAssumption ==
  /\ Messages \subseteq Nat \ {0}
  /\ Urls # {}
  /\ YoutubeUrls \subseteq Urls
  /\ GatedBots \subseteq Bots
  /\ Faults \subseteq FaultKinds
  /\ DownloadTimeout \in Nat
  /\ DownloadTimeout <= StaleTimeout

VARIABLES
  task,     \* the running handlers
  sent,     \* how many links were sent
  buttons,  \* the format keyboards in the chats
  gates,    \* the subscription prompts in the chats: <<user, bot>>
  pending   \* _pending_downloads, by <<user, bot>>

procVars == <<task, sent, buttons, gates, pending>>
vars == <<queues, now, epoch, task, sent, buttons, gates, pending>>

\* Where a task awaits.
Points ==
  {"checks",        \* _handle_url before add: filters, subscription check
   "prompt",        \* sending the subscription prompt
   "reply_first",   \* sending the status message, position 0
   "reply_queued",  \* sending the status message, position > 0
   "info",          \* _handle_youtube_url: fetching the formats
   "info_resumed",  \* _handle_youtube_url_resumed: the same
   "info_failed",   \* its except branch: sending the error message
   "download",      \* _process_download: the download, under the timeout
   "deliver",       \* _process_download: sending the media, the ad
   "chain",         \* _process_next_in_queue: download and delivery, no timeout
   "clicked",       \* a format callback: answering the query
   "retry",         \* _handle_subscription_retry: the new check
   "resume",        \* the same, before add: sending the progress message
   "other"}         \* any call whose end changes nothing here

\* The frame that catches what a chained download raises.
Frames == {"none", "download", "info", "info_resumed", "info_exc", "route_exc"}

Idle == [pc |-> "idle"]

Handler ==
  [pc : Points, user : Users, bot : Bots, url : Urls,
   msg : Messages \cup {NoMessage}, from : Frames, since : Nat]

NoPending == [url |-> NoMessage]

\* For the tasks that are about no link.
AnyUrl == CHOOSE url \in Urls : TRUE

At(t, pc) == task[t].pc = pc

\* since is when the download started; only its timeout reads it.
Goto(t, pc) ==
  task' = [task EXCEPT ![t].pc = pc, ![t].since = IF pc = "download" THEN now ELSE 0]

Return(t) == task' = [task EXCEPT ![t] = Idle]

Begin(t, pc, u, b, url, m) ==
  /\ At(t, "idle")
  /\ task' = [task EXCEPT ![t] = [pc |-> pc, user |-> u, bot |-> b, url |-> url,
                                  msg |-> m, from |-> "none", since |-> 0]]

ChatsSame == UNCHANGED <<sent, buttons, gates, pending>>

-----------------------------------------------------------------------------
(* _process_next_in_queue up to its first await, and the loop it makes of    *)
(* calling itself.  The download belongs to the bot of the queued link, the  *)
(* task keeps the bot of the update it is handling (ctx.bot).  An unknown    *)
(* platform cannot be queued, so that branch is dead.                        *)

ProcessNext(t, frame) ==
  LET u == task[t].user
  IN  \/ /\ StartNext(u)
         /\ task' = [task EXCEPT
              ![t].pc = "chain", ![t].from = frame, ![t].since = 0,
              ![t].msg = Downloads(u)[NextIndex(u)].message_id,
              ![t].url = Downloads(u)[NextIndex(u)].url]
      \/ /\ DrainQueue(u)
         /\ Return(t)

ChainEnds(t) ==
  /\ At(t, "chain")
  /\ ProcessNext(t, task[t].from)
  /\ ChatsSame

\* Only sending is inside a try; what the download raises goes to the caller.
ChainRaises(t) ==
  /\ At(t, "chain")
  /\ "raise" \in Faults
  /\ CASE task[t].from \in {"download", "route_exc"} ->
            Return(t) /\ UNCHANGED queues
       [] task[t].from = "info" ->
            Goto(t, "info_failed") /\ UNCHANGED queues
       [] task[t].from = "info_resumed" -> ProcessNext(t, "info_exc")
       [] task[t].from = "info_exc" -> ProcessNext(t, "route_exc")
  /\ ChatsSame

-----------------------------------------------------------------------------
(* process: the route handler raised, so the queue is advanced.              *)

RoutePoints ==
  {"checks", "prompt", "reply_first", "reply_queued", "info_failed", "clicked",
   "retry", "resume", "other"}

RouteFails(t) ==
  /\ task[t].pc \in RoutePoints
  /\ "raise" \in Faults
  /\ ProcessNext(t, "route_exc")
  /\ ChatsSame

\* /start, /lang, text without a link, a language callback, an unknown callback.
OtherUpdate(t, u, b) ==
  /\ Begin(t, "other", u, b, AnyUrl, NoMessage)
  /\ ChatsSame
  /\ UNCHANGED queues

OtherEnds(t) ==
  /\ At(t, "other")
  /\ Return(t)
  /\ ChatsSame
  /\ UNCHANGED queues

-----------------------------------------------------------------------------
(* _handle_url *)

LinkArrives(t, u, b, url) ==
  /\ sent + 1 \in Messages
  /\ sent' = sent + 1
  /\ Begin(t, "checks", u, b, url, sent + 1)
  /\ UNCHANGED <<queues, buttons, gates, pending>>

\* Filtered (adult site, unknown platform): a message is sent, nothing else.
LinkFiltered(t) ==
  /\ At(t, "checks")
  /\ Goto(t, "other")
  /\ ChatsSame
  /\ UNCHANGED queues

\* _check_subscription_fast: the user is not subscribed.
LinkGated(t) ==
  /\ At(t, "checks")
  /\ task[t].bot \in GatedBots
  /\ pending' = [pending EXCEPT ![<<task[t].user, task[t].bot>>] =
                   [url |-> task[t].url, message_id |-> task[t].msg]]
  /\ Goto(t, "prompt")
  /\ UNCHANGED <<queues, sent, buttons, gates>>

PromptSent(t) ==
  /\ At(t, "prompt")
  /\ gates' = gates \cup {<<task[t].user, task[t].bot>>}
  /\ Return(t)
  /\ UNCHANGED <<queues, sent, buttons, pending>>

LinkAdded(t) ==
  LET me == task[t]
  IN  /\ At(t, "checks")
      /\ \/ AddRefused(me.user) /\ Goto(t, "other")
         \/ AddStarted(me.user, me.bot, me.msg, me.url) /\ Goto(t, "reply_first")
         \/ AddQueued(me.user, me.bot, me.msg, me.url) /\ Goto(t, "reply_queued")
      /\ ChatsSame

ReplySent(t) ==
  LET me == task[t]
  IN  /\ \/ /\ At(t, "reply_first")
            /\ Goto(t, IF me.url \in YoutubeUrls THEN "info" ELSE "download")
            /\ UNCHANGED queues
         \/ /\ At(t, "reply_queued")
            /\ SetProgressMessage(me.user, me.bot, me.url, me.msg)
            /\ Return(t)
      /\ ChatsSame

-----------------------------------------------------------------------------
(* _handle_youtube_url and _handle_youtube_url_resumed *)

InfoPoints == {"info", "info_resumed"}

\* The formats are shown; the link keeps the queue until a button is pressed.
FormatsShown(t) ==
  /\ task[t].pc \in InfoPoints
  /\ buttons' = buttons \cup
       {[user |-> task[t].user, bot |-> task[t].bot, url |-> task[t].url]}
  /\ Return(t)
  /\ UNCHANGED <<queues, sent, gates, pending>>

\* No information, a playlist, or no format.
FormatsMissing(t) ==
  /\ task[t].pc \in InfoPoints
  /\ ProcessNext(t, task[t].pc)
  /\ ChatsSame

FormatsRaise(t) ==
  /\ "raise" \in Faults
  /\ \/ At(t, "info") /\ Goto(t, "info_failed") /\ UNCHANGED queues
     \/ At(t, "info_resumed") /\ ProcessNext(t, "info_exc")
  /\ ChatsSame

InfoErrorSent(t) ==
  /\ At(t, "info_failed")
  /\ ProcessNext(t, "info_exc")
  /\ ChatsSame

-----------------------------------------------------------------------------
(* _handle_format_callback and _handle_youtube_audio_callback *)

FormatPressed(t) ==
  \E kb \in buttons :
    /\ Begin(t, "clicked", kb.user, kb.bot, kb.url, NoMessage)
    /\ ChatsSame
    /\ UNCHANGED queues

\* The edit of the message removes its keyboard; a failed edit is ignored.
FormatChosen(t) ==
  LET kb == [user |-> task[t].user, bot |-> task[t].bot, url |-> task[t].url]
  IN  /\ At(t, "clicked")
      /\ Goto(t, "download")
      /\ \/ buttons' = buttons \ {kb}
         \/ "raise" \in Faults /\ UNCHANGED buttons
      /\ UNCHANGED <<queues, sent, gates, pending>>

-----------------------------------------------------------------------------
(* _process_download *)

\* Mutant: the failure is reported and the queue is forgotten.
FailsQuietly(t) ==
  /\ At(t, "download")
  /\ Return(t)
  /\ ChatsSame
  /\ UNCHANGED queues

\* The download failed or timed out.
DownloadFails(t) ==
  /\ At(t, "download")
  /\ ProcessNext(t, "download")
  /\ ChatsSame

DownloadSucceeds(t) ==
  /\ At(t, "download")
  /\ Goto(t, "deliver")
  /\ ChatsSame
  /\ UNCHANGED queues

\* The download raises: the outer except reports it, and the queue stays.
DownloadRaises(t) ==
  /\ At(t, "download")
  /\ "raise" \in Faults
  /\ Return(t)
  /\ ChatsSame
  /\ UNCHANGED queues

\* Mutant: the handler ends without calling get_next.
DeliveredOnly(t) ==
  /\ At(t, "deliver")
  /\ Return(t)
  /\ ChatsSame
  /\ UNCHANGED queues

\* Sent or not, after the post-download ad.
Delivered(t) ==
  /\ At(t, "deliver")
  /\ ProcessNext(t, "download")
  /\ ChatsSame

-----------------------------------------------------------------------------
(* _handle_subscription_retry *)

RetryPressed(t) ==
  \E gate \in gates :
    /\ Begin(t, "retry", gate[1], gate[2], AnyUrl, NoMessage)
    /\ ChatsSame
    /\ UNCHANGED queues

RetryRefused(t) ==
  /\ At(t, "retry")
  /\ Goto(t, "other")
  /\ ChatsSame
  /\ UNCHANGED queues

\* The pressed prompt is deleted; another one, or a failed deletion, leaves one.
PromptDeleted(t) == gates' \in {gates, gates \ {<<task[t].user, task[t].bot>>}}

\* The bot requires no channel any more: the prompt goes, the link stays pending.
RetryUngated(t) ==
  /\ At(t, "retry")
  /\ PromptDeleted(t)
  /\ Goto(t, "other")
  /\ UNCHANGED <<queues, sent, buttons, pending>>

\* Mutant: the pending link is read, not popped.
RetryWithoutPop(t) ==
  LET key == <<task[t].user, task[t].bot>>
  IN  /\ At(t, "retry")
      /\ PromptDeleted(t)
      /\ IF pending[key] = NoPending
         THEN Goto(t, "other")
         ELSE task' = [task EXCEPT ![t].pc = "resume",
                                   ![t].url = pending[key].url,
                                   ![t].msg = pending[key].message_id]
      /\ UNCHANGED <<queues, sent, buttons, pending>>

RetryAccepted(t) ==
  LET key == <<task[t].user, task[t].bot>>
  IN  /\ At(t, "retry")
      /\ PromptDeleted(t)
      /\ IF pending[key] = NoPending
         THEN Goto(t, "other") /\ UNCHANGED pending
         ELSE /\ pending' = [pending EXCEPT ![key] = NoPending]
              /\ task' = [task EXCEPT ![t].pc = "resume",
                                      ![t].url = pending[key].url,
                                      ![t].msg = pending[key].message_id]
      /\ UNCHANGED <<queues, sent, buttons>>

Resumed(t) ==
  LET me == task[t]
  IN  /\ At(t, "resume")
      /\ \/ AddRefused(me.user) /\ Goto(t, "other")
         \/ /\ AddStarted(me.user, me.bot, me.msg, me.url)
            /\ Goto(t, IF me.url \in YoutubeUrls THEN "info_resumed" ELSE "download")
         \/ /\ AddQueuedWithProgress(me.user, me.bot, me.msg, me.url)
            /\ Return(t)
      /\ ChatsSame

-----------------------------------------------------------------------------
(* The clock and the process *)

\* The points at which a task works on a link that get_next or add started.
HoldingPoints ==
  {"reply_first", "info", "info_resumed", "info_failed", "download", "deliver", "chain"}

Holds(t, u) ==
  task[t].pc \in HoldingPoints /\ task[t].user = u /\ task[t].msg # NoMessage

\* wait_for ends a download at its timeout, so the clock cannot pass it; without
\* the fault "slow" no handler holds a link for longer than StaleTimeout either.
TimePasses ==
  /\ \A t \in Tasks : At(t, "download") => now - task[t].since < DownloadTimeout
  /\ \/ "slow" \in Faults
     \/ \A u \in Users : \A i \in With(Downloads(u), "downloading") :
          (\E t \in Tasks : Holds(t, u) /\ task[t].msg = Downloads(u)[i].message_id)
            => now - Downloads(u)[i].started_at < StaleTimeout
  /\ ClockTick
  /\ UNCHANGED <<queues, epoch>>
  /\ UNCHANGED procVars

\* A restart ends the tasks and forgets the queues and the pending links; the
\* keyboards and the prompts stay in the chats.
Restart ==
  /\ LoseMemory
  /\ task' = [t \in Tasks |-> Idle]
  /\ pending' = [key \in Users \X Bots |-> NoPending]
  /\ UNCHANGED <<now, sent, buttons, gates>>

-----------------------------------------------------------------------------

Init ==
  /\ QueueInit
  /\ task = [t \in Tasks |-> Idle]
  /\ sent = 0
  /\ buttons = {}
  /\ gates = {}
  /\ pending = [key \in Users \X Bots |-> NoPending]

\* What the users and the bots' other updates begin.
Arrival(t) ==
  \/ \E u \in Users, b \in Bots :
       \/ \E url \in Urls : LinkArrives(t, u, b, url)
       \/ OtherUpdate(t, u, b)
  \/ FormatPressed(t)
  \/ RetryPressed(t)

\* What the event loop does with a task that is there.
Resume(t) ==
  \/ LinkFiltered(t) \/ LinkGated(t) \/ PromptSent(t) \/ LinkAdded(t) \/ ReplySent(t)
  \/ FormatsShown(t) \/ FormatsMissing(t) \/ FormatsRaise(t) \/ InfoErrorSent(t)
  \/ FormatChosen(t)
  \/ DownloadFails(t) \/ DownloadSucceeds(t) \/ DownloadRaises(t) \/ Delivered(t)
  \/ RetryRefused(t) \/ RetryUngated(t) \/ RetryAccepted(t) \/ Resumed(t)
  \/ OtherEnds(t) \/ RouteFails(t)

Chained(t) == ChainEnds(t) \/ ChainRaises(t)

Next ==
  \/ \E t \in Tasks : (Arrival(t) \/ Resume(t) \/ Chained(t)) /\ UNCHANGED <<now, epoch>>
  \/ CleanupPass /\ UNCHANGED <<now, epoch>> /\ UNCHANGED procVars
  \/ TimePasses
  \/ Restart

Spec == Init /\ [][Next]_vars

\* The event loop resumes every task whose call is answered, and every call is
\* answered: Telegram's and Redis's clients have timeouts, and wait_for limits a
\* download.  Nothing limits a chained download, so that ChainFairness assumes
\* what the code does not enforce: that the downloaders give up by themselves.
TaskFairness == \A t \in Tasks : WF_vars(Resume(t) /\ UNCHANGED <<now, epoch>>)
ChainFairness == \A t \in Tasks : WF_vars(Chained(t) /\ UNCHANGED <<now, epoch>>)

FairSpec == Spec /\ TaskFairness /\ ChainFairness

-----------------------------------------------------------------------------
(* Properties *)

TypeOK ==
  /\ QueueTypeOK
  /\ task \in [Tasks -> Handler \cup {Idle}]
  /\ sent \in Messages \cup {0}
  /\ buttons \subseteq [user : Users, bot : Bots, url : Urls]
  /\ gates \subseteq Users \X Bots
  /\ pending \in [Users \X Bots ->
                  [url : Urls, message_id : Messages] \cup {NoPending}]

Transferring(t, u) ==
  task[t].pc \in {"download", "deliver", "chain"} /\ task[t].user = u

\* However the handlers interleave, fail and are restarted, no link is taken up
\* by two of them: get_next hands each queued link to one caller only, and a
\* resumed pending link is taken from _pending_downloads once.
LinkTakenOnce ==
  \A u \in Users : \A s, t \in Tasks :
    Holds(s, u) /\ Holds(t, u) /\ task[s].msg = task[t].msg => s = t

\* Without faults and format buttons the queue and the handlers agree: a busy
\* queue's active download is the link of exactly one handler, which will call
\* get_next when it is over, and nobody works on a link of an idle queue.
ActiveLinkHeld ==
  \A u \in Users :
    LET active  == {Downloads(u)[i].message_id : i \in With(Downloads(u), "downloading")}
        holders == {t \in Tasks : Holds(t, u)}
    IN  /\ {task[t].msg : t \in holders} = active
        /\ Cardinality(holders) = Cardinality(active)

\* "Only 1 download runs at a time per user" (UserDownloadQueue docstring).
OneDownloadPerUser ==
  \A u \in Users : \A s, t \in Tasks :
    Transferring(s, u) /\ Transferring(t, u) => s = t

Waits(u, m) ==
  \E i \in With(Downloads(u), "queued") : Downloads(u)[i].message_id = m

\* Every link that waits in a queue gets its turn, unless a restart loses the queue.
WaitingServed ==
  \A u \in Users : \A m \in Messages : \A e \in 0..MaxRestarts :
    Waits(u, m) /\ epoch = e ~>
      epoch # e \/ \E t \in Tasks : Holds(t, u) /\ task[t].msg = m
=============================================================================
