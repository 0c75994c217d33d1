--------------------------- MODULE WebhookDelivery ---------------------------
(***************************************************************************)
(* How an update gets from Telegram to UpdateProcessor: the webhook        *)
(* handler of app/controllers/webhook.py, in each of the web processes,    *)
(* and its deduplication by a Redis key.  Telegram posts an update again   *)
(* when it gets no answer, to whichever process; a post is handled in two  *)
(* parts, the request and the background task it leaves behind.            *)
(* Telegram gives every update a number, so the branch of                  *)
(* _process_with_dedup for updates without one is left out.                *)
(***************************************************************************)
EXTENDS Naturals, FiniteSets

CONSTANTS
  Updates,        \* updates of one bot
  Foreign,        \* those for no active bot, or without its secret
  Processes,      \* web processes (Granian workers)
  MaxPosts,       \* bound on the posts of an update
  RetryInterval,  \* how long Telegram waits before it posts an update again
  DedupTTL,       \* dedup_ttl, in the same ticks
  MaxClock,       \* bound on the clock
  Faults          \* what may go wrong, out of FaultKinds

FaultKinds ==
  {"redis",   \* a Redis or database call raises, done or not
   "answer",  \* an answer does not reach Telegram
   "crash"}   \* a process dies

ASSUME DeliveryAssumption ==
  /\ Foreign \subseteq Updates
  /\ MaxPosts \in Nat
  /\ RetryInterval \in Nat
  /\ DedupTTL \in Nat
  /\ MaxClock \in Nat
  /\ Faults \subseteq FaultKinds

VARIABLES
  now,
  key,       \* per update: when its Redis key expires; 0 without one
  posts,     \* per update: how often Telegram posted it, and when last
  answered,  \* the updates Telegram has an answer for
  handler    \* per update and post: what became of it

vars == <<now, key, posts, answered, handler>>

Posts == Updates \X (1..MaxPosts)

Points ==
  {"request",     \* handle_webhook, up to its answer
   "dedup",       \* _process_with_dedup, up to SET NX
   "processing",  \* from the reply of SET to the end of update_processor.process
   "done", "skipped", "refused",
   "dead",        \* the process died before, and
   "lost"}        \* while it was processing

NoPost == [pc |-> "none"]

\* start is when the key was acquired, 0 if it was not.
Handler == [pc : Points, process : Processes, start : Nat]

At(p, pc) == handler[p].pc = pc

Goto(p, pc) == handler' = [handler EXCEPT ![p].pc = pc]

-----------------------------------------------------------------------------
(* Telegram *)

Post(u, w) ==
  LET k == posts[u].count + 1
  IN  /\ u \notin answered
      /\ k <= MaxPosts
      /\ k > 1 => now - posts[u].last >= RetryInterval
      /\ posts' = [posts EXCEPT ![u] = [count |-> k, last |-> now]]
      /\ handler' = [handler EXCEPT ![<<u, k>>] =
                       [pc |-> "request", process |-> w, start |-> 0]]
      /\ UNCHANGED <<now, key, answered>>

-----------------------------------------------------------------------------
(* handle_webhook *)

Answer(u) ==
  \/ answered' = answered \cup {u}
  \/ "answer" \in Faults /\ UNCHANGED answered

\* Unknown bot or wrong secret: 200, and nothing else.
Dropped(p) ==
  /\ At(p, "request")
  /\ p[1] \in Foreign
  /\ Answer(p[1])
  /\ Goto(p, "refused")
  /\ UNCHANGED <<now, key, posts>>

\* The look-up of the bot or of the secret raises: not 200.
RequestFails(p) ==
  /\ At(p, "request")
  /\ "redis" \in Faults
  /\ Goto(p, "refused")
  /\ UNCHANGED <<now, key, posts, answered>>

\* 200 at once; the update is handled by a background task.
Accepted(p) ==
  /\ At(p, "request")
  /\ p[1] \notin Foreign
  /\ Answer(p[1])
  /\ Goto(p, "dedup")
  /\ UNCHANGED <<now, key, posts>>

-----------------------------------------------------------------------------
(* _process_with_dedup *)

KeyIsSet(u) == now < key[u]

StartProcessing(p) ==
  handler' = [handler EXCEPT ![p].pc = "processing", ![p].start = now]

\* Mutant: SET without NX.
AcquiredAnyway(p) ==
  /\ At(p, "dedup")
  /\ key' = [key EXCEPT ![p[1]] = now + DedupTTL]
  /\ StartProcessing(p)
  /\ UNCHANGED <<now, posts, answered>>

\* Mutant: SET with NX and without EX, a key that never expires.
AcquiredForGood(p) ==
  /\ At(p, "dedup")
  /\ ~KeyIsSet(p[1])
  /\ key' = [key EXCEPT ![p[1]] = MaxClock + DedupTTL + 1]
  /\ StartProcessing(p)
  /\ UNCHANGED <<now, posts, answered>>

Acquired(p) ==
  /\ At(p, "dedup")
  /\ ~KeyIsSet(p[1])
  /\ key' = [key EXCEPT ![p[1]] = now + DedupTTL]
  /\ StartProcessing(p)
  /\ UNCHANGED <<now, posts, answered>>

Duplicate(p) ==
  /\ At(p, "dedup")
  /\ KeyIsSet(p[1])
  /\ Goto(p, "skipped")
  /\ UNCHANGED <<now, key, posts, answered>>

\* Mutant: a failed check drops the update.
FailedCheckSkips(p) ==
  /\ At(p, "dedup")
  /\ "redis" \in Faults
  /\ Goto(p, "skipped")
  /\ UNCHANGED <<now, key, posts, answered>>

\* Redis raises, after or without setting the key: the update is processed.
ProcessedAnyway(p) ==
  /\ At(p, "dedup")
  /\ "redis" \in Faults
  /\ \/ UNCHANGED key
     \/ ~KeyIsSet(p[1]) /\ key' = [key EXCEPT ![p[1]] = now + DedupTTL]
  /\ Goto(p, "processing")
  /\ UNCHANGED <<now, posts, answered>>

\* What process raises is logged, never handled a second time.
Processed(p) ==
  /\ At(p, "processing")
  /\ Goto(p, "done")
  /\ UNCHANGED <<now, key, posts, answered>>

-----------------------------------------------------------------------------

Dies(p) ==
  [handler[p] EXCEPT !.pc = IF At(p, "processing") THEN "lost" ELSE "dead"]

Crash(w) ==
  /\ "crash" \in Faults
  /\ handler' = [p \in Posts |->
       IF handler[p].pc \in {"request", "dedup", "processing"} /\ handler[p].process = w
       THEN Dies(p) ELSE handler[p]]
  /\ UNCHANGED <<now, key, posts, answered>>

Tick ==
  /\ now < MaxClock
  /\ now' = now + 1
  /\ UNCHANGED <<key, posts, answered, handler>>

Init ==
  /\ now = 1
  /\ key = [u \in Updates |-> 0]
  /\ posts = [u \in Updates |-> [count |-> 0, last |-> 0]]
  /\ answered = {}
  /\ handler = [p \in Posts |-> NoPost]

Step(p) ==
  \/ Dropped(p) \/ RequestFails(p) \/ Accepted(p)
  \/ Acquired(p) \/ Duplicate(p) \/ ProcessedAnyway(p) \/ Processed(p)

Next ==
  \/ \E u \in Updates, w \in Processes : Post(u, w)
  \/ \E p \in Posts : Step(p)
  \/ \E w \in Processes : Crash(w)
  \/ Tick

Spec == Init /\ [][Next]_vars

\* The event loop goes on with every task; Telegram may stop posting.
FairSpec == Spec /\ \A p \in Posts : WF_vars(Step(p))

-----------------------------------------------------------------------------
(* Properties *)

\* The variables have their types, and no key of an update, whichever process set
\* it and whether or not it had Redis' reply, lives longer than dedup_ttl
\* (_process_with_dedup).
TypeOK ==
  /\ now \in Nat \ {0}
  /\ key \in [Updates -> Nat]
  /\ posts \in [Updates -> [count : 0..MaxPosts, last : Nat]]
  /\ answered \subseteq Updates
  /\ handler \in [Posts -> Handler \cup {NoPost}]
  /\ \A u \in Updates : key[u] <= now + DedupTTL

\* The posts of an update whose handler acquired the key, and those whose handler
\* got as far as process.
Acquirers(u) ==
  {k \in 1..MaxPosts : handler[<<u, k>>].pc # "none" /\ handler[<<u, k>>].start # 0}

Reached(u) ==
  {k \in 1..MaxPosts : handler[<<u, k>>].pc \in {"processing", "done", "lost"}}

\* Two processes that get the same update at the same time do not both acquire its
\* key, whatever Redis, the network and the processes do: acquisitions are at
\* least dedup_ttl apart.
ApartInTime ==
  \A u \in Updates : \A j, k \in Acquirers(u) :
    j # k => LET s == handler[<<u, j>>].start
                 t == handler[<<u, k>>].start
             IN  s + DedupTTL <= t \/ t + DedupTTL <= s

\* Whatever fails, a post is skipped only if another post of the update has been
\* processed or is being processed, or died while it was.
SkippedIsCovered ==
  \A p \in Posts : At(p, "skipped") => Reached(p[1]) # {}

\* "Better a duplicate than a lost message": an update that Telegram will not post
\* again, because it was answered, is processed, whether or not Redis works, or
\* a process died with it.
AnsweredIsProcessed ==
  \A u \in Updates \ Foreign :
    u \in answered ~> \/ Reached(u) # {}
                      \/ \E k \in 1..MaxPosts : At(<<u, k>>, "dead")
=============================================================================
