-------------------------- MODULE YouTubeDownloads --------------------------
(***************************************************************************)
(* src/services/media/youtube.py: the one thread pool of the YouTube       *)
(* downloader and the three kinds of work that share it.  get_video_info   *)
(* runs _get_info_sync in a thread of the pool; that thread submits one    *)
(* probe per client and cookie mode to the same pool and waits for them;   *)
(* download() then runs one _download_sync after another in the pool,      *)
(* following the attempt plan.  The download semaphore covers download(),  *)
(* not the get_video_info of a handler that shows the qualities.           *)
(***************************************************************************)
EXTENDS Naturals, Sequences, FiniteSets, SequencesExt

CONSTANTS
  Callers,           \* handlers and downloads, each of which asks once
  Clients,           \* CLIENT_STRATEGIES, in order
  AudioClients,      \* the strategies of _download_audio, in order
  CookieModes,       \* _iter_cookie_modes(), in order
  RawFormats,        \* the lists of formats YouTube may give, as sets
  Workers,           \* threads of the executor
  Permits            \* the download semaphore

AllowedQualities == {360, 480, 720, 1080, 1440, 2160}
HDQualities == {720, 1080, 1440, 2160}

\* A stream: its height (0 for audio only), whether it has sound, its rank
\* by size known, sound, container and bit rate.
Stream == [height : Nat, audio : BOOLEAN, rank : Nat]

ASSUME PoolAssumption == Workers \in Nat \ {0} /\ Permits \in Nat \ {0}
ASSUME FormatsAssumption == \A raw \in RawFormats : raw \subseteq Stream

\* No strategy and no cookie mode is listed twice.
ASSUME StrategiesAssumption ==
  /\ \A s \in {Clients, AudioClients} : s \in Seq(ToSet(s)) /\ IsInjective(s)
  /\ CookieModes \in Seq(BOOLEAN) \ {<<>>} /\ IsInjective(CookieModes)

VARIABLES
  caller,       \* the calls of get_video_info and download
  queue,        \* work submitted to the executor and not started
  running,      \* work a thread of the executor is busy with
  probes        \* probes[c]: what the finished probes of c's info job returned

vars == <<caller, queue, running, probes>>

-----------------------------------------------------------------------------
(* Formats                                                                 *)

None == "none"
NoContext == <<>>

\* _parse_formats: the highest allowed quality not above the height.
QualityOf(stream) ==
  LET under == {q \in AllowedQualities : q <= stream.height} IN
  IF under = {} THEN 0 ELSE CHOOSE q \in under : \A p \in under : p <= q

AudioOnly(raw) == {s \in raw : s.height = 0 /\ s.audio}

\* _parse_formats: the best stream of each quality; one without sound is
\* merged with the best audio-only stream; that one is offered by itself too.
\* An empty list makes the probe fail.
Formats(raw) ==
  LET video == {s \in raw : QualityOf(s) # 0}
      best == {s \in video : \A t \in video :
                 QualityOf(t) = QualityOf(s) => t.rank <= s.rank}
  IN {[quality |-> QualityOf(s), merge |-> ~s.audio] : s \in best}
     \cup IF AudioOnly(raw) = {} THEN {} ELSE {[quality |-> 0, merge |-> FALSE]}

Qualities(formats) == {f.quality : f \in formats}
IsHD(formats) == Qualities(formats) \cap HDQualities # {}

-----------------------------------------------------------------------------
(* The attempt plan                                                        *)

\* Every client with every cookie mode, the clients in the outer loop.
Pairs(clients) ==
  [i \in 1..(Len(clients) * Len(CookieModes)) |->
     <<clients[((i - 1) \div Len(CookieModes)) + 1],
       CookieModes[((i - 1) % Len(CookieModes)) + 1]>>]

\* Mutant: only the preferred context keeps its cookie mode in the plan.
AttemptPlanOneMode(clients, preferred) ==
  (IF preferred = NoContext THEN <<>> ELSE <<preferred>>)
    \o RemoveFirst([i \in DOMAIN clients |-> <<clients[i], Head(CookieModes)>>], preferred)

\* _build_attempt_plan: first the context that answered the probe, then all
\* the others, none twice.
AttemptPlan(clients, preferred) ==
  (IF preferred = NoContext THEN <<>> ELSE <<preferred>>)
    \o RemoveFirst(Pairs(clients), preferred)

-----------------------------------------------------------------------------
Asks == {"info", "audio", "video", "best"}

Waiting == [pc |-> "idle", ask |-> None, formats |-> {}, preferred |-> NoContext,
            plan |-> <<>>, tried |-> {}]

Info(c) == [kind |-> "info", owner |-> c, context |-> NoContext]
Probe(c, context) == [kind |-> "probe", owner |-> c, context |-> context]
Attempt(c, context) == [kind |-> "attempt", owner |-> c, context |-> context]

\* What is left in the queue of a future that was cancelled before it ran: the
\* thread that takes it does nothing.
Cancelled == [kind |-> "cancelled", owner |-> None, context |-> NoContext]

At(c, pc) == caller[c].pc = pc
Set(c, rec) == caller' = [caller EXCEPT ![c] = rec]
Goto(c, pc) == Set(c, [caller[c] EXCEPT !.pc = pc])
Submit(jobs) == queue' = queue \o jobs
Cancel(jobs) == queue' = [i \in DOMAIN queue |-> IF queue[i] \in jobs THEN Cancelled ELSE queue[i]]
EndJob(job) == running' = running \ {job}

Init ==
  /\ caller = [c \in Callers |-> Waiting]
  /\ queue = <<>>
  /\ running = {}
  /\ probes = [c \in Callers |-> {}]

\* A handler asks for the qualities; the processor asks for a download.
Ask(c) ==
  /\ At(c, "idle")
  /\ \E ask \in Asks :
       IF ask = "info"
       THEN /\ Set(c, [caller[c] EXCEPT !.pc = "info", !.ask = ask])
            /\ Submit(<<Info(c)>>)
       ELSE /\ Set(c, [caller[c] EXCEPT !.pc = "wait", !.ask = ask])
            /\ UNCHANGED queue
  /\ UNCHANGED <<running, probes>>

\* The downloads inside the semaphore.
Holding == {c \in Callers :
  caller[c].ask \in Asks \ {"info"} /\ caller[c].pc \in {"info", "start", "attempt"}}

\* The next attempt of the plan, or the end of the download.
StartAttempt(c, rec) ==
  IF rec.plan = <<>>
  THEN Set(c, [rec EXCEPT !.pc = "failed"]) /\ UNCHANGED queue
  ELSE /\ Set(c, [rec EXCEPT !.pc = "attempt"])
       /\ Submit(<<Attempt(c, Head(rec.plan))>>)

\* Mutant: the downloads are let in without the semaphore.
EnterAnyway(c) ==
  /\ At(c, "wait")
  /\ IF caller[c].ask = "best"
     THEN StartAttempt(c, [caller[c] EXCEPT !.plan = AttemptPlan(Clients, NoContext)])
     ELSE Goto(c, "info") /\ Submit(<<Info(c)>>)
  /\ UNCHANGED <<running, probes>>

\* async with self.semaphore: a download of the best quality goes to its
\* attempts at once, the others ask for the formats first.
Enter(c) ==
  /\ At(c, "wait")
  /\ Cardinality(Holding) < Permits
  /\ IF caller[c].ask = "best"
     THEN StartAttempt(c, [caller[c] EXCEPT !.plan = AttemptPlan(Clients, NoContext)])
     ELSE Goto(c, "info") /\ Submit(<<Info(c)>>)
  /\ UNCHANGED <<running, probes>>

-----------------------------------------------------------------------------
(* The executor                                                            *)

FreeThread == Cardinality(running) < Workers

\* A free thread takes the oldest job.  An info job begins by submitting its
\* probes; the thread stays busy until it returns.
Dispatch ==
  /\ queue # <<>>
  /\ FreeThread
  /\ LET job == Head(queue)
         contexts == Pairs(Clients)
     IN /\ running' = running \cup ({job} \ {Cancelled})
        /\ queue' = Tail(queue) \o
             IF job.kind # "info" THEN <<>>
             ELSE [i \in DOMAIN contexts |-> Probe(job.owner, contexts[i])]
  /\ UNCHANGED <<caller, probes>>

\* _probe_single: formats, or nothing.
ProbeEnds(job) ==
  /\ job \in running /\ job.kind = "probe"
  /\ EndJob(job)
  /\ \E raw \in RawFormats \cup {{}} :
       probes' = IF Info(job.owner) \in running
                 THEN [probes EXCEPT ![job.owner] = @ \cup {<<job.context, Formats(raw)>>}]
                 ELSE probes          \* the info job has returned without it
  /\ UNCHANGED <<caller, queue>>

Returned(c) == {p[1] : p \in probes[c]}
Outstanding(c) == ToSet(Pairs(Clients)) \ Returned(c)

\* What the caller does with the information: show it, or plan the attempts.
\* Audio is downloaded without information as well, and whatever the formats.
UseInfo(c, answer) ==
  LET rec == [caller[c] EXCEPT !.preferred = answer[1], !.formats = answer[2]]
      planned == [rec EXCEPT !.plan =
        AttemptPlan(IF caller[c].ask = "audio" THEN AudioClients ELSE Clients, answer[1])]
  IN CASE caller[c].ask = "info" -> Set(c, [rec EXCEPT !.pc = "done"])
       [] caller[c].ask = "audio" -> Set(c, [planned EXCEPT !.pc = "start"])
       [] caller[c].ask = "video" ->
            \/ answer[2] # {} /\ Set(c, [planned EXCEPT !.pc = "start"])
            \/ Set(c, [rec EXCEPT !.pc = "refused"])   \* no formats, or not this quality
       [] OTHER -> UNCHANGED caller                    \* the caller is gone

\* Mutant: the probes that have not started are left in the queue.
InfoReturnsOnly(c, answer) ==
  /\ EndJob(Info(c))
  /\ probes' = [probes EXCEPT ![c] = {}]
  /\ UseInfo(c, answer)
  /\ UNCHANGED queue

\* The info job returns: the probes that have not started are cancelled, those
\* that run go on and are not waited for.
InfoReturns(c, answer) ==
  /\ EndJob(Info(c))
  /\ Cancel({j \in ToSet(queue) : j.owner = c /\ j.kind = "probe"})
  /\ probes' = [probes EXCEPT ![c] = {}]
  /\ UseInfo(c, answer)

\* The best answer so far: the one with the most formats.
BestAnswers(c) ==
  LET got == {p \in probes[c] : p[2] # {}} IN
  IF got = {} THEN {<<NoContext, {}>>}
  ELSE {p \in got : \A q \in got : Cardinality(q[2]) <= Cardinality(p[2])}

\* as_completed: an answer in HD is returned at once.
GotHD(c) ==
  /\ Info(c) \in running
  /\ \E p \in probes[c] : IsHD(p[2]) /\ InfoReturns(c, p)

\* All probes have answered and none in HD.
AllProbed(c) ==
  /\ Info(c) \in running
  /\ Outstanding(c) = {}
  /\ \A p \in probes[c] : ~IsHD(p[2])
  /\ \E p \in BestAnswers(c) : InfoReturns(c, p)

\* Mutant: the time-out returns only when some probe has given formats.
TimesOutWithFormats(c) ==
  /\ Info(c) \in running
  /\ Outstanding(c) # {} /\ \E p \in probes[c] : p[2] # {}
  /\ \A p \in probes[c] : ~IsHD(p[2])
  /\ \E p \in BestAnswers(c) : InfoReturns(c, p)

\* Forty seconds without the rest, whatever has answered by then.
ProbingTimesOut(c) ==
  /\ Info(c) \in running
  /\ Outstanding(c) # {}
  /\ \A p \in probes[c] : ~IsHD(p[2])
  /\ \E p \in BestAnswers(c) : InfoReturns(c, p)

\* The coroutine resumes with the information.
Begin(c) ==
  /\ At(c, "start")
  /\ StartAttempt(c, caller[c])
  /\ UNCHANGED <<running, probes>>

\* _download_sync succeeds, or the next context of the plan is tried.
AttemptEnds(job) ==
  /\ job \in running /\ job.kind = "attempt"
  /\ EndJob(job)
  /\ LET c == job.owner
         rec == [caller[c] EXCEPT !.plan = Tail(@), !.tried = @ \cup {job.context}]
     IN \/ At(c, "attempt") /\ (\/ Set(c, [rec EXCEPT !.pc = "done"]) /\ UNCHANGED queue
                                \/ StartAttempt(c, rec))
        \/ ~At(c, "attempt") /\ UNCHANGED <<caller, queue>>
  /\ UNCHANGED probes

\* wait_for in the processor: the coroutine is cancelled and gives back its
\* permit, the job it waits for is not taken from the pool once it runs.
Timeout(c) ==
  /\ caller[c].ask \in Asks \ {"info"}
  /\ caller[c].pc \in {"wait", "info", "start", "attempt"}
  /\ Set(c, [Waiting EXCEPT !.pc = "timeout"])
  /\ Cancel({j \in ToSet(queue) : j.owner = c /\ j.kind # "probe"})
  /\ UNCHANGED <<running, probes>>
-----------------------------------------------------------------------------
Prober(c) == GotHD(c) \/ AllProbed(c)
Ends(c) == \E job \in running : job.owner = c /\ (ProbeEnds(job) \/ AttemptEnds(job))

Next ==
  \/ Dispatch
  \/ \E c \in Callers : Ask(c) \/ Enter(c) \/ Begin(c) \/ Prober(c)
                        \/ ProbingTimesOut(c) \/ Ends(c) \/ Timeout(c)

\* Probes and downloads end (socket timeouts), threads take work, the event loop
\* goes on, and the wait for the probes ends with all of them or after forty
\* seconds (as_completed).  Nothing makes the processor's wait_for fire.
Fairness ==
  /\ WF_vars(Dispatch)
  /\ \A c \in Callers :
       /\ WF_vars(Ends(c)) /\ WF_vars(Begin(c)) /\ WF_vars(Enter(c))
       /\ WF_vars(Prober(c) \/ ProbingTimesOut(c))

Spec == Init /\ [][Next]_vars /\ Fairness

-----------------------------------------------------------------------------
(* Properties                                                              *)

\* No thread of the pool is left for the probes that all its info jobs wait for.
\* The code does not exclude it (max_workers=16, Semaphore(8), get_video_info is
\* outside the semaphore): only the time-outs of the probing end it.
PoolNotJammed ==
  ~ /\ queue # <<>> /\ ~FreeThread
    /\ \A job \in running : job.kind = "info" /\ Returned(job.owner) = {}

\* The calls whose info job occupies a thread, and those of them that the
\* semaphore does not count: handlers that show qualities, and downloads that
\* have timed out.
Probing == {c \in Callers : Info(c) \in running}
Outsiders == Probing \ Holding

\* The downloads inside the semaphore cannot jam the pool by themselves: that takes
\* outsiders for all the threads beyond the permits (download, _get_info_sync).
JamNeedsOutsiders == Permits + Cardinality(Outsiders) < Workers => PoolNotJammed

\* A thread that has its answer leaves no probe behind for the pool to run: the
\* queued ones are cancelled on every way out of _get_info_sync.
NoOrphanProbes ==
  \A i \in DOMAIN queue : queue[i].kind = "probe" => Info(queue[i].owner) \in running

\* A download gives up only when every client was tried with every cookie mode,
\* each once, and first of all the context that answered the probe
\* (_build_attempt_plan and the loops over it).
GivesUpAfterAll ==
  \A c \in Callers :
    LET done == caller[c].tried
        plan == caller[c].plan
    IN /\ done \cap ToSet(plan) = {} /\ Cardinality(ToSet(plan)) = Len(plan)
       /\ done # {} /\ caller[c].preferred # NoContext => caller[c].preferred \in done
       /\ At(c, "failed") =>
            ToSet(Pairs(IF caller[c].ask = "audio" THEN AudioClients ELSE Clients)) \subseteq done

\* Every call of get_video_info and download() comes to an end, also when the info
\* jobs hold all the threads and wait for probes that cannot start: the time-out of
\* as_completed frees the threads one after the other, and whoever waits behind
\* them, for a thread or for the semaphore, has its turn.
CallEnds == \A c \in Callers :
  caller[c].pc # "idle" ~> caller[c].pc \in {"done", "refused", "failed", "timeout"}
=============================================================================
