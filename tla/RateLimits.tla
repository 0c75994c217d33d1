----------------------------- MODULE RateLimits -----------------------------
(***************************************************************************)
(* What limits the calls of the system, each for one key:                  *)
(*   advanced  services/advanced_rate_limiter.py: a sliding window in      *)
(*             Redis, limits that follow the load, penalties and bans;     *)
(*   basic     services/rate_limiter.py: a sliding window in Redis;        *)
(*   counter   check_rate_limit of services/cache.py: a counter in Redis   *)
(*             with a time to live;                                        *)
(*   active    stats:dl:active of services/cache.py: the downloads that    *)
(*             are running, which download() counts up and down.           *)
(* When Redis fails, the first two fall back on memory of the process.     *)
(* check_multi, check_all and the middleware call check() for one key      *)
(* after the other and stop at the first refusal.                          *)
(*                                                                         *)
(* Time passes in ticks and is kept as ages.  The clocks of the processes  *)
(* agree, and a call reads its clock in the tick of its pipeline.          *)
(***************************************************************************)
EXTENDS Naturals, Sequences, FiniteSets

CONSTANTS
  Callers,      \* the calls there may be at a time
  ProcessOf,    \* ProcessOf[c]: the process c runs in
  Limiters,     \* those of the four looked at
  Loads,        \* the limits the load may lead to, MaxLimit the largest
  MaxLimit,
  Window,       \* the window of all limits; also the hour of stats:dl:active
  TempBan, LongBan,
  Forget,       \* violations older than this are forgotten
  SweepEvery,   \* the period of _cleanup_loop
  MaxCalls,     \* bound on the calls remembered
  MaxCount      \* bound on a counter in Redis

Processes == {ProcessOf[c] : c \in Callers}

ASSUME LimitsAssumption ==
  /\ Limiters \subseteq {"advanced", "basic", "counter", "active"}
  /\ MaxLimit \in Loads /\ Loads \subseteq 1..MaxLimit
  /\ {MaxLimit, Window, TempBan, LongBan, Forget, SweepEvery, MaxCalls, MaxCount} \subseteq Nat \ {0}
  /\ TempBan <= LongBan
  /\ IsFiniteSet(Callers)
  /\ {"redis", "counter"} \cap Processes = {}

VARIABLES
  limiter,      \* the limiter of this behaviour
  caller,       \* where each caller is
  calls,        \* the calls of the last window, the oldest first
  local,        \* per process: _local_cache of the basic limiter
  penalty,      \* per process: _penalties of the identifier
  sweep,        \* per process: ticks until _cleanup_loop wakes up
  counter,      \* the key of the last two and its time to live
  raced         \* history: a caller used a counter that had changed meanwhile

vars == <<limiter, caller, calls, local, penalty, sweep, counter, raced>>

-----------------------------------------------------------------------------
Idle == [pc |-> "idle", seen |-> 0]
NoWindow == [count |-> 0, age |-> 0]
NoRecord == [violations |-> 0, age |-> 0, banned |-> FALSE, ban |-> 0]
NoKey == [count |-> 0, ttl |-> 0]
Forever == Window + 1     \* the time to live of a key that has none

\* via: what counted the call, "redis", "counter" or the memory of a process.
\* logged: it has an entry in the sorted set.  by: who is to remove the entry.
Calls == [by : SUBSET Callers, via : {"redis", "counter"} \cup Processes, age : 0..Window - 1,
          admitted : BOOLEAN, logged : BOOLEAN]

Call(c, via, admitted) ==
  [by |-> IF admitted THEN {} ELSE {c}, via |-> via, age |-> 0, admitted |-> admitted,
   logged |-> via = "redis"]

\* The places of the calls with an entry in the sorted set, and of those that
\* via has admitted.
Log == {i \in DOMAIN calls : calls[i].logged}
Admitted(via) == {i \in DOMAIN calls : calls[i].admitted /\ calls[i].via = via}

InDownload == {"expire", "downloading", "write"}
At(c, pc) == caller[c].pc = pc
Goto(c, pc, seen) == caller' = [caller EXCEPT ![c] = [pc |-> pc, seen |-> seen]]
Return(c) == caller' = [caller EXCEPT ![c] = Idle]

Limits == IF limiter = "advanced" THEN Loads ELSE {MaxLimit}
Banned(c) == penalty[ProcessOf[c]].ban > 0
Asks(c) == limiter \in {"advanced", "basic"} /\ At(c, "idle") /\ ~Banned(c) /\ Len(calls) < MaxCalls

Init ==
  /\ limiter \in Limiters
  /\ caller = [c \in Callers |-> Idle]
  /\ calls = <<>>
  /\ local = [p \in Processes |-> NoWindow]
  /\ penalty = [p \in Processes |-> NoRecord]
  /\ sweep = [p \in Processes |-> SweepEvery]
  /\ counter = NoKey
  /\ raced = FALSE

-----------------------------------------------------------------------------
(* A refusal                                                               *)

\* _record_violation: a first record, a record that starts anew, or one
\* violation more, with a ban from the third on and a long one from the fifth
\* on, where the model stops to count.
After(record) ==
  IF record.violations = 0 \/ record.age > Forget
  THEN [NoRecord EXCEPT !.violations = 1]
  ELSE LET n == IF record.violations = 5 THEN 5 ELSE record.violations + 1 IN
       [violations |-> n, age |-> 0, banned |-> n >= 3,
        ban |-> CASE n < 3 -> 0 [] n \in {3, 4} -> TempBan [] OTHER -> LongBan]

Refuse(c) ==
  /\ Return(c)
  /\ penalty' = IF limiter = "advanced"
                THEN [penalty EXCEPT ![ProcessOf[c]] = After(@)] ELSE penalty

-----------------------------------------------------------------------------
(* The sliding window in Redis                                             *)

\* Mutant: the limit is compared with > instead of >=.
RoomForOneMore(limit) == Cardinality(Log) <= limit

Room(limit) == Cardinality(Log) < limit

\* The pipeline: count, and add an entry.  Tick drops the old ones.
Check(c) ==
  /\ Asks(c)
  /\ \E limit \in Limits :
       /\ calls' = Append(calls, Call(c, "redis", Room(limit)))
       /\ IF Room(limit) THEN Return(c) ELSE Goto(c, "remove", 0)
  /\ UNCHANGED <<limiter, local, penalty, sweep, counter, raced>>

\* The place of c's last refused call.
Own(c) == CHOOSE i \in DOMAIN calls :
  calls[i].by = {c} /\ \A j \in i + 1..Len(calls) : calls[j].by # {c}

\* Mutant: the entry of a refused call stays in the log.
RemoveNothing(c) ==
  /\ At(c, "remove")
  /\ Refuse(c)
  /\ UNCHANGED <<limiter, calls, local, sweep, counter, raced>>

\* A refused call takes its entry out of the log, and with it the entries of
\* the second that follows: the rest of its tick, and some of the next one.
Remove(c) ==
  /\ At(c, "remove")
  /\ \E last \in Own(c)..Len(calls) :
       LET own == calls[Own(c)] IN
       /\ \A i \in Own(c)..Len(calls) :
            /\ calls[i].age = own.age => i <= last
            /\ i <= last => calls[i].age + 1 >= own.age
       /\ calls' = [i \in DOMAIN calls |->
            IF i \in Own(c)..last
            THEN [calls[i] EXCEPT !.logged = FALSE, !.by = @ \ {c}] ELSE calls[i]]
  /\ Refuse(c)
  /\ UNCHANGED <<limiter, local, sweep, counter, raced>>

-----------------------------------------------------------------------------
(* Redis fails: the memory of the process                                  *)

\* Mutant: the fixed window admits one call more.
LocalRoomOneMore(p, limit) ==
  IF limiter = "advanced" THEN Cardinality(Admitted(p)) < limit
  ELSE local[p].count <= limit \/ local[p].age >= Window

\* _check_local: a sliding window of its own, or a fixed one.
LocalRoom(p, limit) ==
  IF limiter = "advanced" THEN Cardinality(Admitted(p)) < limit
  ELSE local[p].count < limit \/ local[p].age >= Window

LocalAfter(w) ==
  IF w.count = 0 \/ w.age >= Window THEN [count |-> 1, age |-> 0] ELSE [w EXCEPT !.count = @ + 1]

\* The pipeline fails, or one of the two commands of a refusal; then its entry
\* stays in the log.
CheckLocal(c) ==
  /\ \/ Asks(c)
     \/ At(c, "remove") /\ Len(calls) < MaxCalls
  /\ LET p == ProcessOf[c] IN
     \E limit \in Limits :
       \/ /\ LocalRoom(p, limit)
          /\ calls' = Append(calls, Call(c, p, TRUE))
          /\ local' = IF limiter = "basic" THEN [local EXCEPT ![p] = LocalAfter(@)] ELSE local
          /\ Return(c)
          /\ UNCHANGED penalty
       \/ /\ ~LocalRoom(p, limit)
          /\ Refuse(c)
          /\ UNCHANGED <<calls, local>>
  /\ UNCHANGED <<limiter, sweep, counter, raced>>

\* The basic limiter takes the start of a window for its end and drops it.
WindowLeft(w) == IF w.age > 0 THEN NoWindow ELSE w

\* Mutant: every record whose ban is over is dropped.
RecordLeftUnlessBanned(record) ==
  IF record.banned /\ record.ban = 0 THEN NoRecord ELSE record

\* The advanced one drops a record whose ban is over, if it has fewer than
\* three violations.
RecordLeft(record) ==
  IF record.banned /\ record.ban = 0 /\ record.violations < 3 THEN NoRecord ELSE record

\* _cleanup_loop of both.
Sweep(p) ==
  /\ sweep[p] = 0
  /\ sweep' = [sweep EXCEPT ![p] = SweepEvery]
  /\ local' = [local EXCEPT ![p] = WindowLeft(@)]
  /\ penalty' = [penalty EXCEPT ![p] = RecordLeft(@)]
  /\ UNCHANGED <<limiter, caller, calls, counter, raced>>

-----------------------------------------------------------------------------
(* The counters, each command a step                                       *)

Missing == counter.ttl = 0
SetKey(n) == counter' = [count |-> n, ttl |-> Window]

\* INCR: a key that it makes has no time to live.
Increment ==
  counter' = [count |-> counter.count + 1, ttl |-> IF Missing THEN Forever ELSE counter.ttl]

\* A caller that acts on what it has read of the counter: GET, then one of
\* SETEX and INCR; GET and SET.
Overtaken(c) == raced \/ counter.count # caller[c].seen

\* check_rate_limit: the value decides, and whether there is one.
ReadCounter(c) ==
  /\ limiter = "counter" /\ At(c, "idle") /\ Len(calls) < MaxCalls
  /\ Missing \/ counter.count < MaxLimit
  /\ Goto(c, IF Missing THEN "set" ELSE "incr", counter.count)
  /\ UNCHANGED <<limiter, calls, local, penalty, sweep, counter, raced>>

\* Mutant: every call admitted renews the time to live.
CountCallRenews(c) ==
  /\ At(c, "set") \/ At(c, "incr")
  /\ Len(calls) < MaxCalls /\ counter.count < MaxCount
  /\ SetKey(IF At(c, "set") THEN 1 ELSE counter.count + 1)
  /\ raced' = Overtaken(c)
  /\ calls' = Append(calls, Call(c, "counter", TRUE))
  /\ Return(c)
  /\ UNCHANGED <<limiter, local, penalty, sweep>>

\* INCR of a key that has expired since makes one that never expires.
CountCall(c) ==
  /\ At(c, "set") \/ At(c, "incr")
  /\ Len(calls) < MaxCalls /\ counter.count < MaxCount
  /\ IF At(c, "set") THEN SetKey(1) ELSE Increment
  /\ raced' = Overtaken(c)
  /\ calls' = Append(calls, Call(c, "counter", TRUE))
  /\ Return(c)
  /\ UNCHANGED <<limiter, local, penalty, sweep>>

\* increment_active_downloads: INCR.  When it fails nothing is counted, and the
\* download goes on.
StartDownload(c) ==
  /\ limiter = "active" /\ At(c, "idle") /\ counter.count < MaxCount
  /\ \/ Goto(c, "expire", 0) /\ Increment /\ raced' = raced
     \/ Goto(c, "downloading", 0) /\ counter' = counter /\ raced' = TRUE
  /\ UNCHANGED <<limiter, calls, local, penalty, sweep>>

\* EXPIRE, of a key that is still there.  When it fails the key keeps the time to
\* live it has, or none.
ExpireActive(c) ==
  /\ At(c, "expire")
  /\ Goto(c, "downloading", 0)
  /\ counter' \in {counter, IF Missing THEN counter ELSE [counter EXCEPT !.ttl = Window]}
  /\ UNCHANGED <<limiter, calls, local, penalty, sweep, raced>>

\* decrement_active_downloads: GET, a missing key counting as one.
ReadActive(c) ==
  /\ At(c, "downloading")
  /\ Goto(c, "write", IF Missing THEN 1 ELSE counter.count)
  /\ UNCHANGED <<limiter, calls, local, penalty, sweep, counter, raced>>

\* SET, never below 0.
WriteActive(c) ==
  /\ At(c, "write")
  /\ SetKey(IF caller[c].seen = 0 THEN 0 ELSE caller[c].seen - 1)
  /\ raced' = Overtaken(c)
  /\ Return(c)
  /\ UNCHANGED <<limiter, calls, local, penalty, sweep>>

\* A cancelled download does not count itself down, nor one that finds Redis
\* failing; at a counter's limit nothing happens at all.
LeaveActive(c) ==
  /\ At(c, "expire") \/ At(c, "downloading") \/ At(c, "write")
  /\ Return(c)
  /\ raced' = TRUE
  /\ UNCHANGED <<limiter, calls, local, penalty, sweep, counter>>

-----------------------------------------------------------------------------
Down(n) == IF n = 0 THEN 0 ELSE n - 1

\* Nobody waits a window for the second command of a refusal.  A counter that
\* expires under a download is wrong from then on.
Tick ==
  /\ \A p \in Processes : sweep[p] > 0
  /\ \A c \in Callers : At(c, "remove") => calls[Own(c)].age + 1 < Window
  /\ calls' = LET old == Cardinality({i \in DOMAIN calls : calls[i].age + 1 >= Window}) IN
       [i \in 1..Len(calls) - old |-> [calls[old + i] EXCEPT !.age = @ + 1]]
  /\ local' = [p \in Processes |->
       IF local[p].count = 0 \/ local[p].age = Window THEN local[p]
       ELSE [local[p] EXCEPT !.age = @ + 1]]
  /\ penalty' = [p \in Processes |->
       IF penalty[p].violations = 0 THEN NoRecord
       ELSE [penalty[p] EXCEPT !.ban = Down(@), !.age = IF @ > Forget THEN @ ELSE @ + 1]]
  /\ sweep' = IF limiter \in {"advanced", "basic"} THEN [p \in Processes |-> sweep[p] - 1] ELSE sweep
  /\ counter' = CASE counter.ttl = Forever -> counter
                  [] counter.ttl \in {0, 1} -> NoKey
                  [] OTHER -> [counter EXCEPT !.ttl = @ - 1]
  /\ raced' = (raced \/ (counter.ttl = 1 /\ \E c \in Callers : caller[c].pc \in InDownload))
  /\ UNCHANGED <<limiter, caller>>

Step(c) ==
  \/ Check(c) \/ Remove(c) \/ CheckLocal(c)
  \/ ReadCounter(c) \/ CountCall(c)
  \/ StartDownload(c) \/ ExpireActive(c) \/ ReadActive(c) \/ WriteActive(c) \/ LeaveActive(c)

Next == (\E c \in Callers : Step(c)) \/ (\E p \in Processes : Sweep(p)) \/ Tick

\* Callers keep calling, time passes.
Fairness ==
  /\ \A c \in Callers : WF_vars(Step(c))
  /\ \A p \in Processes : WF_vars(Sweep(p))
  /\ WF_vars(Tick)

Spec == Init /\ [][Next]_vars /\ Fairness

-----------------------------------------------------------------------------
(* The calls and the log are those of one window, the counters are within  *)
(* their bounds, and only a process with a record of three violations bans.*)
TypeOK ==
  /\ limiter \in Limiters
  /\ caller \in [Callers -> [pc : {"idle", "remove", "set", "incr"} \cup InDownload,
                             seen : 0..MaxCount]]
  /\ calls \in Seq(Calls) /\ Len(calls) <= MaxCalls
  /\ local \in [Processes -> [count : 0..MaxLimit, age : 0..Window]]
  /\ penalty \in [Processes -> [violations : 0..5, age : 0..Forget + 1, banned : BOOLEAN,
                                ban : 0..LongBan]]
  /\ \A p \in Processes : penalty[p].banned <=> penalty[p].violations >= 3
  /\ sweep \in [Processes -> 0..SweepEvery]
  /\ counter \in [count : 0..MaxCount, ttl : 0..Forever]
  /\ raced \in BOOLEAN

(* Over every stretch of a window Redis admits no more calls than the      *)
(* largest limit, whatever the interleaving of the pipelines and of the    *)
(* removals, unless a removal took the entry of an admitted call with it;  *)
(* and the memory of a process of the advanced limiter admits no more.     *)
WindowRespected ==
  /\ (\A i \in DOMAIN calls : calls[i].admitted /\ calls[i].via = "redis" => calls[i].logged)
       => Cardinality(Admitted("redis")) <= MaxLimit
  /\ limiter = "advanced" => \A p \in Processes : Cardinality(Admitted(p)) <= MaxLimit

(* The removal of refused calls never blocks a key for good: if callers go *)
(* on calling the sliding limiters, calls are admitted again and again,    *)
(* through bans, refusals left in the log and failures of Redis.           *)
Readmitted ==
  limiter \in {"advanced", "basic"} =>
    []<>(\E i \in DOMAIN calls : calls[i].admitted /\ calls[i].age = 0)

(* Violations are forgotten by a violation much later, never by the sweep  *)
(* or by the end of a ban: the fifth one in a row means a long ban.        *)
PenaltiesKept ==
  [][\A p \in Processes :
       penalty'[p].violations < penalty[p].violations => penalty[p].age > Forget]_vars

(* As long as no caller has acted on a counter that had changed since it   *)
(* read it, no INCR or count down was lost and no running download saw the *)
(* key expire (that is raced), the counter of check_rate_limit expires and *)
(* is the number of calls admitted since it was set, and stats:dl:active   *)
(* is the number of downloads running.  A failed EXPIRE can leave the      *)
(* latter, not the former, without a time to live.                         *)
CountersExact ==
  ~raced =>
    /\ limiter = "counter" =>
         /\ counter.ttl # Forever
         /\ counter.count <= MaxLimit
         /\ ~Missing => counter.count = Cardinality(
              {i \in DOMAIN calls : calls[i].via = "counter" /\ calls[i].age <= Window - counter.ttl})
    /\ limiter = "active" => counter.count = Cardinality({c \in Callers : ~At(c, "idle")})
=============================================================================
