--------------------------- MODULE BroadcastProofs ---------------------------
(* What the rows, the buffers and the counters of a broadcast guarantee, for   *)
(* any number of bots, recipients and jobs, any flush size and any retries.    *)
EXTENDS Broadcast, FiniteSetTheorems, SequenceTheorems, TLAPS

-----------------------------------------------------------------------------
(* Types *)

\* A job sends only while somebody is left to send to.  Needed for the type of a
\* delivery, whose recipient is chosen from those left.
SendsToSomeone == \A j \in Jobs : At(j, "send") => job[j].todo # {}

TypeInv == TypeOK /\ SendsToSomeone

\* What every step of a job leaves behind.
Sound(run) == run \in Run /\ (run.pc = "send" => run.todo # {})

LEMMA FiniteRecipients ==
  ASSUME NEW S \in SUBSET Recipients
  PROVE  IsFiniteSet(S) /\ Cardinality(S) \in Nat
<1>1. IsFiniteSet(Recipients)
  BY BroadcastAssumption, FS_Product DEF Recipients
<1> QED BY <1>1, FS_Subset, FS_CardinalityType

\* One job goes on, and the others do not move.
Moves(j) ==
  /\ job' \in [Jobs -> Run]
  /\ SendsToSomeone'
  /\ \A k \in Jobs : k # j => job'[k] = job[k]

LEMMA OneRunChanges ==
  ASSUME TypeInv, NEW j \in Jobs, NEW run, Sound(run), Becomes(j, run)
  PROVE  Moves(j) /\ job'[j] = run
BY DEF TypeInv, TypeOK, Becomes, Sound, SendsToSomeone, At, Moves

LEMMA NewRunSound ==
  ASSUME NEW pc \in Points \ {"send"}, NEW tries \in 0..MaxTries
  PROVE  Sound(NewRun(pc, tries))
BY BroadcastAssumption DEF NewRun, Run, Sound

\* Only the program counter changes.
LEMMA GotoStep ==
  ASSUME TypeInv, NEW j \in Jobs, NEW pc \in Points, pc = "send" => job[j].todo # {},
         Goto(j, pc)
  PROVE  /\ Moves(j)
         /\ job'[j].pc = pc
         /\ job'[j].tries = job[j].tries /\ job'[j].total = job[j].total
         /\ job'[j].rest = job[j].rest /\ job'[j].todo = job[j].todo
         /\ job'[j].buffer = job[j].buffer
         /\ job'[j].sent = job[j].sent /\ job'[j].failed = job[j].failed
<1>1. job[j] \in Run
  BY DEF TypeInv, TypeOK
<1> DEFINE run == [job[j] EXCEPT !.pc = pc]
<1>2. /\ Sound(run)
      /\ run.pc = pc
      /\ run.tries = job[j].tries /\ run.total = job[j].total
      /\ run.rest = job[j].rest /\ run.todo = job[j].todo /\ run.buffer = job[j].buffer
      /\ run.sent = job[j].sent /\ run.failed = job[j].failed
  BY <1>1 DEF Run, Sound
<1>3. Becomes(j, run)
  BY DEF Goto
<1> HIDE DEF run
<1> QED BY <1>2, <1>3, OneRunChanges

\* A run that starts over, or is never started again, has nothing on record.
LEMMA NewRunStep ==
  ASSUME TypeInv, NEW j \in Jobs, NEW pc \in Points \ {"send"}, NEW tries \in 0..MaxTries,
         Becomes(j, NewRun(pc, tries))
  PROVE  /\ Moves(j)
         /\ job'[j].pc = pc /\ job'[j].tries = tries
         /\ job'[j].rest = {} /\ job'[j].todo = {} /\ job'[j].buffer = <<>>
         /\ job'[j].sent = 0 /\ job'[j].failed = 0 /\ job'[j].total = 0
BY OneRunChanges, NewRunSound DEF NewRun

\* The recipients are loaded.
LEMMA LoadStep ==
  ASSUME TypeInv, NEW j \in Jobs, Loaded(j)
  PROVE  /\ Moves(j)
         /\ job'[j].pc = "bot" /\ job'[j].tries = job[j].tries
         /\ job'[j].todo = {} /\ job'[j].buffer = <<>>
         /\ job'[j].total = Cardinality(job'[j].rest)
         /\ job'[j].sent = 0 /\ job'[j].failed = 0
<1>1. PICK rs \in SUBSET Recipients :
        Becomes(j, [NewRun("bot", job[j].tries) EXCEPT !.rest = rs, !.total = Cardinality(rs)])
  BY DEF Loaded
<1> DEFINE run1 == [NewRun("bot", job[j].tries) EXCEPT !.rest = rs]
           run == [run1 EXCEPT !.total = Cardinality(rs)]
<1>2. Becomes(j, run)
  BY <1>1
<1>3. job[j].tries \in 0..MaxTries /\ Cardinality(rs) \in Nat
  BY FiniteRecipients DEF TypeInv, TypeOK, Run
<1>4. NewRun("bot", job[j].tries) \in Run
  BY <1>3, NewRunSound DEF Sound, Points
<1>5. /\ run1 \in Run
      /\ run1.pc = "bot" /\ run1.tries = job[j].tries /\ run1.rest = rs /\ run1.todo = {}
      /\ run1.buffer = <<>> /\ run1.sent = 0 /\ run1.failed = 0
  BY <1>4 DEF NewRun, Run
<1> HIDE DEF run1
<1>6. /\ run \in Run
      /\ run.pc = "bot" /\ run.tries = job[j].tries /\ run.rest = rs /\ run.todo = {}
      /\ run.buffer = <<>> /\ run.total = Cardinality(rs) /\ run.sent = 0 /\ run.failed = 0
  BY <1>3, <1>5 DEF Run
<1> HIDE DEF run
<1>7. Moves(j) /\ job'[j] = run
  BY <1>2, <1>6, OneRunChanges DEF Sound
<1> QED BY <1>6, <1>7

\* The loop turns to the recipients of a bot, or counts all of them as failed.
LEMMA BotStep ==
  ASSUME TypeInv, NEW j \in Jobs, BotFound(j) \/ BotMissing(j)
  PROVE  \E mine \in SUBSET job[j].rest :
           /\ mine # {}
           /\ Moves(j)
           /\ job'[j].tries = job[j].tries /\ job'[j].total = job[j].total
           /\ job'[j].rest = job[j].rest \ mine
           /\ job'[j].buffer = job[j].buffer /\ job'[j].sent = job[j].sent
           /\ \/ /\ BotFound(j) /\ job'[j].pc = "send"
                 /\ job'[j].todo = mine /\ job'[j].failed = job[j].failed
              \/ /\ BotMissing(j) /\ job'[j].pc = "bot"
                 /\ job'[j].todo = job[j].todo
                 /\ job'[j].failed = job[j].failed + Cardinality(mine)
<1>1. job[j] \in Run
  BY DEF TypeInv, TypeOK
<1>2. CASE BotFound(j)
  <2>1. PICK mine \in SUBSET job[j].rest :
          /\ mine # {}
          /\ Becomes(j, [job[j] EXCEPT !.pc = "send", !.todo = mine, !.rest = @ \ mine,
                                       !.attempt = 0])
    BY <1>2 DEF BotFound
  <2> DEFINE r1 == [job[j] EXCEPT !.pc = "send"]
             r2 == [r1 EXCEPT !.todo = mine]
             r3 == [r2 EXCEPT !.rest = @ \ mine]
             r4 == [r3 EXCEPT !.attempt = 0]
             Same(run) == /\ run.tries = job[j].tries /\ run.total = job[j].total
                          /\ run.buffer = job[j].buffer
                          /\ run.sent = job[j].sent /\ run.failed = job[j].failed
  <2>2. Becomes(j, r4)
    BY <2>1
  <2>3. r1 \in Run /\ r1.pc = "send" /\ r1.rest = job[j].rest /\ Same(r1)
    BY <1>1 DEF Run, Points
  <2> HIDE DEF r1
  <2>4. r2 \in Run /\ r2.pc = "send" /\ r2.rest = job[j].rest /\ r2.todo = mine /\ Same(r2)
    BY <1>1, <2>3 DEF Run
  <2> HIDE DEF r2
  <2>5. r3 \in Run /\ r3.pc = "send" /\ r3.rest = job[j].rest \ mine /\ r3.todo = mine /\ Same(r3)
    BY <2>4 DEF Run
  <2> HIDE DEF r3
  <2>6. r4 \in Run /\ r4.pc = "send" /\ r4.rest = job[j].rest \ mine /\ r4.todo = mine /\ Same(r4)
    <3>0. 0 \in 0..MaxRetries
      BY BroadcastAssumption
    <3>1. r4 \in Run
      BY <2>5, <3>0 DEF Run
    <3> QED BY <2>5, <3>1 DEF Run
  <2> HIDE DEF r4
  <2>7. Moves(j) /\ job'[j] = r4
    BY <2>1, <2>2, <2>6, OneRunChanges DEF Sound
  <2> QED BY <1>2, <2>1, <2>6, <2>7
<1>3. CASE BotMissing(j)
  <2>1. PICK mine \in SUBSET job[j].rest :
          /\ mine # {}
          /\ Becomes(j, [job[j] EXCEPT !.rest = @ \ mine, !.failed = @ + Cardinality(mine)])
    BY <1>3 DEF BotMissing
  <2>2. Cardinality(mine) \in Nat
    BY <1>1, FiniteRecipients DEF Run
  <2> DEFINE r1 == [job[j] EXCEPT !.rest = @ \ mine]
             r2 == [r1 EXCEPT !.failed = @ + Cardinality(mine)]
             Same(run) == /\ run.pc = job[j].pc
                          /\ run.tries = job[j].tries /\ run.total = job[j].total
                          /\ run.buffer = job[j].buffer /\ run.todo = job[j].todo
                          /\ run.sent = job[j].sent
  <2>3. Becomes(j, r2)
    BY <2>1
  <2>4. r1 \in Run /\ r1.rest = job[j].rest \ mine /\ r1.failed = job[j].failed /\ Same(r1)
    BY <1>1 DEF Run
  <2> HIDE DEF r1
  <2>5. /\ r2 \in Run /\ r2.rest = job[j].rest \ mine
        /\ r2.failed = job[j].failed + Cardinality(mine) /\ Same(r2)
    <3>1. r2 \in Run
      BY <2>2, <2>4, SMTT(30) DEF Run
    <3> QED BY <2>4, <3>1 DEF Run
  <2> HIDE DEF r2
  <2>6. job[j].pc = "bot"
    BY <1>3 DEF BotMissing, At
  <2>7. Moves(j) /\ job'[j] = r2
    BY <2>3, <2>5, <2>6, OneRunChanges DEF Sound
  <2> QED BY <1>3, <2>1, <2>5, <2>6, <2>7
<1> QED BY <1>2, <1>3

\* A flood below the limit only counts the attempt.
LEMMA FloodStep ==
  ASSUME TypeInv, NEW j \in Jobs, At(j, "send"), job[j].attempt < MaxRetries,
         Becomes(j, [job[j] EXCEPT !.attempt = @ + 1])
  PROVE  /\ Moves(j)
         /\ job'[j].pc = "send"
         /\ job'[j].tries = job[j].tries /\ job'[j].total = job[j].total
         /\ job'[j].rest = job[j].rest /\ job'[j].todo = job[j].todo
         /\ job'[j].buffer = job[j].buffer
         /\ job'[j].sent = job[j].sent /\ job'[j].failed = job[j].failed
<1>1. job[j] \in Run /\ job[j].pc = "send" /\ job[j].todo # {}
  BY DEF TypeInv, TypeOK, SendsToSomeone, At
<1> DEFINE run == [job[j] EXCEPT !.attempt = @ + 1]
<1>2. /\ Sound(run)
      /\ run.pc = "send"
      /\ run.tries = job[j].tries /\ run.total = job[j].total
      /\ run.rest = job[j].rest /\ run.todo = job[j].todo /\ run.buffer = job[j].buffer
      /\ run.sent = job[j].sent /\ run.failed = job[j].failed
  <2>0. job[j].attempt + 1 \in 0..MaxRetries
    BY <1>1, BroadcastAssumption DEF Run
  <2>1. run \in Run
    BY <1>1, <2>0 DEF Run
  <2> QED BY <1>1, <2>1 DEF Run, Sound
<1>3. Becomes(j, run)
  OBVIOUS
<1> HIDE DEF run
<1> QED BY <1>2, <1>3, OneRunChanges

\* Where a run goes after a recipient, a flush and the statistics.
LEMMA AfterIsSound ==
  ASSUME NEW run
  PROVE  /\ AfterStats(run) \in {"bot", "send"}
         /\ AfterFlush(run) \in {"stats", "bot", "send"}
         /\ AfterSend(run) \in {"flush", "stats", "bot", "send"}
         /\ "send" \in {AfterStats(run), AfterFlush(run), AfterSend(run)} => run.todo # {}
         /\ "bot" \in {AfterStats(run), AfterFlush(run), AfterSend(run)} => run.todo = {}
BY DEF AfterStats, AfterFlush, AfterSend

\* What dealing with a recipient makes of the run.
LEMMA DealtStep ==
  ASSUME TypeInv, NEW j \in Jobs, At(j, "send"), NEW count \in {"sent", "failed"}, NEW id \in Nat,
         Dealt(j, count, id)
  PROVE  /\ To(j) \in job[j].todo /\ To(j) \in Recipients
         /\ [to |-> To(j), id |-> id, is_sent |-> count = "sent"] \in Delivery
         /\ Moves(j)
         /\ job'[j].pc \in {"flush", "stats", "bot", "send"}
         /\ job'[j].pc = "bot" => job'[j].todo = {}
         /\ job'[j].tries = job[j].tries /\ job'[j].total = job[j].total
         /\ job'[j].rest = job[j].rest /\ job'[j].todo = job[j].todo \ {To(j)}
         /\ job'[j].buffer = Append(job[j].buffer,
                               [to |-> To(j), id |-> id, is_sent |-> count = "sent"])
         /\ job'[j].sent = IF count = "sent" THEN job[j].sent + 1 ELSE job[j].sent
         /\ job'[j].failed = IF count = "sent" THEN job[j].failed ELSE job[j].failed + 1
<1>1. job[j] \in Run /\ job[j].todo # {}
  BY DEF TypeInv, TypeOK, SendsToSomeone
<1>2. To(j) \in job[j].todo /\ To(j) \in Recipients
  BY <1>1 DEF To, Run
<1> DEFINE d == [to |-> To(j), id |-> id, is_sent |-> count = "sent"]
<1>3. d \in Delivery
  BY <1>2 DEF Delivery
<1> HIDE DEF d
<1>4. Append(job[j].buffer, d) \in Seq(Delivery)
  BY <1>1, <1>3 DEF Run
<1> DEFINE run == [job[j] EXCEPT
                     !.todo = @ \ {To(j)}, !.attempt = 0, !.processed = @ + 1,
                     !.buffer = Append(@, d),
                     !.sent = IF count = "sent" THEN @ + 1 ELSE @,
                     !.failed = IF count = "sent" THEN @ ELSE @ + 1]
           pc == AfterSend(run)
           last == [run EXCEPT !.pc = pc]
<1>5. /\ run.tries = job[j].tries /\ run.total = job[j].total
      /\ run.rest = job[j].rest /\ run.todo = job[j].todo \ {To(j)}
      /\ run.buffer = Append(job[j].buffer, d)
      /\ run.sent = IF count = "sent" THEN job[j].sent + 1 ELSE job[j].sent
      /\ run.failed = IF count = "sent" THEN job[j].failed ELSE job[j].failed + 1
  BY <1>1 DEF Run
<1>a. run \in Run
  <2> DEFINE r1 == [job[j] EXCEPT !.todo = @ \ {To(j)}]
             r2 == [r1 EXCEPT !.attempt = 0]
             r3 == [r2 EXCEPT !.processed = @ + 1]
             r4 == [r3 EXCEPT !.buffer = Append(@, d)]
             r5 == [r4 EXCEPT !.sent = IF count = "sent" THEN @ + 1 ELSE @]
             r6 == [r5 EXCEPT !.failed = IF count = "sent" THEN @ ELSE @ + 1]
  <2>0. run = r6
    OBVIOUS
  <2> HIDE DEF run
  <2>1. r1 \in Run /\ r1.buffer = job[j].buffer
    BY <1>1 DEF Run
  <2> HIDE DEF r1
  <2>2. r2 \in Run /\ r2.buffer = job[j].buffer
    BY <2>1, BroadcastAssumption, SMTT(30) DEF Run
  <2> HIDE DEF r2
  <2>3. r3 \in Run /\ r3.buffer = job[j].buffer
    BY <2>2 DEF Run
  <2> HIDE DEF r3
  <2>4. r4 \in Run
    BY <1>4, <2>3 DEF Run
  <2> HIDE DEF r4
  <2>5. r5 \in Run
    BY <2>4 DEF Run
  <2> HIDE DEF r5
  <2>6. r6 \in Run
    BY <2>5, SMTT(30) DEF Run
  <2> QED BY <2>0, <2>6
<1>6. Becomes(j, last)
  BY DEF Dealt, d
<1> HIDE DEF run
<1>7. /\ pc \in {"flush", "stats", "bot", "send"}
      /\ pc = "send" => run.todo # {}
      /\ pc = "bot" => run.todo = {}
  BY AfterIsSound
<1> HIDE DEF pc
<1>8. /\ last \in Run /\ last.pc = pc
      /\ last.tries = run.tries /\ last.total = run.total
      /\ last.rest = run.rest /\ last.todo = run.todo /\ last.buffer = run.buffer
      /\ last.sent = run.sent /\ last.failed = run.failed
  BY <1>5, <1>7, <1>a DEF Run, Points
<1> HIDE DEF last
<1>9. Sound(last)
  BY <1>7, <1>8 DEF Sound
<1>10. Moves(j) /\ job'[j] = last
  BY <1>6, <1>9, OneRunChanges
<1> QED BY <1>2, <1>3, <1>5, <1>7, <1>8, <1>10 DEF d

\* A flush empties the buffer, whatever became of its rows.
LEMMA FlushStep ==
  ASSUME TypeInv, NEW j \in Jobs, Flushed(j) \/ LastFlushed(j)
  PROVE  /\ Moves(j)
         /\ \/ Flushed(j) /\ job'[j].pc = AfterFlush(job[j])
            \/ LastFlushed(j) /\ job'[j].pc = "complete"
         /\ job'[j].tries = job[j].tries /\ job'[j].total = job[j].total
         /\ job'[j].rest = job[j].rest /\ job'[j].todo = job[j].todo
         /\ job'[j].buffer = <<>>
         /\ job'[j].sent = job[j].sent /\ job'[j].failed = job[j].failed
<1>1. job[j] \in Run
  BY DEF TypeInv, TypeOK
<1>2. PICK pc \in Points :
        /\ Becomes(j, [job[j] EXCEPT !.pc = pc, !.buffer = <<>>])
        /\ pc = "send" => job[j].todo # {}
        /\ \/ Flushed(j) /\ pc = AfterFlush(job[j])
           \/ LastFlushed(j) /\ pc = "complete"
  BY AfterIsSound DEF Flushed, LastFlushed, Points
<1> DEFINE r1 == [job[j] EXCEPT !.pc = pc]
           r2 == [r1 EXCEPT !.buffer = <<>>]
           Same(run) == /\ run.tries = job[j].tries /\ run.total = job[j].total
                        /\ run.rest = job[j].rest /\ run.todo = job[j].todo
                        /\ run.sent = job[j].sent /\ run.failed = job[j].failed
<1>3. Becomes(j, r2)
  BY <1>2
<1>4. r1 \in Run /\ r1.pc = pc /\ Same(r1)
  BY <1>1 DEF Run
<1> HIDE DEF r1
<1>5. r2 \in Run /\ r2.pc = pc /\ r2.buffer = <<>> /\ Same(r2)
  <2>1. <<>> \in Seq(Delivery)
    OBVIOUS
  <2>2. r2 \in Run
    BY <1>4, <2>1 DEF Run
  <2> QED BY <1>4, <2>2 DEF Run
<1> HIDE DEF r2
<1>6. Moves(j) /\ job'[j] = r2
  BY <1>2, <1>3, <1>5, OneRunChanges DEF Sound
<1> QED BY <1>2, <1>5, <1>6

\* A transaction raises: the run has loaded nothing yet, or keeps what it has.
LEMMA RaiseStep ==
  ASSUME TypeInv, NEW j \in Jobs, Raises(j)
  PROVE  /\ Moves(j)
         /\ job'[j].pc = "crashed"
         /\ job'[j].tries = job[j].tries
         /\ \/ /\ job'[j].rest = {} /\ job'[j].todo = {} /\ job'[j].buffer = <<>>
               /\ job'[j].sent = 0 /\ job'[j].failed = 0
            \/ /\ job'[j].rest = job[j].rest /\ job'[j].todo = job[j].todo
               /\ job'[j].buffer = job[j].buffer /\ job'[j].total = job[j].total
               /\ job'[j].sent = job[j].sent /\ job'[j].failed = job[j].failed
<1>1. CASE At(j, "queued")
  <2>1. IsFiniteSet(Recipients \ blocked) /\ Cardinality(Recipients \ blocked) \in Nat
    BY FiniteRecipients
  <2>2. PICK n \in Nat :
          Becomes(j, [NewRun("crashed", job[j].tries) EXCEPT !.total = n])
    BY <1>1, <2>1 DEF Raises
  <2>3. job[j].tries \in 0..MaxTries
    BY DEF TypeInv, TypeOK, Run
  <2>4. NewRun("crashed", job[j].tries) \in Run
    BY <2>3, NewRunSound DEF Sound, Points
  <2> DEFINE run == [NewRun("crashed", job[j].tries) EXCEPT !.total = n]
  <2>5. /\ run \in Run
        /\ run.pc = "crashed" /\ run.tries = job[j].tries /\ run.rest = {} /\ run.todo = {}
        /\ run.buffer = <<>> /\ run.sent = 0 /\ run.failed = 0
    BY <2>4 DEF NewRun, Run
  <2> HIDE DEF run
  <2>6. Becomes(j, run)
    BY <2>2 DEF run
  <2>7. Moves(j) /\ job'[j] = run
    BY <2>5, <2>6, OneRunChanges DEF Sound
  <2> QED BY <2>5, <2>7
<1>2. CASE ~At(j, "queued")
  <2>1. Goto(j, "crashed") /\ "crashed" \in Points
    BY <1>2 DEF Raises, Points
  <2> QED BY <2>1, GotoStep
<1> QED BY <1>1, <1>2

\* Every step of a job moves that job alone.
LEMMA JobMoves ==
  ASSUME TypeInv, NEW j \in Jobs, SendAd(j) \/ Proceed(j) \/ Killed(j) \/ TimedOut(j)
  PROVE  Moves(j)
<1>1. CASE \/ SendAd(j) \/ EnqueueFails(j) \/ LoadMissing(j) \/ LoadedNobody(j) \/ AllBotsDone(j)
           \/ StatsWritten(j) \/ Completed(j) \/ CrashReported(j) \/ TimedOut(j)
  <2>1. PICK pc \in Points : Goto(j, pc) /\ (pc = "send" => job[j].todo # {})
    BY <1>1, AfterIsSound DEF SendAd, EnqueueFails, LoadMissing, LoadedNobody, AllBotsDone,
         StatsWritten, Completed, CrashReported, TimedOut, Points
  <2> QED BY <2>1, GotoStep
<1>2. CASE Enqueued(j) \/ Killed(j)
  <2>1. \E pc \in Points \ {"send"}, tries \in 0..MaxTries : Becomes(j, NewRun(pc, tries))
    <3>1. job[j].tries \in 0..MaxTries
      BY DEF TypeInv, TypeOK, Run
    <3> QED BY <1>2, <3>1, BroadcastAssumption DEF Enqueued, Killed, Points
  <2> QED BY <2>1, NewRunStep
<1>3. CASE Loaded(j)
  BY <1>3, LoadStep
<1>4. CASE BotFound(j) \/ BotMissing(j)
  BY <1>4, BotStep
<1>5. CASE Flooded(j) /\ job[j].attempt < MaxRetries
  BY <1>5, FloodStep DEF Flooded
<1>6. CASE \/ Sent(j) \/ SilentlyNotSent(j) \/ Forbidden(j) \/ SendRaises(j)
           \/ (Flooded(j) /\ ~(job[j].attempt < MaxRetries))
  <2>1. At(j, "send")
    BY <1>6 DEF Sent, SilentlyNotSent, Forbidden, SendRaises, Flooded
  <2>2. To(j) \in Recipients
    BY <2>1 DEF TypeInv, TypeOK, SendsToSomeone, To, Run
  <2>3. arrived[To(j)] + 1 \in Nat
    BY <2>2 DEF TypeInv, TypeOK
  <2>4. \E count \in {"sent", "failed"}, id \in Nat : Dealt(j, count, id)
    BY <1>6, <2>3 DEF Sent, SilentlyNotSent, Forbidden, SendRaises, Flooded, NoId
  <2> QED BY <2>1, <2>4, DealtStep
<1>7. CASE Flushed(j) \/ LastFlushed(j)
  BY <1>7, FlushStep
<1>8. CASE Raises(j)
  BY <1>8, RaiseStep
<1> QED BY <1>1, <1>2, <1>3, <1>4, <1>5, <1>6, <1>7, <1>8 DEF Proceed

-----------------------------------------------------------------------------
(* The counters of a run *)

Left(run) == Cardinality(run.rest) + Cardinality(run.todo)

\* A run accounts for each of its recipients once: as sent to, as failed, or as left.
\* Needed for the report of a crash, total - sent, and for that of a completion.
Balanced(run) ==
  /\ run.sent + run.failed + Left(run) <= run.total
  /\ run.pc \in {"bot", "send", "flush", "stats", "last_flush", "complete"} =>
       run.sent + run.failed + Left(run) = run.total
  /\ run.pc \in {"bot", "last_flush", "complete"} => run.todo = {}
  /\ run.pc \in {"last_flush", "complete"} => run.rest = {}

AllBalanced == \A j \in Jobs : Balanced(job[j])

\* A run that is at the same counts stays balanced.
LEMMA SameCounts ==
  ASSUME NEW run, NEW next, Balanced(run),
         next.sent = run.sent, next.failed = run.failed, next.total = run.total,
         next.rest = run.rest, next.todo = run.todo,
         next.pc \in {"bot", "send", "flush", "stats", "last_flush", "complete"} =>
           run.pc \in {"bot", "send", "flush", "stats", "last_flush", "complete"},
         next.pc \in {"bot", "last_flush", "complete"} => run.todo = {},
         next.pc \in {"last_flush", "complete"} => run.rest = {}
  PROVE  Balanced(next)
BY DEF Balanced, Left

LEMMA BalancedIf ==
  ASSUME NEW run, NEW left \in Nat, run.sent \in Nat, run.failed \in Nat, run.total \in Nat,
         Left(run) = left, run.sent + run.failed + left = run.total,
         run.pc \in {"bot", "last_flush", "complete"} => run.todo = {},
         run.pc \in {"last_flush", "complete"} => run.rest = {}
  PROVE  Balanced(run)
BY DEF Balanced

\* A finite set is a part of it and the rest.
LEMMA SplitOff ==
  ASSUME NEW S, IsFiniteSet(S), NEW T \in SUBSET S
  PROVE  /\ Cardinality(T) \in Nat /\ Cardinality(S \ T) \in Nat
         /\ Cardinality(S) = Cardinality(T) + Cardinality(S \ T)
<1>1. IsFiniteSet(T) /\ IsFiniteSet(S \ T)
  BY FS_Subset
<1>2. Cardinality(T) \in Nat /\ Cardinality(S \ T) \in Nat
  BY <1>1, FS_CardinalityType
<1>3. Cardinality(T \cup (S \ T)) = Cardinality(T) + Cardinality(S \ T) - Cardinality(T \cap (S \ T))
  BY <1>1, FS_Union
<1>4. T \cup (S \ T) = S /\ T \cap (S \ T) = {}
  OBVIOUS
<1>5. Cardinality(S) = Cardinality(T) + Cardinality(S \ T) - Cardinality({})
  BY <1>3, <1>4
<1> QED BY <1>2, <1>5, FS_EmptySet

\* Every step of a job keeps its run balanced.
LEMMA BalancedKept ==
  ASSUME TypeInv, AllBalanced, NEW j \in Jobs,
         SendAd(j) \/ Proceed(j) \/ Killed(j) \/ TimedOut(j)
  PROVE  AllBalanced'
<1> SUFFICES Balanced(job'[j])
  BY JobMoves DEF AllBalanced, Moves
<1>1. /\ job[j] \in Run /\ Balanced(job[j])
      /\ IsFiniteSet(job[j].rest) /\ IsFiniteSet(job[j].todo)
      /\ Cardinality(job[j].rest) \in Nat /\ Cardinality(job[j].todo) \in Nat
      /\ job[j].sent \in Nat /\ job[j].failed \in Nat /\ job[j].total \in Nat
  <2>1. job[j] \in Run /\ Balanced(job[j])
    BY DEF TypeInv, TypeOK, AllBalanced
  <2> QED BY <2>1, FiniteRecipients DEF Run
<1>2. Cardinality({}) = 0
  BY FS_EmptySet
<1>3. CASE SendAd(j) \/ EnqueueFails(j) \/ LoadMissing(j) \/ LoadedNobody(j) \/ Completed(j)
           \/ CrashReported(j) \/ TimedOut(j)
  <2>1. \E pc \in {"enqueue", "over"} : Goto(j, pc)
    BY <1>3 DEF SendAd, EnqueueFails, LoadMissing, LoadedNobody, Completed, CrashReported,
         TimedOut
  <2>2. PICK pc \in {"enqueue", "over"} : Goto(j, pc)
    BY <2>1
  <2>3. pc \in Points
    BY DEF Points
  <2> QED BY <1>1, <2>2, <2>3, GotoStep, SameCounts
<1>4. CASE AllBotsDone(j)
  <2>1. Goto(j, "last_flush") /\ job[j].rest = {} /\ job[j].pc = "bot"
    BY <1>4 DEF AllBotsDone, At
  <2>2. "last_flush" \in Points
    BY DEF Points
  <2> QED BY <1>1, <2>1, <2>2, GotoStep, SameCounts DEF Balanced
<1>5. CASE StatsWritten(j)
  <2> DEFINE pc == AfterStats(job[j])
  <2>1. Goto(j, pc) /\ job[j].pc = "stats"
    BY <1>5 DEF StatsWritten, At
  <2>2. /\ pc \in Points /\ pc \in {"bot", "send"}
        /\ (pc = "send" => job[j].todo # {}) /\ (pc = "bot" => job[j].todo = {})
    BY AfterIsSound DEF Points
  <2> HIDE DEF pc
  <2> QED BY <1>1, <2>1, <2>2, GotoStep, SameCounts
<1>6. CASE Enqueued(j) \/ Killed(j)
  <2>1. \E pc \in {"queued", "over"}, tries \in 0..MaxTries : Becomes(j, NewRun(pc, tries))
    BY <1>1, <1>6, BroadcastAssumption DEF Enqueued, Killed, Run
  <2>2. PICK pc \in {"queued", "over"}, tries \in 0..MaxTries : Becomes(j, NewRun(pc, tries))
    BY <2>1
  <2>3. pc \in Points \ {"send"}
    BY DEF Points
  <2>4. /\ job'[j].pc = pc /\ job'[j].rest = {} /\ job'[j].todo = {}
        /\ job'[j].sent = 0 /\ job'[j].failed = 0 /\ job'[j].total = 0
    BY <2>2, <2>3, NewRunStep
  <2> QED BY <1>2, <2>4 DEF Balanced, Left
<1>7. CASE Loaded(j)
  <2>1. job'[j].total = Cardinality(job'[j].rest) /\ job'[j].rest \in SUBSET Recipients
    BY <1>7, LoadStep DEF Moves, Run
  <2>2. Cardinality(job'[j].rest) \in Nat
    BY <2>1, FiniteRecipients
  <2> DEFINE n == Cardinality(job'[j].rest)
  <2>3. /\ job'[j].todo = {} /\ job'[j].total = n /\ job'[j].sent = 0 /\ job'[j].failed = 0
        /\ job'[j].pc = "bot"
    BY <1>7, <2>1, LoadStep
  <2>4. Left(job'[j]) = n + 0
    BY <1>2, <2>3 DEF Left
  <2> HIDE DEF n
  <2>5. n \in Nat /\ n + 0 = n /\ 0 + 0 + n = n
    BY <2>2 DEF n
  <2>6. Left(job'[j]) = n
    BY <2>4, <2>5
  <2> QED BY <2>3, <2>5, <2>6, BalancedIf
<1>8. CASE BotFound(j) \/ BotMissing(j)
  <2>1. PICK mine \in SUBSET job[j].rest :
           /\ job'[j].total = job[j].total
           /\ job'[j].rest = job[j].rest \ mine
           /\ job'[j].sent = job[j].sent
           /\ \/ /\ BotFound(j) /\ job'[j].pc = "send"
                 /\ job'[j].todo = mine /\ job'[j].failed = job[j].failed
              \/ /\ BotMissing(j) /\ job'[j].pc = "bot"
                 /\ job'[j].todo = job[j].todo
                 /\ job'[j].failed = job[j].failed + Cardinality(mine)
    BY <1>8, BotStep
  <2>2. job[j].pc = "bot" /\ job[j].todo = {}
    BY <1>1, <1>8 DEF BotFound, BotMissing, At, Balanced
  <2>3. /\ Cardinality(mine) \in Nat /\ Cardinality(job[j].rest \ mine) \in Nat
        /\ Cardinality(job[j].rest) = Cardinality(mine) + Cardinality(job[j].rest \ mine)
    BY <1>1, SplitOff
  <2> DEFINE m == Cardinality(mine)
             n == Cardinality(job[j].rest \ mine)
  <2>4. job[j].sent + job[j].failed + (Cardinality(job[j].rest) + 0) = job[j].total
    BY <1>1, <1>2, <2>2 DEF Balanced, Left
  <2>5. \/ /\ job'[j].pc = "send" /\ job'[j].failed = job[j].failed
           /\ Left(job'[j]) = n + m
        \/ /\ job'[j].pc = "bot" /\ job'[j].todo = {} /\ job'[j].failed = job[j].failed + m
           /\ Left(job'[j]) = n + 0
    BY <1>2, <2>1, <2>2 DEF Left
  <2> HIDE DEF m, n
  <2>6. m \in Nat /\ n \in Nat /\ job[j].sent + job[j].failed + (m + n) = job[j].total
    <3>1. /\ Cardinality(job[j].rest) \in Nat /\ m \in Nat /\ n \in Nat
          /\ Cardinality(job[j].rest) = m + n
      BY <1>1, <2>3 DEF m, n
    <3> QED BY <1>1, <2>4, <3>1
  <2>7. CASE Left(job'[j]) = n + m /\ job'[j].pc = "send"
             /\ job'[j].failed = job[j].failed
    <3>1. n + m \in Nat /\ job'[j].sent + job'[j].failed + (n + m) = job'[j].total
      BY <1>1, <2>1, <2>6, <2>7
    <3> QED BY <1>1, <2>1, <2>7, <3>1, BalancedIf
  <2>8. CASE Left(job'[j]) = n + 0 /\ job'[j].pc = "bot" /\ job'[j].todo = {}
             /\ job'[j].failed = job[j].failed + m
    <3>1. n + 0 = n /\ job'[j].sent + job'[j].failed + n = job'[j].total /\ job'[j].failed \in Nat
      BY <1>1, <2>1, <2>6, <2>8
    <3> QED BY <1>1, <2>1, <2>6, <2>8, <3>1, BalancedIf
  <2> QED BY <2>5, <2>7, <2>8
<1>9. CASE Flooded(j) /\ job[j].attempt < MaxRetries
  BY <1>1, <1>9, FloodStep, SameCounts DEF Flooded, At
<1>10. CASE \/ Sent(j) \/ SilentlyNotSent(j) \/ Forbidden(j) \/ SendRaises(j)
            \/ (Flooded(j) /\ ~(job[j].attempt < MaxRetries))
  <2>1. At(j, "send")
    BY <1>10 DEF Sent, SilentlyNotSent, Forbidden, SendRaises, Flooded
  <2>2. To(j) \in Recipients
    BY <2>1 DEF TypeInv, TypeOK, SendsToSomeone, To, Run
  <2>3. arrived[To(j)] + 1 \in Nat
    BY <2>2 DEF TypeInv, TypeOK
  <2>4. PICK count \in {"sent", "failed"}, id \in Nat : Dealt(j, count, id)
    BY <1>10, <2>3 DEF Sent, SilentlyNotSent, Forbidden, SendRaises, Flooded, NoId
  <2>5. /\ To(j) \in job[j].todo
        /\ job'[j].pc \in {"flush", "stats", "bot", "send"}
        /\ job'[j].pc = "bot" => job'[j].todo = {}
        /\ job'[j].total = job[j].total
        /\ job'[j].rest = job[j].rest /\ job'[j].todo = job[j].todo \ {To(j)}
        /\ job'[j].sent = IF count = "sent" THEN job[j].sent + 1 ELSE job[j].sent
        /\ job'[j].failed = IF count = "sent" THEN job[j].failed ELSE job[j].failed + 1
    BY <2>1, <2>4, DealtStep, ZenonT(60)
  <2>6. /\ Cardinality(job'[j].todo) = Cardinality(job[j].todo) - 1
        /\ Cardinality(job'[j].todo) \in Nat
    <3>1. /\ IsFiniteSet(job[j].todo \ {To(j)})
          /\ Cardinality(job[j].todo \ {To(j)}) = Cardinality(job[j].todo) - 1
      BY <1>1, <2>5, FS_RemoveElement
    <3> QED BY <2>5, <3>1, FS_CardinalityType
  <2>7. job[j].sent + job[j].failed + Left(job[j]) = job[j].total
    BY <1>1, <2>1 DEF Balanced, At
  <2>8. job'[j].sent + job'[j].failed + Left(job'[j]) = job'[j].total
    BY <1>1, <2>5, <2>6, <2>7 DEF Left
  <2>9. job'[j].total \in Nat
    BY <1>1, <2>5
  <2> QED BY <2>5, <2>8, <2>9 DEF Balanced
<1>11. CASE Flushed(j) \/ LastFlushed(j)
  <2>1. /\ job'[j].pc \in {"complete", "stats", "bot", "send"}
        /\ job'[j].pc = "complete" => LastFlushed(j)
        /\ job'[j].pc = "bot" => job[j].todo = {}
    BY <1>11, FlushStep, AfterIsSound
  <2>2. job[j].pc \in {"flush", "last_flush"} /\ (LastFlushed(j) => job[j].pc = "last_flush")
    BY <1>11 DEF Flushed, LastFlushed, At
  <2> QED BY <1>1, <1>11, <2>1, <2>2, FlushStep, SameCounts DEF Balanced
<1>12. CASE Raises(j)
  <2>1. CASE job'[j].total = job[j].total /\ job'[j].rest = job[j].rest
             /\ job'[j].todo = job[j].todo
             /\ job'[j].sent = job[j].sent /\ job'[j].failed = job[j].failed
    BY <1>1, <1>12, <2>1, RaiseStep, SameCounts
  <2>2. CASE job'[j].rest = {} /\ job'[j].todo = {} /\ job'[j].sent = 0 /\ job'[j].failed = 0
    <3>1. job'[j].total \in Nat /\ job'[j].pc = "crashed"
      BY <1>12, RaiseStep DEF Moves, Run
    <3> QED BY <1>2, <2>2, <3>1 DEF Balanced, Left
  <2> QED BY <1>12, <2>1, <2>2, RaiseStep
<1> QED BY <1>3, <1>4, <1>5, <1>6, <1>7, <1>8, <1>9, <1>10, <1>11, <1>12 DEF Proceed

\* The rows the ad may have.
AdRow == [status : {"DRAFT", "SENDING", "COMPLETED", "gone"}, total : Nat, sent : Nat, failed : Nat]

\* What the steps of a job do to the other variables.
LEMMA JobKeepsTypes ==
  ASSUME TypeInv, AllBalanced, NEW j \in Jobs,
         SendAd(j) \/ Proceed(j) \/ Killed(j) \/ TimedOut(j)
  PROVE  TypeOK'
<1>1. Moves(j)
  BY JobMoves
<1>2. job[j] \in Run /\ deletion' = deletion
  BY DEF TypeInv, TypeOK, SendAd, Proceed, Killed, TimedOut, Enqueued, EnqueueFails,
         LoadMissing, Loaded, LoadedNobody, BotFound, BotMissing, AllBotsDone, Sent,
         SilentlyNotSent, Flooded, Forbidden, SendRaises, Flushed, StatsWritten, LastFlushed,
         Completed, Raises, CrashReported
<1>3. ad' \in AdRow
  <2>0. ad \in AdRow /\ job[j].sent \in Nat /\ job[j].failed \in Nat /\ job[j].total \in Nat
    BY <1>2 DEF TypeInv, TypeOK, AdRow, Run
  <2>1. ASSUME NEW status \in {"DRAFT", "SENDING", "COMPLETED"}
        PROVE  [ad EXCEPT !.status = status] \in AdRow
    BY <2>0 DEF AdRow
  <2>2. CASE \/ ad' = ad
             \/ \E status \in {"DRAFT", "SENDING", "COMPLETED"} : ad' = [ad EXCEPT !.status = status]
    BY <2>0, <2>1, <2>2
  <2>3. CASE StatsWritten(j)
    <3> DEFINE row == [ad EXCEPT !.sent = job[j].sent]
               all == [row EXCEPT !.failed = job[j].failed]
    <3>1. ad' = ad \/ ad' = all
      BY <2>3 DEF StatsWritten, UpdateAd
    <3>2. row \in AdRow
      BY <2>0 DEF AdRow
    <3> HIDE DEF row
    <3>3. all \in AdRow
      BY <2>0, <3>2 DEF AdRow
    <3> HIDE DEF all
    <3> QED BY <2>0, <3>1, <3>3
  <2>4. CASE LoadedNobody(j)
    <3> DEFINE row == [ad EXCEPT !.status = "COMPLETED"]
               all == [row EXCEPT !.total = 0]
    <3>1. ad' = all \/ ad' = [status |-> "COMPLETED", total |-> 0, sent |-> 0, failed |-> 0]
      BY <2>4 DEF LoadedNobody
    <3>2. row \in AdRow
      BY <2>1
    <3> HIDE DEF row
    <3>3. all \in AdRow
      BY <3>2 DEF AdRow
    <3> HIDE DEF all
    <3>4. [status |-> "COMPLETED", total |-> 0, sent |-> 0, failed |-> 0] \in AdRow
      BY DEF AdRow
    <3> QED BY <3>1, <3>3, <3>4
  <2>5. CASE Completed(j)
    <3>1. [status |-> "COMPLETED", total |-> job[j].total, sent |-> job[j].sent,
           failed |-> job[j].failed] \in AdRow
      BY <2>0 DEF AdRow
    <3> QED BY <2>0, <2>5, <3>1 DEF Completed, UpdateAd
  <2>6. CASE CrashReported(j)
    <3> DEFINE row == [ad EXCEPT !.status = "COMPLETED"]
               more == [row EXCEPT !.sent = job[j].sent]
               all == [more EXCEPT !.failed = job[j].total - job[j].sent]
    <3>1. ad' = ad \/ ad' = all
      BY <2>6 DEF CrashReported, UpdateAd
    <3>2. row \in AdRow
      BY <2>1
    <3> HIDE DEF row
    <3>3. more \in AdRow
      BY <2>0, <3>2 DEF AdRow
    <3> HIDE DEF more
    <3>4. job[j].total - job[j].sent \in Nat
      <4>1. Cardinality(job[j].rest) \in Nat /\ Cardinality(job[j].todo) \in Nat
        BY <1>2, FiniteRecipients DEF Run
      <4>2. Left(job[j]) \in Nat
        BY <4>1 DEF Left
      <4>3. job[j].sent + job[j].failed + Left(job[j]) <= job[j].total
        BY DEF AllBalanced, Balanced
      <4> QED BY <2>0, <4>2, <4>3
    <3>5. all \in AdRow
      BY <3>3, <3>4 DEF AdRow
    <3> HIDE DEF all
    <3> QED BY <2>0, <3>1, <3>5
  <2> QED BY <2>2, <2>3, <2>4, <2>5, <2>6
        DEF SendAd, Proceed, Killed, TimedOut, Enqueued, EnqueueFails, LoadMissing, Loaded,
            BotFound, BotMissing, AllBotsDone, Sent, SilentlyNotSent, Flooded, Forbidden,
            SendRaises, Flushed, LastFlushed, Raises, UpdateAd
<1>4. rows' \in Seq(Delivery)
  <2>1. rows \in Seq(Delivery) /\ job[j].buffer \in Seq(Delivery)
    BY <1>2 DEF TypeInv, TypeOK, Run
  <2>2. rows \o job[j].buffer \in Seq(Delivery)
    BY <2>1
  <2>3. rows' \in {rows, rows \o job[j].buffer}
    BY DEF SendAd, Proceed, Killed, TimedOut, Enqueued, EnqueueFails, LoadMissing, Loaded,
           LoadedNobody, BotFound, BotMissing, AllBotsDone, Sent, SilentlyNotSent, Flooded,
           Forbidden, SendRaises, Flushed, StatsWritten, LastFlushed, Completed, Raises,
           CrashReported, FlushRows
  <2> QED BY <2>1, <2>2, <2>3
<1>5. CASE At(j, "send")
  <2>1. To(j) \in Recipients
    BY <1>2, <1>5 DEF TypeInv, TypeOK, SendsToSomeone, To, Run
  <2>2. arrived[To(j)] + 1 \in Nat
    BY <2>1 DEF TypeInv, TypeOK
  <2>3. blocked' \in {blocked, blocked \cup {To(j)}}
    BY <1>5 DEF SendAd, Proceed, Killed, TimedOut, Enqueued, EnqueueFails, LoadMissing, Loaded,
           LoadedNobody, BotFound, BotMissing, AllBotsDone, Sent, SilentlyNotSent, Flooded,
           Forbidden, SendRaises, Flushed, StatsWritten, LastFlushed, Completed, Raises,
           CrashReported
  <2>4. Arrives(To(j)) \/ ChatsSame
    BY <1>5 DEF SendAd, Proceed, Killed, TimedOut, Enqueued, EnqueueFails, LoadMissing, Loaded,
           LoadedNobody, BotFound, BotMissing, AllBotsDone, Sent, SilentlyNotSent, Flooded,
           Forbidden, SendRaises, Flushed, StatsWritten, LastFlushed, Completed, Raises,
           CrashReported, ChatsSame
  <2>5. chats' \subseteq Recipients \X Nat /\ arrived' \in [Recipients -> Nat]
    BY <2>1, <2>2, <2>4 DEF Arrives, ChatsSame, TypeInv, TypeOK
  <2> QED BY <1>1, <1>2, <1>3, <1>4, <2>1, <2>3, <2>5 DEF Moves, TypeInv, TypeOK, AdRow
<1>6. CASE ~At(j, "send")
  <2>1. UNCHANGED <<blocked, chats, arrived>>
    BY <1>6 DEF SendAd, Proceed, Killed, TimedOut, Enqueued, EnqueueFails, LoadMissing, Loaded,
           LoadedNobody, BotFound, BotMissing, AllBotsDone, Sent, SilentlyNotSent, Flooded,
           Forbidden, SendRaises, Flushed, StatsWritten, LastFlushed, Completed, Raises,
           CrashReported, ChatsSame
  <2> QED BY <1>1, <1>2, <1>3, <1>4, <2>1 DEF Moves, TypeInv, TypeOK, AdRow
<1> QED BY <1>5, <1>6

LEMMA DeleteKeeps ==
  ASSUME TypeInv, AllBalanced, Delete
  PROVE  (TypeInv /\ AllBalanced)'
<1>1. job' = job /\ blocked' = blocked /\ arrived' = arrived
  BY DEF Delete, DeleteAd, MessageDeleted, AdDeleted, DeleteFails, ChatsSame
<1>2. SendsToSomeone' /\ AllBalanced' /\ job' \in [Jobs -> Run]
  BY <1>1 DEF SendsToSomeone, AllBalanced, At, TypeInv, TypeOK
<1>3. ad' \in AdRow
  BY DEF Delete, DeleteAd, MessageDeleted, AdDeleted, DeleteFails, TypeInv, TypeOK, AdRow
<1>4. rows' \in Seq(Delivery)
  <2>1. rows' \in {rows, <<>>}
    BY DEF Delete, DeleteAd, MessageDeleted, AdDeleted, DeleteFails
  <2>2. <<>> \in Seq(Delivery)
    OBVIOUS
  <2> QED BY <2>1, <2>2 DEF TypeInv, TypeOK
<1>5. chats' \subseteq Recipients \X Nat
  BY DEF Delete, DeleteAd, MessageDeleted, AdDeleted, DeleteFails, ChatsSame, TypeInv, TypeOK
<1>6. deletion' \in [pc : {"none", "deleting", "done"}, todo : SUBSET (Recipients \X Nat)]
  <2>1. CASE DeleteAd
    <3> DEFINE todo == {<<rows[i].to, rows[i].id>> : i \in
                          {k \in DOMAIN rows : rows[k].id # NoId}}
    <3>1. \A i \in DOMAIN rows : rows[i] \in Delivery
      BY DEF TypeInv, TypeOK
    <3>2. todo \in SUBSET (Recipients \X Nat)
      BY <3>1 DEF Delivery
    <3>3. deletion' = [pc |-> "deleting", todo |-> todo]
      BY <2>1 DEF DeleteAd
    <3> HIDE DEF todo
    <3> QED BY <3>2, <3>3
  <2>2. CASE MessageDeleted \/ AdDeleted \/ DeleteFails
    BY <2>2 DEF MessageDeleted, AdDeleted, DeleteFails, Quiet, TypeInv, TypeOK
  <2> QED BY <2>1, <2>2 DEF Delete
<1> QED BY <1>1, <1>2, <1>3, <1>4, <1>5, <1>6 DEF TypeInv, TypeOK, AdRow

BaseInv == TypeInv /\ AllBalanced

LEMMA BaseInvariant == Spec => []BaseInv
<1>1. Init => BaseInv
  <2> SUFFICES ASSUME Init PROVE BaseInv
    OBVIOUS
  <2>1. NewRun("idle", 0) \in Run
    BY BroadcastAssumption, NewRunSound DEF Points, Sound
  <2>2. \A j \in Jobs : job[j] = NewRun("idle", 0)
    BY DEF Init
  <2>3. Cardinality({}) = 0
    BY FS_EmptySet
  <2>4. Balanced(NewRun("idle", 0))
    BY <2>3 DEF NewRun, Balanced, Left
  <2>5. SendsToSomeone /\ AllBalanced
    BY <2>2, <2>4 DEF NewRun, SendsToSomeone, At, AllBalanced
  <2> QED BY <2>1, <2>5 DEF Init, Quiet, TypeOK, TypeInv, BaseInv
<1>2. BaseInv /\ [Next]_vars => BaseInv'
  <2> SUFFICES ASSUME BaseInv, [Next]_vars PROVE BaseInv'
    OBVIOUS
  <2>1. ASSUME NEW j \in Jobs, SendAd(j) \/ Proceed(j) \/ Killed(j) \/ TimedOut(j)
        PROVE  BaseInv'
    BY <2>1, JobMoves, BalancedKept, JobKeepsTypes DEF BaseInv, TypeInv, Moves
  <2>2. CASE Delete
    BY <2>2, DeleteKeeps DEF BaseInv
  <2>3. CASE UNCHANGED vars
    BY <2>3 DEF vars, BaseInv, TypeInv, TypeOK, SendsToSomeone, AllBalanced, Balanced, Left, At
  <2> QED BY <2>1, <2>2, <2>3 DEF Next
<1> QED BY <1>1, <1>2, PTL DEF Spec

\* The rows, the runs and the deletion keep their types, whatever fails; a report of
\* a crash never writes a negative count of failures (tasks.py, broadcast_ad).
THEOREM BroadcastTypeCorrect == Spec => []TypeOK
<1>1. BaseInv => TypeOK
  BY DEF BaseInv, TypeInv
<1> QED BY <1>1, BaseInvariant, PTL

-----------------------------------------------------------------------------
(* Rows and buffers *)

Message(d) == <<d.to, d.id>>

\* No message is in a log twice; none of one log is in the other; all of it arrived.
Distinct(dls) ==
  \A i, k \in DOMAIN dls : i # k /\ dls[i].id # NoId => Message(dls[i]) # Message(dls[k])

Apart(dls, others) ==
  \A i \in DOMAIN dls, k \in DOMAIN others :
    dls[i].id # NoId => Message(dls[i]) # Message(others[k])

HasArrived(dls) == \A i \in DOMAIN dls : dls[i].id <= arrived[dls[i].to]

\* The rows and all buffers together hold every message at most once, and no message
\* that is yet to come.  Needed for RowsDistinct: a buffer becomes rows.
RecordInv ==
  /\ Distinct(rows) /\ HasArrived(rows)
  /\ \A j \in Jobs : /\ Distinct(job[j].buffer) /\ HasArrived(job[j].buffer)
                     /\ Apart(rows, job[j].buffer)
  /\ \A j, k \in Jobs : j # k => Apart(job[j].buffer, job[k].buffer)

LEMMA ApartIsSymmetric ==
  ASSUME NEW s, NEW t, Apart(s, t)
  PROVE  Apart(t, s)
BY DEF Apart, Message

LEMMA EmptyLog ==
  /\ Distinct(<<>>)
  /\ HasArrived(<<>>)
  /\ HasArrived(<<>>)'
  /\ \A s : Apart(s, <<>>) /\ Apart(<<>>, s)
<1>1. DOMAIN <<>> = {}
  OBVIOUS
<1> QED BY <1>1 DEF Distinct, HasArrived, Apart

LEMMA AppendedLog ==
  ASSUME NEW s \in Seq(Delivery), NEW d \in Delivery
  PROVE  /\ DOMAIN Append(s, d) = (DOMAIN s) \cup {Len(s) + 1}
         /\ Len(s) + 1 \notin DOMAIN s
         /\ \A i \in DOMAIN s : Append(s, d)[i] = s[i]
         /\ Append(s, d)[Len(s) + 1] = d
OBVIOUS

LEMMA JoinedLog ==
  ASSUME NEW s \in Seq(Delivery), NEW t \in Seq(Delivery)
  PROVE  \A i \in DOMAIN (s \o t) :
           \/ i \in DOMAIN s /\ (s \o t)[i] = s[i]
           \/ i - Len(s) \in DOMAIN t /\ (s \o t)[i] = t[i - Len(s)] /\ i \notin DOMAIN s
OBVIOUS

LEMMA JoinedDistinct ==
  ASSUME NEW s \in Seq(Delivery), NEW t \in Seq(Delivery), Distinct(s), Distinct(t), Apart(s, t)
  PROVE  Distinct(s \o t)
<1> SUFFICES ASSUME NEW i \in DOMAIN (s \o t), NEW k \in DOMAIN (s \o t), i # k,
                    (s \o t)[i].id # NoId
             PROVE  Message((s \o t)[i]) # Message((s \o t)[k])
  BY DEF Distinct
<1>1. Apart(t, s)
  BY ApartIsSymmetric
<1>2. Len(s) \in Nat /\ i \in Nat /\ k \in Nat
  OBVIOUS
<1>3. i - Len(s) # k - Len(s)
  BY <1>2
<1> QED BY <1>1, <1>3, JoinedLog DEF Distinct, Apart

LEMMA JoinedApart ==
  ASSUME NEW s \in Seq(Delivery), NEW t \in Seq(Delivery), NEW u, Apart(s, u), Apart(t, u)
  PROVE  Apart(s \o t, u)
BY JoinedLog DEF Apart

\* A delivery whose message is new, or that has none, can be buffered.
LEMMA AppendedDistinct ==
  ASSUME NEW s \in Seq(Delivery), NEW d \in Delivery, Distinct(s),
         d.id # NoId => \A i \in DOMAIN s : Message(s[i]) # Message(d)
  PROVE  Distinct(Append(s, d))
<1> SUFFICES ASSUME NEW i \in DOMAIN Append(s, d), NEW k \in DOMAIN Append(s, d), i # k,
                    Append(s, d)[i].id # NoId
             PROVE  Message(Append(s, d)[i]) # Message(Append(s, d)[k])
  BY DEF Distinct
<1>1. CASE i \in DOMAIN s /\ k \in DOMAIN s
  BY <1>1, AppendedLog DEF Distinct
<1>2. CASE i = Len(s) + 1 /\ k \in DOMAIN s
  BY <1>2, AppendedLog
<1>3. CASE i \in DOMAIN s /\ k = Len(s) + 1
  <2>1. CASE d.id # NoId
    BY <1>3, <2>1, AppendedLog
  <2>2. CASE d.id = NoId
    BY <1>3, <2>2, AppendedLog DEF Message
  <2> QED BY <2>1, <2>2
<1> QED BY <1>1, <1>2, <1>3, AppendedLog

LEMMA AppendedApart ==
  ASSUME NEW s \in Seq(Delivery), NEW d \in Delivery, NEW t, Apart(s, t),
         d.id # NoId => \A k \in DOMAIN t : Message(t[k]) # Message(d)
  PROVE  Apart(Append(s, d), t)
<1> SUFFICES ASSUME NEW i \in DOMAIN Append(s, d), NEW k \in DOMAIN t,
                    Append(s, d)[i].id # NoId
             PROVE  Message(Append(s, d)[i]) # Message(t[k])
  BY DEF Apart
<1>1. CASE i \in DOMAIN s
  BY <1>1, AppendedLog DEF Apart
<1>2. CASE i = Len(s) + 1
  BY <1>2, AppendedLog
<1> QED BY <1>1, <1>2, AppendedLog

\* Messages that arrive leave the logs as they are; so do the logs that are dropped.
ArrivedGrows == \A r \in Recipients : arrived[r] <= arrived'[r]

LEMMA StillArrived ==
  ASSUME TypeOK, TypeOK', ArrivedGrows, NEW s \in Seq(Delivery), HasArrived(s)
  PROVE  \A i \in DOMAIN s : s[i].id <= arrived'[s[i].to]
<1>1. \A i \in DOMAIN s : s[i] \in Delivery
  OBVIOUS
<1>2. \A i \in DOMAIN s : s[i].to \in Recipients /\ s[i].id \in Nat
  BY <1>1 DEF Delivery
<1>3. \A r \in Recipients : arrived[r] \in Nat /\ arrived'[r] \in Nat
  BY DEF TypeOK
<1> QED BY <1>2, <1>3 DEF HasArrived, ArrivedGrows

LEMMA BufferType ==
  ASSUME TypeOK, NEW j \in Jobs
  PROVE  job[j].buffer \in Seq(Delivery) /\ rows \in Seq(Delivery)
BY DEF TypeOK, Run

LEMMA LogsKept ==
  ASSUME TypeOK, TypeOK', RecordInv, ArrivedGrows, rows' \in {rows, <<>>},
         \A j \in Jobs : job'[j].buffer \in {job[j].buffer, <<>>}
  PROVE  RecordInv'
<1>1. Distinct(rows)' /\ HasArrived(rows)'
  <2>1. rows \in Seq(Delivery) /\ HasArrived(rows) /\ Distinct(rows)
    BY DEF TypeOK, RecordInv
  <2>2. CASE rows' = rows
    BY <2>1, <2>2, StillArrived DEF Distinct, HasArrived
  <2>3. CASE rows' = <<>>
    BY <2>3 DEF Distinct, HasArrived
  <2> QED BY <2>2, <2>3
<1>2. ASSUME NEW j \in Jobs
      PROVE  /\ Distinct(job[j].buffer)' /\ HasArrived(job[j].buffer)'
             /\ Apart(rows, job[j].buffer)'
  <2>1. /\ job[j].buffer \in Seq(Delivery) /\ HasArrived(job[j].buffer)
        /\ Distinct(job[j].buffer) /\ Apart(rows, job[j].buffer)
    BY BufferType DEF RecordInv
  <2>2. CASE job'[j].buffer = job[j].buffer
    BY <2>1, <2>2, StillArrived DEF Distinct, HasArrived, Apart
  <2>3. CASE job'[j].buffer = <<>>
    BY <2>3 DEF Distinct, HasArrived, Apart
  <2> QED BY <2>2, <2>3
<1>3. ASSUME NEW j \in Jobs, NEW k \in Jobs, j # k
      PROVE  Apart(job[j].buffer, job[k].buffer)'
  <2>1. Apart(job[j].buffer, job[k].buffer)
    BY <1>3 DEF RecordInv
  <2>2. /\ job'[j].buffer \in {job[j].buffer, <<>>}
        /\ job'[k].buffer \in {job[k].buffer, <<>>}
    OBVIOUS
  <2> QED BY <2>1, <2>2 DEF Apart
<1> QED BY <1>1, <1>2, <1>3 DEF RecordInv

LEMMA LogFlushed ==
  ASSUME TypeOK, TypeOK', RecordInv, ArrivedGrows, NEW j \in Jobs,
         rows' = rows \o job[j].buffer, job'[j].buffer = <<>>,
         \A k \in Jobs : k # j => job'[k].buffer = job[k].buffer
  PROVE  RecordInv'
<1>1. /\ job[j].buffer \in Seq(Delivery) /\ rows \in Seq(Delivery)
      /\ Distinct(rows) /\ HasArrived(rows)
      /\ Distinct(job[j].buffer) /\ HasArrived(job[j].buffer) /\ Apart(rows, job[j].buffer)
  BY BufferType DEF RecordInv
<1>2. Distinct(rows)'
  <2>1. Distinct(rows \o job[j].buffer)
    BY <1>1, JoinedDistinct
  <2> QED BY <2>1 DEF Distinct
<1>3. HasArrived(rows)'
  <2> SUFFICES ASSUME NEW i \in DOMAIN (rows \o job[j].buffer)
               PROVE  (rows \o job[j].buffer)[i].id <= arrived'[(rows \o job[j].buffer)[i].to]
    BY DEF HasArrived
  <2>1. /\ \A k \in DOMAIN rows : rows[k].id <= arrived'[rows[k].to]
        /\ \A k \in DOMAIN job[j].buffer :
             job[j].buffer[k].id <= arrived'[job[j].buffer[k].to]
    BY <1>1, StillArrived
  <2> QED BY <1>1, <2>1, JoinedLog
<1>4. ASSUME NEW k \in Jobs, k # j
      PROVE  /\ Distinct(job[k].buffer)' /\ HasArrived(job[k].buffer)'
             /\ Apart(rows, job[k].buffer)'
  <2>1. /\ job[k].buffer \in Seq(Delivery) /\ HasArrived(job[k].buffer)
        /\ Distinct(job[k].buffer) /\ Apart(rows, job[k].buffer)
        /\ Apart(job[j].buffer, job[k].buffer) /\ job'[k].buffer = job[k].buffer
    BY <1>4, BufferType DEF RecordInv
  <2>2. Apart(rows \o job[j].buffer, job[k].buffer)
    BY <1>1, <2>1, JoinedApart
  <2> QED BY <2>1, <2>2, StillArrived, SMTT(30) DEF Distinct, HasArrived, Apart
<1>5. /\ Distinct(job[j].buffer)' /\ HasArrived(job[j].buffer)'
      /\ Apart(rows, job[j].buffer)'
  BY DEF Distinct, HasArrived, Apart
<1>6. ASSUME NEW i \in Jobs, NEW k \in Jobs, i # k
      PROVE  Apart(job[i].buffer, job[k].buffer)'
  <2>1. Apart(job[i].buffer, job[k].buffer)
    BY <1>6 DEF RecordInv
  <2>2. /\ job'[i].buffer \in {job[i].buffer, <<>>}
        /\ job'[k].buffer \in {job[k].buffer, <<>>}
    OBVIOUS
  <2> QED BY <2>1, <2>2 DEF Apart
<1> QED BY <1>2, <1>3, <1>4, <1>5, <1>6 DEF RecordInv

LEMMA LogAppended ==
  ASSUME TypeOK, TypeOK', RecordInv, ArrivedGrows, NEW j \in Jobs, NEW d \in Delivery,
         d.id # NoId => d.id = arrived[d.to] + 1 /\ arrived'[d.to] = d.id,
         rows' = rows, job'[j].buffer = Append(job[j].buffer, d),
         \A k \in Jobs : k # j => job'[k].buffer = job[k].buffer
  PROVE  RecordInv'
<1>1. /\ \A k \in Jobs : job[k].buffer \in Seq(Delivery) /\ rows \in Seq(Delivery)
      /\ d.to \in Recipients /\ d.id \in Nat /\ arrived[d.to] \in Nat /\ arrived'[d.to] \in Nat
  BY BufferType DEF TypeOK, Delivery
<1>2. ASSUME NEW s \in Seq(Delivery), HasArrived(s), d.id # NoId
      PROVE  \A i \in DOMAIN s : Message(s[i]) # Message(d)
  <2> SUFFICES ASSUME NEW i \in DOMAIN s, Message(s[i]) = Message(d) PROVE FALSE
    OBVIOUS
  <2>1. s[i].to = d.to /\ s[i].id = d.id
    BY DEF Message
  <2>2. s[i].id <= arrived[s[i].to]
    BY <1>2 DEF HasArrived
  <2> QED BY <1>1, <1>2, <2>1, <2>2
<1>3. Distinct(rows)' /\ HasArrived(rows)'
  BY <1>1, StillArrived, ZenonT(60) DEF RecordInv, TypeOK, Distinct, HasArrived
<1>4. /\ Distinct(job[j].buffer) /\ HasArrived(job[j].buffer)
      /\ Apart(rows, job[j].buffer)
  BY DEF RecordInv
<1>5. Distinct(Append(job[j].buffer, d))
  BY <1>1, <1>2, <1>4, AppendedDistinct
<1>6. HasArrived(job[j].buffer)'
  <2> SUFFICES ASSUME NEW i \in DOMAIN Append(job[j].buffer, d)
               PROVE  Append(job[j].buffer, d)[i].id <= arrived'[Append(job[j].buffer, d)[i].to]
    BY DEF HasArrived
  <2>1. CASE i \in DOMAIN job[j].buffer
    BY <1>1, <1>4, <2>1, AppendedLog, StillArrived
  <2>2. CASE Append(job[j].buffer, d)[i] = d
    BY <1>1, <2>2 DEF NoId
  <2> QED BY <1>1, <2>1, <2>2, AppendedLog
<1>7. ASSUME NEW s \in Seq(Delivery), HasArrived(s), Apart(job[j].buffer, s)
      PROVE  Apart(Append(job[j].buffer, d), s)
  BY <1>1, <1>2, <1>7, AppendedApart
<1>8. Apart(rows, job[j].buffer)'
  <2>1. Apart(job[j].buffer, rows) /\ HasArrived(rows) /\ rows \in Seq(Delivery)
    BY <1>4, ApartIsSymmetric DEF RecordInv, TypeOK
  <2>2. Apart(Append(job[j].buffer, d), rows)
    BY <1>7, <2>1
  <2>3. Apart(rows, Append(job[j].buffer, d))
    BY <2>2, ApartIsSymmetric
  <2> QED BY <2>3 DEF Apart
<1>9. ASSUME NEW k \in Jobs, k # j
      PROVE  /\ Distinct(job[k].buffer)' /\ HasArrived(job[k].buffer)'
             /\ Apart(rows, job[k].buffer)'
             /\ Apart(job[j].buffer, job[k].buffer)' /\ Apart(job[k].buffer, job[j].buffer)'
  <2>1. /\ job[k].buffer \in Seq(Delivery) /\ HasArrived(job[k].buffer)
        /\ Distinct(job[k].buffer) /\ Apart(rows, job[k].buffer)
        /\ Apart(job[j].buffer, job[k].buffer) /\ job'[k].buffer = job[k].buffer
    BY <1>1, <1>9 DEF RecordInv
  <2>2. Apart(Append(job[j].buffer, d), job[k].buffer)
    BY <1>7, <2>1
  <2>3. Apart(job[k].buffer, Append(job[j].buffer, d))
    BY <2>2, ApartIsSymmetric
  <2> QED BY <2>1, <2>2, <2>3, StillArrived DEF Distinct, HasArrived, Apart
<1>10. ASSUME NEW i \in Jobs, NEW k \in Jobs, i # k, i # j, k # j
       PROVE  Apart(job[i].buffer, job[k].buffer)'
  <2>1. Apart(job[i].buffer, job[k].buffer)
    BY <1>10 DEF RecordInv
  <2> QED BY <1>10, <2>1 DEF Apart
<1>11. Distinct(job[j].buffer)'
  BY <1>5 DEF Distinct
<1> QED BY <1>3, <1>6, <1>8, <1>9, <1>10, <1>11 DEF RecordInv

\* What the steps of a job that deal with no recipient do to the logs and chats.
LEMMA QuietStep ==
  ASSUME TypeInv, NEW j \in Jobs,
         \/ SendAd(j) \/ Enqueued(j) \/ EnqueueFails(j) \/ LoadMissing(j) \/ Loaded(j)
         \/ LoadedNobody(j) \/ BotFound(j) \/ BotMissing(j) \/ AllBotsDone(j)
         \/ (Flooded(j) /\ job[j].attempt < MaxRetries)
         \/ StatsWritten(j) \/ Completed(j) \/ Raises(j) \/ CrashReported(j)
         \/ Killed(j) \/ TimedOut(j)
  PROVE  /\ UNCHANGED <<rows, chats, arrived>>
         /\ Moves(j)
         /\ job'[j].buffer \in {job[j].buffer, <<>>}
         /\ \/ job'[j].buffer = job[j].buffer
            \/ Enqueued(j) \/ Loaded(j) \/ Killed(j) \/ (Raises(j) /\ At(j, "queued"))
         /\ job'[j].pc \in {"idle", "enqueue", "queued"} =>
              Killed(j) \/ job[j].pc \in {"idle", "enqueue", "queued"}
<1>1. UNCHANGED <<rows, chats, arrived>>
  BY DEF SendAd, Enqueued, EnqueueFails, LoadMissing, Loaded, LoadedNobody, BotFound,
         BotMissing, AllBotsDone, Flooded, StatsWritten, Completed, Raises, CrashReported,
         Killed, TimedOut, ChatsSame
<1>2. CASE \/ SendAd(j) \/ EnqueueFails(j) \/ LoadMissing(j) \/ LoadedNobody(j) \/ AllBotsDone(j)
           \/ StatsWritten(j) \/ Completed(j) \/ CrashReported(j) \/ TimedOut(j)
  <2>1. PICK pc \in Points :
          /\ Goto(j, pc) /\ (pc = "send" => job[j].todo # {})
          /\ pc \in {"idle", "enqueue", "queued"} => job[j].pc = "idle"
    BY <1>2, AfterIsSound DEF SendAd, EnqueueFails, LoadMissing, LoadedNobody, AllBotsDone,
         StatsWritten, Completed, CrashReported, TimedOut, Points, At
  <2> QED BY <1>1, <2>1, GotoStep
<1>3. CASE Enqueued(j) \/ Killed(j)
  <2>0. Enqueued(j) => job[j].pc = "enqueue"
    BY DEF Enqueued, At
  <2>1. \E pc \in Points \ {"send"}, tries \in 0..MaxTries : Becomes(j, NewRun(pc, tries))
    <3>1. job[j].tries \in 0..MaxTries
      BY DEF TypeInv, TypeOK, Run
    <3> QED BY <1>3, <3>1, BroadcastAssumption DEF Enqueued, Killed, Points
  <2> QED BY <1>1, <1>3, <2>0, <2>1, NewRunStep
<1>4. CASE Loaded(j)
  BY <1>1, <1>4, LoadStep
<1>5. CASE BotFound(j) \/ BotMissing(j)
  BY <1>1, <1>5, BotStep
<1>6. CASE Flooded(j) /\ job[j].attempt < MaxRetries
  BY <1>1, <1>6, FloodStep DEF Flooded, At
<1>7. CASE Raises(j)
  <2>1. ~At(j, "queued") => Goto(j, "crashed") /\ "crashed" \in Points
    BY <1>7 DEF Raises, Points
  <2>2. ~At(j, "queued") => job'[j].buffer = job[j].buffer
    BY <2>1, GotoStep
  <2> QED BY <1>1, <1>7, <2>2, RaiseStep
<1> QED BY <1>2, <1>3, <1>4, <1>5, <1>6, <1>7

\* What the steps that deal with a recipient do.
LEMMA SendStep ==
  ASSUME TypeInv, NEW j \in Jobs,
         \/ Sent(j) \/ SilentlyNotSent(j) \/ Forbidden(j) \/ SendRaises(j)
         \/ (Flooded(j) /\ ~(job[j].attempt < MaxRetries))
  PROVE  /\ At(j, "send") /\ To(j) \in job[j].todo /\ To(j) \in Recipients
         /\ Moves(j) /\ rows' = rows
         /\ Arrives(To(j)) \/ ChatsSame
         /\ \E count \in {"sent", "failed"}, id \in Nat :
              /\ Dealt(j, count, id)
              /\ \/ id = NoId /\ (ChatsSame \/ SendRaises(j))
                 \/ Sent(j) /\ Arrives(To(j)) /\ id = arrived[To(j)] + 1
<1>1. At(j, "send")
  BY DEF Sent, SilentlyNotSent, Forbidden, SendRaises, Flooded
<1>2. To(j) \in job[j].todo /\ To(j) \in Recipients
  BY <1>1 DEF TypeInv, TypeOK, SendsToSomeone, To, Run
<1>3. arrived[To(j)] + 1 \in Nat
  BY <1>2 DEF TypeInv, TypeOK
<1>4. Arrives(To(j)) \/ ChatsSame
  BY DEF Sent, SilentlyNotSent, Forbidden, SendRaises, Flooded, ChatsSame
<1>5. rows' = rows
  BY DEF Sent, SilentlyNotSent, Forbidden, SendRaises, Flooded
<1>6. PICK count \in {"sent", "failed"}, id \in Nat :
        /\ Dealt(j, count, id)
        /\ \/ id = NoId /\ (ChatsSame \/ SendRaises(j))
           \/ Sent(j) /\ Arrives(To(j)) /\ id = arrived[To(j)] + 1
  BY <1>3 DEF Sent, SilentlyNotSent, Forbidden, SendRaises, Flooded, NoId, ChatsSame
<1>7. Moves(j)
  BY <1>1, <1>6, DealtStep
<1> QED BY <1>1, <1>2, <1>4, <1>5, <1>6, <1>7

\* A message arrives in one chat.
LEMMA OneArrives ==
  ASSUME TypeOK, NEW r \in Recipients, Arrives(r)
  PROVE  /\ arrived'[r] = arrived[r] + 1 /\ arrived[r] \in Nat
         /\ \A q \in Recipients : q # r => arrived'[q] = arrived[q]
         /\ chats' = chats \cup {<<r, arrived[r] + 1>>}
BY DEF Arrives, TypeOK

\* Every step keeps the rows and the buffers apart.
LEMMA RecordKept ==
  ASSUME BaseInv, BaseInv', RecordInv, [Next]_vars
  PROVE  RecordInv'
<1>0. TypeInv /\ TypeOK /\ TypeOK' /\ (\A r \in Recipients : arrived[r] \in Nat)
  BY DEF BaseInv, TypeInv, TypeOK
<1>1. ASSUME NEW j \in Jobs,
             \/ SendAd(j) \/ Enqueued(j) \/ EnqueueFails(j) \/ LoadMissing(j) \/ Loaded(j)
             \/ LoadedNobody(j) \/ BotFound(j) \/ BotMissing(j) \/ AllBotsDone(j)
             \/ (Flooded(j) /\ job[j].attempt < MaxRetries)
             \/ StatsWritten(j) \/ Completed(j) \/ Raises(j) \/ CrashReported(j)
             \/ Killed(j) \/ TimedOut(j)
      PROVE  RecordInv'
  <2>1. /\ UNCHANGED <<rows, chats, arrived>>
        /\ Moves(j)
        /\ job'[j].buffer \in {job[j].buffer, <<>>}
    BY <1>0, <1>1, QuietStep
  <2>2. ArrivedGrows
    BY <1>0, <2>1 DEF ArrivedGrows
  <2>3. \A k \in Jobs : job'[k].buffer \in {job[k].buffer, <<>>}
    BY <2>1 DEF Moves
  <2> QED BY <1>0, <2>1, <2>2, <2>3, LogsKept
<1>2. ASSUME NEW j \in Jobs,
             \/ Sent(j) \/ SilentlyNotSent(j) \/ Forbidden(j) \/ SendRaises(j)
             \/ (Flooded(j) /\ ~(job[j].attempt < MaxRetries))
      PROVE  RecordInv'
  <2>1. /\ At(j, "send") /\ To(j) \in Recipients /\ Moves(j) /\ rows' = rows
        /\ Arrives(To(j)) \/ ChatsSame
    BY <1>0, <1>2, SendStep
  <2>2. PICK count \in {"sent", "failed"}, id \in Nat :
          /\ Dealt(j, count, id)
          /\ id = NoId \/ (Arrives(To(j)) /\ id = arrived[To(j)] + 1)
    BY <1>0, <1>2, SendStep
  <2> DEFINE d == [to |-> To(j), id |-> id, is_sent |-> count = "sent"]
  <2>3. /\ d \in Delivery
        /\ job'[j].buffer = Append(job[j].buffer, d)
    BY <1>0, <2>1, <2>2, DealtStep
  <2>4. d.to = To(j) /\ d.id = id
    OBVIOUS
  <2> HIDE DEF d
  <2>5. ArrivedGrows
    <3>1. CASE Arrives(To(j))
      BY <1>0, <2>1, <3>1, OneArrives DEF ArrivedGrows
    <3>2. CASE ChatsSame
      BY <1>0, <3>2 DEF ArrivedGrows, ChatsSame
    <3> QED BY <2>1, <3>1, <3>2
  <2>6. d.id # NoId => d.id = arrived[d.to] + 1 /\ arrived'[d.to] = d.id
    BY <1>0, <2>1, <2>2, <2>4, OneArrives
  <2>7. \A k \in Jobs : k # j => job'[k].buffer = job[k].buffer
    BY <2>1 DEF Moves
  <2> QED BY <1>0, <2>1, <2>3, <2>5, <2>6, <2>7, LogAppended
<1>3. ASSUME NEW j \in Jobs, Flushed(j) \/ LastFlushed(j)
      PROVE  RecordInv'
  <2>1. Moves(j) /\ job'[j].buffer = <<>>
    BY <1>0, <1>3, FlushStep
  <2>2. arrived' = arrived /\ rows' \in {rows, rows \o job[j].buffer}
    BY <1>3 DEF Flushed, LastFlushed, FlushRows, ChatsSame
  <2>3. ArrivedGrows
    BY <1>0, <2>2 DEF ArrivedGrows
  <2>4. \A k \in Jobs : k # j => job'[k].buffer = job[k].buffer
    BY <2>1 DEF Moves
  <2>5. CASE rows' = rows
    BY <1>0, <2>1, <2>3, <2>4, <2>5, LogsKept
  <2>6. CASE rows' = rows \o job[j].buffer
    BY <1>0, <2>1, <2>3, <2>4, <2>6, LogFlushed
  <2> QED BY <2>2, <2>5, <2>6
<1>4. CASE Delete \/ UNCHANGED vars
  <2>1. rows' \in {rows, <<>>} /\ arrived' = arrived /\ job' = job
    BY <1>4 DEF Delete, DeleteAd, MessageDeleted, AdDeleted, DeleteFails, ChatsSame, vars
  <2>2. ArrivedGrows
    BY <1>0, <2>1 DEF ArrivedGrows
  <2> QED BY <1>0, <2>1, <2>2, LogsKept
<1> QED BY <1>1, <1>2, <1>3, <1>4 DEF Next, Proceed

LEMMA RecordInvariant == Spec => []RecordInv
<1>1. Init => RecordInv
  BY EmptyLog DEF Init, RecordInv, NewRun
<1>2. BaseInv /\ BaseInv' /\ RecordInv /\ [Next]_vars => RecordInv'
  BY RecordKept
<1> QED BY <1>1, <1>2, BaseInvariant, PTL DEF Spec

\* No message is recorded twice, whatever floods, failing transactions, re-runs and
\* simultaneous jobs there are (the buffer of broadcast_ad and _flush_deliveries).
THEOREM NoRowTwice == Spec => []RowsDistinct
<1>1. RecordInv => RowsDistinct
  BY DEF RecordInv, RowsDistinct, Distinct, Message
<1> QED BY <1>1, RecordInvariant, PTL

-----------------------------------------------------------------------------
(* Runs and copies *)

\* The run that job j is in may still send to r.
MaySend(j, r) == At(j, "queued") \/ r \in job[j].rest \cup job[j].todo

\* The runs that will not send to r any more.
Spent(r) == {run \in Runs : run[2] < job[run[1]].tries \/ ~MaySend(run[1], r)}

\* A run is counted from the time the job is pushed; a recipient is left once.
Started(run) ==
  /\ run.pc \in {"idle", "enqueue"} => run.tries = 0
  /\ run.pc \in {"queued", "bot", "send", "flush", "stats", "last_flush", "complete",
                 "crashed"} => run.tries # 0
  /\ run.rest \cap run.todo = {}

\* Every copy is the work of a run that is done with its recipient.  Needed for
\* OneCopyPerRun: a run that may still send has not sent yet.
CopyInv ==
  /\ \A j \in Jobs : Started(job[j])
  /\ \A r \in Recipients : arrived[r] <= Cardinality(Spent(r))

LEMMA RunsFinite == IsFiniteSet(Jobs \X (1..MaxTries))
<1>1. IsFiniteSet(1..MaxTries)
  BY BroadcastAssumption, FS_Interval
<1> QED BY <1>1, BroadcastAssumption, FS_Product

LEMMA SpentFinite ==
  ASSUME NEW S \in SUBSET Runs
  PROVE  IsFiniteSet(S) /\ Cardinality(S) \in Nat
<1>1. S \in SUBSET (Jobs \X (1..MaxTries))
  BY DEF Runs
<1> QED BY <1>1, RunsFinite, FS_Subset, FS_CardinalityType

\* A run that goes on, or gives way to the next one, remains spent.
LEMMA SpentGrows ==
  ASSUME TypeInv, NEW j \in Jobs, Moves(j), NEW r,
         \/ job'[j].tries = job[j].tries /\ (MaySend(j, r)' => MaySend(j, r))
         \/ job[j].tries < job'[j].tries
  PROVE  Spent(r) \subseteq Spent(r)'
<1> SUFFICES ASSUME NEW run \in Spent(r) PROVE run \in Spent(r)'
  OBVIOUS
<1>1. /\ run \in Jobs \X (1..MaxTries) /\ run[1] \in Jobs /\ run[2] \in Nat
      /\ run[2] <= job[run[1]].tries
      /\ run[2] < job[run[1]].tries \/ ~MaySend(run[1], r)
  BY DEF Spent, Runs
<1>2. CASE run[1] # j
  <2>1. job'[run[1]] = job[run[1]]
    BY <1>1, <1>2 DEF Moves
  <2> QED BY <1>1, <2>1 DEF Spent, Runs, MaySend, At
<1>3. CASE run[1] = j
  <2>1. job[j].tries \in Nat /\ job'[j].tries \in Nat
    BY SMTT(30) DEF Moves, TypeInv, TypeOK, Run
  <2> QED BY <1>1, <1>3, <2>1 DEF Spent, Runs
<1> QED BY <1>2, <1>3

\* The steps that deal with no recipient.
LEMMA QuietRun ==
  ASSUME TypeInv, AllBalanced, NEW j \in Jobs, Started(job[j]),
         \/ SendAd(j) \/ Enqueued(j) \/ EnqueueFails(j) \/ LoadMissing(j) \/ Loaded(j)
         \/ LoadedNobody(j) \/ BotFound(j) \/ BotMissing(j) \/ AllBotsDone(j)
         \/ (Flooded(j) /\ job[j].attempt < MaxRetries)
         \/ Flushed(j) \/ LastFlushed(j)
         \/ StatsWritten(j) \/ Completed(j) \/ Raises(j) \/ CrashReported(j)
         \/ Killed(j) \/ TimedOut(j)
  PROVE  /\ Moves(j) /\ arrived' = arrived
         /\ Started(job'[j])
         /\ \A r : \/ job'[j].tries = job[j].tries /\ (MaySend(j, r)' => MaySend(j, r))
                   \/ job[j].tries < job'[j].tries
<1>0. /\ arrived' = arrived
      /\ Moves(j) /\ job'[j].tries \in 0..MaxTries /\ job[j].tries \in 0..MaxTries
      /\ MaxTries \in Nat \ {0}
  <2>1. arrived' = arrived
    BY DEF SendAd, Enqueued, EnqueueFails, LoadMissing, Loaded, LoadedNobody, BotFound,
           BotMissing, AllBotsDone, Flooded, Flushed, LastFlushed, StatsWritten, Completed,
           Raises, CrashReported, Killed, TimedOut, ChatsSame
  <2>2. Moves(j)
    BY JobMoves DEF Proceed
  <2> QED BY <2>1, <2>2, BroadcastAssumption DEF Moves, TypeInv, TypeOK, Run
<1>1. CASE \/ SendAd(j) \/ EnqueueFails(j) \/ LoadMissing(j) \/ LoadedNobody(j) \/ AllBotsDone(j)
           \/ StatsWritten(j) \/ Completed(j) \/ CrashReported(j) \/ TimedOut(j)
  <2>1. PICK pc \in Points :
          /\ Goto(j, pc) /\ (pc = "send" => job[j].todo # {})
          /\ pc \in {"idle", "enqueue"} => job[j].pc = "idle"
          /\ pc \notin {"idle", "enqueue", "over"} => job[j].pc \in {"bot", "stats"}
          /\ pc # "queued"
    BY <1>1, AfterIsSound DEF SendAd, EnqueueFails, LoadMissing, LoadedNobody, AllBotsDone,
         StatsWritten, Completed, CrashReported, TimedOut, Points, At
  <2>2. /\ job'[j].pc = pc /\ job'[j].tries = job[j].tries
        /\ job'[j].rest = job[j].rest /\ job'[j].todo = job[j].todo
    BY <2>1, GotoStep
  <2> QED BY <1>0, <2>1, <2>2 DEF Started, MaySend, At
<1>2. CASE Enqueued(j)
  <2>1. Becomes(j, NewRun("queued", 1)) /\ job[j].tries = 0
    BY <1>2 DEF Enqueued, At, Started
  <2>2. 1 \in 0..MaxTries /\ "queued" \in Points \ {"send"}
    BY <1>0 DEF Points
  <2>3. /\ job'[j].pc = "queued" /\ job'[j].tries = 1 /\ job'[j].rest = {} /\ job'[j].todo = {}
    BY <2>1, <2>2, NewRunStep
  <2> QED BY <1>0, <2>1, <2>3 DEF Started
<1>3. CASE Killed(j)
  <2>1. PICK pc \in {"queued", "over"} :
          \/ pc = "queued" /\ job[j].tries < MaxTries /\ Becomes(j, NewRun(pc, job[j].tries + 1))
          \/ pc = "over" /\ Becomes(j, NewRun(pc, job[j].tries))
    BY <1>3 DEF Killed
  <2>2. pc \in Points \ {"send"}
    BY DEF Points
  <2>3. CASE pc = "queued" /\ job[j].tries < MaxTries /\ Becomes(j, NewRun(pc, job[j].tries + 1))
    <3>1. job[j].tries + 1 \in 0..MaxTries
      BY <1>0, <2>3
    <3>2. /\ job'[j].pc = pc /\ job'[j].tries = job[j].tries + 1
          /\ job'[j].rest = {} /\ job'[j].todo = {}
      BY <2>2, <2>3, <3>1, NewRunStep
    <3> QED BY <1>0, <2>3, <3>2 DEF Started
  <2>4. CASE pc = "over" /\ Becomes(j, NewRun(pc, job[j].tries))
    <3>1. /\ job'[j].pc = pc /\ job'[j].tries = job[j].tries
          /\ job'[j].rest = {} /\ job'[j].todo = {}
      BY <1>0, <2>2, <2>4, NewRunStep
    <3> QED BY <1>0, <2>4, <3>1 DEF Started, MaySend, At
  <2> QED BY <2>1, <2>3, <2>4
<1>4. CASE Loaded(j)
  <2>1. At(j, "queued") /\ job[j].tries # 0
    BY <1>4 DEF Loaded, At, Started
  <2>2. job'[j].pc = "bot" /\ job'[j].tries = job[j].tries /\ job'[j].todo = {}
    BY <1>4, LoadStep
  <2> QED BY <1>0, <2>1, <2>2 DEF Started, MaySend
<1>5. CASE BotFound(j) \/ BotMissing(j)
  <2>1. job[j].pc = "bot" /\ job[j].todo = {}
    BY <1>5 DEF BotFound, BotMissing, At, AllBalanced, Balanced
  <2>2. PICK mine \in SUBSET job[j].rest :
          /\ job'[j].tries = job[j].tries
          /\ job'[j].rest = job[j].rest \ mine
          /\ job'[j].todo \in {mine, job[j].todo}
          /\ job'[j].pc \in {"send", "bot"}
    BY <1>5, BotStep
  <2> QED BY <1>0, <2>1, <2>2 DEF Started, MaySend, At
<1>6. CASE Flooded(j) /\ job[j].attempt < MaxRetries
  <2>1. /\ job[j].pc = "send" /\ job'[j].pc = "send" /\ job'[j].tries = job[j].tries
        /\ job'[j].rest = job[j].rest /\ job'[j].todo = job[j].todo
    BY <1>6, FloodStep DEF Flooded, At
  <2> QED BY <1>0, <2>1 DEF Started, MaySend, At
<1>7. CASE Flushed(j) \/ LastFlushed(j)
  <2>1. /\ job'[j].pc \in {"complete", "stats", "bot", "send"}
        /\ job'[j].tries = job[j].tries
        /\ job'[j].rest = job[j].rest /\ job'[j].todo = job[j].todo
    BY <1>7, FlushStep, AfterIsSound
  <2>2. job[j].pc \in {"flush", "last_flush"}
    BY <1>7 DEF Flushed, LastFlushed, At
  <2> QED BY <1>0, <2>1, <2>2 DEF Started, MaySend, At
<1>8. CASE Raises(j)
  <2>1. /\ job'[j].pc = "crashed" /\ job'[j].tries = job[j].tries
        /\ \/ job'[j].rest = {} /\ job'[j].todo = {}
           \/ job'[j].rest = job[j].rest /\ job'[j].todo = job[j].todo
    BY <1>8, RaiseStep
  <2>2. job[j].pc \in {"queued", "bot", "complete"}
    BY <1>8 DEF Raises
  <2> QED BY <1>0, <2>1, <2>2 DEF Started, MaySend, At
<1> QED BY <1>1, <1>2, <1>3, <1>4, <1>5, <1>6, <1>7, <1>8

\* Every step keeps the number of copies within the number of spent runs.
LEMMA CopiesKept ==
  ASSUME BaseInv, BaseInv', CopyInv, [Next]_vars
  PROVE  CopyInv'
<1>0. /\ TypeInv /\ AllBalanced /\ TypeOK'
      /\ \A r \in Recipients : arrived[r] \in Nat /\ arrived'[r] \in Nat
      /\ \A r \in Recipients : arrived[r] <= Cardinality(Spent(r))
      /\ \A r : Spent(r) \in SUBSET Runs
  BY DEF BaseInv, TypeInv, TypeOK, CopyInv, Spent
<1>1. ASSUME NEW r \in Recipients, Spent(r) \subseteq Spent(r)'
      PROVE  Cardinality(Spent(r)) <= Cardinality(Spent(r)') /\ IsFiniteSet(Spent(r))
             /\ IsFiniteSet(Spent(r)') /\ Cardinality(Spent(r)) \in Nat
             /\ Cardinality(Spent(r)') \in Nat
  <2>1. IsFiniteSet(Spent(r)') /\ Cardinality(Spent(r)') \in Nat
    <3>1. Spent(r)' \in SUBSET (Jobs \X (1..MaxTries))
      BY DEF Spent, Runs
    <3>2. IsFiniteSet(Jobs \X (1..MaxTries))
      BY RunsFinite
    <3> QED BY <3>1, <3>2, FS_Subset, FS_CardinalityType
  <2>2. Cardinality(Spent(r)) <= Cardinality(Spent(r)')
    BY <1>1, <2>1, FS_Subset
  <2> QED BY <1>0, <2>1, <2>2, SpentFinite
<1>2. ASSUME NEW j \in Jobs, Moves(j), Started(job'[j]),
             \A r \in Recipients : Spent(r) \subseteq Spent(r)',
             \A r \in Recipients : \/ arrived'[r] = arrived[r]
                                   \/ arrived'[r] = arrived[r] + 1 /\ Spent(r) # Spent(r)'
      PROVE  CopyInv'
  <2>1. \A k \in Jobs : Started(job'[k])
    BY <1>2 DEF Moves, CopyInv
  <2>2. ASSUME NEW r \in Recipients PROVE arrived'[r] <= Cardinality(Spent(r)')
    <3>1. /\ Cardinality(Spent(r)) <= Cardinality(Spent(r)')
          /\ IsFiniteSet(Spent(r)')
          /\ Cardinality(Spent(r)) \in Nat /\ Cardinality(Spent(r)') \in Nat
      BY <1>1, <1>2
    <3>2. CASE arrived'[r] = arrived[r]
      BY <1>0, <3>1, <3>2
    <3>3. CASE arrived'[r] = arrived[r] + 1 /\ Spent(r) # Spent(r)'
      <4>1. Spent(r) \in SUBSET Spent(r)'
        BY <1>2
      <4>2. Cardinality(Spent(r)) # Cardinality(Spent(r)')
        BY <3>1, <3>3, <4>1, FS_Subset
      <4> QED BY <1>0, <3>1, <3>3, <4>2
    <3> QED BY <1>2, <3>2, <3>3
  <2> QED BY <2>1, <2>2 DEF CopyInv
<1>3. ASSUME NEW j \in Jobs,
             \/ SendAd(j) \/ Enqueued(j) \/ EnqueueFails(j) \/ LoadMissing(j) \/ Loaded(j)
             \/ LoadedNobody(j) \/ BotFound(j) \/ BotMissing(j) \/ AllBotsDone(j)
             \/ (Flooded(j) /\ job[j].attempt < MaxRetries)
             \/ Flushed(j) \/ LastFlushed(j)
             \/ StatsWritten(j) \/ Completed(j) \/ Raises(j) \/ CrashReported(j)
             \/ Killed(j) \/ TimedOut(j)
      PROVE  CopyInv'
  <2>1. Started(job[j])
    BY DEF CopyInv
  <2>2. /\ Moves(j) /\ arrived' = arrived
        /\ Started(job'[j])
        /\ \A r : \/ job'[j].tries = job[j].tries /\ (MaySend(j, r)' => MaySend(j, r))
                  \/ job[j].tries < job'[j].tries
    BY <1>0, <1>3, <2>1, QuietRun
  <2>3. \A r \in Recipients : Spent(r) \subseteq Spent(r)'
    BY <1>0, <2>2, SpentGrows
  <2> QED BY <1>2, <2>2, <2>3
<1>4. ASSUME NEW j \in Jobs,
             \/ Sent(j) \/ SilentlyNotSent(j) \/ Forbidden(j) \/ SendRaises(j)
             \/ (Flooded(j) /\ ~(job[j].attempt < MaxRetries))
      PROVE  CopyInv'
  <2>1. /\ At(j, "send") /\ To(j) \in job[j].todo /\ To(j) \in Recipients /\ Moves(j)
        /\ Arrives(To(j)) \/ ChatsSame
    BY <1>0, <1>4, SendStep
  <2>2. PICK count \in {"sent", "failed"}, id \in Nat : Dealt(j, count, id)
    BY <1>0, <1>4, SendStep
  <2>3. /\ job'[j].pc \in {"flush", "stats", "bot", "send"}
        /\ job'[j].tries = job[j].tries
        /\ job'[j].rest = job[j].rest /\ job'[j].todo = job[j].todo \ {To(j)}
    BY <1>0, <2>1, <2>2, DealtStep
  <2>4. /\ Started(job[j]) /\ job[j].tries \in 0..MaxTries /\ job[j].tries # 0
        /\ MaxTries \in Nat
    BY <1>0, <2>1, BroadcastAssumption DEF CopyInv, Started, At, TypeInv, TypeOK, Run
  <2>5. Started(job'[j])
    BY <2>3, <2>4 DEF Started
  <2>6. \A r : MaySend(j, r)' => MaySend(j, r)
    BY <2>3 DEF MaySend, At
  <2>7. \A r \in Recipients : Spent(r) \subseteq Spent(r)'
    BY <1>0, <2>1, <2>3, <2>6, SpentGrows
  <2>8. ASSUME NEW r \in Recipients, r = To(j) PROVE Spent(r) # Spent(r)'
    <3> DEFINE run == <<j, job[j].tries>>
    <3>1. run \in Jobs \X (1..MaxTries) /\ run[1] = j /\ run[2] = job[j].tries
      BY <2>4
    <3>2. MaySend(j, r) /\ run \notin Spent(r)
      BY <2>1, <2>4, <2>8, <3>1 DEF MaySend, Spent
    <3>3. ~MaySend(j, r)'
      BY <2>1, <2>3, <2>4, <2>8 DEF MaySend, At, Started
    <3> HIDE DEF run
    <3>4. run \in Spent(r)'
      BY <2>3, <2>4, <3>1, <3>3 DEF Spent, Runs
    <3> QED BY <3>2, <3>4
  <2>9. PICK to \in Recipients : to = To(j)
    BY <2>1
  <2>10. \A r \in Recipients : r # to => arrived'[r] = arrived[r]
    BY <1>0, <2>1, <2>9, OneArrives DEF ChatsSame, BaseInv, TypeInv
  <2>11. arrived'[to] \in {arrived[to], arrived[to] + 1} /\ Spent(to) # Spent(to)'
    BY <1>0, <2>1, <2>8, <2>9, OneArrives DEF ChatsSame, BaseInv, TypeInv
  <2> QED BY <1>2, <2>1, <2>5, <2>7, <2>10, <2>11
<1>5. CASE Delete \/ UNCHANGED vars
  <2>1. arrived' = arrived /\ job' = job
    BY <1>5 DEF Delete, DeleteAd, MessageDeleted, AdDeleted, DeleteFails, ChatsSame, vars
  <2>2. \A r : Spent(r)' = Spent(r)
    BY <2>1 DEF Spent, Runs, MaySend, At
  <2> QED BY <2>1, <2>2 DEF CopyInv
<1> QED BY <1>3, <1>4, <1>5 DEF Next, Proceed

LEMMA CopyInvariant == Spec => []CopyInv
<1>1. Init => CopyInv
  <2> SUFFICES ASSUME Init PROVE CopyInv
    OBVIOUS
  <2>1. \A j \in Jobs : Started(job[j])
    BY DEF Init, NewRun, Started
  <2>2. ASSUME NEW r \in Recipients PROVE arrived[r] <= Cardinality(Spent(r))
    <3>1. Spent(r) \in SUBSET Runs
      BY DEF Spent
    <3>2. arrived[r] = 0 /\ Cardinality(Spent(r)) \in Nat
      BY <2>2, <3>1, SpentFinite DEF Init
    <3> QED BY <3>2
  <2> QED BY <2>1, <2>2 DEF CopyInv
<1>2. BaseInv /\ BaseInv' /\ CopyInv /\ [Next]_vars => CopyInv'
  BY CopiesKept
<1> QED BY <1>1, <1>2, BaseInvariant, PTL DEF Spec

\* A run of a job puts at most one copy of the ad into a chat, whatever floods, errors
\* after the message arrived, crashes, timeouts and re-runs there are, and however
\* many jobs send the ad (the send loop of broadcast_ad, and ARQ's retries).
THEOREM OneCopy == Spec => []OneCopyPerRun
<1>1. CopyInv /\ BaseInv => OneCopyPerRun
  <2> SUFFICES ASSUME CopyInv, BaseInv, NEW r \in Recipients
               PROVE  arrived[r] <= Cardinality(Runs)
    BY DEF OneCopyPerRun
  <2>1. Spent(r) \in SUBSET Runs /\ IsFiniteSet(Runs)
    BY SpentFinite DEF Spent
  <2>2. Cardinality(Spent(r)) <= Cardinality(Runs)
    BY <2>1, FS_Subset
  <2>3. Cardinality(Spent(r)) \in Nat /\ Cardinality(Runs) \in Nat
    BY <2>1, SpentFinite
  <2>4. arrived[r] \in Nat /\ arrived[r] <= Cardinality(Spent(r))
    BY DEF CopyInv, BaseInv, TypeInv, TypeOK
  <2> QED BY <2>2, <2>3, <2>4
<1> QED BY <1>1, CopyInvariant, BaseInvariant, PTL

-----------------------------------------------------------------------------
(* Without faults: messages on record *)

LEMMA RecordedJoined ==
  ASSUME NEW s \in Seq(Delivery), NEW t \in Seq(Delivery)
  PROVE  Recorded(s) \cup Recorded(t) \subseteq Recorded(s \o t)
<1>1. ASSUME NEW i \in DOMAIN s PROVE i \in DOMAIN (s \o t) /\ (s \o t)[i] = s[i]
  OBVIOUS
<1>2. ASSUME NEW i \in DOMAIN t
      PROVE  Len(s) + i \in DOMAIN (s \o t) /\ (s \o t)[Len(s) + i] = t[i]
  OBVIOUS
<1> QED BY <1>1, <1>2 DEF Recorded

LEMMA RecordedAppended ==
  ASSUME NEW s \in Seq(Delivery), NEW d \in Delivery
  PROVE  Recorded(s) \cup {<<d.to, d.id>>} \subseteq Recorded(Append(s, d))
BY AppendedLog DEF Recorded

\* An ad that is gone does not come back.
LEMMA GoneForEver ==
  ASSUME TypeOK, [Next]_vars, Exists'
  PROVE  Exists
<1>1. CASE Delete \/ UNCHANGED vars
  <2>1. ad' = ad \/ ad' = [ad EXCEPT !.status = "gone"]
    BY <1>1 DEF Delete, DeleteAd, MessageDeleted, AdDeleted, DeleteFails, vars
  <2> QED BY <2>1 DEF Exists, TypeOK
<1>2. ASSUME NEW j \in Jobs, SendAd(j) \/ Proceed(j) \/ Killed(j) \/ TimedOut(j)
      PROVE  Exists
  BY <1>2 DEF SendAd, Proceed, Killed, TimedOut, Enqueued, EnqueueFails, LoadMissing, Loaded,
       LoadedNobody, BotFound, BotMissing, AllBotsDone, Sent, SilentlyNotSent, Flooded,
       Forbidden, SendRaises, Flushed, StatsWritten, LastFlushed, Completed, Raises,
       CrashReported, UpdateAd, Exists
<1> QED BY <1>1, <1>2 DEF Next

\* A run that has not been loaded has nothing in its buffer, so starting it, the one
\* step that drops a buffer unseen, drops nothing.
ChatInv ==
  /\ MessagesOnRecord
  /\ \A j \in Jobs : job[j].pc \in {"idle", "enqueue", "queued"} => job[j].buffer = <<>>

\* What is on record in the rows and the buffers.
OnRecord == Recorded(rows) \cup UNION {Recorded(job[j].buffer) : j \in Jobs}

LEMMA OnRecordKept ==
  ASSUME TypeOK, MessagesOnRecord, [Next]_vars, chats' \subseteq chats, OnRecord \subseteq OnRecord'
  PROVE  MessagesOnRecord'
<1> SUFFICES ASSUME Exists' PROVE chats' \subseteq OnRecord'
  BY DEF MessagesOnRecord, OnRecord
<1>1. Exists
  BY GoneForEver
<1> QED BY <1>1 DEF MessagesOnRecord, OnRecord

LEMMA ChatsKept ==
  ASSUME Faults = {}, BaseInv, BaseInv', ChatInv, [Next]_vars
  PROVE  ChatInv'
<1>0. TypeInv /\ TypeOK /\ TypeOK' /\ MessagesOnRecord
  BY DEF BaseInv, TypeInv, ChatInv
<1>1. ASSUME NEW j \in Jobs,
             \/ SendAd(j) \/ Enqueued(j) \/ EnqueueFails(j) \/ LoadMissing(j) \/ Loaded(j)
             \/ LoadedNobody(j) \/ BotFound(j) \/ BotMissing(j) \/ AllBotsDone(j)
             \/ (Flooded(j) /\ job[j].attempt < MaxRetries)
             \/ StatsWritten(j) \/ Completed(j) \/ CrashReported(j)
      PROVE  ChatInv'
  <2>1. /\ UNCHANGED <<rows, chats>> /\ Moves(j)
        /\ job'[j].buffer = job[j].buffer \/ Enqueued(j) \/ Loaded(j)
    <3>1. ~Killed(j) /\ ~Raises(j)
      BY DEF Killed, Raises
    <3> QED BY <1>0, <1>1, <3>1, QuietStep
  <2>2. Enqueued(j) \/ Loaded(j) => job[j].buffer = <<>> /\ job'[j].buffer = <<>>
    <3>1. Enqueued(j) \/ Loaded(j) => job[j].buffer = <<>>
      BY DEF Enqueued, Loaded, At, ChatInv
    <3>2. Enqueued(j) \/ Loaded(j) => job'[j].buffer \in {job[j].buffer, <<>>}
      BY <1>0, QuietStep
    <3> QED BY <3>1, <3>2
  <2>3. job'[j].buffer = job[j].buffer
    BY <2>1, <2>2
  <2>4. OnRecord' = OnRecord
    BY <2>1, <2>3 DEF OnRecord, Recorded, Moves
  <2>5. job'[j].pc \in {"idle", "enqueue", "queued"} =>
          job[j].pc \in {"idle", "enqueue", "queued"}
    <3>1. ~Killed(j)
      BY DEF Killed
    <3> QED BY <1>0, <1>1, <3>1, QuietStep
  <2>6. \A k \in Jobs : job'[k].pc \in {"idle", "enqueue", "queued"} => job'[k].buffer = <<>>
    BY <2>1, <2>3, <2>5 DEF Moves, ChatInv
  <2> QED BY <1>0, <2>1, <2>4, <2>6, OnRecordKept DEF ChatInv
<1>2. ASSUME NEW j \in Jobs,
             \/ Sent(j) \/ SilentlyNotSent(j) \/ Forbidden(j)
             \/ (Flooded(j) /\ ~(job[j].attempt < MaxRetries))
      PROVE  ChatInv'
  <2>1. At(j, "send") /\ To(j) \in Recipients /\ Moves(j) /\ rows' = rows
    BY <1>0, <1>2, SendStep
  <2>2. PICK count \in {"sent", "failed"}, id \in Nat :
          /\ Dealt(j, count, id)
          /\ ChatsSame \/ (Arrives(To(j)) /\ id = arrived[To(j)] + 1)
    <3>1. ~SendRaises(j)
      BY DEF SendRaises
    <3> QED BY <1>0, <1>2, <3>1, SendStep
  <2> DEFINE d == [to |-> To(j), id |-> id, is_sent |-> count = "sent"]
  <2>3. /\ d \in Delivery /\ d.to = To(j) /\ d.id = id
        /\ job'[j].buffer = Append(job[j].buffer, d)
        /\ job'[j].pc \in {"flush", "stats", "bot", "send"}
    BY <1>0, <2>1, <2>2, DealtStep
  <2> HIDE DEF d
  <2>4. Recorded(job[j].buffer) \cup {<<d.to, d.id>>} \subseteq Recorded(Append(job[j].buffer, d))
    BY <1>0, <2>3, BufferType, RecordedAppended
  <2>5. OnRecord \cup {<<To(j), id>>} \subseteq OnRecord'
    <3>1. Recorded(rows)' = Recorded(rows)
      BY <2>1 DEF Recorded
    <3>2. Recorded(job[j].buffer)' = Recorded(Append(job[j].buffer, d))
      BY <2>3 DEF Recorded
    <3>3. \A k \in Jobs : k # j => Recorded(job[k].buffer)' = Recorded(job[k].buffer)
      BY <2>1 DEF Moves, Recorded
    <3> QED BY <2>3, <2>4, <3>1, <3>2, <3>3, ZenonT(60) DEF OnRecord
  <2>6. chats' \subseteq chats \cup {<<To(j), id>>}
    BY <1>0, <2>1, <2>2, OneArrives DEF ChatsSame
  <2>7. MessagesOnRecord'
    <3> SUFFICES ASSUME Exists' PROVE chats' \subseteq OnRecord'
      BY DEF MessagesOnRecord, OnRecord
    <3>1. Exists
      BY <1>0, GoneForEver
    <3>2. chats \subseteq OnRecord
      BY <1>0, <3>1 DEF MessagesOnRecord, OnRecord
    <3> QED BY <2>5, <2>6, <3>2
  <2>8. \A k \in Jobs : job'[k].pc \in {"idle", "enqueue", "queued"} => job'[k].buffer = <<>>
    BY <2>1, <2>3 DEF Moves, ChatInv
  <2> QED BY <2>7, <2>8 DEF ChatInv
<1>3. ASSUME NEW j \in Jobs, Flushed(j) \/ LastFlushed(j)
      PROVE  ChatInv'
  <2>1. /\ Moves(j) /\ job'[j].buffer = <<>>
    BY <1>0, <1>3, FlushStep
  <2>2. chats' = chats /\ ad' = ad /\ rows' = IF Exists THEN rows \o job[j].buffer ELSE rows
    BY <1>3 DEF Flushed, LastFlushed, FlushRows, ChatsSame
  <2>3. MessagesOnRecord'
    <3> SUFFICES ASSUME Exists' PROVE chats' \subseteq OnRecord'
      BY DEF MessagesOnRecord, OnRecord
    <3>1. Exists
      BY <1>0, GoneForEver
    <3>2. chats \subseteq OnRecord
      BY <1>0, <3>1 DEF MessagesOnRecord, OnRecord
    <3>3. Recorded(rows)' = Recorded(rows \o job[j].buffer)
      BY <2>2, <3>1 DEF Recorded
    <3>4. Recorded(rows) \cup Recorded(job[j].buffer) \subseteq Recorded(rows \o job[j].buffer)
      BY <1>0, BufferType, RecordedJoined
    <3>5. \A k \in Jobs : k # j => Recorded(job[k].buffer)' = Recorded(job[k].buffer)
      BY <2>1 DEF Moves, Recorded
    <3> QED BY <2>2, <3>2, <3>3, <3>4, <3>5 DEF OnRecord
  <2>4. \A k \in Jobs : job'[k].pc \in {"idle", "enqueue", "queued"} => job'[k].buffer = <<>>
    BY <2>1 DEF Moves, ChatInv
  <2> QED BY <2>3, <2>4 DEF ChatInv
<1>4. CASE Delete \/ UNCHANGED vars
  <2>1. job' = job
    BY <1>4 DEF Delete, DeleteAd, MessageDeleted, AdDeleted, DeleteFails, vars
  <2>2. \A j \in Jobs : job'[j].pc \in {"idle", "enqueue", "queued"} => job'[j].buffer = <<>>
    BY <2>1 DEF ChatInv
  <2>3. CASE AdDeleted
    BY <2>2, <2>3 DEF AdDeleted, ChatInv, MessagesOnRecord, Exists, TypeOK
  <2>4. CASE ~AdDeleted
    <3>1. rows' = rows /\ chats' \subseteq chats
      BY <1>4, <2>4 DEF Delete, DeleteAd, MessageDeleted, DeleteFails, vars, ChatsSame
    <3>2. OnRecord' = OnRecord
      BY <2>1, <3>1 DEF OnRecord, Recorded
    <3> QED BY <1>0, <2>2, <3>1, <3>2, OnRecordKept DEF ChatInv
  <2> QED BY <2>3, <2>4
<1>5. ASSUME NEW j \in Jobs PROVE ~Raises(j) /\ ~SendRaises(j) /\ ~Killed(j) /\ ~TimedOut(j)
  BY DEF Raises, SendRaises, Killed, TimedOut
<1> QED BY <1>1, <1>2, <1>3, <1>4, <1>5 DEF Next, Proceed

\* While the database and Telegram answer, every message in a chat is known to the rows
\* or to a running job, however the jobs of an ad, its floods, blocked recipients,
\* missing bots and its deletion interleave (broadcast_ad, delete_with_messages).
THEOREM MessagesKnown ==
  ASSUME Faults = {}
  PROVE  Spec => []MessagesOnRecord
<1>1. Init => ChatInv
  BY DEF Init, ChatInv, MessagesOnRecord, NewRun
<1>2. BaseInv /\ BaseInv' /\ ChatInv /\ [Next]_vars => ChatInv'
  BY ChatsKept
<1>3. ChatInv => MessagesOnRecord
  BY DEF ChatInv
<1> QED BY <1>1, <1>2, <1>3, BaseInvariant, PTL DEF Spec

-----------------------------------------------------------------------------
(* Without faults: the report of a broadcast that was requested once *)

SentIn(dls) == {i \in DOMAIN dls : dls[i].is_sent}

Counted(dls) == Cardinality(SentIn(dls))

LEMMA CountedType ==
  ASSUME NEW s \in Seq(Delivery)
  PROVE  IsFiniteSet(SentIn(s)) /\ Counted(s) \in Nat
<1>1. DOMAIN s = 1..Len(s) /\ Len(s) \in Nat
  OBVIOUS
<1>2. IsFiniteSet(1..Len(s))
  BY <1>1, FS_Interval
<1>3. SentIn(s) \in SUBSET (1..Len(s))
  BY <1>1 DEF SentIn
<1> QED BY <1>2, <1>3, FS_Subset, FS_CardinalityType DEF Counted

LEMMA CountedEmpty == Counted(<<>>) = 0
<1>1. SentIn(<<>>) = {}
  BY DEF SentIn
<1> QED BY <1>1, FS_EmptySet DEF Counted

LEMMA CountedAppended ==
  ASSUME NEW s \in Seq(Delivery), NEW d \in Delivery
  PROVE  Counted(Append(s, d)) = IF d.is_sent THEN Counted(s) + 1 ELSE Counted(s)
<1>1. d.is_sent \in BOOLEAN
  BY DEF Delivery
<1>2. IsFiniteSet(SentIn(s)) /\ Len(s) + 1 \notin SentIn(s)
  BY CountedType, AppendedLog DEF SentIn
<1>3. CASE d.is_sent
  <2>1. SentIn(Append(s, d)) = SentIn(s) \cup {Len(s) + 1}
    BY <1>3, AppendedLog DEF SentIn
  <2> QED BY <1>2, <1>3, <2>1, FS_AddElement DEF Counted
<1>4. CASE ~d.is_sent
  <2>1. SentIn(Append(s, d)) = SentIn(s)
    BY <1>4, AppendedLog DEF SentIn
  <2> QED BY <1>4, <2>1 DEF Counted
<1> QED BY <1>3, <1>4

LEMMA CountedJoined ==
  ASSUME NEW s \in Seq(Delivery), NEW t \in Seq(Delivery)
  PROVE  Counted(s \o t) = Counted(s) + Counted(t)
<1> DEFINE moved == {i \in SentIn(s \o t) : i \notin DOMAIN s}
           shift == [i \in SentIn(t) |-> Len(s) + i]
<1>1. /\ Len(s) \in Nat /\ Len(t) \in Nat /\ DOMAIN s = 1..Len(s) /\ DOMAIN t = 1..Len(t)
      /\ DOMAIN (s \o t) = 1..(Len(s) + Len(t))
      /\ \A i \in 1..Len(s) : (s \o t)[i] = s[i]
      /\ \A i \in 1..Len(t) : (s \o t)[Len(s) + i] = t[i]
  OBVIOUS
<1>2. \A i \in SentIn(t) : shift[i] \in moved
  BY <1>1 DEF SentIn
<1>3. \A i \in moved : i - Len(s) \in SentIn(t) /\ shift[i - Len(s)] = i
  BY <1>1, JoinedLog DEF SentIn
<1>4. \A i, k \in SentIn(t) : shift[i] = shift[k] => i = k
  BY <1>1 DEF SentIn
<1>5. shift \in Bijection(SentIn(t), moved)
  <2>1. shift \in [SentIn(t) -> moved]
    BY <1>2
  <2>2. \A m \in moved : \E i \in SentIn(t) : shift[i] = m
    BY <1>3
  <2> HIDE DEF shift, moved
  <2>3. shift \in Injection(SentIn(t), moved) /\ shift \in Surjection(SentIn(t), moved)
    BY <1>4, <2>1, <2>2 DEF Injection, IsInjective, Surjection
  <2> QED BY <2>3 DEF Bijection
<1>6. SentIn(s \o t) = SentIn(s) \cup moved /\ SentIn(s) \cap moved = {}
  BY <1>1 DEF SentIn
<1> HIDE DEF shift, moved
<1>7. IsFiniteSet(SentIn(s)) /\ IsFiniteSet(SentIn(t))
  BY CountedType
<1>8. IsFiniteSet(moved) /\ Cardinality(moved) = Counted(t)
  <2>1. ExistsBijection(SentIn(t), moved)
    BY <1>5 DEF ExistsBijection
  <2> QED BY <1>7, <2>1, FS_Bijection DEF Counted
<1>9. Cardinality(SentIn(s) \cup moved) = Counted(s) + Counted(t) - Cardinality({})
  BY <1>6, <1>7, <1>8, FS_Union DEF Counted
<1>10. Counted(s) \in Nat /\ Counted(t) \in Nat /\ Cardinality({}) = 0
  BY CountedType, FS_EmptySet
<1> QED BY <1>6, <1>9, <1>10 DEF Counted

\* The jobs that were requested.
Requested == {j \in Jobs : ~At(j, "idle")}

SendPoints == {"bot", "send", "flush", "stats", "last_flush", "complete"}

AddsUp ==
  /\ ad.sent + ad.failed = ad.total
  /\ ad.sent = Counted(rows)

\* What the only job of an ad leaves in the row of the ad and in its deliveries: its
\* count of those it sent to is that of the rows and of its buffer.
OnlyJob(j) ==
  Exists =>
    /\ job[j].pc \in {"enqueue", "queued"} =>
         /\ ad.status # "COMPLETED" /\ ad.total = 0 /\ ad.sent = 0 /\ ad.failed = 0
         /\ rows = <<>>
    /\ job[j].pc \in SendPoints =>
         /\ ad.status # "COMPLETED"
         /\ Counted(rows) + Counted(job[j].buffer) = job[j].sent
    /\ job[j].pc = "complete" => job[j].buffer = <<>>
    /\ job[j].pc = "over" /\ ad.status = "COMPLETED" => AddsUp

Untouched ==
  /\ ad.status # "COMPLETED" /\ ad.total = 0 /\ ad.sent = 0 /\ ad.failed = 0
  /\ rows = <<>>

AddInv ==
  /\ \A j \in Jobs : job[j].pc # "crashed"
  /\ Requested = {} => Untouched
  /\ \A j \in Jobs : Requested = {j} => OnlyJob(j)

\* The steps of one request: SendAd aside, they leave the set of requests alone.
LEMMA OneProceeds ==
  ASSUME TypeInv, AddInv, NEW j \in Jobs, Moves(j), job[j].pc # "idle",
         job'[j].pc \notin {"idle", "crashed"},
         Requested = {j} /\ OnlyJob(j) => OnlyJob(j)'
  PROVE  AddInv'
<1>1. Requested' = Requested /\ j \in Requested
  BY DEF Requested, At, Moves
<1>2. \A k \in Jobs : job'[k].pc # "crashed"
  BY DEF AddInv, Moves
<1>3. \A k \in Jobs : Requested = {k} => k = j
  BY <1>1
<1>4. \A k \in Jobs : (Requested = {k})' => OnlyJob(k)'
  BY <1>1, <1>3 DEF AddInv
<1> QED BY <1>1, <1>2, <1>4 DEF AddInv

\* What the steps do that report nothing.
LEMMA StillOnly ==
  ASSUME NEW j \in Jobs, OnlyJob(j), rows' = rows,
         Exists' => Exists /\ ad'.status # "COMPLETED",
         \/ /\ job[j].pc \in SendPoints \ {"complete"} /\ job'[j].pc \in SendPoints \ {"complete"}
            /\ job'[j].buffer = job[j].buffer /\ job'[j].sent = job[j].sent
         \/ job'[j].pc = "over"
  PROVE  OnlyJob(j)'
<1>1. Counted(rows') = Counted(rows)
  OBVIOUS
<1>2. CASE job'[j].pc = "over"
  BY <1>2 DEF OnlyJob, SendPoints
<1>3. CASE /\ job[j].pc \in SendPoints \ {"complete"} /\ job'[j].pc \in SendPoints \ {"complete"}
           /\ job'[j].buffer = job[j].buffer /\ job'[j].sent = job[j].sent
  <2>1. Counted(job'[j].buffer) = Counted(job[j].buffer)
    BY <1>3
  <2> QED BY <1>1, <1>3, <2>1 DEF OnlyJob, SendPoints
<1> QED BY <1>2, <1>3

\* The steps within the send loop that deal with no recipient.
LEMMA OnlyLoops ==
  ASSUME TypeInv, AddInv, NEW j \in Jobs,
         \/ BotFound(j) \/ BotMissing(j) \/ AllBotsDone(j) \/ StatsWritten(j)
         \/ (Flooded(j) /\ job[j].attempt < MaxRetries)
  PROVE  AddInv'
<1>1. /\ Moves(j) /\ rows' = rows
      /\ job[j].pc \in SendPoints \ {"complete"} /\ job'[j].pc \in SendPoints \ {"complete"}
      /\ job'[j].buffer = job[j].buffer /\ job'[j].sent = job[j].sent
  <2>1. CASE BotFound(j) \/ BotMissing(j)
    <3>1. job[j].pc = "bot" /\ rows' = rows
      BY <2>1 DEF BotFound, BotMissing, At
    <3> QED BY <2>1, <3>1, BotStep DEF SendPoints
  <2>2. CASE AllBotsDone(j)
    <3>1. job[j].pc = "bot" /\ rows' = rows /\ Goto(j, "last_flush") /\ "last_flush" \in Points
      BY <2>2 DEF AllBotsDone, At, Points
    <3> QED BY <3>1, GotoStep DEF SendPoints
  <2>3. CASE StatsWritten(j)
    <3>1. job[j].pc = "stats" /\ rows' = rows /\ Goto(j, AfterStats(job[j]))
      BY <2>3 DEF StatsWritten, At
    <3>2. PICK pc \in {"bot", "send"} :
            pc = AfterStats(job[j]) /\ (pc = "send" => job[j].todo # {})
      BY AfterIsSound
    <3>3. Goto(j, pc) /\ pc \in Points
      BY <3>1, <3>2 DEF Points
    <3> QED BY <3>1, <3>2, <3>3, GotoStep DEF SendPoints
  <2>4. CASE Flooded(j) /\ job[j].attempt < MaxRetries
    <3>1. job[j].pc = "send" /\ rows' = rows
      BY <2>4 DEF Flooded, At
    <3> QED BY <2>4, <3>1, FloodStep DEF SendPoints, Flooded
  <2> QED BY <2>1, <2>2, <2>3, <2>4
<1>2. ad' = ad \/ ad' = [ad EXCEPT !.sent = job[j].sent, !.failed = job[j].failed]
  BY DEF BotFound, BotMissing, AllBotsDone, StatsWritten, Flooded, UpdateAd
<1>3. ad'.status = ad.status
  BY <1>2 DEF TypeInv, TypeOK
<1>4. Requested = {j} /\ OnlyJob(j) => OnlyJob(j)'
  <2> SUFFICES ASSUME OnlyJob(j) PROVE OnlyJob(j)'
    OBVIOUS
  <2>1. Exists' => Exists /\ ad'.status # "COMPLETED"
    BY <1>1, <1>3 DEF Exists, OnlyJob, SendPoints
  <2> QED BY <1>1, <2>1, StillOnly
<1> QED BY <1>1, <1>4, OneProceeds DEF SendPoints

\* The steps before the send loop.
LEMMA OnlyStarts ==
  ASSUME TypeInv, AddInv, NEW j \in Jobs,
         Enqueued(j) \/ EnqueueFails(j) \/ LoadMissing(j) \/ Loaded(j) \/ LoadedNobody(j),
         Faults = {}
  PROVE  AddInv'
<1>1. rows' = rows /\ job[j].pc \in {"enqueue", "queued"}
  BY DEF Enqueued, EnqueueFails, LoadMissing, Loaded, LoadedNobody, At
<1>2. CASE Enqueued(j)
  <2>1. Becomes(j, NewRun("queued", 1)) /\ ad' = ad /\ job[j].pc = "enqueue"
    BY <1>2 DEF Enqueued, At
  <2>2. 1 \in 0..MaxTries /\ "queued" \in Points \ {"send"}
    BY BroadcastAssumption DEF Points
  <2>3. Moves(j) /\ job'[j].pc = "queued"
    BY <2>1, <2>2, NewRunStep
  <2>4. OnlyJob(j) => OnlyJob(j)'
    BY <1>1, <2>1, <2>3 DEF OnlyJob, Exists, SendPoints
  <2> QED BY <2>1, <2>3, <2>4, OneProceeds
<1>3. CASE EnqueueFails(j) \/ LoadMissing(j)
  <2>1. /\ Goto(j, "over") /\ "over" \in Points
        /\ \/ ad' = [ad EXCEPT !.status = "DRAFT"]
           \/ ad' = ad /\ ~Exists
    BY <1>3 DEF EnqueueFails, LoadMissing, UpdateAd, Points
  <2>2. Moves(j) /\ job'[j].pc = "over"
    BY <2>1, GotoStep
  <2>3. Exists' => ad'.status # "COMPLETED"
    BY <2>1 DEF Exists, TypeInv, TypeOK
  <2>4. OnlyJob(j)'
    BY <2>2, <2>3 DEF OnlyJob, SendPoints
  <2> QED BY <1>1, <2>2, <2>4, OneProceeds
<1>4. CASE Loaded(j)
  <2>1. Exists /\ ad' = [ad EXCEPT !.status = "SENDING"] /\ job[j].pc = "queued"
    BY <1>4 DEF Loaded, At
  <2>2. ad'.status = "SENDING"
    BY <2>1 DEF TypeInv, TypeOK
  <2>3. Moves(j) /\ job'[j].pc = "bot" /\ job'[j].buffer = <<>> /\ job'[j].sent = 0
    BY <1>4, LoadStep
  <2>4. OnlyJob(j) => OnlyJob(j)'
    <3> SUFFICES ASSUME OnlyJob(j) PROVE OnlyJob(j)'
      OBVIOUS
    <3>1. rows' = <<>>
      BY <1>1, <2>1 DEF OnlyJob
    <3>2. Counted(rows)' = 0 /\ Counted(job'[j].buffer) = 0
      BY <2>3, <3>1, CountedEmpty
    <3> QED BY <2>2, <2>3, <3>2 DEF OnlyJob
  <2> QED BY <2>1, <2>3, <2>4, OneProceeds
<1>5. CASE LoadedNobody(j)
  <2>1. /\ Exists /\ job[j].pc = "queued" /\ Goto(j, "over") /\ "over" \in Points
        /\ ad' \in {[ad EXCEPT !.status = "COMPLETED", !.total = 0],
                    [status |-> "COMPLETED", total |-> 0, sent |-> 0, failed |-> 0]}
    BY <1>5 DEF LoadedNobody, At, Points
  <2>2. Moves(j) /\ job'[j].pc = "over"
    BY <2>1, GotoStep
  <2>3. OnlyJob(j) => OnlyJob(j)'
    <3> SUFFICES ASSUME OnlyJob(j) PROVE OnlyJob(j)'
      OBVIOUS
    <3>1. ad.sent = 0 /\ ad.failed = 0 /\ rows = <<>>
      BY <2>1 DEF OnlyJob
    <3>2. ad'.sent = 0 /\ ad'.failed = 0 /\ ad'.total = 0
      <4> DEFINE done == [ad EXCEPT !.status = "COMPLETED"]
      <4>1. ad \in AdRow
        BY DEF TypeInv, TypeOK, AdRow
      <4>2. done \in AdRow /\ done.sent = ad.sent /\ done.failed = ad.failed
        BY <4>1 DEF AdRow
      <4>3. [ad EXCEPT !.status = "COMPLETED", !.total = 0] = [done EXCEPT !.total = 0]
        OBVIOUS
      <4> HIDE DEF done
      <4>4. CASE ad' = [done EXCEPT !.total = 0]
        BY <3>1, <4>2, <4>4 DEF AdRow
      <4>5. CASE ad' = [status |-> "COMPLETED", total |-> 0, sent |-> 0, failed |-> 0]
        BY <4>5
      <4> QED BY <2>1, <4>3, <4>4, <4>5
    <3>3. Counted(rows)' = 0
      BY <1>1, <3>1, CountedEmpty
    <3> QED BY <2>2, <3>2, <3>3 DEF OnlyJob, AddsUp, SendPoints
  <2> QED BY <2>1, <2>2, <2>3, OneProceeds
<1> QED BY <1>2, <1>3, <1>4, <1>5

\* A recipient is dealt with: the count of those sent to grows with the buffer.
LEMMA OnlySends ==
  ASSUME TypeInv, AddInv, NEW j \in Jobs,
         \/ Sent(j) \/ SilentlyNotSent(j) \/ Forbidden(j)
         \/ (Flooded(j) /\ ~(job[j].attempt < MaxRetries))
  PROVE  AddInv'
<1>1. At(j, "send") /\ To(j) \in Recipients /\ Moves(j) /\ rows' = rows
  BY SendStep
<1>2. PICK count \in {"sent", "failed"}, id \in Nat : Dealt(j, count, id)
  BY SendStep
<1> DEFINE d == [to |-> To(j), id |-> id, is_sent |-> count = "sent"]
<1>3. /\ d \in Delivery /\ d.is_sent = (count = "sent")
      /\ job'[j].buffer = Append(job[j].buffer, d)
      /\ job'[j].pc \in {"flush", "stats", "bot", "send"}
      /\ job'[j].sent = IF count = "sent" THEN job[j].sent + 1 ELSE job[j].sent
  BY <1>1, <1>2, DealtStep
<1> HIDE DEF d
<1>4. ad' = ad
  BY DEF Sent, SilentlyNotSent, Forbidden, Flooded
<1>5. /\ job[j].buffer \in Seq(Delivery) /\ rows \in Seq(Delivery) /\ job[j].sent \in Nat
      /\ Counted(job[j].buffer) \in Nat /\ Counted(rows) \in Nat
  <2>1. job[j].buffer \in Seq(Delivery) /\ rows \in Seq(Delivery) /\ job[j].sent \in Nat
    BY DEF TypeInv, TypeOK, Run
  <2> QED BY <2>1, CountedType
<1>6. Counted(job'[j].buffer) =
        IF count = "sent" THEN Counted(job[j].buffer) + 1 ELSE Counted(job[j].buffer)
  BY <1>3, <1>5, CountedAppended
<1>7. OnlyJob(j) => OnlyJob(j)'
  <2> SUFFICES ASSUME OnlyJob(j), Exists PROVE OnlyJob(j)'
    BY <1>4 DEF OnlyJob, Exists
  <2>1. ad.status # "COMPLETED" /\ Counted(rows) + Counted(job[j].buffer) = job[j].sent
    BY <1>1 DEF OnlyJob, At, SendPoints
  <2>2. Counted(rows)' = Counted(rows)
    BY <1>1
  <2>3. Counted(rows) + Counted(job'[j].buffer) = job'[j].sent
    BY <1>3, <1>5, <1>6, <2>1
  <2> QED BY <1>3, <1>4, <2>1, <2>2, <2>3 DEF OnlyJob, SendPoints
<1> QED BY <1>1, <1>3, <1>7, OneProceeds DEF At

\* The buffer becomes rows.
LEMMA OnlyFlushes ==
  ASSUME TypeInv, AddInv, NEW j \in Jobs, Flushed(j) \/ LastFlushed(j), Faults = {}
  PROVE  AddInv'
<1>1. /\ Moves(j) /\ job'[j].buffer = <<>> /\ job'[j].sent = job[j].sent
      /\ job'[j].pc \in SendPoints
  BY FlushStep, AfterIsSound DEF SendPoints
<1>2. /\ ad' = ad /\ rows' = IF Exists THEN rows \o job[j].buffer ELSE rows
      /\ job[j].pc \in {"flush", "last_flush"}
  BY DEF Flushed, LastFlushed, FlushRows, At
<1>3. OnlyJob(j) => OnlyJob(j)'
  <2> SUFFICES ASSUME OnlyJob(j), Exists PROVE OnlyJob(j)'
    BY <1>2 DEF OnlyJob, Exists
  <2>1. ad.status # "COMPLETED" /\ Counted(rows) + Counted(job[j].buffer) = job[j].sent
    BY <1>2 DEF OnlyJob, SendPoints
  <2>2. job[j].buffer \in Seq(Delivery) /\ rows \in Seq(Delivery)
    BY BufferType DEF TypeInv
  <2>3. Counted(rows)' = Counted(rows) + Counted(job[j].buffer) /\ Counted(job'[j].buffer) = 0
    BY <1>1, <1>2, <2>2, CountedJoined, CountedEmpty
  <2>4. Counted(rows) \in Nat /\ Counted(job[j].buffer) \in Nat
    BY <2>2, CountedType
  <2>5. Counted(rows)' + Counted(job'[j].buffer) = job'[j].sent
    BY <1>1, <2>1, <2>3, <2>4
  <2> QED BY <1>1, <1>2, <2>1, <2>5 DEF OnlyJob, SendPoints
<1> QED BY <1>1, <1>2, <1>3, OneProceeds DEF SendPoints

\* The report.
LEMMA OnlyCompletes ==
  ASSUME TypeInv, AllBalanced, AddInv, NEW j \in Jobs, Completed(j)
  PROVE  AddInv'
<1>1. Goto(j, "over") /\ "over" \in Points /\ job[j].pc = "complete" /\ rows' = rows
  BY DEF Completed, At, Points
<1>2. Moves(j) /\ job'[j].pc = "over"
  BY <1>1, GotoStep
<1>3. job[j].sent + job[j].failed = job[j].total
  <2>1. /\ job[j].sent + job[j].failed + Left(job[j]) = job[j].total
        /\ Left(job[j]) = Cardinality({}) + Cardinality({})
    BY <1>1 DEF AllBalanced, Balanced, Left
  <2>2. Left(job[j]) = 0
    BY <2>1, FS_EmptySet
  <2> QED BY <2>1, <2>2 DEF TypeInv, TypeOK, Run
<1>4. OnlyJob(j) => OnlyJob(j)'
  <2> SUFFICES ASSUME OnlyJob(j), Exists PROVE OnlyJob(j)'
    BY <1>2 DEF OnlyJob, Exists, Completed, UpdateAd
  <2>1. Counted(rows) + Counted(<<>>) = job[j].sent
    BY <1>1 DEF OnlyJob, SendPoints
  <2>2. Counted(rows) \in Nat /\ Counted(<<>>) = 0
    BY CountedType, CountedEmpty DEF TypeInv, TypeOK
  <2>3. ad' = [status |-> "COMPLETED", total |-> job[j].total,
               sent |-> job[j].sent, failed |-> job[j].failed]
    BY DEF Completed, UpdateAd
  <2>4. ad'.sent = Counted(rows)' /\ ad'.sent + ad'.failed = ad'.total
    BY <1>1, <1>3, <2>1, <2>2, <2>3
  <2> QED BY <1>2, <2>4 DEF OnlyJob, AddsUp, SendPoints
<1> QED BY <1>1, <1>2, <1>4, OneProceeds

\* send_ad for the ad's only request.
LEMMA OnlyRequests ==
  ASSUME TypeInv, AddInv, NEW j \in Jobs, SendAd(j)
  PROVE  AddInv'
<1>1. /\ job[j].pc = "idle" /\ ad' = [ad EXCEPT !.status = "SENDING"] /\ rows' = rows
      /\ Goto(j, "enqueue") /\ "enqueue" \in Points
  BY DEF SendAd, At, Points
<1>2. Moves(j) /\ job'[j].pc = "enqueue"
  BY <1>1, GotoStep
<1>3. Requested' = Requested \cup {j} /\ j \notin Requested
  BY <1>1, <1>2 DEF Requested, At, Moves
<1>4. \A k \in Jobs : job'[k].pc # "crashed"
  BY <1>2 DEF AddInv, Moves
<1>5. ASSUME NEW k \in Jobs, (Requested = {k})' PROVE OnlyJob(k)'
  <2>1. k = j /\ Requested = {}
    BY <1>3, <1>5
  <2>2. Untouched
    BY <2>1 DEF AddInv
  <2>3. ad \in AdRow
    BY DEF TypeInv, TypeOK, AdRow
  <2>4. ad'.status = "SENDING" /\ ad'.total = 0 /\ ad'.sent = 0 /\ ad'.failed = 0 /\ rows' = <<>>
    BY <1>1, <2>2, <2>3 DEF Untouched, AdRow
  <2>5. OnlyJob(j)'
    BY <1>2, <2>4 DEF OnlyJob, SendPoints
  <2> QED BY <2>1, <2>5
<1> QED BY <1>3, <1>4, <1>5 DEF AddInv

\* The deletion of the ad, and steps that change nothing here.
LEMMA OnlyDeletes ==
  ASSUME TypeInv, AddInv, Delete \/ UNCHANGED vars
  PROVE  AddInv'
<1>1. job' = job
  BY DEF Delete, DeleteAd, MessageDeleted, AdDeleted, DeleteFails, vars
<1>2. Requested' = Requested
  BY <1>1 DEF Requested, At
<1>3. CASE ad' = ad /\ rows' = rows
  <2>1. Untouched => Untouched'
    BY <1>3 DEF Untouched
  <2>2. AddsUp => AddsUp'
    BY <1>3 DEF AddsUp, Counted, SentIn
  <2>3. Counted(rows)' = Counted(rows)
    BY <1>3
  <2>4. \A j \in Jobs : Counted(job[j].buffer)' = Counted(job[j].buffer)
    BY <1>1
  <2>5. ASSUME NEW j \in Jobs, OnlyJob(j) PROVE OnlyJob(j)'
    BY <1>1, <1>3, <2>2, <2>3, <2>4, <2>5 DEF OnlyJob, Exists
  <2> QED BY <1>1, <1>2, <2>1, <2>5 DEF AddInv
<1>4. CASE AdDeleted
  <2>1. ad \in AdRow
    BY DEF TypeInv, TypeOK, AdRow
  <2>2. /\ ad'.status = "gone" /\ ad'.total = ad.total /\ ad'.sent = ad.sent
        /\ ad'.failed = ad.failed /\ rows' = <<>>
    BY <1>4, <2>1 DEF AdDeleted, AdRow
  <2>3. Untouched => Untouched'
    BY <2>2 DEF Untouched
  <2>4. \A j \in Jobs : OnlyJob(j)'
    BY <2>2 DEF OnlyJob, Exists
  <2> QED BY <1>1, <1>2, <2>3, <2>4 DEF AddInv
<1>5. (ad' = ad /\ rows' = rows) \/ AdDeleted
  BY DEF Delete, DeleteAd, MessageDeleted, DeleteFails, vars
<1> QED BY <1>3, <1>4, <1>5

LEMMA AddsKept ==
  ASSUME Faults = {}, BaseInv, AddInv, [Next]_vars
  PROVE  AddInv'
<1> USE DEF BaseInv
<1>1. ASSUME NEW j \in Jobs, SendAd(j) \/ Proceed(j) \/ Killed(j) \/ TimedOut(j)
      PROVE  AddInv'
  <2>1. CASE SendAd(j)
    BY <2>1, OnlyRequests
  <2>2. CASE Enqueued(j) \/ EnqueueFails(j) \/ LoadMissing(j) \/ Loaded(j) \/ LoadedNobody(j)
    BY <2>2, OnlyStarts
  <2>3. CASE BotFound(j) \/ BotMissing(j) \/ AllBotsDone(j) \/ StatsWritten(j)
    BY <2>3, OnlyLoops
  <2>4. CASE Sent(j) \/ SilentlyNotSent(j) \/ Forbidden(j)
    BY <2>4, OnlySends
  <2>5. CASE Flooded(j)
    BY <2>5, OnlyLoops, OnlySends
  <2>6. CASE Flushed(j) \/ LastFlushed(j)
    BY <2>6, OnlyFlushes
  <2>7. CASE Completed(j)
    BY <2>7, OnlyCompletes
  <2>8. ~SendRaises(j) /\ ~Raises(j) /\ ~Killed(j) /\ ~TimedOut(j)
    BY DEF SendRaises, Raises, Killed, TimedOut
  <2>9. ~CrashReported(j)
    BY DEF CrashReported, At, AddInv
  <2> QED BY <1>1, <2>1, <2>2, <2>3, <2>4, <2>5, <2>6, <2>7, <2>8, <2>9 DEF Proceed
<1>2. CASE Delete \/ UNCHANGED vars
  BY <1>2, OnlyDeletes
<1> QED BY <1>1, <1>2 DEF Next

\* A completed report adds up and agrees with the delivery rows, for an ad that is
\* requested once, while the database answers and the job is not interrupted: the
\* retries of a flood, the users who blocked the bot, the missing bots, a deletion
\* in the middle and the limits of the buffer included (tasks.py, broadcast_ad).
THEOREM CompletedReport == ASSUME Faults = {} PROVE Spec => []CompletedAddsUp
<1>1. Init => AddInv
  <2> SUFFICES ASSUME Init PROVE AddInv
    OBVIOUS
  <2>1. \A j \in Jobs : job[j].pc = "idle"
    BY DEF Init, NewRun
  <2>2. Requested = {}
    BY <2>1 DEF Requested, At
  <2> QED BY <2>1, <2>2 DEF AddInv, Untouched, Init
<1>2. BaseInv /\ AddInv /\ [Next]_vars => AddInv'
  BY AddsKept
<1>3. BaseInv /\ AddInv => CompletedAddsUp
  <2> SUFFICES ASSUME BaseInv, AddInv, ad.status = "COMPLETED", Cardinality(Requested) = 1
               PROVE  AddsUp
    BY DEF CompletedAddsUp, Requested, AddsUp, Counted, SentIn
  <2>1. IsFiniteSet(Requested)
    BY BroadcastAssumption, FS_Subset DEF Requested
  <2>2. PICK j : Requested = {j}
    BY <2>1, FS_Singleton
  <2>3. j \in Jobs /\ OnlyJob(j) /\ job[j].pc # "idle"
    BY <2>2 DEF Requested, At, AddInv
  <2>4. job[j].pc \in Points /\ job[j].pc # "crashed"
    BY <2>3 DEF BaseInv, TypeInv, TypeOK, Run, AddInv
  <2> QED BY <2>3, <2>4 DEF OnlyJob, Exists, SendPoints, Points
<1> QED BY <1>1, <1>2, <1>3, BaseInvariant, PTL DEF Spec
=============================================================================
