---------------------------- MODULE TrackLibrary ----------------------------
(***************************************************************************)
(* The library of the Media Search bots: jobs that take tracks from a      *)
(* playlist or from an uploaded file (workers/ingest.py, services/         *)
(* ingest.py), the tracks, and the votes on them (repositories/track.py).  *)
(*                                                                         *)
(* A job is one task of arq.  Its progress goes into the row of the job,   *)
(* in transactions that may each fail.  The task of a killed worker runs   *)
(* again from the start, so many times; one that takes too long, or raises *)
(* for good, does not.                                                     *)
(***************************************************************************)
EXTENDS Naturals, Sequences, FiniteSets

CONSTANTS
  Jobs,
  Playlist,     \* Playlist[j]: the sources of the entries, in order
  Uploads,      \* jobs of a file: their playlist is empty
  Taps,         \* votes that are handled at a time
  Voters,
  Faults,       \* subset of {"db", "net", "nobot", "timeout", "enqueue"}
  Heard,        \* bound: the sources whose tracks are voted on
  MaxTries,     \* runs that arq gives a task (max_tries)
  Batches,      \* bound: the sets of jobs that are submitted in one behaviour
  MaxKills      \* bound on the killed runs

Sources == UNION {{Playlist[j][i] : i \in DOMAIN Playlist[j]} : j \in Jobs}
TrackIds == 1..(Cardinality(Sources) + Cardinality(Uploads) + MaxKills + Cardinality(Taps))

ASSUME LibraryAssumption ==
  /\ Uploads \subseteq Jobs /\ \A j \in Uploads : Playlist[j] = <<>>
  /\ Playlist \in [Jobs -> Seq(Sources)]
  /\ Faults \subseteq {"db", "net", "nobot", "timeout", "enqueue"}
  /\ {MaxKills, MaxTries} \subseteq Nat
  /\ IsFiniteSet(Jobs) /\ IsFiniteSet(Taps)
  /\ Sources \cap Uploads = {}    \* a file's source is the id its upload is given

VARIABLES
  row,      \* row[j]: status and counters in ingest_jobs
  run,      \* run[j]: where the task is, with its own counters
  file,     \* the uploaded files on disk
  kills,    \* killed runs
  tracks,   \* the tracks, with the counters of their votes
  votes,    \* the votes, at most one of each voter for a track
  tap,      \* what each vote in progress has read
  deleted   \* history: sources of deleted tracks

library == <<tracks, deleted>>
voting == <<votes, tap>>
vars == <<row, run, file, kills, library, voting>>

-----------------------------------------------------------------------------
NewRow == [status |-> "none", total |-> 0, processed |-> 0, failed |-> 0]
NewRun(pc, tries) == [pc |-> pc, next |-> 1, ok |-> 0, bad |-> 0, tries |-> tries]
NoTap == [track |-> 0]
Final == {"completed", "partial", "failed"}

Init ==
  /\ row = [j \in Jobs |-> NewRow]
  /\ run = [j \in Jobs |-> NewRun("none", 0)]
  /\ file = {}
  /\ kills = 0
  /\ tracks = {} /\ deleted = {}
  /\ votes = {}
  /\ tap = [t \in Taps |-> NoTap]

At(j, pc) == run[j].pc = pc
Goto(j, pc) == run' = [run EXCEPT ![j].pc = pc]
Anew(j, pc, tries) == run' = [run EXCEPT ![j] = NewRun(pc, tries)]
Total(j) == IF j \in Uploads THEN 1 ELSE Len(Playlist[j])
Source(j) == IF j \in Uploads THEN j ELSE Playlist[j][run[j].next]
InLibrary(source) == \E t \in tracks : t.source = source
Exists(id) == \E t \in tracks : t.id = id

\* An id that no row has, nor a vote remembers.
FreshId == CHOOSE id \in TrackIds : ~Exists(id) /\ \A t \in Taps : tap[t].track # id

-----------------------------------------------------------------------------
(* The queue                                                               *)

\* start_url_ingest, start_file_ingest: the row, then the task.  The row of a
\* task that could not be queued stays pending.
StartIngest(j) ==
  /\ row' = [row EXCEPT ![j].status = "pending"]
  /\ \/ Goto(j, "queued")
     \/ "enqueue" \in Faults /\ Anew(j, "lost", 0)

\* The admin's form: an uploaded file is saved first.
Submit(j) ==
  /\ row[j].status = "none"
  /\ \E batch \in Batches : {j} \cup {i \in Jobs : row[i].status # "none"} \subseteq batch
  /\ file' = IF j \in Uploads THEN file \cup {j} ELSE file
  /\ StartIngest(j)
  /\ UNCHANGED <<kills, library, voting>>

\* ingest_audio begins: mark_running.  If the transaction fails the task raises,
\* and arq is done with it: the row stays as it was.
Take(j) ==
  /\ At(j, "queued") /\ run[j].tries < MaxTries
  /\ \/ /\ row' = [row EXCEPT ![j].status = "running"]
        /\ Anew(j, IF j \in Uploads THEN "pick" ELSE "list", run[j].tries + 1)
     \/ "db" \in Faults /\ Anew(j, "lost", 0) /\ UNCHANGED row
  /\ UNCHANGED <<file, kills, library, voting>>

\* arq does not start a task again that has had its tries.
GiveUp(j) ==
  /\ At(j, "queued") /\ run[j].tries >= MaxTries
  /\ Anew(j, "lost", 0)
  /\ UNCHANGED <<row, file, kills, library, voting>>

Running(j) ==
  run[j].pc \in {"list", "pick", "entry", "fetch", "store", "others", "unlink", "finish", "ended"}

\* The worker is stopped or killed, be it after the last transaction, before arq
\* knows of the result; arq runs the task again.  A task that is stopped while it
\* uploads its file removes it.
Kill(j) ==
  /\ Running(j) /\ kills < MaxKills
  /\ kills' = kills + 1
  /\ Anew(j, "queued", run[j].tries)
  /\ \/ file' = file
     \/ run[j].pc \in {"fetch", "store", "unlink"} /\ file' = file \ {j}
  /\ UNCHANGED <<row, library, voting>>

\* job_timeout cancels the task, and nothing is written to its row.
Timeout(j) ==
  /\ Running(j) /\ "timeout" \in Faults
  /\ Anew(j, "lost", 0)
  /\ file' = IF run[j].pc \in {"fetch", "store", "unlink"} THEN file \ {j} ELSE file
  /\ UNCHANGED <<row, kills, library, voting>>

-----------------------------------------------------------------------------
(* A job                                                                   *)

Status(ok, bad, total) ==
  CASE total = 0 -> "failed"
    [] total # 0 /\ bad = 0 -> "completed"
    [] total # 0 /\ bad # 0 /\ ok > 0 -> "partial"
    [] OTHER -> "failed"

\* The last transaction of the task, with the counters it returns.
End(j, ok, bad, total) ==
  /\ row' = [row EXCEPT ![j] = [status |-> Status(ok, bad, total), total |-> total,
                                processed |-> ok, failed |-> bad]]
  /\ Anew(j, "ended", run[j].tries)

\* Mutant: an exception ends the job without a word.
RaiseSilently(j) == row' = row /\ Anew(j, "ended", run[j].tries)

\* An exception ends the job; its counters stay.  The transaction of the handler
\* may fail as well, and then nothing is noted.
Raise(j) ==
  \/ /\ row' = [row EXCEPT ![j].status = "failed"]
     /\ Anew(j, "ended", run[j].tries)
  \/ "db" \in Faults /\ Anew(j, "lost", 0) /\ UNCHANGED row

\* arq has recorded the result: the task is not run again.
Recorded(j) ==
  /\ At(j, "ended")
  /\ Anew(j, "over", 0)
  /\ UNCHANGED <<row, file, kills, library, voting>>

\* _save_progress: the counters of the task go into the row, or fail to.
Saved(j, ok, bad) ==
  \/ row' = [row EXCEPT ![j].processed = ok, ![j].failed = bad]
  \/ "db" \in Faults /\ row' = row

\* The next entry, with the counters grown by the last one.
NextEntry(j, ok, bad) ==
  run' = [run EXCEPT ![j] = [pc |-> "entry", next |-> run[j].next + 1, ok |-> run[j].ok + ok,
                             bad |-> run[j].bad + bad, tries |-> run[j].tries]]

EntryEnds(j, ok, bad) ==
  /\ NextEntry(j, ok, bad)
  /\ Saved(j, run[j].ok + ok, run[j].bad + bad)

\* The flat list: its length is the total.  yt-dlp may return nothing.
List(j) ==
  /\ At(j, "list")
  /\ \/ Goto(j, "pick") /\ row' = [row EXCEPT ![j] =
          [status |-> "running", total |-> Total(j), processed |-> 0, failed |-> 0]]
     \/ "net" \in Faults /\ End(j, 0, 0, 0)
     \/ "db" \in Faults /\ Raise(j)
  /\ UNCHANGED <<file, kills, library, voting>>

\* _pick_uploader and get_bot_instance; before them, is the file there at all?
Pick(j) ==
  /\ At(j, "pick")
  /\ \/ /\ j \in Uploads => j \in file
        /\ Goto(j, IF j \in Uploads THEN "fetch" ELSE "entry")
        /\ UNCHANGED row
     \/ ("nobot" \in Faults \/ (j \in Uploads /\ j \notin file)) /\ End(j, 0, Total(j), Total(j))
     \/ "db" \in Faults /\ Raise(j)
  /\ UNCHANGED <<file, kills, library, voting>>

\* An entry that is in the library is not downloaded; one without an address
\* fails.
Entry(j) ==
  /\ At(j, "entry") /\ run[j].next <= Total(j)
  /\ \/ InLibrary(Source(j)) /\ NextEntry(j, 1, 0)
          /\ row' = [row EXCEPT ![j].processed = run[j].ok + 1, ![j].failed = run[j].bad]
     \/ ~InLibrary(Source(j)) /\ Goto(j, "fetch") /\ UNCHANGED row
     \/ "net" \in Faults /\ EntryEnds(j, 0, 1)
     \/ "db" \in Faults /\ Raise(j)
  /\ UNCHANGED <<file, kills, library, voting>>

\* The last entry is done.
Finish(j) ==
  /\ At(j, "entry") /\ run[j].next > Total(j)
  /\ \/ End(j, run[j].ok, run[j].bad, Total(j))
     \/ "db" \in Faults /\ Raise(j)
  /\ UNCHANGED <<file, kills, library, voting>>

\* Download, size limit, send_audio to the channel.  A failure counts against
\* an entry, and ends the job of a file, whose file goes either way.
Fetch(j) ==
  /\ At(j, "fetch")
  /\ \/ Goto(j, "store") /\ UNCHANGED <<row, file>>
     \/ "net" \in Faults /\ j \notin Uploads /\ EntryEnds(j, 0, 1) /\ UNCHANGED file
     \/ "net" \in Faults /\ j \in Uploads /\ file' = file \ {j} /\ (Raise(j) \/ End(j, 0, 1, 1))
  /\ UNCHANGED <<kills, library, voting>>

NewTrack(j) ==
  tracks' = tracks \cup {[id |-> FreshId, source |-> Source(j), likes |-> 0, dislikes |-> 0]}

\* tracks.create succeeds, and the entry counts as processed.
Stored(j) ==
  /\ ~InLibrary(Source(j))
  /\ NewTrack(j)
  /\ run' = [run EXCEPT ![j] = [pc |-> "others", next |-> run[j].next, ok |-> run[j].ok + 1,
                                bad |-> run[j].bad, tries |-> run[j].tries]]
  /\ UNCHANGED row

\* Mutant: a track that another job has stored meanwhile is not counted.
DuplicateUncounted(j) == InLibrary(Source(j)) /\ EntryEnds(j, 0, 0) /\ UNCHANGED tracks

\* IntegrityError: another job has stored the source meanwhile.  The message of
\* the entry stays in the channel.
Duplicate(j) == InLibrary(Source(j)) /\ EntryEnds(j, 1, 0) /\ UNCHANGED tracks

\* Mutant: every failure is taken for a duplicate.
StoreFailsUnnoticed(j) == "db" \in Faults /\ EntryEnds(j, 1, 0) /\ UNCHANGED tracks

StoreFails(j) == "db" \in Faults /\ EntryEnds(j, 0, 1) /\ UNCHANGED tracks

Store(j) ==
  /\ At(j, "store") /\ j \notin Uploads
  /\ Stored(j) \/ Duplicate(j) \/ StoreFails(j)
  /\ UNCHANGED <<file, kills, deleted, voting>>

\* The track of a file, under the unique id its upload was given.
StoreFile(j) ==
  /\ At(j, "store") /\ j \in Uploads
  /\ \/ NewTrack(j) /\ Goto(j, "unlink") /\ UNCHANGED <<row, file>>
     \/ "db" \in Faults /\ file' = file \ {j} /\ Raise(j) /\ UNCHANGED tracks
  /\ UNCHANGED <<kills, deleted, voting>>

\* The file goes when its track is committed.
Unlink(j) ==
  /\ At(j, "unlink")
  /\ file' = file \ {j}
  /\ Goto(j, "finish")
  /\ UNCHANGED <<row, kills, library, voting>>

FinishFile(j) ==
  /\ At(j, "finish")
  /\ \/ End(j, 1, 0, 1)
     \/ "db" \in Faults /\ Raise(j)
  /\ UNCHANGED <<file, kills, library, voting>>

\* _mirror_to_other_channels, which swallows what fails of its copies and of
\* their rows (not modelled).  When it cannot read the list of the channels, the
\* entry counts a second time, as failed.
Others(j) ==
  /\ At(j, "others")
  /\ \/ EntryEnds(j, 0, 0)
     \/ "db" \in Faults /\ EntryEnds(j, 0, 1)
  /\ UNCHANGED <<file, kills, library, voting>>

\* The admin deletes a track; its votes go with it.
Delete(id) ==
  /\ Exists(id)
  /\ tracks' = {t \in tracks : t.id # id}
  /\ deleted' = deleted \cup {t.source : t \in {u \in tracks : u.id = id}}
  /\ votes' = {v \in votes : v.track # id}
  /\ UNCHANGED <<row, run, file, kills, tap>>

-----------------------------------------------------------------------------
(* Votes: what a transaction reads, it reads of its beginning              *)

VoteOf(voter, id) ==
  LET own == {v \in votes : v.track = id /\ v.voter = voter} IN
  IF own = {} THEN 0 ELSE (CHOOSE v \in own : TRUE).value

Read(t, voter, value) ==
  /\ tap[t] = NoTap
  /\ \E track \in tracks :
       /\ track.source \in Heard
       /\ tap' = [tap EXCEPT ![t] =
         [track |-> track.id, voter |-> voter, value |-> value, had |-> VoteOf(voter, track.id),
          likes |-> track.likes, dislikes |-> track.dislikes]]
  /\ UNCHANGED <<row, run, file, kills, library, votes>>

\* A column is written if its value has changed since it was read.
Column(now, read, up, down) ==
  CASE up -> read + 1
    [] down /\ read > 0 -> read - 1
    [] OTHER -> now

\* Mutant: a vote the other way adds to one counter only.
CountedOneWay(track, r) ==
  LET gives(value) == r.value = value /\ r.had # value
      takes(value) == r.value = value /\ r.had = value
  IN [track EXCEPT !.likes = Column(@, r.likes, gives(1), takes(1)),
                   !.dislikes = Column(@, r.dislikes, gives(2), takes(2))]

\* The counters after a vote: given, taken back or turned; 2 is a dislike.
Counted(track, r) ==
  LET gives(value) == r.value = value /\ r.had # value
      takes(value) == r.had = value
  IN [track EXCEPT !.likes = Column(@, r.likes, gives(1), takes(1)),
                   !.dislikes = Column(@, r.dislikes, gives(2), takes(2))]

\* cast.  A vote given or turned fails if the row has come or gone meanwhile.
Cast(t) ==
  LET r == tap[t]
      now == VoteOf(r.voter, r.track)
      own == {v \in votes : v.track = r.track /\ v.voter = r.voter}
      done == Exists(r.track) /\ (r.had = r.value \/ (r.had = 0 <=> now = 0))
  IN
  /\ r # NoTap
  /\ tap' = [tap EXCEPT ![t] = NoTap]
  /\ IF done
     THEN /\ votes' = (votes \ own) \cup
                 IF r.had = r.value THEN {}
                 ELSE {[track |-> r.track, voter |-> r.voter, value |-> r.value]}
          /\ tracks' = {IF u.id = r.track THEN Counted(u, r) ELSE u : u \in tracks}
     ELSE UNCHANGED <<votes, tracks>>
  /\ UNCHANGED <<row, run, file, kills, deleted>>

-----------------------------------------------------------------------------
Work(j) ==
  \/ Take(j) \/ GiveUp(j) \/ List(j) \/ Pick(j) \/ Entry(j) \/ Finish(j) \/ Fetch(j)
  \/ Store(j) \/ StoreFile(j) \/ Unlink(j) \/ FinishFile(j) \/ Others(j) \/ Recorded(j)

Next ==
  \/ \E j \in Jobs : Submit(j) \/ Work(j) \/ Kill(j) \/ Timeout(j)
  \/ \E id \in TrackIds : Delete(id)
  \/ \E t \in Taps : Cast(t) \/ \E voter \in Voters, value \in {1, 2} : Read(t, voter, value)

\* The workers run.
Fairness == \A j \in Jobs : WF_vars(Work(j))

Spec == Init /\ [][Next]_vars /\ Fairness

-----------------------------------------------------------------------------
(* A completed job has its tracks in the library, but for those deleted:   *)
(* also when another job was storing the same sources, and when the worker *)
(* was killed, before its end or after it, and the job started anew.       *)
CompletedInLibrary ==
  \A j \in Jobs : row[j].status = "completed" =>
    IF j \in Uploads THEN InLibrary(j) \/ j \in deleted
    ELSE \A i \in DOMAIN Playlist[j] : InLibrary(Playlist[j][i]) \/ Playlist[j][i] \in deleted

(* What a finished job reports covers every entry: those processed and     *)
(* those failed are all there are, at the least, no entry counts twice on  *)
(* the same side, and a job with a failure is not completed.               *)
EntriesAccountedFor ==
  \A j \in Jobs : row[j].status \in {"completed", "partial"} =>
    /\ row[j].processed + row[j].failed >= row[j].total
    /\ row[j].processed <= row[j].total /\ row[j].failed <= row[j].total
    /\ row[j].status = "completed" <=> row[j].failed = 0

(* The counters of a track are the numbers of its votes, whatever is       *)
(* given, taken back, turned and deleted.                                  *)
VotesAddUp ==
  \A t \in tracks :
    LET for(value) == {v \in votes : v.track = t.id /\ v.value = value} IN
    t.likes = Cardinality(for(1)) /\ t.dislikes = Cardinality(for(2))

(* In the end every job that was submitted has a final status for good,    *)
(* however often its worker is killed and whatever fails of its entries,   *)
(* unless it is lost: never queued, cut off by job_timeout, out of tries,  *)
(* or without the transaction that notes its beginning (mark_running) or,  *)
(* in the handler of an exception, its failure.                            *)
JobsEnd ==
  <>[](\A j \in Jobs : row[j].status \in Final \cup {"none"} \/ At(j, "lost"))
=============================================================================
