-------------------------- MODULE TrackLibraryProofs --------------------------
(* What a finished job of the track library stands for, for every number of  *)
(* jobs, every playlist, every fault and every number of killed workers; and *)
(* that the counters of a track are its votes, if one is handled at a time.  *)
EXTENDS TrackLibrary, FiniteSetTheorems, TLAPS

\* A source that was stored once; it may have been deleted since.
Known(source) == InLibrary(source) \/ source \in deleted

Places == {"none", "queued", "lost", "list", "pick", "entry", "fetch", "store", "others",
           "unlink", "finish", "ended", "over"}
Statuses == {"none", "pending", "running"} \cup Final

RunType == [pc : Places, next : Nat, ok : Nat, bad : Nat, tries : Nat]
RowType == [status : Statuses, total : Nat, processed : Nat, failed : Nat]

JobType == run \in [Jobs -> RunType] /\ row \in [Jobs -> RowType]

\* The entries the counters of a run stand for.
Done(j) == IF run[j].pc = "others" THEN run[j].next ELSE run[j].next - 1

\* Inside a playlist no entry is left out, none counts twice on one side, and
\* while nothing has failed all of them are known.
InPlaylist(j) ==
  j \notin Uploads /\ run[j].pc \in {"entry", "fetch", "store", "others"} =>
    /\ run[j].next >= 1 /\ run[j].bad < run[j].next
    /\ IF run[j].pc = "entry" THEN run[j].next <= Total(j) + 1 ELSE run[j].next <= Total(j)
    /\ run[j].ok <= Done(j) /\ run[j].ok + run[j].bad >= Done(j)
    /\ run[j].bad = 0 => \A i \in 1..Done(j) : Known(Playlist[j][i])

\* A run that has not come to its entries has counted nothing.
AtStart(j) ==
  run[j].pc \in {"none", "queued", "list", "pick"} =>
    run[j].next = 1 /\ run[j].ok = 0 /\ run[j].bad = 0

\* Playlists and files have steps of their own, and a file is in the library
\* before its job reports it.
OwnSteps(j) ==
  /\ j \in Uploads => run[j].pc \notin {"list", "entry", "others"}
  /\ j \notin Uploads => run[j].pc \notin {"unlink", "finish"}
  /\ run[j].pc \in {"unlink", "finish"} => Known(j)

\* A row without a status has no task; one with a result has none at work, but it
\* may wait to be run again, when its worker was killed after the last transaction.
RowFitsRun(j) ==
  /\ row[j].status = "none" => run[j].pc = "none"
  /\ row[j].status \in {"completed", "partial"} =>
       run[j].pc \in {"ended", "over", "queued", "lost"}

Reported(j) ==
  row[j].status \in {"completed", "partial"} =>
    /\ row[j].processed + row[j].failed >= row[j].total
    /\ row[j].processed <= row[j].total /\ row[j].failed <= row[j].total
    /\ row[j].status = "completed" <=> row[j].failed = 0

AllKnown(j) == IF j \in Uploads THEN Known(j) ELSE \A i \in DOMAIN Playlist[j] : Known(Playlist[j][i])

JobInv(j) ==
  /\ InPlaylist(j) /\ AtStart(j) /\ OwnSteps(j) /\ RowFitsRun(j) /\ Reported(j)
  /\ row[j].status = "completed" => AllKnown(j)

LibraryInv == JobType /\ \A j \in Jobs : JobInv(j)

\* What is known stays known: a track that goes leaves its source in deleted.
LEMMA KnownStays == ASSUME [Next]_vars, NEW s, Known(s) PROVE Known(s)'
<1>1. CASE UNCHANGED vars
  BY <1>1 DEF Known, InLibrary, vars, library
<1>2. CASE UNCHANGED library
  BY <1>2 DEF Known, InLibrary, library
<1>3. ASSUME NEW j \in Jobs, NewTrack(j), deleted' = deleted PROVE Known(s)'
  BY <1>3 DEF Known, InLibrary, NewTrack
<1>4. ASSUME NEW j \in Jobs, Work(j) PROVE Known(s)'
  <2>1. CASE UNCHANGED library
    BY <1>2, <2>1
  <2>2. CASE Store(j)
    <3>1. tracks' = tracks \/ NewTrack(j)
      BY <2>2 DEF Store, Stored, Duplicate, StoreFails
    <3> QED BY <1>3, <2>2, <3>1 DEF Store, Known, InLibrary
  <2>3. CASE StoreFile(j)
    <3>1. tracks' = tracks \/ NewTrack(j)
      BY <2>3 DEF StoreFile
    <3> QED BY <1>3, <2>3, <3>1 DEF StoreFile, Known, InLibrary
  <2> QED BY <1>4, <2>1, <2>2, <2>3 DEF Work, Take, GiveUp, List, Pick, Entry, Finish, Fetch,
     Unlink, FinishFile, Others, Recorded
<1>5. ASSUME NEW id \in TrackIds, Delete(id) PROVE Known(s)'
  BY <1>5 DEF Delete, Known, InLibrary
<1>6. ASSUME NEW t \in Taps, Cast(t) PROVE Known(s)'
  <2>1. CASE UNCHANGED tracks
    BY <1>6, <2>1 DEF Cast, Known, InLibrary
  <2>2. CASE tracks' = {IF u.id = tap[t].track THEN Counted(u, tap[t]) ELSE u : u \in tracks}
    <3>1. ASSUME NEW u \in tracks PROVE \E v \in tracks' : v.source = u.source
      <4>1. Counted(u, tap[t]).source = u.source
        BY DEF Counted
      <4> QED BY <2>2, <4>1
    <3> QED BY <1>6, <3>1 DEF Cast, Known, InLibrary
  <2> QED BY <1>6, <2>1, <2>2 DEF Cast
<1>7. ASSUME NEW j \in Jobs, Submit(j) \/ Kill(j) \/ Timeout(j) PROVE Known(s)'
  BY <1>2, <1>7 DEF Submit, Kill, Timeout
<1>8. ASSUME NEW t \in Taps, NEW voter \in Voters, NEW value \in {1, 2}, Read(t, voter, value)
      PROVE Known(s)'
  BY <1>2, <1>8 DEF Read
<1> QED BY <1>1, <1>4, <1>5, <1>6, <1>7, <1>8 DEF Next

\* What a step may do to the jobs: one of them changes.
OneChanges(j) ==
  /\ JobType'
  /\ \A k \in Jobs \ {j} : run'[k] = run[k] /\ row'[k] = row[k]

\* The invariant of the other jobs survives.
LEMMA OneJob ==
  ASSUME NEW j \in Jobs, LibraryInv, [Next]_vars, OneChanges(j), JobInv(j)'
  PROVE  LibraryInv'
<1>1. \A s : Known(s) => Known(s)'
  BY KnownStays
<1>2. ASSUME NEW k \in Jobs, k # j PROVE JobInv(k)'
  <2>1. JobInv(k) /\ run'[k] = run[k] /\ row'[k] = row[k]
    BY <1>2 DEF LibraryInv, OneChanges
  <2>2. InPlaylist(k)'
    BY <1>1, <2>1 DEF JobInv, InPlaylist, Done, Total
  <2>3. AtStart(k)' /\ OwnSteps(k)' /\ RowFitsRun(k)' /\ Reported(k)'
    BY <1>1, <2>1 DEF JobInv, AtStart, OwnSteps, RowFitsRun, Reported
  <2>4. (row[k].status = "completed" => AllKnown(k))'
    BY <1>1, <2>1 DEF JobInv, AllKnown
  <2> QED BY <2>2, <2>3, <2>4 DEF JobInv
<1> QED BY <1>2 DEF LibraryInv, OneChanges

LEMMA TotalType ==
  ASSUME NEW j \in Jobs
  PROVE  Total(j) \in Nat /\ (j \notin Uploads => DOMAIN Playlist[j] = 1..Total(j))
BY LibraryAssumption DEF Total

\* The parts of the steps.
LEMMA GotoRun ==
  ASSUME NEW j \in Jobs, JobType, NEW pc \in Places, Goto(j, pc)
  PROVE  /\ run' \in [Jobs -> RunType]
         /\ run'[j] = [run[j] EXCEPT !.pc = pc]
         /\ \A k \in Jobs \ {j} : run'[k] = run[k]
BY DEF JobType, RunType, Goto

LEMMA RunAnew ==
  ASSUME NEW j \in Jobs, JobType, NEW pc \in Places, NEW tries \in Nat, Anew(j, pc, tries)
  PROVE  /\ run' \in [Jobs -> RunType]
         /\ run'[j].pc = pc /\ run'[j].next = 1 /\ run'[j].ok = 0 /\ run'[j].bad = 0
         /\ \A k \in Jobs \ {j} : run'[k] = run[k]
<1>1. /\ NewRun(pc, tries) \in RunType /\ NewRun(pc, tries).pc = pc
      /\ NewRun(pc, tries).next = 1 /\ NewRun(pc, tries).ok = 0 /\ NewRun(pc, tries).bad = 0
  BY DEF NewRun, RunType
<1> QED BY <1>1 DEF JobType, Anew

LEMMA StatusRow ==
  ASSUME NEW j \in Jobs, JobType, NEW status \in Statuses, row' = [row EXCEPT ![j].status = status]
  PROVE  /\ row' \in [Jobs -> RowType]
         /\ row'[j] = [row[j] EXCEPT !.status = status]
         /\ \A k \in Jobs \ {j} : row'[k] = row[k]
BY DEF JobType, RowType

\* The last transaction of a job, or the exception that ends it.
LEMMA EndRow ==
  ASSUME NEW j \in Jobs, LibraryInv, [Next]_vars,
         NEW ok \in Nat, NEW bad \in Nat, NEW total \in Nat, End(j, ok, bad, total),
         ok <= total, bad <= total, ok + bad >= total,
         total # 0 /\ bad = 0 => AllKnown(j)'
  PROVE  LibraryInv'
<1>1. /\ run' \in [Jobs -> RunType] /\ \A k \in Jobs \ {j} : run'[k] = run[k]
      /\ run'[j].pc = "ended" /\ run'[j].next = 1 /\ run'[j].ok = 0 /\ run'[j].bad = 0
  <2>1. JobType /\ "ended" \in Places /\ run[j].tries \in Nat /\ Anew(j, "ended", run[j].tries)
    BY DEF LibraryInv, JobType, RunType, End, Places
  <2> QED BY <2>1, RunAnew
<1>2. /\ row' \in [Jobs -> RowType] /\ \A k \in Jobs \ {j} : row'[k] = row[k]
      /\ row'[j] = [status |-> Status(ok, bad, total), total |-> total, processed |-> ok, failed |-> bad]
  <2>1. Status(ok, bad, total) \in Statuses
    BY DEF Status, Statuses, Final
  <2> QED BY <2>1 DEF LibraryInv, JobType, RowType, End
<1>3. /\ Status(ok, bad, total) \in {"completed", "partial", "failed"}
      /\ Status(ok, bad, total) = "completed" => total # 0 /\ bad = 0
      /\ Status(ok, bad, total) = "partial" => bad # 0
  BY DEF Status
<1>4. JobInv(j)'
  <2>1. InPlaylist(j)' /\ AtStart(j)' /\ OwnSteps(j)' /\ RowFitsRun(j)'
    BY <1>1, <1>2, <1>3 DEF InPlaylist, AtStart, OwnSteps, RowFitsRun
  <2>2. Reported(j)'
    BY <1>2, <1>3 DEF Reported
  <2>3. (row[j].status = "completed" => AllKnown(j))'
    BY <1>2, <1>3
  <2> QED BY <2>1, <2>2, <2>3 DEF JobInv
<1> QED BY <1>1, <1>2, <1>4, OneJob DEF OneChanges, JobType

\* A run that is cut off, or gives up: its row stays as it is.
LEMMA RunCut ==
  ASSUME NEW j \in Jobs, LibraryInv, [Next]_vars, run[j].pc # "none", UNCHANGED row,
         NEW pc \in {"queued", "lost", "ended", "over"}, NEW tries \in Nat, Anew(j, pc, tries)
  PROVE  LibraryInv'
<1>1. JobType /\ JobInv(j) /\ pc \in Places
  BY DEF LibraryInv, Places
<1>2. /\ run' \in [Jobs -> RunType] /\ \A k \in Jobs \ {j} : run'[k] = run[k]
      /\ run'[j].pc = pc /\ run'[j].next = 1 /\ run'[j].ok = 0 /\ run'[j].bad = 0
  BY <1>1, RunAnew
<1>3. InPlaylist(j)' /\ AtStart(j)' /\ OwnSteps(j)' /\ RowFitsRun(j)' /\ Reported(j)'
  BY <1>1, <1>2 DEF JobInv, InPlaylist, AtStart, OwnSteps, RowFitsRun, Reported
<1>4. (row[j].status = "completed" => AllKnown(j))'
  BY <1>1, KnownStays DEF JobInv, AllKnown
<1> QED BY <1>1, <1>2, <1>3, <1>4, OneJob DEF OneChanges, JobType, JobInv

LEMMA RaiseRow ==
  ASSUME NEW j \in Jobs, LibraryInv, [Next]_vars, run[j].pc # "none", Raise(j)
  PROVE  LibraryInv'
<1>1. CASE Anew(j, "lost", 0) /\ UNCHANGED row
  BY <1>1, RunCut
<1>2. CASE row' = [row EXCEPT ![j].status = "failed"] /\ Anew(j, "ended", run[j].tries)
  <2>1. /\ run' \in [Jobs -> RunType] /\ \A k \in Jobs \ {j} : run'[k] = run[k]
        /\ run'[j].pc = "ended" /\ run'[j].next = 1 /\ run'[j].ok = 0 /\ run'[j].bad = 0
    <3>1. JobType /\ "ended" \in Places /\ run[j].tries \in Nat
      BY DEF LibraryInv, JobType, RunType, Places
    <3> QED BY <1>2, <3>1, RunAnew
  <2>2. /\ row' \in [Jobs -> RowType] /\ \A k \in Jobs \ {j} : row'[k] = row[k]
        /\ row'[j] = [row[j] EXCEPT !.status = "failed"]
    <3>1. JobType /\ "failed" \in Statuses
      BY DEF LibraryInv, Statuses, Final
    <3> QED BY <1>2, <3>1, StatusRow
  <2>3. JobInv(j)'
    <3>1. row'[j].status = "failed"
      BY <2>2 DEF LibraryInv, JobType, RowType
    <3> QED BY <2>1, <3>1 DEF JobInv, InPlaylist, AtStart, OwnSteps, RowFitsRun, Reported
  <2> QED BY <2>1, <2>2, <2>3, OneJob DEF OneChanges, JobType
<1> QED BY <1>1, <1>2 DEF Raise

\* A step that leaves the row, or all of it but the counters, as it is.
CountersOnly(j) ==
  /\ row' \in [Jobs -> RowType] /\ \A k \in Jobs \ {j} : row'[k] = row[k]
  /\ row'[j].status = row[j].status

LEMMA RowAlone == ASSUME NEW j \in Jobs, JobType, row' = row PROVE CountersOnly(j)
BY DEF JobType, CountersOnly

LEMMA SavedRow ==
  ASSUME NEW j \in Jobs, JobType, NEW ok \in Nat, NEW bad \in Nat,
         \/ Saved(j, ok, bad)
         \/ row' = [row EXCEPT ![j].processed = ok, ![j].failed = bad]
  PROVE  CountersOnly(j)
<1>1. CASE row' = [row EXCEPT ![j].processed = ok, ![j].failed = bad]
  <2>1. row[j] \in RowType
    BY DEF JobType
  <2> DEFINE x == [row[j] EXCEPT !.processed = ok, !.failed = bad]
  <2>2. x \in RowType /\ x.status = row[j].status
    BY <2>1 DEF RowType
  <2>3. row' = [row EXCEPT ![j] = x]
    BY <1>1, <2>1 DEF JobType
  <2> HIDE DEF x
  <2> QED BY <2>2, <2>3 DEF JobType, CountersOnly
<1> QED BY <1>1, RowAlone DEF Saved

\* The row of a job that is at work is not final.
AtWorkPlaces == {"list", "pick", "entry", "fetch", "store", "others", "unlink", "finish"}

LEMMA AtWork ==
  ASSUME NEW j \in Jobs, LibraryInv, run[j].pc \in AtWorkPlaces
  PROVE  row[j].status \notin {"none", "completed", "partial"}
BY DEF LibraryInv, JobInv, RowFitsRun, AtWorkPlaces

\* Such a job goes on: what is left to show is about its run.
LEMMA GoesOn ==
  ASSUME NEW j \in Jobs, LibraryInv, [Next]_vars, run[j].pc \in AtWorkPlaces,
         run' \in [Jobs -> RunType], \A k \in Jobs \ {j} : run'[k] = run[k], CountersOnly(j),
         InPlaylist(j)', AtStart(j)', OwnSteps(j)'
  PROVE  LibraryInv'
<1>1. JobInv(j)'
  BY AtWork DEF JobInv, RowFitsRun, Reported, CountersOnly
<1> QED BY <1>1, OneJob DEF OneChanges, JobType, CountersOnly

LEMMA NextRun ==
  ASSUME NEW j \in Jobs, JobType, NEW ok \in Nat, NEW bad \in Nat, NextEntry(j, ok, bad)
  PROVE  /\ run' \in [Jobs -> RunType]
         /\ run'[j] = [pc |-> "entry", next |-> run[j].next + 1, ok |-> run[j].ok + ok,
                       bad |-> run[j].bad + bad, tries |-> run[j].tries]
         /\ \A k \in Jobs \ {j} : run'[k] = run[k]
<1> DEFINE x == [pc |-> "entry", next |-> run[j].next + 1, ok |-> run[j].ok + ok,
                 bad |-> run[j].bad + bad, tries |-> run[j].tries]
<1>0. run \in [Jobs -> RunType] /\ run[j] \in RunType
  BY DEF JobType
<1>1. x \in RunType
  BY <1>0 DEF RunType, Places
<1>2. run' = [run EXCEPT ![j] = x]
  BY DEF NextEntry
<1> HIDE DEF x
<1>3. run' \in [Jobs -> RunType] /\ run'[j] = x /\ \A k \in Jobs \ {j} : run'[k] = run[k]
  BY <1>1, <1>2 DEF JobType
<1> QED BY <1>3 DEF x

\* An entry that ends counts once, on one of the two sides; when the list of
\* the other channels cannot be read, on both.
LEMMA EntryDone ==
  ASSUME NEW j \in Jobs, LibraryInv, [Next]_vars, j \notin Uploads,
         run[j].pc \in {"entry", "fetch", "store", "others"}, run[j].next <= Total(j),
         NEW ok \in {0, 1}, NEW bad \in {0, 1}, NextEntry(j, ok, bad), CountersOnly(j),
         IF run[j].pc = "others" THEN ok = 0 ELSE ok + bad = 1,
         NEW source, source = Playlist[j][run[j].next], ok = 1 => Known(source)'
  PROVE  LibraryInv'
<1>1. /\ run' \in [Jobs -> RunType] /\ \A k \in Jobs \ {j} : run'[k] = run[k]
      /\ run'[j] = [pc |-> "entry", next |-> run[j].next + 1,
                    ok |-> run[j].ok + ok, bad |-> run[j].bad + bad, tries |-> run[j].tries]
  <2>1. ok \in Nat /\ bad \in Nat /\ JobType
    BY DEF LibraryInv
  <2> QED BY <2>1, NextRun
<1>2. \A s : Known(s) => Known(s)'
  BY KnownStays
<1>3. run[j] \in RunType /\ InPlaylist(j)
  BY DEF LibraryInv, JobType, JobInv
<1>4. InPlaylist(j)'
  <2> DEFINE r == run[j]
  <2>0. /\ r.next \in Nat /\ r.ok \in Nat /\ r.bad \in Nat /\ r.next >= 1 /\ r.bad < r.next
        /\ IF r.pc = "others" THEN r.ok <= r.next /\ r.ok + r.bad >= r.next
           ELSE r.ok <= r.next - 1 /\ r.ok + r.bad >= r.next - 1
    BY <1>3 DEF InPlaylist, Done, RunType
  <2>1. /\ run'[j].next >= 1 /\ run'[j].bad < run'[j].next /\ run'[j].next <= Total(j) + 1
        /\ run'[j].ok <= run'[j].next - 1 /\ run'[j].ok + run'[j].bad >= run'[j].next - 1
    <3>1. Total(j) \in Nat
      BY TotalType
    <3>2. CASE r.pc = "others"
      BY <1>1, <2>0, <3>1, <3>2
    <3>3. CASE r.pc # "others"
      BY <1>1, <2>0, <3>1, <3>3
    <3> QED BY <3>2, <3>3
  <2>2. ASSUME run'[j].bad = 0, NEW i \in 1..(run'[j].next - 1) PROVE Known(Playlist[j][i])'
    <3>1. run[j].bad = 0 /\ bad = 0 /\ i \in 1..run[j].next
      BY <1>1, <1>3, <2>2 DEF RunType
    <3>2. CASE i \in 1..Done(j)
      BY <1>2, <1>3, <3>1, <3>2 DEF InPlaylist
    <3>3. CASE i \notin 1..Done(j)
      <4>1. i = run[j].next /\ ok = 1
        BY <1>3, <3>1, <3>3 DEF Done, RunType
      <4> QED BY <4>1
    <3> QED BY <3>2, <3>3
  <2> QED BY <1>1, <2>1, <2>2 DEF InPlaylist, Done, Total
<1>5. AtStart(j)' /\ OwnSteps(j)'
  BY <1>1 DEF AtStart, OwnSteps
<1>6. run[j].pc \in AtWorkPlaces
  BY DEF AtWorkPlaces
<1> QED BY <1>1, <1>4, <1>5, <1>6, GoesOn

\* The steps of one job, for the invariant.
LEMMA WorkKeeps ==
  ASSUME NEW j \in Jobs, LibraryInv, [Next]_vars, Work(j)
  PROVE  LibraryInv'
<1>0. /\ JobType /\ JobInv(j) /\ run[j] \in RunType /\ row[j] \in RowType /\ Total(j) \in Nat
      /\ \A s : Known(s) => Known(s)'
      /\ j \notin Uploads => DOMAIN Playlist[j] = 1..Total(j)
  BY KnownStays, TotalType DEF LibraryInv, JobType
<1>1. ASSUME Take(j) PROVE LibraryInv'
  <2>1. CASE Anew(j, "lost", 0) /\ UNCHANGED row
    BY <1>1, <2>1, RunCut DEF Take, At
  <2>2. CASE /\ row' = [row EXCEPT ![j].status = "running"]
             /\ Anew(j, IF j \in Uploads THEN "pick" ELSE "list", run[j].tries + 1)
    <3>1. PICK pc \in {"pick", "list"} :
            Anew(j, pc, run[j].tries + 1) /\ (pc = "list" => j \notin Uploads)
      BY <2>2
    <3>2. /\ run' \in [Jobs -> RunType] /\ \A k \in Jobs \ {j} : run'[k] = run[k]
          /\ run'[j].pc = pc /\ run'[j].next = 1 /\ run'[j].ok = 0 /\ run'[j].bad = 0
      <4>1. pc \in Places /\ run[j].tries + 1 \in Nat
        BY <1>0, <3>1 DEF Places, RunType
      <4> QED BY <1>0, <3>1, <4>1, RunAnew
    <3>3. /\ row' \in [Jobs -> RowType] /\ \A k \in Jobs \ {j} : row'[k] = row[k]
          /\ row'[j] = [row[j] EXCEPT !.status = "running"]
      <4>1. "running" \in Statuses
        BY DEF Statuses
      <4> QED BY <1>0, <2>2, <4>1, StatusRow
    <3>4. row'[j].status = "running"
      BY <1>0, <3>3 DEF RowType
    <3>5. JobInv(j)'
      BY <1>0, <3>1, <3>2, <3>4 DEF JobInv, InPlaylist, AtStart, OwnSteps, RowFitsRun, Reported
    <3> QED BY <3>2, <3>3, <3>5, OneJob DEF OneChanges, JobType
  <2> QED BY <1>1, <2>1, <2>2 DEF Take
<1>2. ASSUME List(j) PROVE LibraryInv'
  <2>1. CASE End(j, 0, 0, 0)
    BY <2>1, EndRow
  <2>2. CASE Raise(j)
    BY <1>2, <2>2, RaiseRow DEF List, At
  <2>3. CASE /\ Goto(j, "pick")
             /\ row' = [row EXCEPT ![j] = [status |-> "running", total |-> Total(j),
                                           processed |-> 0, failed |-> 0]]
    <3>1. /\ run' \in [Jobs -> RunType] /\ \A k \in Jobs \ {j} : run'[k] = run[k]
          /\ run'[j] = [run[j] EXCEPT !.pc = "pick"]
      <4>1. "pick" \in Places
        BY DEF Places
      <4> QED BY <1>0, <2>3, <4>1, GotoRun
    <3>2. /\ row' \in [Jobs -> RowType] /\ \A k \in Jobs \ {j} : row'[k] = row[k]
          /\ row'[j].status = "running"
      BY <1>0, <2>3 DEF JobType, RowType, Statuses
    <3>3. /\ run'[j].pc = "pick" /\ run'[j].next = run[j].next /\ run'[j].ok = run[j].ok
          /\ run'[j].bad = run[j].bad
      BY <1>0, <3>1 DEF RunType
    <3>4. JobInv(j)'
      BY <1>0, <1>2, <3>2, <3>3
      DEF List, At, JobInv, InPlaylist, AtStart, OwnSteps, RowFitsRun, Reported
    <3> QED BY <3>1, <3>2, <3>4, OneJob DEF OneChanges, JobType
  <2> QED BY <1>2, <2>1, <2>2, <2>3 DEF List
<1>3. ASSUME Pick(j) PROVE LibraryInv'
  <2>1. CASE End(j, 0, Total(j), Total(j))
    BY <1>0, <2>1, EndRow
  <2>2. CASE Raise(j)
    BY <1>3, <2>2, RaiseRow DEF Pick, At
  <2>3. CASE Goto(j, IF j \in Uploads THEN "fetch" ELSE "entry") /\ UNCHANGED row
    <3>1. PICK pc \in {"fetch", "entry"} : Goto(j, pc) /\ (pc = "fetch" <=> j \in Uploads)
      BY <2>3
    <3>2. /\ run' \in [Jobs -> RunType] /\ \A k \in Jobs \ {j} : run'[k] = run[k]
          /\ run'[j] = [run[j] EXCEPT !.pc = pc]
      <4>1. pc \in Places
        BY <3>1 DEF Places
      <4> QED BY <1>0, <3>1, <4>1, GotoRun
    <3>3. run'[j].pc = pc /\ run'[j].next = 1 /\ run'[j].ok = 0 /\ run'[j].bad = 0
      BY <1>0, <1>3, <3>2 DEF RunType, Pick, At, JobInv, AtStart
    <3>4. InPlaylist(j)' /\ AtStart(j)' /\ OwnSteps(j)'
      BY <1>0, <3>1, <3>3 DEF InPlaylist, Done, Total, AtStart, OwnSteps
    <3> QED BY <1>0, <1>3, <2>3, <3>2, <3>4, GoesOn, RowAlone DEF Pick, At, AtWorkPlaces
  <2> QED BY <1>3, <2>1, <2>2, <2>3 DEF Pick
<1>4. ASSUME run[j].pc \in {"entry", "fetch", "store", "others"}, j \notin Uploads,
             run[j].next <= Total(j), NEW ok \in {0, 1}, NEW bad \in {0, 1},
             EntryEnds(j, ok, bad),
             IF run[j].pc = "others" THEN ok = 0 ELSE ok + bad = 1,
             ok = 1 => InLibrary(Source(j)), tracks \subseteq tracks'
      PROVE  LibraryInv'
  <2>1. PICK source : source = Playlist[j][run[j].next]
    OBVIOUS
  <2>2. ok = 1 => Known(source)'
    BY <1>4, <2>1 DEF Known, InLibrary, Source
  <2>3. NextEntry(j, ok, bad) /\ CountersOnly(j)
    <3>1. run[j].ok + ok \in Nat /\ run[j].bad + bad \in Nat
      BY <1>0 DEF RunType
    <3> QED BY <1>0, <1>4, <3>1, SavedRow DEF EntryEnds
  <2> QED BY <1>4, <2>1, <2>2, <2>3, EntryDone
<1>5. ASSUME Entry(j) PROVE LibraryInv'
  <2>1. j \notin Uploads /\ run[j].pc = "entry" /\ run[j].next <= Total(j) /\ tracks' = tracks
    BY <1>0, <1>5 DEF Entry, At, JobInv, OwnSteps, library
  <2>2. CASE /\ InLibrary(Source(j)) /\ NextEntry(j, 1, 0)
             /\ row' = [row EXCEPT ![j].processed = run[j].ok + 1, ![j].failed = run[j].bad]
    <3>1. PICK source : source = Playlist[j][run[j].next]
      OBVIOUS
    <3>2. Known(source)'
      BY <2>1, <2>2, <3>1 DEF Known, InLibrary, Source
    <3>3. CountersOnly(j)
      <4>1. run[j].ok + 1 \in Nat /\ run[j].bad \in Nat
        BY <1>0 DEF RunType
      <4> QED BY <1>0, <2>2, <4>1, SavedRow
    <3> QED BY <2>1, <2>2, <3>1, <3>2, <3>3, EntryDone
  <2>3. CASE Goto(j, "fetch") /\ UNCHANGED row
    <3>1. /\ run' \in [Jobs -> RunType] /\ \A k \in Jobs \ {j} : run'[k] = run[k]
          /\ run'[j] = [run[j] EXCEPT !.pc = "fetch"]
      <4>1. "fetch" \in Places
        BY DEF Places
      <4> QED BY <1>0, <2>3, <4>1, GotoRun
    <3>2. /\ run'[j].pc = "fetch" /\ run'[j].next = run[j].next /\ run'[j].ok = run[j].ok
          /\ run'[j].bad = run[j].bad
      BY <1>0, <3>1 DEF RunType
    <3>3. InPlaylist(j)' /\ AtStart(j)' /\ OwnSteps(j)'
      BY <1>0, <2>1, <3>2 DEF JobInv, InPlaylist, Done, Total, AtStart, OwnSteps
    <3> QED BY <1>0, <2>1, <2>3, <3>1, <3>3, GoesOn, RowAlone DEF AtWorkPlaces
  <2>4. CASE EntryEnds(j, 0, 1)
    BY <1>4, <2>1, <2>4
  <2>5. CASE Raise(j)
    BY <1>5, <2>5, RaiseRow DEF Entry, At
  <2> QED BY <1>5, <2>2, <2>3, <2>4, <2>5 DEF Entry
<1>6. ASSUME Finish(j) PROVE LibraryInv'
  <2>1. /\ j \notin Uploads /\ run[j].pc = "entry" /\ run[j].next = Total(j) + 1
    BY <1>0, <1>6 DEF Finish, At, JobInv, OwnSteps, InPlaylist, RunType
  <2>2. CASE End(j, run[j].ok, run[j].bad, Total(j))
    <3>1. /\ run[j].ok \in Nat /\ run[j].bad \in Nat
          /\ run[j].ok <= Total(j) /\ run[j].bad <= Total(j) /\ run[j].ok + run[j].bad >= Total(j)
      BY <1>0, <2>1 DEF JobInv, InPlaylist, Done, RunType
    <3>2. run[j].bad = 0 => AllKnown(j)'
      <4>1. run[j].bad = 0 => \A i \in 1..Total(j) : Known(Playlist[j][i])
        BY <1>0, <2>1 DEF JobInv, InPlaylist, Done
      <4> QED BY <1>0, <2>1, <4>1 DEF AllKnown
    <3> QED BY <1>0, <2>2, <3>1, <3>2, EndRow
  <2>3. CASE Raise(j)
    BY <1>6, <2>3, RaiseRow DEF Finish, At
  <2> QED BY <1>6, <2>2, <2>3 DEF Finish
<1>7. ASSUME Fetch(j) PROVE LibraryInv'
  <2>1. run[j].pc = "fetch" /\ tracks' = tracks
    BY <1>7 DEF Fetch, At, library
  <2>2. CASE Goto(j, "store") /\ UNCHANGED row
    <3>1. /\ run' \in [Jobs -> RunType] /\ \A k \in Jobs \ {j} : run'[k] = run[k]
          /\ run'[j] = [run[j] EXCEPT !.pc = "store"]
      <4>1. "store" \in Places
        BY DEF Places
      <4> QED BY <1>0, <2>2, <4>1, GotoRun
    <3>2. /\ run'[j].pc = "store" /\ run'[j].next = run[j].next /\ run'[j].ok = run[j].ok
          /\ run'[j].bad = run[j].bad
      BY <1>0, <3>1 DEF RunType
    <3>3. InPlaylist(j)' /\ AtStart(j)' /\ OwnSteps(j)'
      BY <1>0, <2>1, <3>2 DEF JobInv, InPlaylist, Done, Total, AtStart, OwnSteps
    <3> QED BY <1>0, <2>1, <2>2, <3>1, <3>3, GoesOn, RowAlone DEF AtWorkPlaces
  <2>3. CASE j \notin Uploads /\ EntryEnds(j, 0, 1)
    <3>1. run[j].next <= Total(j)
      BY <1>0, <2>1, <2>3 DEF JobInv, InPlaylist
    <3> QED BY <1>4, <2>1, <2>3, <3>1
  <2>4. CASE Raise(j)
    BY <1>7, <2>4, RaiseRow DEF Fetch, At
  <2>5. CASE End(j, 0, 1, 1)
    BY <2>5, EndRow
  <2> QED BY <1>7, <2>2, <2>3, <2>4, <2>5 DEF Fetch
<1>8. ASSUME Store(j) PROVE LibraryInv'
  <2>1. /\ j \notin Uploads /\ run[j].pc = "store" /\ run[j].next >= 1 /\ run[j].next <= Total(j)
    BY <1>0, <1>8 DEF Store, At, JobInv, InPlaylist
  <2>2. CASE Stored(j)
    <3> DEFINE r == [pc |-> "others", next |-> run[j].next, ok |-> run[j].ok + 1,
                   bad |-> run[j].bad, tries |-> run[j].tries]
    <3>0. r \in RunType
      BY <1>0 DEF RunType, Places
    <3>1. run' = [run EXCEPT ![j] = r]
      BY <2>2 DEF Stored
    <3>2. /\ r.pc = "others" /\ r.next = run[j].next /\ r.ok = run[j].ok + 1
          /\ r.bad = run[j].bad
      BY <1>0 DEF RunType
    <3> HIDE DEF r
    <3>3. /\ run' \in [Jobs -> RunType] /\ run'[j] = r /\ \A k \in Jobs \ {j} : run'[k] = run[k]
      BY <1>0, <3>0, <3>1 DEF JobType
    <3>4. PICK source : source = Playlist[j][run[j].next]
      OBVIOUS
    <3>5. Known(source)'
      <4> DEFINE t == [id |-> FreshId, source |-> Source(j), likes |-> 0, dislikes |-> 0]
      <4>1. tracks' = tracks \cup {t} /\ Source(j) = source
        BY <2>1, <2>2, <3>4 DEF Stored, NewTrack, Source
      <4>2. t \in tracks' /\ t.source = Source(j)
        BY <4>1
      <4> HIDE DEF t
      <4> QED BY <4>1, <4>2 DEF Known, InLibrary
    <3>6. InPlaylist(j)'
      <4>1. /\ run'[j].bad < run'[j].next /\ run'[j].ok <= run'[j].next
            /\ run'[j].ok + run'[j].bad >= run'[j].next
        BY <1>0, <2>1, <3>2, <3>3 DEF JobInv, InPlaylist, Done, RunType
      <4>2. ASSUME run[j].bad = 0, NEW i \in 1..run[j].next PROVE Known(Playlist[j][i])'
        <5>1. CASE i = run[j].next
          BY <3>4, <3>5, <5>1
        <5>2. CASE i # run[j].next
          <6>1. i \in 1..Done(j)
            BY <1>0, <2>1, <4>2, <5>2 DEF Done, RunType
          <6> QED BY <1>0, <2>1, <4>2, <6>1 DEF JobInv, InPlaylist
        <5> QED BY <5>1, <5>2
      <4> QED BY <2>1, <3>2, <3>3, <4>1, <4>2 DEF InPlaylist, Done, Total
    <3>7. AtStart(j)' /\ OwnSteps(j)'
      BY <2>1, <3>2, <3>3 DEF AtStart, OwnSteps
    <3> QED BY <1>0, <2>1, <2>2, <3>3, <3>6, <3>7, GoesOn, RowAlone DEF Stored, AtWorkPlaces
  <2>3. CASE Duplicate(j)
    BY <1>4, <2>1, <2>3 DEF Duplicate
  <2>4. CASE StoreFails(j)
    BY <1>4, <2>1, <2>4 DEF StoreFails
  <2> QED BY <1>8, <2>2, <2>3, <2>4 DEF Store
<1>9. ASSUME StoreFile(j) PROVE LibraryInv'
  <2>1. CASE Raise(j)
    BY <1>9, <2>1, RaiseRow DEF StoreFile, At
  <2>2. CASE NewTrack(j) /\ Goto(j, "unlink") /\ UNCHANGED row
    <3>1. /\ run' \in [Jobs -> RunType] /\ \A k \in Jobs \ {j} : run'[k] = run[k]
          /\ run'[j] = [run[j] EXCEPT !.pc = "unlink"]
      <4>1. "unlink" \in Places
        BY DEF Places
      <4> QED BY <1>0, <2>2, <4>1, GotoRun
    <3>2. run'[j].pc = "unlink"
      BY <1>0, <3>1 DEF RunType
    <3>3. Known(j)'
      <4> DEFINE t == [id |-> FreshId, source |-> Source(j), likes |-> 0, dislikes |-> 0]
      <4>1. tracks' = tracks \cup {t} /\ Source(j) = j
        BY <1>9, <2>2 DEF StoreFile, NewTrack, Source
      <4>2. t \in tracks' /\ t.source = Source(j)
        BY <4>1
      <4> HIDE DEF t
      <4> QED BY <4>1, <4>2 DEF Known, InLibrary
    <3>4. InPlaylist(j)' /\ AtStart(j)' /\ OwnSteps(j)'
      BY <1>9, <3>2, <3>3 DEF StoreFile, InPlaylist, AtStart, OwnSteps
    <3> QED BY <1>0, <1>9, <2>2, <3>1, <3>4, GoesOn, RowAlone DEF StoreFile, At, AtWorkPlaces
  <2> QED BY <1>9, <2>1, <2>2 DEF StoreFile
<1>10. ASSUME FinishFile(j) PROVE LibraryInv'
  <2>1. CASE End(j, 1, 0, 1)
    <3>1. AllKnown(j)'
      BY <1>0, <1>10 DEF FinishFile, At, JobInv, OwnSteps, AllKnown
    <3> QED BY <2>1, <3>1, EndRow
  <2>2. CASE Raise(j)
    BY <1>10, <2>2, RaiseRow DEF FinishFile, At
  <2> QED BY <1>10, <2>1, <2>2 DEF FinishFile
<1>11. ASSUME Others(j) PROVE LibraryInv'
  <2>1. /\ j \notin Uploads /\ run[j].pc = "others" /\ run[j].next <= Total(j) /\ tracks' = tracks
    BY <1>0, <1>11 DEF Others, At, JobInv, OwnSteps, InPlaylist, library
  <2>2. PICK bad \in {0, 1} : EntryEnds(j, 0, bad)
    BY <1>11 DEF Others
  <2> QED BY <1>4, <2>1, <2>2
<1>12. ASSUME Unlink(j) PROVE LibraryInv'
  <2>1. /\ run' \in [Jobs -> RunType] /\ \A k \in Jobs \ {j} : run'[k] = run[k]
        /\ run'[j] = [run[j] EXCEPT !.pc = "finish"]
    <3>1. "finish" \in Places
      BY DEF Places
    <3> QED BY <1>0, <1>12, <3>1, GotoRun DEF Unlink
  <2>2. run'[j].pc = "finish" /\ j \in Uploads /\ Known(j)'
    BY <1>0, <1>12, <2>1 DEF RunType, Unlink, At, JobInv, OwnSteps
  <2>3. InPlaylist(j)' /\ AtStart(j)' /\ OwnSteps(j)'
    BY <2>2 DEF InPlaylist, AtStart, OwnSteps
  <2> QED BY <1>0, <1>12, <2>1, <2>3, GoesOn, RowAlone DEF Unlink, At, AtWorkPlaces
<1>13. ASSUME GiveUp(j) \/ Recorded(j) PROVE LibraryInv'
  BY <1>13, RunCut DEF GiveUp, Recorded, At
<1> QED BY <1>1, <1>2, <1>3, <1>5, <1>6, <1>7, <1>8, <1>9, <1>10, <1>11, <1>12, <1>13 DEF Work

\* The task is stopped: the job waits to be run again, or is lost.
LEMMA StopKeeps ==
  ASSUME NEW j \in Jobs, LibraryInv, [Next]_vars, Kill(j) \/ Timeout(j)
  PROVE  LibraryInv'
<1>1. run[j].pc # "none" /\ run[j].tries \in Nat /\ UNCHANGED row
  BY DEF LibraryInv, JobType, RunType, Kill, Timeout, Running
<1>2. Anew(j, "queued", run[j].tries) \/ Anew(j, "lost", 0)
  BY DEF Kill, Timeout
<1> QED BY <1>1, <1>2, RunCut

\* A job that is submitted.
LEMMA SubmitKeeps == ASSUME NEW j \in Jobs, LibraryInv, [Next]_vars, Submit(j) PROVE LibraryInv'
<1>1. JobType /\ JobInv(j) /\ run[j] \in RunType /\ row[j] \in RowType
  BY DEF LibraryInv, JobType
<1>2. run[j].pc = "none" /\ run[j].next = 1 /\ run[j].ok = 0 /\ run[j].bad = 0
  BY <1>1 DEF Submit, JobInv, AtStart, RowFitsRun
<1>3. /\ run' \in [Jobs -> RunType] /\ \A k \in Jobs \ {j} : run'[k] = run[k]
      /\ run'[j].pc \in {"queued", "lost"}
      /\ run'[j].next = 1 /\ run'[j].ok = 0 /\ run'[j].bad = 0
  <2>1. {"queued", "lost"} \subseteq Places
    BY DEF Places
  <2>2. CASE Goto(j, "queued")
    <3>1. /\ run' \in [Jobs -> RunType] /\ \A k \in Jobs \ {j} : run'[k] = run[k]
          /\ run'[j] = [run[j] EXCEPT !.pc = "queued"]
      BY <1>1, <2>1, <2>2, GotoRun
    <3> QED BY <1>1, <1>2, <3>1 DEF RunType
  <2>3. CASE Anew(j, "lost", 0)
    BY <1>1, <2>1, <2>3, RunAnew
  <2> QED BY <2>2, <2>3 DEF Submit, StartIngest
<1>4. /\ row' \in [Jobs -> RowType] /\ \A k \in Jobs \ {j} : row'[k] = row[k]
      /\ row'[j] = [row[j] EXCEPT !.status = "pending"]
  <2>1. "pending" \in Statuses /\ row' = [row EXCEPT ![j].status = "pending"]
    BY DEF Submit, StartIngest, Statuses
  <2> QED BY <1>1, <2>1, StatusRow
<1>5. row'[j].status = "pending"
  BY <1>1, <1>4 DEF RowType
<1>6. JobInv(j)'
  BY <1>3, <1>5 DEF JobInv, InPlaylist, AtStart, OwnSteps, RowFitsRun, Reported
<1> QED BY <1>3, <1>4, <1>6, OneJob DEF OneChanges, JobType

\* A step that leaves all jobs alone.
LEMMA JobsAlone == ASSUME LibraryInv, [Next]_vars, UNCHANGED <<run, row>> PROVE LibraryInv'
<1>1. ASSUME NEW j \in Jobs PROVE LibraryInv'
  <2>1. JobInv(j)'
    BY KnownStays DEF LibraryInv, JobInv, InPlaylist, Done, Total, AtStart, OwnSteps, RowFitsRun,
       Reported, AllKnown
  <2> QED BY <2>1, OneJob DEF OneChanges, LibraryInv, JobType
<1>2. CASE Jobs = {}
  BY <1>2 DEF LibraryInv, JobType
<1> QED BY <1>1, <1>2

(* The invariant holds whatever is submitted, fails, is killed or deleted:   *)
(* types, places, and what the counters of the runs and rows stand for.      *)
THEOREM LibraryInvariant == Spec => []LibraryInv
<1>1. Init => LibraryInv
  <2> SUFFICES ASSUME Init PROVE LibraryInv
    OBVIOUS
  <2>1. NewRow \in RowType /\ NewRun("none", 0) \in RunType
    BY DEF NewRow, RowType, Statuses, NewRun, RunType, Places
  <2>2. ASSUME NEW j \in Jobs PROVE JobInv(j)
    <3>1. /\ run[j] = [pc |-> "none", next |-> 1, ok |-> 0, bad |-> 0, tries |-> 0]
          /\ row[j].status = "none"
      BY DEF Init, NewRow, NewRun
    <3> QED BY <3>1 DEF JobInv, InPlaylist, AtStart, OwnSteps, RowFitsRun, Reported
  <2> QED BY <2>1, <2>2 DEF LibraryInv, JobType, Init
<1>2. LibraryInv /\ [Next]_vars => LibraryInv'
  <2> SUFFICES ASSUME LibraryInv, [Next]_vars PROVE LibraryInv'
    OBVIOUS
  <2>1. ASSUME NEW j \in Jobs, Submit(j) \/ Work(j) \/ Kill(j) \/ Timeout(j) PROVE LibraryInv'
    BY <2>1, SubmitKeeps, WorkKeeps, StopKeeps
  <2>2. CASE UNCHANGED <<run, row>>
    BY <2>2, JobsAlone
  <2>3. ASSUME NEW id \in TrackIds, Delete(id) PROVE LibraryInv'
    BY <2>2, <2>3 DEF Delete
  <2>4. ASSUME NEW t \in Taps, Cast(t) PROVE LibraryInv'
    BY <2>2, <2>4 DEF Cast
  <2>5. ASSUME NEW t \in Taps, NEW voter \in Voters, NEW value \in {1, 2}, Read(t, voter, value)
        PROVE  LibraryInv'
    BY <2>2, <2>5 DEF Read
  <2>6. CASE UNCHANGED vars
    BY <2>2, <2>6 DEF vars
  <2> QED BY <2>1, <2>3, <2>4, <2>5, <2>6 DEF Next
<1> QED BY <1>1, <1>2, PTL DEF Spec

(* A completed job has its tracks in the library, but for those deleted:     *)
(* for any jobs, overlaps, faults, kills and deletions.                      *)
THEOREM CompletedJobsStored == Spec => []CompletedInLibrary
<1>1. LibraryInv => CompletedInLibrary
  BY DEF LibraryInv, JobInv, AllKnown, Known, CompletedInLibrary
<1> QED BY <1>1, LibraryInvariant, PTL

(* What a finished job reports covers every entry of its playlist, and a job *)
(* that reports a failure is not completed.                                  *)
THEOREM EntriesCounted == Spec => []EntriesAccountedFor
<1>1. LibraryInv => EntriesAccountedFor
  BY DEF LibraryInv, JobInv, Reported, EntriesAccountedFor
<1> QED BY <1>1, LibraryInvariant, PTL

-----------------------------------------------------------------------------
(* The votes, when one is handled at a time.  A new track needs an id that no  *)
(* row has and no vote in progress remembers: there is one, since the rows are *)
(* at most as many as the sources, the files and the kills.                    *)

Of(sources) == {t \in tracks : t.source \in sources}

\* The files whose track is still to come from the run under way.
Past == {"unlink", "finish", "ended", "over", "lost"}
ToStore == {j \in Uploads : run[j].pc \notin Past}

SpaceInv ==
  /\ kills \in 0..MaxKills
  /\ tracks = Of(Sources \cup Uploads) /\ IsFiniteSet(tracks)
  /\ \A t, u \in Of(Sources) : t.source = u.source => t = u
  /\ Cardinality(Of(Uploads)) + Cardinality(ToStore) <= Cardinality(Uploads) + kills

LEMMA SourcesFinite ==
  /\ IsFiniteSet(Sources) /\ Cardinality(Sources) \in Nat
  /\ IsFiniteSet(Uploads) /\ Cardinality(Uploads) \in Nat
  /\ Cardinality(Taps) \in Nat /\ MaxKills \in Nat
<1> DEFINE entries == [j \in Jobs |-> {Playlist[j][i] : i \in DOMAIN Playlist[j]}]
           all == {entries[j] : j \in Jobs}
<1>1. IsFiniteSet(all)
  <2>1. entries \in Surjection(Jobs, all)
    BY DEF Surjection
  <2> QED BY <2>1, LibraryAssumption, FS_Surjection
<1>2. ASSUME NEW j \in Jobs PROVE IsFiniteSet(entries[j])
  <2>1. Playlist[j] \in Seq(Sources)
    BY LibraryAssumption
  <2>2. DOMAIN Playlist[j] = 1..Len(Playlist[j]) /\ Len(Playlist[j]) \in Nat
    BY <2>1
  <2>3. IsFiniteSet(DOMAIN Playlist[j])
    BY <2>2, FS_Interval
  <2> DEFINE f == [i \in DOMAIN Playlist[j] |-> Playlist[j][i]]
  <2>4. f \in Surjection(DOMAIN Playlist[j], entries[j])
    BY DEF Surjection
  <2> QED BY <2>3, <2>4, FS_Surjection
<1>3. IsFiniteSet(UNION all)
  <2>1. \A T \in all : IsFiniteSet(T)
    BY <1>2
  <2> QED BY <1>1, <2>1, FS_UNION
<1>4. Sources = UNION all
  BY DEF Sources
<1>5. IsFiniteSet(Uploads)
  BY LibraryAssumption, FS_Subset
<1> QED BY <1>3, <1>4, <1>5, LibraryAssumption, FS_CardinalityType

\* The parts of the tracks are finite.
LEMMA PartsFinite ==
  ASSUME SpaceInv
  PROVE  /\ Cardinality(tracks) \in Nat
         /\ \A S : IsFiniteSet(Of(S)) /\ Cardinality(Of(S)) \in Nat
         /\ Cardinality(tracks) <= Cardinality(Of(Sources)) + Cardinality(Of(Uploads))
         /\ IsFiniteSet(ToStore) /\ Cardinality(ToStore) \in Nat
<1>1. ASSUME NEW S PROVE IsFiniteSet(Of(S)) /\ Cardinality(Of(S)) \in Nat
  <2>1. Of(S) \in SUBSET tracks
    BY DEF Of
  <2> QED BY <2>1, FS_Subset, FS_CardinalityType DEF SpaceInv
<1>2. IsFiniteSet(ToStore)
  BY SourcesFinite, FS_Subset DEF ToStore
<1>3. tracks = Of(Sources) \cup Of(Uploads)
  BY DEF SpaceInv, Of
<1>4. Cardinality(tracks) =
        Cardinality(Of(Sources)) + Cardinality(Of(Uploads)) - Cardinality(Of(Sources) \cap Of(Uploads))
  BY <1>1, <1>3, FS_Union
<1>5. Cardinality(Of(Sources) \cap Of(Uploads)) \in Nat
  BY <1>1, FS_Intersection, FS_CardinalityType
<1>6. IsFiniteSet(tracks) /\ Cardinality(tracks) \in Nat
  BY FS_CardinalityType DEF SpaceInv
<1> QED BY <1>1, <1>2, <1>4, <1>5, <1>6, FS_CardinalityType

\* Each source of a playlist has at most one track.
LEMMA OfSources ==
  ASSUME SpaceInv, NEW S \in SUBSET Sources, Of(Sources) = Of(S)
  PROVE  Cardinality(Of(Sources)) <= Cardinality(S)
<1> DEFINE f == [t \in Of(Sources) |-> t.source]
<1>1. f \in Injection(Of(Sources), S)
  BY DEF Injection, IsInjective, SpaceInv, Of
<1>2. IsFiniteSet(S)
  BY SourcesFinite, FS_Subset
<1> QED BY <1>1, <1>2, FS_Injection

\* A job that is about to store a track leaves room for its id.
LEMMA RoomForOne ==
  ASSUME SpaceInv, NEW j \in Jobs,
         \/ j \notin Uploads /\ Source(j) \in Sources /\ ~InLibrary(Source(j))
         \/ j \in Uploads /\ At(j, "store")
  PROVE  Cardinality(tracks) < Cardinality(Sources) + Cardinality(Uploads) + MaxKills
<1>1. kills \in Nat /\ kills <= MaxKills
  BY SourcesFinite DEF SpaceInv
<1>2. CASE j \notin Uploads /\ Source(j) \in Sources /\ ~InLibrary(Source(j))
  <2> DEFINE S == Sources \ {Source(j)}
  <2>1. Of(Sources) = Of(S)
    BY <1>2 DEF Of, InLibrary
  <2>2. Cardinality(S) = Cardinality(Sources) - 1
    BY <1>2, SourcesFinite, FS_RemoveElement
  <2>3. Cardinality(Of(Sources)) <= Cardinality(S)
    BY <2>1, OfSources
  <2>4. Cardinality(Of(Uploads)) <= Cardinality(Uploads) + kills
    BY <1>1, PartsFinite, SourcesFinite DEF SpaceInv
  <2> QED BY <1>1, <2>2, <2>3, <2>4, PartsFinite, SourcesFinite
<1>3. CASE j \in Uploads /\ At(j, "store")
  <2>1. j \in ToStore
    BY <1>3 DEF ToStore, Past, At
  <2>2. Cardinality(ToStore) # 0
    BY <2>1, PartsFinite, FS_EmptySet
  <2>3. Cardinality(Of(Sources)) <= Cardinality(Sources)
    BY OfSources
  <2> QED BY <1>1, <2>2, <2>3, PartsFinite, SourcesFinite DEF SpaceInv
<1> QED BY <1>2, <1>3

\* Then there is an id that is new.
LEMMA FreshIdIsNew ==
  ASSUME SpaceInv, Cardinality(tracks) < Cardinality(Sources) + Cardinality(Uploads) + MaxKills
  PROVE  /\ FreshId \in TrackIds /\ ~Exists(FreshId)
         /\ \A t \in Taps : tap[t].track # FreshId
<1> DEFINE ids == {t.id : t \in tracks}
           taken == {tap[t].track : t \in Taps}
           f == [t \in tracks |-> t.id]
           g == [t \in Taps |-> tap[t].track]
           n == Cardinality(Sources) + Cardinality(Uploads) + MaxKills + Cardinality(Taps)
<1>1. IsFiniteSet(ids) /\ Cardinality(ids) <= Cardinality(tracks)
  <2>1. f \in Surjection(tracks, ids)
    BY DEF Surjection
  <2> QED BY <2>1, FS_Surjection DEF SpaceInv
<1>2. IsFiniteSet(taken) /\ Cardinality(taken) <= Cardinality(Taps)
  <2>1. g \in Surjection(Taps, taken)
    BY DEF Surjection
  <2> QED BY <2>1, FS_Surjection, LibraryAssumption
<1>3. IsFiniteSet(ids \cup taken) /\ Cardinality(ids \cup taken) <= Cardinality(ids) + Cardinality(taken)
  <2>1. Cardinality(ids \cup taken) = Cardinality(ids) + Cardinality(taken) - Cardinality(ids \cap taken)
    BY <1>1, <1>2, FS_Union
  <2>2. Cardinality(ids \cap taken) \in Nat
    BY <1>1, FS_Intersection, FS_CardinalityType
  <2>3. Cardinality(ids) \in Nat /\ Cardinality(taken) \in Nat
    BY <1>1, <1>2, FS_CardinalityType
  <2> QED BY <1>1, <1>2, <2>1, <2>2, <2>3, FS_Union
<1>4. n \in Nat /\ TrackIds = 1..n /\ Cardinality(TrackIds) = n
  <2>1. n \in Nat
    BY SourcesFinite
  <2>2. TrackIds = 1..n
    BY DEF TrackIds
  <2> QED BY <2>1, <2>2, FS_Interval
<1>5. Cardinality(ids \cup taken) < n
  <2>1. /\ Cardinality(ids) \in Nat /\ Cardinality(taken) \in Nat
        /\ Cardinality(ids \cup taken) \in Nat
    BY <1>1, <1>2, <1>3, FS_CardinalityType
  <2> QED BY <1>1, <1>2, <1>3, <2>1, SourcesFinite, PartsFinite
<1>6. \E id \in TrackIds : id \notin ids \cup taken
  <2>1. SUFFICES ASSUME TrackIds \in SUBSET (ids \cup taken) PROVE FALSE
    OBVIOUS
  <2>2. Cardinality(TrackIds) <= Cardinality(ids \cup taken)
    BY <1>3, <2>1, FS_Subset
  <2>3. Cardinality(ids \cup taken) \in Nat
    BY <1>3, FS_CardinalityType
  <2> QED BY <1>4, <1>5, <2>2, <2>3
<1>7. \E id \in TrackIds : ~Exists(id) /\ \A t \in Taps : tap[t].track # id
  BY <1>6 DEF Exists
<1> QED BY <1>7 DEF FreshId

LEMMA OneMore ==
  ASSUME NEW S, NEW x, IsFiniteSet(S)
  PROVE  /\ IsFiniteSet(S \cup {x}) /\ Cardinality(S \cup {x}) \in Nat
         /\ Cardinality(S \cup {x}) <= Cardinality(S) + 1
<1>1. Cardinality(S) \in Nat
  BY FS_CardinalityType
<1>2. /\ IsFiniteSet(S \cup {x})
      /\ Cardinality(S \cup {x}) = IF x \in S THEN Cardinality(S) ELSE Cardinality(S) + 1
  BY FS_AddElement
<1> QED BY <1>1, <1>2

\* A run that has stored its track, or ended, comes back only when it is killed.
LEMMA NeverBack ==
  ASSUME LibraryInv, NEW j \in Jobs, Submit(j) \/ Work(j) \/ Timeout(j)
  PROVE  ToStore' \subseteq ToStore
<1>1. \A k \in Jobs \ {j} : run'[k] = run[k]
  <2>1. \E x : run' = [run EXCEPT ![j] = x]
    <3>1. CASE Submit(j)
      BY <3>1 DEF Submit, StartIngest, Goto, Anew
    <3>2. CASE Timeout(j)
      BY <3>2 DEF Timeout, Anew
    <3>3. CASE Take(j) \/ GiveUp(j) \/ Recorded(j) \/ Unlink(j)
      BY <3>3 DEF Take, GiveUp, Recorded, Unlink, Goto, Anew
    <3>4. CASE List(j) \/ Pick(j) \/ Entry(j) \/ Finish(j) \/ Fetch(j)
      BY <3>4 DEF List, Pick, Entry, Finish, Fetch, End, Raise, Goto, Anew, EntryEnds, NextEntry
    <3>5. CASE Store(j) \/ StoreFile(j) \/ FinishFile(j) \/ Others(j)
      BY <3>5 DEF Store, Stored, Duplicate, StoreFails, StoreFile, FinishFile, Others, End, Raise,
         Goto, Anew, EntryEnds, NextEntry
    <3> QED BY <3>1, <3>2, <3>3, <3>4, <3>5 DEF Work
  <2> QED BY <2>1 DEF LibraryInv, JobType
<1>2. ASSUME NEW pc \in Past, Goto(j, pc) \/ \E tries : Anew(j, pc, tries)
      PROVE  run'[j].pc \in Past
  BY <1>2 DEF Goto, Anew, NewRun, LibraryInv, JobType, RunType
<1>3. run[j].pc \in Past => run'[j].pc \in Past
  <2>1. {"unlink", "finish", "ended", "over", "lost"} \subseteq Past
    BY DEF Past
  <2>2. CASE Submit(j)
    BY <2>2 DEF Submit, LibraryInv, JobInv, RowFitsRun, Past
  <2>3. CASE Timeout(j) \/ GiveUp(j) \/ Recorded(j) \/ Unlink(j)
    BY <1>2, <2>1, <2>3 DEF Timeout, GiveUp, Recorded, Unlink
  <2>4. CASE FinishFile(j)
    BY <1>2, <2>1, <2>4 DEF FinishFile, End, Raise
  <2>5. CASE Take(j) \/ List(j) \/ Pick(j) \/ Entry(j) \/ Finish(j) \/ Fetch(j)
             \/ Store(j) \/ StoreFile(j) \/ Others(j)
    BY <2>5 DEF Take, List, Pick, Entry, Finish, Fetch, Store, StoreFile, Others, At, Past
  <2> QED BY <2>2, <2>3, <2>4, <2>5 DEF Work
<1> QED BY <1>1, <1>3, LibraryAssumption DEF ToStore

\* A step that adds no track, whatever it does to their counters.
LEMMA SpaceStays ==
  ASSUME SpaceInv, kills' = kills, ToStore' \subseteq ToStore,
         NEW left \in SUBSET tracks, NEW f \in Surjection(left, tracks'),
         \A t \in left : f[t].source = t.source
  PROVE  SpaceInv'
<1>1. \A u \in tracks' : \E t \in left : f[t] = u /\ t.source = u.source
  BY DEF Surjection
<1>2. tracks' = Of(Sources \cup Uploads)'
  BY <1>1 DEF SpaceInv, Of
<1>3. IsFiniteSet(tracks')
  <2>1. IsFiniteSet(left)
    BY FS_Subset DEF SpaceInv
  <2> QED BY <2>1, FS_Surjection
<1>4. ASSUME NEW t \in Of(Sources)', NEW u \in Of(Sources)', t.source = u.source PROVE t = u
  <2>1. PICK x \in left : f[x] = t /\ x.source = t.source
    BY <1>1 DEF Of
  <2>2. PICK y \in left : f[y] = u /\ y.source = u.source
    BY <1>1 DEF Of
  <2>3. x \in Of(Sources) /\ y \in Of(Sources)
    BY <2>1, <2>2 DEF Of
  <2> QED BY <1>4, <2>1, <2>2, <2>3 DEF SpaceInv
<1>5. Cardinality(Of(Uploads)') <= Cardinality(Of(Uploads)) /\ Cardinality(Of(Uploads)') \in Nat
  <2> DEFINE from == {t \in left : t.source \in Uploads}
             g == [t \in from |-> f[t]]
  <2>1. g \in Surjection(from, Of(Uploads)')
    <3>1. \A t \in from : f[t] \in Of(Uploads)'
      BY DEF Of, Surjection
    <3>2. \A u \in Of(Uploads)' : \E t \in from : f[t] = u
      BY <1>1 DEF Of
    <3> QED BY <3>1, <3>2 DEF Surjection
  <2>2. from \in SUBSET Of(Uploads)
    BY DEF Of
  <2>3. IsFiniteSet(from) /\ Cardinality(from) <= Cardinality(Of(Uploads)) /\ Cardinality(from) \in Nat
    BY <2>2, PartsFinite, FS_Subset, FS_CardinalityType
  <2>4. IsFiniteSet(Of(Uploads)') /\ Cardinality(Of(Uploads)') <= Cardinality(from)
    BY <2>1, <2>3, FS_Surjection
  <2> QED BY <2>3, <2>4, PartsFinite, FS_CardinalityType
<1>6. Cardinality(ToStore') <= Cardinality(ToStore) /\ Cardinality(ToStore') \in Nat
  BY PartsFinite, FS_Subset, FS_CardinalityType
<1>7. kills \in Nat
  BY SourcesFinite DEF SpaceInv
<1>8. Cardinality(Of(Uploads)') + Cardinality(ToStore') <= Cardinality(Uploads) + kills
  BY <1>5, <1>6, <1>7, PartsFinite, SourcesFinite DEF SpaceInv
<1> QED BY <1>2, <1>3, <1>4, <1>8 DEF SpaceInv

LEMMA SameTracks ==
  ASSUME SpaceInv, kills' = kills, ToStore' \subseteq ToStore, tracks' \in SUBSET tracks
  PROVE  SpaceInv'
<1> DEFINE f == [t \in tracks' |-> t]
<1>1. f \in Surjection(tracks', tracks')
  BY DEF Surjection
<1> HIDE DEF f
<1>2. \A t \in tracks' : f[t].source = t.source
  BY DEF f
<1> QED BY <1>1, <1>2, SpaceStays

\* A playlist's entry is a source.
LEMMA EntrySource ==
  ASSUME LibraryInv, NEW j \in Jobs, j \notin Uploads, At(j, "store")
  PROVE  Source(j) \in Sources
<1>1. run[j].next \in Nat /\ run[j].next >= 1 /\ run[j].next <= Total(j)
  BY DEF LibraryInv, JobType, RunType, JobInv, InPlaylist, At
<1>2. run[j].next \in DOMAIN Playlist[j]
  BY <1>1, TotalType
<1> QED BY <1>2 DEF Source, Sources

\* What a new track does to the rows of each kind.
LEMMA SpaceGrows ==
  ASSUME LibraryInv, SpaceInv, NEW j \in Jobs, Store(j) \/ StoreFile(j), NewTrack(j),
         j \notin Uploads => ~InLibrary(Source(j))
  PROVE  SpaceInv'
<1> DEFINE new == [id |-> FreshId, source |-> Source(j), likes |-> 0, dislikes |-> 0]
<1>1. tracks' = tracks \cup {new} /\ new.source = Source(j)
  BY DEF NewTrack
<1>2. kills' = kills /\ At(j, "store") /\ kills \in Nat
  BY SourcesFinite DEF Store, StoreFile, SpaceInv
<1>3. ToStore' \subseteq ToStore
  BY NeverBack DEF Work
<1>4. Source(j) \in Sources \cup Uploads
  BY <1>2, EntrySource DEF Source
<1>5. tracks' = Of(Sources \cup Uploads)' /\ IsFiniteSet(tracks')
  <2> HIDE DEF new
  <2>1. tracks' = Of(Sources \cup Uploads)'
    BY <1>1, <1>4 DEF SpaceInv, Of
  <2>2. IsFiniteSet(tracks \cup {new})
    BY FS_AddElement DEF SpaceInv
  <2> QED BY <1>1, <2>1, <2>2
<1>6. Cardinality(ToStore') <= Cardinality(ToStore) /\ Cardinality(ToStore') \in Nat
  BY <1>3, PartsFinite, FS_Subset, FS_CardinalityType
<1>7. CASE j \notin Uploads
  <2>1. Source(j) \in Sources /\ Source(j) \notin Uploads /\ ~InLibrary(Source(j))
    BY <1>2, <1>7, EntrySource, LibraryAssumption
  <2>2. Of(Uploads)' = Of(Uploads)
    BY <1>1, <2>1 DEF Of
  <2>3. \A t, u \in Of(Sources)' : t.source = u.source => t = u
    BY <1>1, <2>1 DEF SpaceInv, Of, InLibrary
  <2>4. Cardinality(Of(Uploads)') + Cardinality(ToStore') <= Cardinality(Uploads) + kills
    BY <1>2, <1>6, <2>2, PartsFinite, SourcesFinite DEF SpaceInv
  <2> QED BY <1>2, <1>5, <2>3, <2>4 DEF SpaceInv
<1>8. CASE j \in Uploads
  <2>1. Source(j) = j /\ j \notin Sources
    BY <1>8, LibraryAssumption DEF Source
  <2>2. Of(Sources)' = Of(Sources)
    BY <1>1, <2>1 DEF Of
  <2>3. Cardinality(Of(Uploads)') <= Cardinality(Of(Uploads)) + 1 /\ Cardinality(Of(Uploads)') \in Nat
    <3>1. Of(Uploads)' = Of(Uploads) \cup {new}
      BY <1>1, <1>8, <2>1 DEF Of
    <3>2. IsFiniteSet(Of(Uploads))
      BY PartsFinite
    <3> QED BY <3>1, <3>2, OneMore
  <2>4. Cardinality(ToStore') <= Cardinality(ToStore) - 1
    <3>1. j \in ToStore
      BY <1>2, <1>8 DEF ToStore, Past, At
    <3>2. j \notin ToStore'
      <4>1. run'[j].pc = "unlink"
        <5>1. StoreFile(j) /\ run[j] \in RunType /\ run \in [Jobs -> RunType]
          BY <1>8 DEF Store, LibraryInv, JobType
        <5>2. CASE Goto(j, "unlink")
          BY <5>1, <5>2 DEF Goto, RunType
        <5>3. CASE tracks' = tracks
          <6>1. new \in tracks
            BY <1>1, <5>3
          <6>2. Exists(FreshId)
            BY <6>1 DEF Exists
          <6>3. ~Exists(FreshId)
            BY <1>2, <1>8, RoomForOne, FreshIdIsNew
          <6> QED BY <6>2, <6>3
        <5> QED BY <5>1, <5>2, <5>3 DEF StoreFile
      <4> QED BY <4>1 DEF ToStore, Past
    <3>3. ToStore' \in SUBSET (ToStore \ {j})
      BY <1>3, <3>2
    <3>4. IsFiniteSet(ToStore \ {j}) /\ Cardinality(ToStore \ {j}) = Cardinality(ToStore) - 1
      BY <3>1, PartsFinite, FS_RemoveElement
    <3> QED BY <3>3, <3>4, FS_Subset
  <2>5. Cardinality(Of(Uploads)') + Cardinality(ToStore') <= Cardinality(Uploads) + kills
    BY <1>2, <1>6, <2>3, <2>4, PartsFinite, SourcesFinite DEF SpaceInv
  <2>6. \A t, u \in Of(Sources)' : t.source = u.source => t = u
    BY <2>2 DEF SpaceInv
  <2> QED BY <1>2, <1>5, <2>5, <2>6 DEF SpaceInv
<1> QED BY <1>7, <1>8

LEMMA SpaceKeeps ==
  ASSUME LibraryInv, SpaceInv, [Next]_vars
  PROVE  SpaceInv'
<1>1. ASSUME NEW j \in Jobs, Submit(j) \/ Work(j) \/ Timeout(j), tracks' = tracks, kills' = kills
      PROVE  SpaceInv'
  BY <1>1, NeverBack, SameTracks
<1>2. ASSUME NEW j \in Jobs, Submit(j) \/ Timeout(j) PROVE SpaceInv'
  BY <1>1, <1>2 DEF Submit, Timeout, library
<1>3. ASSUME NEW j \in Jobs, Work(j) PROVE SpaceInv'
  <2>1. CASE Store(j) \/ StoreFile(j)
    <3>1. kills' = kills
      BY <2>1 DEF Store, StoreFile
    <3>2. CASE tracks' = tracks
      BY <1>1, <1>3, <3>1, <3>2
    <3>3. CASE NewTrack(j) /\ (j \notin Uploads => ~InLibrary(Source(j)))
      BY <2>1, <3>3, SpaceGrows
    <3> QED BY <2>1, <3>2, <3>3 DEF Store, StoreFile, Stored, Duplicate, StoreFails
  <2>2. CASE ~Store(j) /\ ~StoreFile(j)
    <3>1. tracks' = tracks /\ kills' = kills
      BY <1>3, <2>2 DEF Work, Take, GiveUp, List, Pick, Entry, Finish, Fetch, Unlink,
         FinishFile, Others, Recorded, library
    <3> QED BY <1>1, <1>3, <3>1
  <2> QED BY <2>1, <2>2
<1>4. ASSUME NEW j \in Jobs, Kill(j) PROVE SpaceInv'
  <2>1. /\ kills' = kills + 1 /\ tracks' = tracks /\ kills < MaxKills /\ kills \in Nat
        /\ Anew(j, "queued", run[j].tries)
    BY <1>4, SourcesFinite DEF Kill, library, SpaceInv
  <2>2. ToStore' \subseteq ToStore \cup {j}
    <3>1. \A k \in Jobs \ {j} : run'[k] = run[k]
      BY <2>1 DEF LibraryInv, JobType, Anew
    <3> QED BY <3>1, LibraryAssumption DEF ToStore
  <2>3. Cardinality(ToStore') <= Cardinality(ToStore) + 1 /\ Cardinality(ToStore') \in Nat
    <3>1. /\ IsFiniteSet(ToStore \cup {j})
          /\ Cardinality(ToStore \cup {j}) <= Cardinality(ToStore) + 1
          /\ Cardinality(ToStore \cup {j}) \in Nat
      BY PartsFinite, OneMore
    <3>2. IsFiniteSet(ToStore') /\ Cardinality(ToStore') <= Cardinality(ToStore \cup {j})
      BY <2>2, <3>1, FS_Subset
    <3> QED BY <3>1, <3>2, PartsFinite, FS_CardinalityType
  <2>4. Cardinality(Of(Uploads)') + Cardinality(ToStore') <= Cardinality(Uploads) + kills'
    <3>1. Of(Uploads)' = Of(Uploads)
      BY <2>1 DEF Of
    <3> QED BY <2>1, <2>3, <3>1, PartsFinite, SourcesFinite DEF SpaceInv
  <2>5. kills' \in 0..MaxKills
    BY <2>1, SourcesFinite
  <2> QED BY <2>1, <2>4, <2>5 DEF SpaceInv, Of
<1>5. ASSUME NEW id \in TrackIds, Delete(id) PROVE SpaceInv'
  <2>1. tracks' \in SUBSET tracks /\ kills' = kills /\ ToStore' \subseteq ToStore
    BY <1>5 DEF Delete, ToStore
  <2> QED BY <2>1, SameTracks
<1>6. ASSUME NEW t \in Taps, Cast(t) PROVE SpaceInv'
  <2>1. kills' = kills /\ ToStore' \subseteq ToStore
    BY <1>6 DEF Cast, ToStore
  <2>2. CASE tracks' = tracks
    BY <2>1, <2>2, SameTracks
  <2>3. CASE tracks' = {IF u.id = tap[t].track THEN Counted(u, tap[t]) ELSE u : u \in tracks}
    <3> DEFINE f == [u \in tracks |-> IF u.id = tap[t].track THEN Counted(u, tap[t]) ELSE u]
    <3>1. f \in Surjection(tracks, tracks')
      BY <2>3 DEF Surjection
    <3>2. \A u \in tracks : f[u].source = u.source
      BY DEF Counted
    <3> HIDE DEF f
    <3> QED BY <2>1, <3>1, <3>2, SpaceStays
  <2> QED BY <1>6, <2>2, <2>3 DEF Cast
<1>7. ASSUME NEW t \in Taps, NEW voter \in Voters, NEW value \in {1, 2}, Read(t, voter, value)
      PROVE  SpaceInv'
  <2>1. tracks' = tracks /\ kills' = kills /\ ToStore' \subseteq ToStore
    BY <1>7 DEF Read, ToStore, library
  <2> QED BY <2>1, SameTracks
<1>8. CASE UNCHANGED vars
  <2>1. tracks' = tracks /\ kills' = kills /\ ToStore' \subseteq ToStore
    BY <1>8 DEF vars, ToStore, library
  <2> QED BY <2>1, SameTracks
<1> QED BY <1>2, <1>3, <1>4, <1>5, <1>6, <1>7, <1>8 DEF Next

\* The rows of the tracks and of the votes, and what a vote in progress remembers.
TrackType == [id : TrackIds, source : Sources \cup Uploads, likes : Nat, dislikes : Nat]
VoteType == [track : TrackIds, voter : Voters, value : {1, 2}]
TapType == [track : TrackIds, voter : Voters, value : {1, 2}, had : {0, 1, 2},
            likes : Nat, dislikes : Nat]

For(id, value) == {v \in votes : v.track = id /\ v.value = value}
Own(voter, id) == {v \in votes : v.track = id /\ v.voter = voter}

CountsOf(u) == u.likes = Cardinality(For(u.id, 1)) /\ u.dislikes = Cardinality(For(u.id, 2))

\* Nothing has happened since r was read, unless its track is gone.
UpToDate(r) ==
  \A u \in tracks : u.id = r.track =>
    r.likes = u.likes /\ r.dislikes = u.dislikes /\ r.had = VoteOf(r.voter, r.track)

RowsInv ==
  /\ tracks \subseteq TrackType
  /\ \A t, u \in tracks : t.id = u.id => t = u
  /\ votes \subseteq VoteType /\ IsFiniteSet(votes)
  /\ \A v \in votes : Exists(v.track)
  /\ \A v, w \in votes : v.track = w.track /\ v.voter = w.voter => v = w
  /\ tap \in [Taps -> TapType \cup {NoTap}]

VotesInv ==
  /\ RowsInv
  /\ \A u \in tracks : CountsOf(u)
  /\ \A t \in Taps : tap[t] # NoTap => UpToDate(tap[t])

LEMMA TrackIdsPositive == TrackIds \subseteq Nat \ {0}
BY SourcesFinite DEF TrackIds

\* What VoteOf answers: the value of the only vote there is, or 0.
LEMMA VoteOfOwn ==
  ASSUME RowsInv, NEW voter, NEW id
  PROVE  \/ Own(voter, id) = {} /\ VoteOf(voter, id) = 0
         \/ \E w \in votes : /\ Own(voter, id) = {w} /\ w.track = id /\ w.voter = voter
                             /\ w.value \in {1, 2} /\ VoteOf(voter, id) = w.value
<1> DEFINE own == {v \in votes : v.track = id /\ v.voter = voter}
<1>1. CASE own = {}
  BY <1>1 DEF VoteOf, Own
<1>2. CASE own # {}
  <2>1. PICK w \in own : TRUE
    BY <1>2
  <2>2. own = {w}
    BY <2>1 DEF RowsInv
  <2>3. (CHOOSE v \in own : TRUE) = w
    BY <2>2
  <2>4. w.value \in {1, 2}
    BY <2>1 DEF RowsInv, VoteType
  <2>5. VoteOf(voter, id) = w.value
    BY <1>2, <2>3 DEF VoteOf
  <2> QED BY <2>1, <2>2, <2>4, <2>5 DEF Own
<1> QED BY <1>1, <1>2

LEMMA NoVotesKnown ==
  ASSUME RowsInv, NEW id, ~Exists(id), NEW value
  PROVE  For(id, value) = {}
BY DEF RowsInv, For

\* A track is added.
LEMMA VotesOfNew ==
  ASSUME VotesInv, NEW j \in Jobs, NewTrack(j), UNCHANGED voting, Source(j) \in Sources \cup Uploads,
         FreshId \in TrackIds, ~Exists(FreshId), \A t \in Taps : tap[t].track # FreshId
  PROVE  VotesInv'
<1>0. PICK new : new = [id |-> FreshId, source |-> Source(j), likes |-> 0, dislikes |-> 0]
  OBVIOUS
<1>1. /\ tracks' = tracks \cup {new} /\ new \in TrackType
      /\ new.id = FreshId /\ new.likes = 0 /\ new.dislikes = 0
  BY <1>0 DEF NewTrack, TrackType
<1>2. votes' = votes /\ tap' = tap
  BY DEF voting
<1>3. \A u \in tracks : u.id # FreshId
  BY DEF Exists
<1>4. RowsInv'
  <2>1. \A v \in votes : Exists(v.track)'
    BY <1>1 DEF VotesInv, RowsInv, Exists
  <2>2. \A t, u \in tracks' : t.id = u.id => t = u
    BY <1>1, <1>3 DEF VotesInv, RowsInv
  <2> QED BY <1>1, <1>2, <2>1, <2>2 DEF VotesInv, RowsInv
<1>5. For(new.id, 1) = {} /\ For(new.id, 2) = {}
  BY <1>1, NoVotesKnown DEF VotesInv
<1>6. \A u \in tracks' : CountsOf(u)'
  <2>1. CountsOf(new)'
    <3>1. For(new.id, 1)' = {} /\ For(new.id, 2)' = {}
      BY <1>2, <1>5 DEF For
    <3> QED BY <1>1, <3>1, FS_EmptySet DEF CountsOf
  <2>2. \A u \in tracks : CountsOf(u)'
    BY <1>2 DEF CountsOf, For, VotesInv
  <2> QED BY <1>1, <2>1, <2>2
<1>7. ASSUME NEW t \in Taps, tap[t] # NoTap PROVE UpToDate(tap[t])'
  <2>1. \A voter, id : VoteOf(voter, id)' = VoteOf(voter, id)
    BY <1>2 DEF VoteOf
  <2>2. UpToDate(tap[t])
    BY <1>7 DEF VotesInv
  <2> QED BY <1>1, <1>2, <2>1, <2>2 DEF UpToDate
<1> QED BY <1>2, <1>4, <1>6, <1>7 DEF VotesInv

\* A track goes, with its votes.
LEMMA VotesOfDeleted ==
  ASSUME VotesInv, NEW id \in TrackIds, Delete(id)
  PROVE  VotesInv'
<1>1. /\ tracks' = {t \in tracks : t.id # id} /\ votes' = {v \in votes : v.track # id}
      /\ tap' = tap
  BY DEF Delete
<1>2. \A u \in tracks' : \A value : For(u.id, value)' = For(u.id, value)
  BY <1>1 DEF For
<1>3. \A u \in tracks' : \A voter : VoteOf(voter, u.id)' = VoteOf(voter, u.id)
  <2>1. ASSUME NEW u \in tracks', NEW voter PROVE VoteOf(voter, u.id)' = VoteOf(voter, u.id)
    <3> DEFINE ValueOf(S) == IF S = {} THEN 0 ELSE (CHOOSE v \in S : TRUE).value
    <3>1. Own(voter, u.id)' = Own(voter, u.id)
      BY <1>1 DEF Own
    <3>2. /\ VoteOf(voter, u.id) = ValueOf(Own(voter, u.id))
          /\ VoteOf(voter, u.id)' = ValueOf(Own(voter, u.id)')
      BY DEF VoteOf, Own
    <3> HIDE DEF ValueOf
    <3> QED BY <3>1, <3>2
  <2> QED BY <2>1
<1>4. RowsInv'
  <2>1. \A v \in votes' : Exists(v.track)'
    BY <1>1 DEF VotesInv, RowsInv, Exists
  <2>2. IsFiniteSet(votes')
    BY <1>1, FS_Subset DEF VotesInv, RowsInv
  <2> QED BY <1>1, <2>1, <2>2 DEF VotesInv, RowsInv
<1>5. \A u \in tracks' : CountsOf(u)'
  BY <1>1, <1>2 DEF CountsOf, VotesInv
<1>6. ASSUME NEW t \in Taps, tap'[t] # NoTap PROVE UpToDate(tap[t])'
  <2>1. UpToDate(tap[t])
    BY <1>1, <1>6 DEF VotesInv
  <2> QED BY <1>1, <1>3, <2>1 DEF UpToDate
<1> QED BY <1>4, <1>5, <1>6 DEF VotesInv

\* A vote begins.
LEMMA VotesRead ==
  ASSUME VotesInv, NEW t \in Taps, NEW voter \in Voters, NEW value \in {1, 2}, Read(t, voter, value)
  PROVE  VotesInv'
<1>1. PICK u \in tracks :
        tap' = [tap EXCEPT ![t] =
          [track |-> u.id, voter |-> voter, value |-> value, had |-> VoteOf(voter, u.id),
           likes |-> u.likes, dislikes |-> u.dislikes]]
  BY DEF Read
<1> DEFINE r == [track |-> u.id, voter |-> voter, value |-> value, had |-> VoteOf(voter, u.id),
                 likes |-> u.likes, dislikes |-> u.dislikes]
<1>2. tracks' = tracks /\ votes' = votes
  BY DEF Read, library
<1>3. r \in TapType
  <2>1. VoteOf(voter, u.id) \in {0, 1, 2}
    BY VoteOfOwn DEF VotesInv
  <2> QED BY <2>1 DEF VotesInv, RowsInv, TrackType, TapType
<1>4. /\ r.track = u.id /\ r.voter = voter /\ r.had = VoteOf(voter, u.id)
      /\ r.likes = u.likes /\ r.dislikes = u.dislikes
  OBVIOUS
<1>5. tap' = [tap EXCEPT ![t] = r]
  BY <1>1
<1> HIDE DEF r
<1>6. RowsInv'
  BY <1>2, <1>3, <1>5 DEF VotesInv, RowsInv, Exists
<1>7. \A id, name : VoteOf(name, id)' = VoteOf(name, id)
  BY <1>2 DEF VoteOf
<1>8. \A x \in tracks' : CountsOf(x)'
  BY <1>2 DEF VotesInv, CountsOf, For
<1>9. ASSUME NEW s \in Taps, tap'[s] # NoTap PROVE UpToDate(tap[s])'
  <2>1. CASE s = t
    <3>1. tap'[s] = r
      BY <1>5, <2>1 DEF VotesInv, RowsInv
    <3>2. \A x \in tracks : x.id = r.track => x = u
      BY <1>4 DEF VotesInv, RowsInv
    <3> QED BY <1>2, <1>4, <1>7, <3>1, <3>2 DEF UpToDate
  <2>2. CASE s # t
    <3>1. tap'[s] = tap[s]
      BY <1>5, <2>2 DEF VotesInv, RowsInv
    <3> QED BY <1>2, <1>7, <1>9, <3>1 DEF VotesInv, UpToDate
  <2> QED BY <2>1, <2>2
<1> QED BY <1>6, <1>8, <1>9 DEF VotesInv

\* One column and the votes it counts: one more, one less, or none of both.
LEMMA ColumnCounts ==
  ASSUME NEW old, IsFiniteSet(old), NEW new, NEW up \in BOOLEAN, NEW down \in BOOLEAN,
         ~(up /\ down), NEW n, n = Cardinality(old),
         up => \E x : x \notin old /\ new = old \cup {x},
         ~up /\ down => \E x \in old : new = old \ {x},
         ~up /\ ~down => new = old
  PROVE  Column(n, n, up, down) = Cardinality(new) /\ Cardinality(new) \in Nat
<1>1. n \in Nat
  BY FS_CardinalityType
<1>2. CASE up
  <2>1. PICK x : x \notin old /\ new = old \cup {x}
    BY <1>2
  <2>2. Cardinality(new) = n + 1
    BY <2>1, FS_AddElement
  <2> QED BY <1>1, <1>2, <2>2 DEF Column
<1>3. CASE ~up /\ down
  <2>1. PICK x \in old : new = old \ {x}
    BY <1>3
  <2>2. Cardinality(new) = n - 1
    BY <2>1, FS_RemoveElement
  <2>3. n # 0
    BY <2>1, FS_EmptySet
  <2>4. n > 0 /\ n - 1 \in Nat
    BY <1>1, <2>3
  <2> QED BY <1>3, <2>2, <2>4 DEF Column
<1>4. CASE ~up /\ ~down
  BY <1>1, <1>4 DEF Column
<1> QED BY <1>2, <1>3, <1>4

\* A vote is cast on what was read, which is still so.
LEMMA VotesCast ==
  ASSUME VotesInv, \A a, b \in Taps : a = b, NEW t \in Taps, Cast(t)
  PROVE  VotesInv'
<1>0. PICK r : r = tap[t]
  OBVIOUS
<1> DEFINE own == {v \in votes : v.track = r.track /\ v.voter = r.voter}
           vote == [track |-> r.track, voter |-> r.voter, value |-> r.value]
           added == IF r.had = r.value THEN {} ELSE {vote}
<1>1. r # NoTap /\ tap' = [tap EXCEPT ![t] = NoTap]
  BY <1>0 DEF Cast
<1>2. r \in TapType /\ UpToDate(r)
  BY <1>0, <1>1 DEF VotesInv, RowsInv
<1>3. tap' \in [Taps -> TapType \cup {NoTap}] /\ \A s \in Taps : tap'[s] = NoTap
  BY <1>1 DEF VotesInv, RowsInv
<1>4. CASE UNCHANGED <<votes, tracks>>
  BY <1>3, <1>4 DEF VotesInv, RowsInv, CountsOf, For, Exists
<1>5. CASE /\ Exists(r.track)
           /\ votes' = (votes \ own) \cup added
           /\ tracks' = {IF u.id = r.track THEN Counted(u, r) ELSE u : u \in tracks}
  <2>1. PICK u \in tracks : u.id = r.track
    BY <1>5 DEF Exists
  <2>2. r.likes = u.likes /\ r.dislikes = u.dislikes /\ r.had = VoteOf(r.voter, r.track)
    BY <1>2, <2>1 DEF UpToDate
  <2>3. \/ own = {} /\ r.had = 0
        \/ \E w \in votes : own = {w} /\ w.track = r.track /\ w.value = r.had /\ r.had \in {1, 2}
    BY <2>2, VoteOfOwn DEF VotesInv, Own
  <2>4. vote \in VoteType /\ vote.track = r.track /\ vote.voter = r.voter /\ vote.value = r.value
    BY <1>2 DEF TapType, VoteType
  <2>5. r.value \in {1, 2} /\ r.had \in {0, 1, 2}
    BY <1>2 DEF TapType
  <2>6. \A id, value : id # r.track => For(id, value)' = For(id, value)
    BY <1>5, <2>4 DEF For
  <2>7. ASSUME NEW x \in {1, 2}
        PROVE  /\ r.value = x /\ r.had # x =>
                    \E v : v \notin For(r.track, x) /\ For(r.track, x)' = For(r.track, x) \cup {v}
               /\ ~(r.value = x /\ r.had # x) /\ r.had = x =>
                    \E v \in For(r.track, x) : For(r.track, x)' = For(r.track, x) \ {v}
               /\ ~(r.value = x /\ r.had # x) /\ r.had # x => For(r.track, x)' = For(r.track, x)
    <3>1. For(r.track, x)' = {v \in votes' : v.track = r.track /\ v.value = x}
      BY <1>3 DEF For
    <3>2. For(r.track, x) = {v \in votes : v.track = r.track /\ v.value = x}
      BY DEF For
    <3>3. CASE r.value = x /\ r.had # x
      <4>1. added = {vote}
        BY <3>3
      <4>2. \A v \in own : v.value # x
        BY <2>3, <3>3
      <4>3. vote \notin For(r.track, x)
        BY <2>4, <4>2, <3>2, <3>3
      <4> QED BY <1>5, <2>4, <3>1, <3>2, <3>3, <4>1, <4>2, <4>3
    <3>4. CASE r.had = x
      <4>1. PICK w \in votes : own = {w} /\ w.track = r.track /\ w.value = r.had
        BY <2>3, <3>4
      <4>2. \A v \in added : v.value # x
        BY <2>4, <3>4
      <4> QED BY <1>5, <3>1, <3>2, <3>4, <4>1, <4>2
    <3>5. CASE r.value # x /\ r.had # x
      <4>1. \A v \in own : v.value # x
        BY <2>3, <3>5
      <4>2. \A v \in added : v.value # x
        BY <2>4, <3>5
      <4> QED BY <1>5, <3>1, <3>2, <3>5, <4>1, <4>2
    <3> QED BY <3>3, <3>4, <3>5
  <2> DEFINE gives(x) == r.value = x /\ r.had # x
             takes(x) == r.had = x
             counted == Counted(u, r)
  <2>8. ASSUME NEW x \in {1, 2}, NEW n, n = Cardinality(For(r.track, x))
        PROVE  /\ Column(n, n, gives(x), takes(x)) = Cardinality(For(r.track, x)')
               /\ Cardinality(For(r.track, x)') \in Nat
    <3>1. IsFiniteSet(For(r.track, x))
      BY FS_Subset DEF For, VotesInv, RowsInv
    <3> DEFINE was == For(r.track, x)
               is == For(r.track, x)'
               up == gives(x)
               down == takes(x)
    <3>2. /\ up => \E v : v \notin was /\ is = was \cup {v}
          /\ ~up /\ down => \E v \in was : is = was \ {v}
          /\ ~up /\ ~down => is = was
      BY <2>7
    <3>3. up \in BOOLEAN /\ down \in BOOLEAN /\ ~(up /\ down) /\ IsFiniteSet(was) /\ n = Cardinality(was)
      BY <2>8, <3>1
    <3> HIDE DEF was, is, up, down
    <3>4. Column(n, n, up, down) = Cardinality(is) /\ Cardinality(is) \in Nat
      BY <3>2, <3>3, ColumnCounts
    <3> QED BY <3>4 DEF is, up, down
  <2>9. CountsOf(u) /\ u \in TrackType
    BY DEF VotesInv, RowsInv
  <2>10. /\ counted.likes = Column(u.likes, r.likes, gives(1), takes(1))
         /\ counted.dislikes = Column(u.dislikes, r.dislikes, gives(2), takes(2))
         /\ counted.id = u.id /\ counted.source = u.source
         /\ counted = [u EXCEPT !.likes = counted.likes, !.dislikes = counted.dislikes]
    BY <2>9 DEF Counted, TrackType
  <2>11. /\ counted.likes = Cardinality(For(r.track, 1)') /\ counted.likes \in Nat
         /\ counted.dislikes = Cardinality(For(r.track, 2)') /\ counted.dislikes \in Nat
    <3>1. u.likes = Cardinality(For(r.track, 1)) /\ u.dislikes = Cardinality(For(r.track, 2))
      BY <2>1, <2>9 DEF CountsOf
    <3>2. /\ Column(u.likes, u.likes, gives(1), takes(1)) = Cardinality(For(r.track, 1)')
          /\ Cardinality(For(r.track, 1)') \in Nat
      BY <2>8, <3>1
    <3>3. /\ Column(u.dislikes, u.dislikes, gives(2), takes(2)) = Cardinality(For(r.track, 2)')
          /\ Cardinality(For(r.track, 2)') \in Nat
      BY <2>8, <3>1
    <3> QED BY <2>2, <2>10, <3>2, <3>3
  <2>12. counted \in TrackType
    BY <2>9, <2>10, <2>11 DEF TrackType
  <2> HIDE DEF counted
  <2>13. tracks' = (tracks \ {u}) \cup {counted}
    <3>1. \A x \in tracks : x.id = r.track => x = u
      BY <2>1 DEF VotesInv, RowsInv
    <3> QED BY <1>5, <2>1, <3>1 DEF counted
  <2>14. RowsInv'
    <3>1. tracks' \subseteq TrackType
      BY <2>12, <2>13 DEF VotesInv, RowsInv
    <3>6. \A x, y \in tracks' : x.id = y.id => x = y
      <4>1. \A x \in tracks \ {u} : x.id # counted.id
        BY <2>10 DEF VotesInv, RowsInv
      <4>2. \A x, y \in tracks \ {u} : x.id = y.id => x = y
        BY DEF VotesInv, RowsInv
      <4> QED BY <2>13, <4>1, <4>2
    <3>2. votes' \subseteq VoteType
      BY <1>5, <2>4 DEF VotesInv, RowsInv
    <3>3. IsFiniteSet(votes')
      <4>1. IsFiniteSet(votes \ own)
        BY FS_Subset DEF VotesInv, RowsInv
      <4>2. IsFiniteSet((votes \ own) \cup {vote})
        BY <4>1, FS_AddElement
      <4> QED BY <1>5, <4>1, <4>2
    <3>4. \A v \in votes' : Exists(v.track)'
      <4>1. \A id : Exists(id) => Exists(id)'
        BY <2>10, <2>13 DEF Exists
      <4> QED BY <1>5, <2>4, <4>1 DEF VotesInv, RowsInv
    <3>5. \A v, w \in votes' : v.track = w.track /\ v.voter = w.voter => v = w
      BY <1>5, <2>4 DEF VotesInv, RowsInv
    <3> QED BY <1>3, <3>1, <3>2, <3>3, <3>4, <3>5, <3>6 DEF RowsInv
  <2>15. ASSUME NEW x \in tracks' PROVE CountsOf(x)'
    <3>1. CASE x = counted
      BY <2>1, <2>10, <2>11, <3>1 DEF CountsOf, For
    <3>2. CASE x # counted
      <4>1. x \in tracks /\ x.id # r.track
        BY <2>1, <2>13, <2>15, <3>2 DEF VotesInv, RowsInv
      <4> QED BY <2>6, <4>1 DEF CountsOf, VotesInv
    <3> QED BY <3>1, <3>2
  <2> QED BY <1>3, <2>14, <2>15 DEF VotesInv
<1> QED BY <1>0, <1>4, <1>5 DEF Cast

\* A track is added by one of these steps, with an id that is new.
LEMMA NewTrackIsNew ==
  ASSUME LibraryInv, SpaceInv, VotesInv, NEW j \in Jobs, Store(j) \/ StoreFile(j), NewTrack(j),
         j \notin Uploads => ~InLibrary(Source(j))
  PROVE  VotesInv'
<1>1. At(j, "store") /\ UNCHANGED voting
  BY DEF Store, StoreFile
<1>2. Source(j) \in Sources \cup Uploads
  BY <1>1, EntrySource DEF Source
<1>3. \/ j \notin Uploads /\ Source(j) \in Sources /\ ~InLibrary(Source(j))
      \/ j \in Uploads /\ At(j, "store")
  BY <1>1, EntrySource
<1>4. /\ FreshId \in TrackIds /\ ~Exists(FreshId)
      /\ \A t \in Taps : tap[t].track # FreshId
  BY <1>3, RoomForOne, FreshIdIsNew
<1> QED BY <1>1, <1>2, <1>4, VotesOfNew

LEMMA VotesAlone ==
  ASSUME VotesInv, UNCHANGED <<tracks, votes, tap>>
  PROVE  VotesInv'
<1>1. RowsInv'
  BY DEF VotesInv, RowsInv, Exists
<1>2. \A u \in tracks : CountsOf(u)'
  BY DEF VotesInv, CountsOf, For
<1>3. \A voter, id : VoteOf(voter, id)' = VoteOf(voter, id)
  BY DEF VoteOf
<1>4. ASSUME NEW t \in Taps, tap[t] # NoTap PROVE UpToDate(tap[t])'
  BY <1>3, <1>4 DEF VotesInv, UpToDate
<1> QED BY <1>1, <1>2, <1>4 DEF VotesInv

LEMMA VotesKeep ==
  ASSUME \A a, b \in Taps : a = b, LibraryInv, SpaceInv, VotesInv, [Next]_vars
  PROVE  VotesInv'
<1>1. ASSUME NEW j \in Jobs, Submit(j) \/ Kill(j) \/ Timeout(j) PROVE VotesInv'
  BY <1>1, VotesAlone DEF Submit, Kill, Timeout, library, voting
<1>2. ASSUME NEW j \in Jobs, Work(j) PROVE VotesInv'
  <2>1. CASE Store(j) \/ StoreFile(j)
    <3>1. UNCHANGED voting
      BY <2>1 DEF Store, StoreFile
    <3>2. CASE tracks' = tracks
      BY <3>1, <3>2, VotesAlone DEF voting
    <3>3. CASE NewTrack(j) /\ (j \notin Uploads => ~InLibrary(Source(j)))
      BY <2>1, <3>3, NewTrackIsNew
    <3> QED BY <2>1, <3>2, <3>3 DEF Store, StoreFile, Stored, Duplicate, StoreFails
  <2>2. CASE ~Store(j) /\ ~StoreFile(j)
    <3>1. UNCHANGED <<tracks, votes, tap>>
      BY <1>2, <2>2 DEF Work, Take, GiveUp, List, Pick, Entry, Finish, Fetch, Unlink,
         FinishFile, Others, Recorded, library, voting
    <3> QED BY <3>1, VotesAlone
  <2> QED BY <2>1, <2>2
<1>3. ASSUME NEW id \in TrackIds, Delete(id) PROVE VotesInv'
  BY <1>3, VotesOfDeleted
<1>4. ASSUME NEW t \in Taps, Cast(t) PROVE VotesInv'
  BY <1>4, VotesCast
<1>5. ASSUME NEW t \in Taps, NEW voter \in Voters, NEW value \in {1, 2}, Read(t, voter, value)
      PROVE  VotesInv'
  BY <1>5, VotesRead
<1>6. CASE UNCHANGED vars
  BY <1>6, VotesAlone DEF vars, library, voting
<1> QED BY <1>1, <1>2, <1>3, <1>4, <1>5, <1>6 DEF Next

LEMMA VotesInit == Init => SpaceInv /\ VotesInv
<1> SUFFICES ASSUME Init PROVE SpaceInv /\ VotesInv
  OBVIOUS
<1>1. SpaceInv
  <2>1. Of(Uploads) = {} /\ Of(Sources) = {} /\ tracks = {} /\ kills = 0
    BY DEF Init, Of
  <2>2. Cardinality(ToStore) <= Cardinality(Uploads) /\ Cardinality(ToStore) \in Nat
    BY SourcesFinite, FS_Subset, FS_CardinalityType DEF ToStore
  <2>3. Cardinality(Of(Uploads)) = 0 /\ IsFiniteSet(tracks)
    BY <2>1, FS_EmptySet
  <2>4. kills \in 0..MaxKills
    BY <2>1, SourcesFinite
  <2>5. Cardinality(Of(Uploads)) + Cardinality(ToStore) <= Cardinality(Uploads) + kills
    BY <2>1, <2>2, <2>3, SourcesFinite
  <2> QED BY <2>1, <2>3, <2>4, <2>5 DEF SpaceInv, Of
<1>2. VotesInv
  BY FS_EmptySet DEF Init, VotesInv, RowsInv
<1> QED BY <1>1, <1>2

(* The counters of a track are the numbers of its votes, for any jobs, kills,*)
(* deletions and voters, if one vote is handled at a time: the condition of  *)
(* the run that checks it, without which the counters do lose votes.         *)
THEOREM CountersMatchVotes ==
  ASSUME \A a, b \in Taps : a = b
  PROVE  Spec => []VotesAddUp
<1>1. Init => SpaceInv /\ VotesInv
  BY VotesInit
<1>2. LibraryInv /\ LibraryInv' /\ SpaceInv /\ VotesInv /\ [Next]_vars => SpaceInv' /\ VotesInv'
  BY SpaceKeeps, VotesKeep
<1>3. VotesInv => VotesAddUp
  BY DEF VotesInv, CountsOf, For, VotesAddUp
<1> QED BY <1>1, <1>2, <1>3, LibraryInvariant, PTL DEF Spec
=============================================================================
