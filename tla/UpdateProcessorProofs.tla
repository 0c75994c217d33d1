------------------------ MODULE UpdateProcessorProofs ------------------------
(***************************************************************************)
(* Proofs about UserDownloadQueue, for every set of users, bots, links and *)
(* messages and every value of the limits.  The type invariant and the     *)
(* shape of the queues are inductive together: where get_next finds the    *)
(* active download and the next one follows from the shape, and the shape  *)
(* is kept because they are found there.                                   *)
(*                                                                         *)
(* And it implements SequentialDownloads: the one active download of a     *)
(* list splits it into what is over and the waiting line, and each         *)
(* operation moves that split or the end of the list.  What the shape does *)
(* not say is that an active download has a start time: without one it     *)
(* would never be stale for the code and at once for the abstract          *)
(* specification.                                                          *)
(*                                                                         *)
(* The handlers of UpdateProcessor, with every fault, touch the queues     *)
(* only through the operations of UserDownloadQueue, so what is proved of  *)
(* the queue with free clients holds in the processor.  A handler that is  *)
(* about to call add must therefore carry a link and a message of a user:  *)
(* with the types, that is the first invariant, ProcInv.  LinkInv follows  *)
(* the links from place to place: no link is in two.  HeldInv, where no    *)
(* call raises and no link has format buttons, says that the handlers and  *)
(* the active downloads have each other.                                   *)
(***************************************************************************)
EXTENDS UpdateProcessor, QueueRefinement, SequenceTheorems, FiniteSetTheorems, TLAPS

\* A queue that is typed, within its limit and in shape.
Good(q) ==
  /\ q \in UserQueue
  /\ Len(q.downloads) <= MaxQueueSize
  /\ Shape(q)

QueueInv ==
  /\ DOMAIN queues \subseteq Users
  /\ queues = [u \in DOMAIN queues |-> queues[u]]
  /\ \A u \in DOMAIN queues : Good(queues[u])
  /\ now \in Nat \ {0}
  /\ epoch \in Nat

-----------------------------------------------------------------------------
(* What the operators on one queue keep *)

\* A function on 1..n is a sequence of length n over what its entries are in.
LEMMA EntriesMakeSeq ==
  ASSUME NEW S, NEW n \in Nat, NEW s, DOMAIN s = 1..n, s = [i \in 1..n |-> s[i]],
         \A i \in 1..n : s[i] \in S
  PROVE  s \in Seq(S) /\ Len(s) = n
<1>1. s \in [1..n -> S]
  OBVIOUS
<1>. QED  BY <1>1

\* A new queue is in shape, and a queue that is touched stays in shape.
LEMMA GetQueueGood ==
  ASSUME QueueInv, NEW u \in Users
  PROVE  Good(GetQueue(u))
<1>. USE QueueAssumption
<1>1. CASE u \in DOMAIN queues
  <2>1. Good(queues[u])
    BY <1>1 DEF QueueInv
  <2>2. now \in Nat
    BY DEF QueueInv
  <2>3. GetQueue(u) = [queues[u] EXCEPT !.last_activity = now]
    BY <1>1 DEF GetQueue
  <2>. QED  BY <2>1, <2>2, <2>3 DEF Good, UserQueue, Shape
<1>2. CASE u \notin DOMAIN queues
  <2>1. GetQueue(u) = [downloads |-> <<>>, is_processing |-> FALSE, last_activity |-> now]
    BY <1>2 DEF GetQueue, NewQueue
  <2>2. <<>> \in Seq(QueuedDownload) /\ Len(<<>>) = 0
    OBVIOUS
  <2>. QED  BY <2>1, <2>2 DEF Good, UserQueue, Shape, QueueInv
<1>. QED  BY <1>1, <1>2

\* The stale reset leaves a queue in shape.
LEMMA ResetGood ==
  ASSUME NEW q, Good(q)
  PROVE  Good(ResetIfStale(q))
<1>1. CASE IsStale(q)
  <2>1. ResetIfStale(q) = [q EXCEPT !.downloads = <<>>, !.is_processing = FALSE]
    BY <1>1 DEF ResetIfStale
  <2>2. <<>> \in Seq(QueuedDownload) /\ Len(<<>>) = 0
    OBVIOUS
  <2>3. /\ ResetIfStale(q) \in UserQueue
        /\ ResetIfStale(q).downloads = <<>>
        /\ ResetIfStale(q).is_processing = FALSE
    BY <2>1, <2>2 DEF Good, UserQueue
  <2>. QED  BY <2>2, <2>3, QueueAssumption DEF Good, Shape
<1>2. CASE ~IsStale(q)
  BY <1>2 DEF ResetIfStale
<1>. QED  BY <1>1, <1>2

\* The queue that add works on is in shape.
LEMMA AddTargetGood ==
  ASSUME QueueInv, NEW u \in Users
  PROVE  Good(AddTarget(u))
BY GetQueueGood, ResetGood DEF AddTarget

\* Storing a good queue keeps the invariant.
LEMMA PutGood ==
  ASSUME QueueInv, NEW u \in Users, NEW q, Good(q),
         queues' = Put(u, q), UNCHANGED <<now, epoch>>
  PROVE  QueueInv'
<1>1. DOMAIN queues' = DOMAIN queues \cup {u}
  BY DEF Put
<1>2. \A v \in DOMAIN queues' : queues'[v] = IF v = u THEN q ELSE queues[v]
  BY DEF Put
<1>3. \A v \in DOMAIN queues' : Good(queues'[v])
  BY <1>1, <1>2 DEF QueueInv
<1>. QED  BY <1>1, <1>3 DEF QueueInv, Put

\* The first and the later downloads of a list keep their shape when one is added.
LEMMA AppendGood ==
  ASSUME NEW q, Good(q), NEW dl \in QueuedDownload,
         Len(q.downloads) < MaxQueueSize,
         dl.status = IF q.is_processing THEN "queued" ELSE "downloading"
  PROVE  Good([q EXCEPT !.is_processing = TRUE, !.downloads = Append(@, dl)])
<1>. DEFINE dls == q.downloads
            new == Append(dls, dl)
            r   == [q EXCEPT !.is_processing = TRUE, !.downloads = Append(@, dl)]
<1>1. /\ dls \in Seq(QueuedDownload)
      /\ new \in Seq(QueuedDownload)
      /\ Len(dls) \in Nat
      /\ Len(new) = Len(dls) + 1
      /\ DOMAIN new = 1..(Len(dls) + 1)
      /\ DOMAIN dls = 1..Len(dls)
      /\ \A i \in 1..Len(dls) : new[i] = dls[i]
      /\ new[Len(dls) + 1] = dl
  BY DEF Good, UserQueue
<1>2. r.downloads = new /\ r.is_processing = TRUE /\ r \in UserQueue
  BY <1>1 DEF Good, UserQueue
<1>3. Len(r.downloads) <= MaxQueueSize
  BY <1>1, <1>2, QueueAssumption
<1>4. \E k \in DOMAIN new : \A i \in DOMAIN new :
        new[i].status = IF i < k THEN "done" ELSE IF i = k THEN "downloading" ELSE "queued"
  <2>1. CASE q.is_processing
    <3>1. PICK k \in DOMAIN dls : \A i \in DOMAIN dls :
            dls[i].status = IF i < k THEN "done"
                            ELSE IF i = k THEN "downloading" ELSE "queued"
      BY <2>1 DEF Good, Shape
    <3>2. dl.status = "queued"
      BY <2>1
    <3>. QED  BY <3>1, <3>2, <1>1
  <2>2. CASE ~q.is_processing
    <3>1. dls = <<>>
      BY <2>2 DEF Good, Shape
    <3>2. Len(dls) = 0 /\ dl.status = "downloading"
      BY <3>1, <2>2
    <3>. QED  BY <3>2, <1>1
  <2>. QED  BY <2>1, <2>2
<1>5. Shape(r)
  <2>. HIDE DEF r, new
  <2>1. r.downloads = new /\ r.is_processing
    BY <1>2
  <2>. QED  BY <2>1, <1>4, Zenon DEF Shape
<1>. QED  BY <1>2, <1>3, <1>5 DEF Good

\* A progress message changes no status and no length, whichever entry gets it.
LEMMA ProgressGood ==
  ASSUME NEW q, Good(q), NEW b \in Bots, NEW url \in Urls, NEW m \in Messages
  PROVE  Good([q EXCEPT !.downloads = WithProgress(@, b, url, m)])
<1>. DEFINE dls == q.downloads
            new == WithProgress(dls, b, url, m)
            r   == [q EXCEPT !.downloads = WithProgress(@, b, url, m)]
<1>1. dls \in Seq(QueuedDownload) /\ DOMAIN dls = 1..Len(dls) /\ Len(dls) \in Nat
  BY DEF Good, UserQueue
<1>2. \/ new = dls
      \/ \E x : new = [dls EXCEPT ![x].progress_message_id = m]
  BY DEF WithProgress
<1>3. /\ new \in Seq(QueuedDownload)
      /\ DOMAIN new = DOMAIN dls
      /\ Len(new) = Len(dls)
      /\ \A i \in DOMAIN dls : new[i].status = dls[i].status
  <2>1. CASE new = dls
    BY <2>1, <1>1
  <2>2. ASSUME NEW x, new = [dls EXCEPT ![x].progress_message_id = m]
        PROVE  <1>3!1 /\ <1>3!2 /\ <1>3!3 /\ <1>3!4
    <3>1. \A i \in 1..Len(dls) :
            new[i] = IF i = x THEN [dls[i] EXCEPT !.progress_message_id = m] ELSE dls[i]
      BY <2>2, <1>1
    <3>2. \A i \in 1..Len(dls) :
            new[i] \in QueuedDownload /\ new[i].status = dls[i].status
      <4>1. ASSUME NEW i \in 1..Len(dls)
            PROVE  /\ dls[i] \in QueuedDownload
                   /\ [dls[i] EXCEPT !.progress_message_id = m] \in QueuedDownload
                   /\ [dls[i] EXCEPT !.progress_message_id = m].status = dls[i].status
        <5>1. dls[i] \in QueuedDownload
          BY <1>1
        <5>. QED  BY <5>1 DEF QueuedDownload
      <4>. QED  BY <3>1, <4>1
    <3>3. new = [i \in 1..Len(dls) |-> new[i]]
      BY <2>2, <1>1
    <3>4. DOMAIN new = 1..Len(dls)
      BY <2>2, <1>1
    <3>5. new \in Seq(QueuedDownload) /\ Len(new) = Len(dls)
      <4>. HIDE DEF new, dls
      <4>. QED  BY <3>2, <3>3, <3>4, <1>1, EntriesMakeSeq
    <3>. QED  BY <3>2, <3>4, <3>5, <1>1
  <2>. QED  BY <1>2, <2>1, <2>2
<1>4. r.downloads = new /\ r.is_processing = q.is_processing /\ r \in UserQueue
  BY <1>3 DEF Good, UserQueue
<1>5. Shape(r)
  <2>1. CASE q.is_processing
    BY <2>1, <1>3, <1>4 DEF Good, Shape
  <2>2. CASE ~q.is_processing
    <3>1. dls = <<>> /\ Len(new) = 0
      BY <2>2, <1>3 DEF Good, Shape
    <3>2. new = <<>>
      BY <3>1, <1>3, EmptySeq
    <3>. QED  BY <2>2, <3>2, <1>4 DEF Shape
  <2>. QED  BY <2>1, <2>2
<1>. QED  BY <1>3, <1>4, <1>5 DEF Good

-----------------------------------------------------------------------------
(* get_next *)

\* In a busy queue the active download is the first "downloading" entry there is,
\* and after it is marked done the one behind it is the first waiting entry.
LEMMA ActiveAndNext ==
  ASSUME NEW dls \in Seq(QueuedDownload), NEW k \in DOMAIN dls,
         \A i \in DOMAIN dls :
           dls[i].status = IF i < k THEN "done"
                           ELSE IF i = k THEN "downloading" ELSE "queued"
  PROVE  LET fin == FinishActive(dls)
         IN  /\ fin \in Seq(QueuedDownload)
             /\ DOMAIN fin = DOMAIN dls /\ Len(fin) = Len(dls)
             /\ \A i \in DOMAIN dls :
                  fin[i].status = IF i <= k THEN "done" ELSE "queued"
             /\ With(fin, "queued") = (k+1)..Len(dls)
             /\ With(fin, "queued") # {} => First(fin, "queued") = k + 1
<1>. DEFINE fin == FinishActive(dls)
<1>1. DOMAIN dls = 1..Len(dls) /\ Len(dls) \in Nat /\ k \in Nat
  OBVIOUS
<1>2. With(dls, "downloading") = {k}
  BY <1>1 DEF With
<1>3. First(dls, "downloading") = k
  BY <1>1, <1>2 DEF First
<1>4. fin = [dls EXCEPT ![k].status = "done"]
  BY <1>2, <1>3 DEF FinishActive
<1>5. ASSUME NEW i \in 1..Len(dls)
      PROVE  /\ fin[i] \in QueuedDownload
             /\ fin[i].status = IF i <= k THEN "done" ELSE "queued"
  <2>1. dls[i] \in QueuedDownload
    BY <1>1
  <2>2. [dls[i] EXCEPT !.status = "done"] \in QueuedDownload
    BY <2>1 DEF QueuedDownload, Status
  <2>3. [dls[i] EXCEPT !.status = "done"].status = "done"
    BY <2>1 DEF QueuedDownload
  <2>4. fin[i] = IF i = k THEN [dls[i] EXCEPT !.status = "done"] ELSE dls[i]
    BY <1>1, <1>4
  <2>. QED  BY <1>1, <2>1, <2>2, <2>3, <2>4
<1>6. fin = [i \in 1..Len(dls) |-> fin[i]]
  BY <1>1, <1>4
<1>7. fin \in Seq(QueuedDownload) /\ DOMAIN fin = DOMAIN dls /\ Len(fin) = Len(dls)
  <2>. HIDE DEF fin
  <2>. QED  BY <1>1, <1>5, <1>6
<1>8. With(fin, "queued") = (k+1)..Len(dls)
  <2>. HIDE DEF fin
  <2>. QED  BY <1>1, <1>5, <1>7 DEF With
<1>9. With(fin, "queued") # {} => First(fin, "queued") = k + 1
  <2>. HIDE DEF fin
  <2>. QED  BY <1>1, <1>8 DEF First
<1>. QED  BY <1>1, <1>5, <1>7, <1>8, <1>9

\* A queue with something in its list is a known, busy one.
LEMMA NonEmptyBusy ==
  ASSUME QueueInv, NEW u \in Users, Downloads(u) # <<>>
  PROVE  /\ u \in DOMAIN queues
         /\ Good(queues[u])
         /\ queues[u].is_processing
         /\ Downloads(u) = queues[u].downloads
<1>1. u \in DOMAIN queues /\ Downloads(u) = queues[u].downloads
  BY DEF Downloads
<1>2. Good(queues[u])
  BY <1>1 DEF QueueInv
<1>. QED  BY <1>1, <1>2 DEF Good, Shape

\* Starting the next download keeps the invariant: the active one joins the done
\* ones and the first waiting one becomes active.
LEMMA StartNextInv ==
  ASSUME QueueInv, NEW u \in Users, StartNext(u), UNCHANGED <<now, epoch>>
  PROVE  QueueInv'
<1>. DEFINE q   == queues[u]
            dls == q.downloads
            fin == FinishActive(dls)
<1>1. Downloads(u) # <<>>
  <2>1. ASSUME Downloads(u) = <<>> PROVE FALSE
    <3>1. FinishActive(<<>>) = <<>>
      BY DEF FinishActive, With
    <3>2. With(<<>>, "queued") = {}
      BY DEF With
    <3>. QED  BY <2>1, <3>1, <3>2 DEF StartNext, HasNext
  <2>. QED  BY <2>1
<1>2. u \in DOMAIN queues /\ Good(q) /\ q.is_processing /\ Downloads(u) = dls
  BY <1>1, NonEmptyBusy
<1>3. PICK k \in DOMAIN dls : \A i \in DOMAIN dls :
        dls[i].status = IF i < k THEN "done"
                        ELSE IF i = k THEN "downloading" ELSE "queued"
  BY <1>2 DEF Good, Shape
<1>4. dls \in Seq(QueuedDownload) /\ q \in UserQueue /\ Len(dls) <= MaxQueueSize
  BY <1>2 DEF Good, UserQueue
<1>5. /\ fin \in Seq(QueuedDownload)
      /\ DOMAIN fin = DOMAIN dls /\ Len(fin) = Len(dls)
      /\ \A i \in DOMAIN dls : fin[i].status = IF i <= k THEN "done" ELSE "queued"
      /\ With(fin, "queued") = (k+1)..Len(dls)
      /\ With(fin, "queued") # {} => First(fin, "queued") = k + 1
  BY <1>3, <1>4, ActiveAndNext
<1>6. With(fin, "queued") # {} /\ NextIndex(u) = k + 1
  BY <1>2, <1>5 DEF StartNext, HasNext, NextIndex
<1>7. DOMAIN dls = 1..Len(dls) /\ Len(dls) \in Nat /\ k \in Nat /\ k + 1 \in 1..Len(dls)
  BY <1>4, <1>5, <1>6
<1>. DEFINE new == [fin EXCEPT ![k+1].status = "downloading", ![k+1].started_at = now]
            r   == [q EXCEPT !.downloads = new, !.last_activity = now]
<1>8. queues' = Put(u, r)
  <2>1. queues' = [queues EXCEPT ![u].downloads = new, ![u].last_activity = now]
    BY <1>2, <1>6 DEF StartNext
  <2>2. queues' = [queues EXCEPT ![u] = r]
    BY <2>1
  <2>. HIDE DEF r
  <2>. QED  BY <1>2, <2>2 DEF Put, QueueInv
<1>9. ASSUME NEW i \in 1..Len(dls)
      PROVE  /\ new[i] \in QueuedDownload
             /\ new[i].status = IF i < k + 1 THEN "done"
                                ELSE IF i = k + 1 THEN "downloading" ELSE "queued"
  <2>. DEFINE started == [fin[i] EXCEPT !.status = "downloading", !.started_at = now]
  <2>1. fin[i] \in QueuedDownload
    BY <1>5, <1>7
  <2>2. started \in QueuedDownload /\ started.status = "downloading"
    BY <2>1 DEF QueuedDownload, Status, QueueInv
  <2>3. new[i] = IF i = k + 1 THEN started ELSE fin[i]
    BY <1>5, <1>7
  <2>. HIDE DEF started, new
  <2>. QED  BY <1>5, <1>7, <2>1, <2>2, <2>3
<1>10. /\ new \in Seq(QueuedDownload)
       /\ DOMAIN new = DOMAIN dls /\ Len(new) = Len(dls)
  <2>1. new = [i \in 1..Len(dls) |-> new[i]]
    BY <1>5, <1>7
  <2>. HIDE DEF new
  <2>. QED  BY <1>7, <1>9, <2>1
<1>11. r \in UserQueue /\ r.downloads = new /\ r.is_processing
  <2>. HIDE DEF new
  <2>1. now \in Nat
    BY DEF QueueInv
  <2>2. r \in UserQueue /\ r.downloads = new /\ r.is_processing = q.is_processing
    BY <1>4, <1>10, <2>1 DEF UserQueue
  <2>. QED  BY <1>2, <2>2
<1>12. Good(r)
  <2>. HIDE DEF new, r, fin
  <2>1. \E j \in DOMAIN r.downloads : \A i \in DOMAIN r.downloads :
          r.downloads[i].status = IF i < j THEN "done"
                                  ELSE IF i = j THEN "downloading" ELSE "queued"
    BY <1>7, <1>9, <1>10, <1>11
  <2>2. Len(r.downloads) <= MaxQueueSize
    BY <1>4, <1>10, <1>11
  <2>. QED  BY <1>11, <2>1, <2>2, Zenon DEF Good, Shape
<1>. QED  BY <1>8, <1>12, PutGood

\* Nothing waits behind the active download: the list is dropped.
LEMMA DrainInv ==
  ASSUME QueueInv, NEW u \in Users, DrainQueue(u), UNCHANGED <<now, epoch>>
  PROVE  QueueInv'
<1>1. CASE Downloads(u) = <<>>
  BY <1>1 DEF DrainQueue, QueueInv
<1>2. CASE Downloads(u) # <<>>
  <2>. DEFINE r == [queues[u] EXCEPT !.downloads = <<>>, !.is_processing = FALSE]
  <2>1. u \in DOMAIN queues /\ Good(queues[u])
    BY <1>2, NonEmptyBusy
  <2>2. queues' = Put(u, r)
    <3>1. queues' = [queues EXCEPT ![u] = r]
      BY <1>2 DEF DrainQueue
    <3>. HIDE DEF r
    <3>. QED  BY <2>1, <3>1 DEF Put, QueueInv
  <2>3. <<>> \in Seq(QueuedDownload) /\ Len(<<>>) = 0
    OBVIOUS
  <2>4. r \in UserQueue /\ r.downloads = <<>> /\ r.is_processing = FALSE
    BY <2>1, <2>3 DEF Good, UserQueue
  <2>5. Good(r)
    BY <2>3, <2>4, QueueAssumption DEF Good, Shape
  <2>. QED  BY <2>2, <2>5, PutGood
<1>. QED  BY <1>1, <1>2

-----------------------------------------------------------------------------
(* The other steps *)

\* However add ends, it keeps the invariant.
LEMMA AddInv ==
  ASSUME QueueInv, NEW u \in Users, NEW b \in Bots, NEW m \in Messages, NEW url \in Urls,
         \/ AddRefused(u)
         \/ AddStarted(u, b, m, url)
         \/ AddQueued(u, b, m, url)
         \/ AddQueuedWithProgress(u, b, m, url),
         UNCHANGED <<now, epoch>>
  PROVE  QueueInv'
<1>. DEFINE q       == AddTarget(u)
            entry   == NewDownload(b, m, url)
            started == [entry EXCEPT !.status = "downloading", !.started_at = now]
<1>1. Good(q)
  BY AddTargetGood
<1>2. /\ entry \in QueuedDownload /\ entry.status = "queued"
      /\ started \in QueuedDownload /\ started.status = "downloading"
  BY DEF NewDownload, QueuedDownload, Status, NotStarted, QueueInv
<1>. HIDE DEF q, entry, started
<1>3. ~AddIsRefused(u) => Len(q.downloads) < MaxQueueSize
  BY <1>1, QueueAssumption DEF AddIsRefused, q, Good, UserQueue
<1>4. q \in UserQueue
  BY <1>1 DEF Good
<1>5. CASE AddRefused(u)
  BY <1>1, <1>5, PutGood DEF AddRefused, q
<1>6. CASE AddStarted(u, b, m, url)
  <2>. DEFINE r == [q EXCEPT !.is_processing = TRUE, !.downloads = Append(@, started)]
  <2>1. Good(r)
    BY <1>1, <1>2, <1>3, <1>6, AppendGood DEF AddStarted, q
  <2>2. queues' = Put(u, r)
    BY <1>6 DEF AddStarted, q, started, entry
  <2>. QED  BY <2>1, <2>2, PutGood
<1>7. ASSUME AddQueued(u, b, m, url) \/ AddQueuedWithProgress(u, b, m, url)
      PROVE  Good([q EXCEPT !.downloads = Append(@, entry)])
  <2>1. q.is_processing
    BY <1>7 DEF AddQueued, AddQueuedWithProgress, q
  <2>2. Good([q EXCEPT !.is_processing = TRUE, !.downloads = Append(@, entry)])
    BY <1>1, <1>2, <1>3, <1>7, <2>1, AppendGood DEF AddQueued, AddQueuedWithProgress
  <2>3. [q EXCEPT !.is_processing = TRUE, !.downloads = Append(@, entry)]
          = [q EXCEPT !.downloads = Append(@, entry)]
    <3>1. q.is_processing = TRUE
      BY <2>1, <1>4 DEF UserQueue
    <3>. QED  BY <3>1, <1>4 DEF UserQueue
  <2>. QED  BY <2>2, <2>3
<1>8. CASE AddQueued(u, b, m, url)
  <2>1. queues' = Put(u, [q EXCEPT !.downloads = Append(@, entry)])
    BY <1>8 DEF AddQueued, q, entry
  <2>. QED  BY <1>7, <1>8, <2>1, PutGood
<1>9. CASE AddQueuedWithProgress(u, b, m, url)
  <2>. DEFINE r == [q EXCEPT !.downloads = Append(@, entry)]
  <2>1. Good([r EXCEPT !.downloads = WithProgress(@, b, url, m)])
    BY <1>7, <1>9, ProgressGood
  <2>2. [r EXCEPT !.downloads = WithProgress(@, b, url, m)]
          = [q EXCEPT !.downloads = WithProgress(Append(@, entry), b, url, m)]
    BY <1>4 DEF UserQueue
  <2>3. queues' = Put(u, [q EXCEPT !.downloads = WithProgress(Append(@, entry), b, url, m)])
    BY <1>9 DEF AddQueuedWithProgress, q, entry
  <2>. QED  BY <2>1, <2>2, <2>3, PutGood
<1>. QED  BY <1>5, <1>6, <1>8, <1>9

\* set_progress_message keeps the invariant.
LEMMA ProgressInv ==
  ASSUME QueueInv, NEW u \in Users, NEW b \in Bots, NEW m \in Messages, NEW url \in Urls,
         SetProgressMessage(u, b, url, m), UNCHANGED <<now, epoch>>
  PROVE  QueueInv'
<1>1. CASE u \notin DOMAIN queues
  BY <1>1 DEF SetProgressMessage, QueueInv
<1>2. CASE u \in DOMAIN queues
  <2>. DEFINE r == [queues[u] EXCEPT !.downloads = WithProgress(@, b, url, m)]
  <2>1. Good(r)
    BY <1>2, ProgressGood DEF QueueInv
  <2>2. queues' = [queues EXCEPT ![u] = r]
    BY <1>2 DEF SetProgressMessage
  <2>. HIDE DEF r
  <2>3. queues' = Put(u, r)
    BY <1>2, <2>2 DEF Put, QueueInv
  <2>. QED  BY <2>1, <2>3, PutGood
<1>. QED  BY <1>1, <1>2

\* The clean-up task keeps the invariant: it only forgets queues.
LEMMA CleanupInv ==
  ASSUME QueueInv, CleanupPass, UNCHANGED <<now, epoch>>
  PROVE  QueueInv'
<1>1. DOMAIN queues' \subseteq DOMAIN queues
  BY DEF CleanupPass
<1>2. \A u \in DOMAIN queues' : queues'[u] = queues[u]
  BY DEF CleanupPass
<1>3. queues' = [u \in DOMAIN queues' |-> queues'[u]]
  BY DEF CleanupPass
<1>. QED  BY <1>1, <1>2, <1>3 DEF QueueInv

-----------------------------------------------------------------------------
(* The theorems *)

\* No queue exists at first.
LEMMA QueueInvInit == QueueInit => QueueInv
BY DEF QueueInit, QueueInv

\* Every step of the queue keeps the invariant.
LEMMA QueueInvStep == QueueInv /\ [QueueNext]_queueVars => QueueInv'
<1>. SUFFICES ASSUME QueueInv, [QueueNext]_queueVars
              PROVE  QueueInv'
  OBVIOUS
<1>1. ASSUME NEW u \in Users, QueueCall(u), UNCHANGED <<now, epoch>>
      PROVE  QueueInv'
  <2>1. CASE AddRefused(u)
    <3>1. Good(AddTarget(u))
      BY AddTargetGood
    <3>. QED  BY <1>1, <2>1, <3>1, PutGood DEF AddRefused
  <2>2. ASSUME NEW b \in Bots, NEW m \in Messages, NEW url \in Urls,
               \/ AddStarted(u, b, m, url)
               \/ AddQueued(u, b, m, url)
               \/ SetProgressMessage(u, b, url, m)
               \/ AddQueuedWithProgress(u, b, m, url)
        PROVE  QueueInv'
    BY <1>1, <2>2, AddInv, ProgressInv
  <2>3. CASE GetNext(u)
    BY <1>1, <2>3, StartNextInv, DrainInv DEF GetNext
  <2>. QED  BY <1>1, <2>1, <2>2, <2>3 DEF QueueCall
<1>2. CASE CleanupPass /\ UNCHANGED <<now, epoch>>
  BY <1>2, CleanupInv
<1>3. CASE ClockTick /\ UNCHANGED <<queues, epoch>>
  BY <1>3 DEF ClockTick, QueueInv
<1>4. CASE LoseMemory /\ UNCHANGED now
  BY <1>4 DEF LoseMemory, QueueInv
<1>5. CASE UNCHANGED queueVars
  BY <1>5 DEF queueVars, QueueInv
<1>. QED  BY <1>1, <1>2, <1>3, <1>4, <1>5 DEF QueueNext

\* The invariant is the type invariant and the shape together.
LEMMA QueueInvImplies == QueueInv => QueueTypeOK /\ QueueShape
BY DEF QueueInv, QueueTypeOK, QueueShape, Good

\* _queues stays a dictionary from users to queues within MAX_QUEUE_SIZE.
THEOREM QueueTypeCorrect == QueueSpec => []QueueTypeOK
BY QueueInvInit, QueueInvStep, QueueInvImplies, PTL DEF QueueSpec

\* In every queue, after any calls in any order: at most one active download,
\* nothing waiting without one, nothing overtaken.
THEOREM QueueShapeCorrect == QueueSpec => []QueueShape
BY QueueInvInit, QueueInvStep, QueueInvImplies, PTL DEF QueueSpec
-----------------------------------------------------------------------------
(* Who waits and who is active *)

\* A list whose active download is at k.
BusyAt(dls, k) ==
  /\ dls \in Seq(QueuedDownload)
  /\ k \in DOMAIN dls
  /\ \A i \in DOMAIN dls :
       dls[i].status = IF i < k THEN "done" ELSE IF i = k THEN "downloading" ELSE "queued"

\* The waiting downloads of a list, by position, and the active one.
Queued(dls) == {<<i, dls[i].message_id>> : i \in With(dls, "queued")}
Active(dls) == {<<dls[i].message_id, dls[i].started_at>> : i \in With(dls, "downloading")}

\* A step that changes only u's list.
OnlyList(u) == \A v \in Users : v # u => Downloads(v)' = Downloads(v)

\* A busy queue has an active download, an idle one an empty list.
LEMMA Listed ==
  ASSUME NEW q, Good(q)
  PROVE  /\ q.downloads \in Seq(QueuedDownload) /\ Len(q.downloads) <= MaxQueueSize
         /\ q.is_processing \in BOOLEAN
         /\ q.is_processing => \E k : BusyAt(q.downloads, k)
         /\ ~q.is_processing => q.downloads = <<>>
<1>1. q.downloads \in Seq(QueuedDownload) /\ q.is_processing \in BOOLEAN
  BY DEF Good, UserQueue
<1>. QED  BY <1>1 DEF Good, Shape, BusyAt

\* So has the list of every user.
LEMMA ListOf ==
  ASSUME QueueInv, NEW u \in Users
  PROVE  /\ Downloads(u) \in Seq(QueuedDownload) /\ Len(Downloads(u)) <= MaxQueueSize
         /\ Downloads(u) = <<>> \/ \E k : BusyAt(Downloads(u), k)
<1>1. CASE u \in DOMAIN queues
  <2>1. Good(queues[u]) /\ Downloads(u) = queues[u].downloads
    BY <1>1 DEF QueueInv, Downloads
  <2>. QED  BY <2>1, Listed
<1>2. CASE u \notin DOMAIN queues
  <2>1. Downloads(u) = <<>>
    BY <1>2 DEF Downloads
  <2>2. <<>> \in Seq(QueuedDownload) /\ Len(<<>>) = 0
    OBVIOUS
  <2>. QED  BY <2>1, <2>2, QueueAssumption
<1>. QED  BY <1>1, <1>2

LEMMA ListOfPrime ==
  ASSUME QueueInv', NEW u \in Users
  PROVE  Downloads(u)' = <<>> \/ \E k : BusyAt(Downloads(u)', k)
<1>1. CASE u \in DOMAIN queues'
  <2>1. Good(queues'[u]) /\ Downloads(u)' = queues'[u].downloads
    BY <1>1 DEF QueueInv, Downloads
  <2>. QED  BY <2>1, Listed
<1>2. CASE u \notin DOMAIN queues'
  BY <1>2 DEF Downloads
<1>. QED  BY <1>1, <1>2

\* Storing a queue changes the list of its user.
LEMMA PutLists ==
  ASSUME NEW u \in Users, NEW q, queues' = Put(u, q)
  PROVE  Downloads(u)' = q.downloads /\ OnlyList(u)
BY DEF Put, Downloads, OnlyList

LEMMA NothingListed == Queued(<<>>) = {} /\ Active(<<>>) = {}
BY DEF Queued, Active, With

\* Lists that agree in what matters here.
LEMMA SameEntries ==
  ASSUME NEW dls, NEW other, DOMAIN other = DOMAIN dls,
         \A i \in DOMAIN dls : /\ other[i].status = dls[i].status
                               /\ other[i].message_id = dls[i].message_id
                               /\ other[i].started_at = dls[i].started_at
  PROVE  Queued(other) = Queued(dls) /\ Active(other) = Active(dls)
<1>1. With(other, "queued") = With(dls, "queued") /\ With(other, "downloading") = With(dls, "downloading")
  BY DEF With
<1>2. With(dls, "queued") \subseteq DOMAIN dls /\ With(dls, "downloading") \subseteq DOMAIN dls
  BY DEF With
<1>. QED  BY <1>1, <1>2 DEF Queued, Active

\* A progress message does not matter here.
LEMMA ProgressEntries ==
  ASSUME NEW dls \in Seq(QueuedDownload), NEW b, NEW url, NEW m
  PROVE  /\ Queued(WithProgress(dls, b, url, m)) = Queued(dls)
         /\ Active(WithProgress(dls, b, url, m)) = Active(dls)
<1>. DEFINE new == WithProgress(dls, b, url, m)
<1>1. CASE new = dls
  BY <1>1
<1>2. ASSUME NEW x, new = [dls EXCEPT ![x].progress_message_id = m]
      PROVE  Queued(new) = Queued(dls) /\ Active(new) = Active(dls)
  <2>1. DOMAIN new = DOMAIN dls
    BY <1>2
  <2>2. ASSUME NEW i \in DOMAIN dls
        PROVE  /\ new[i].status = dls[i].status /\ new[i].message_id = dls[i].message_id
               /\ new[i].started_at = dls[i].started_at
    <3>1. new[i] = IF i = x THEN [dls[i] EXCEPT !.progress_message_id = m] ELSE dls[i]
      BY <1>2
    <3>2. dls[i] \in QueuedDownload
      OBVIOUS
    <3>3. LET d == [dls[i] EXCEPT !.progress_message_id = m]
          IN  /\ d.status = dls[i].status /\ d.message_id = dls[i].message_id
              /\ d.started_at = dls[i].started_at
      BY <3>2 DEF QueuedDownload
    <3>. QED  BY <3>1, <3>3
  <2>. HIDE DEF new
  <2>. QED  BY <2>1, <2>2, SameEntries
<1>3. new = dls \/ \E x : new = [dls EXCEPT ![x].progress_message_id = m]
  BY DEF WithProgress
<1>. QED  BY <1>1, <1>2, <1>3

\* A waiting download joins at the end.
LEMMA EntriesGrow ==
  ASSUME NEW dls \in Seq(QueuedDownload), NEW dl \in QueuedDownload, dl.status = "queued"
  PROVE  /\ Append(dls, dl) \in Seq(QueuedDownload)
         /\ Queued(Append(dls, dl)) = Queued(dls) \cup {<<Len(dls) + 1, dl.message_id>>}
         /\ Active(Append(dls, dl)) = Active(dls)
<1>. DEFINE new == Append(dls, dl)
            n == Len(dls)
<1>1. /\ new \in Seq(QueuedDownload) /\ n \in Nat /\ DOMAIN dls = 1..n /\ DOMAIN new = 1..(n + 1)
      /\ new[n + 1] = dl /\ \A i \in 1..n : new[i] = dls[i]
  OBVIOUS
<1>. HIDE DEF new, n
<1>2. With(new, "queued") = With(dls, "queued") \cup {n + 1}
      /\ With(new, "downloading") = With(dls, "downloading")
      /\ With(dls, "queued") \subseteq 1..n /\ With(dls, "downloading") \subseteq 1..n
  BY <1>1 DEF With
<1>3. Active(new) = Active(dls)
  BY <1>1, <1>2 DEF Active
<1>4. Queued(new) = Queued(dls) \cup {<<n + 1, dl.message_id>>}
  BY <1>1, <1>2 DEF Queued
<1>. QED  BY <1>1, <1>3, <1>4 DEF new, n

\* A list of one active download.
LEMMA OneActive ==
  ASSUME NEW dl \in QueuedDownload, dl.status = "downloading"
  PROVE  /\ Queued(Append(<<>>, dl)) = {}
         /\ Active(Append(<<>>, dl)) = {<<dl.message_id, dl.started_at>>}
<1>. DEFINE new == Append(<<>>, dl)
<1>1. DOMAIN new = {1} /\ new[1] = dl
  OBVIOUS
<1>. HIDE DEF new
<1>2. With(new, "queued") = {} /\ With(new, "downloading") = {1}
  BY <1>1 DEF With
<1>. QED  BY <1>1, <1>2 DEF Queued, Active, new

\* In a busy list one download is active.
LEMMA BusyActive ==
  ASSUME NEW dls, NEW k, BusyAt(dls, k)
  PROVE  /\ With(dls, "downloading") = {k} /\ First(dls, "downloading") = k
         /\ Active(dls) = {<<dls[k].message_id, dls[k].started_at>>}
         /\ Queued(dls) = {<<i, dls[i].message_id>> : i \in (k + 1)..Len(dls)}
         /\ k \in Nat /\ Len(dls) \in Nat /\ DOMAIN dls = 1..Len(dls) /\ k \in 1..Len(dls)
<1>1. k \in Nat /\ Len(dls) \in Nat /\ DOMAIN dls = 1..Len(dls) /\ k \in 1..Len(dls)
  BY DEF BusyAt
<1>2. With(dls, "downloading") = {k} /\ With(dls, "queued") = (k + 1)..Len(dls)
  BY <1>1 DEF BusyAt, With
<1>3. First(dls, "downloading") = k
  BY <1>1, <1>2 DEF First
<1>. QED  BY <1>1, <1>2, <1>3 DEF Active, Queued

\* No user has two active downloads.
LEMMA ActiveAlone ==
  ASSUME QueueInv, NEW u \in Users
  PROVE  \A x, y \in Active(Downloads(u)) : x = y
<1>1. CASE Downloads(u) = <<>>
  BY <1>1, NothingListed
<1>2. ASSUME NEW k, BusyAt(Downloads(u), k)
      PROVE  \A x, y \in Active(Downloads(u)) : x = y
  BY <1>2, BusyActive
<1>. QED  BY <1>1, <1>2, ListOf

-----------------------------------------------------------------------------
(* What the operations do to them *)

\* What add works on: u's list, or an empty one instead of a list whose active
\* download is stale.
LEMMA AddTargetList ==
  ASSUME QueueInv, NEW u \in Users
  PROVE  \/ AddTarget(u).downloads = Downloads(u)
         \/ /\ AddTarget(u).downloads = <<>> /\ ~AddTarget(u).is_processing
            /\ \E x \in Active(Downloads(u)) : now - x[2] > StaleTimeout
<1>. DEFINE g == GetQueue(u)
            dls == Downloads(u)
<1>1. Good(g) /\ AddTarget(u) = ResetIfStale(g)
  BY GetQueueGood DEF AddTarget
<1>2. g.downloads = dls
  <2>1. CASE u \in DOMAIN queues
    <3>1. queues[u] \in UserQueue
      BY <2>1 DEF QueueInv, Good
    <3>. QED  BY <2>1, <3>1 DEF GetQueue, Downloads, UserQueue
  <2>2. CASE u \notin DOMAIN queues
    BY <2>2 DEF GetQueue, NewQueue, Downloads
  <2>. QED  BY <2>1, <2>2
<1>. HIDE DEF g, dls
<1>3. CASE IsStale(g)
  <2>1. g.is_processing
    BY <1>3 DEF IsStale
  <2>2. PICK k : BusyAt(dls, k)
    BY <1>1, <1>2, <2>1, Listed
  <2>3. With(dls, "downloading") = {k} /\ First(dls, "downloading") = k
        /\ <<dls[k].message_id, dls[k].started_at>> \in Active(dls)
    BY <2>2, BusyActive
  <2>4. now - dls[k].started_at > StaleTimeout
    BY <1>2, <1>3, <2>3 DEF IsStale
  <2>5. g \in UserQueue
    BY <1>1 DEF Good
  <2>6. LET r == [g EXCEPT !.downloads = <<>>, !.is_processing = FALSE]
        IN  r.downloads = <<>> /\ ~r.is_processing
    BY <2>5 DEF UserQueue
  <2>7. AddTarget(u).downloads = <<>> /\ ~AddTarget(u).is_processing
    BY <1>1, <1>3, <2>6 DEF ResetIfStale
  <2>8. \E x \in Active(dls) : now - x[2] > StaleTimeout
    BY <2>3, <2>4
  <2>. QED  BY <2>7, <2>8 DEF dls
<1>4. CASE ~IsStale(g)
  BY <1>1, <1>2, <1>4 DEF ResetIfStale, dls
<1>. QED  BY <1>3, <1>4

\* A refusal leaves every list alone: a stale one is dropped, and then has room.
LEMMA RefusedLists ==
  ASSUME QueueInv, NEW u \in Users, AddRefused(u)
  PROVE  \A v \in Users : Downloads(v)' = Downloads(v)
<1>. DEFINE q == AddTarget(u)
<1>1. q.downloads = Downloads(u) \/ q.downloads = <<>>
  BY AddTargetList
<1>2. Len(q.downloads) >= MaxQueueSize /\ queues' = Put(u, q)
  BY DEF AddRefused, AddIsRefused
<1>. HIDE DEF q
<1>3. q.downloads # <<>>
  <2>1. Len(<<>>) = 0
    OBVIOUS
  <2>. QED  BY <1>2, <2>1, QueueAssumption
<1>4. Downloads(u)' = q.downloads /\ OnlyList(u)
  BY <1>2, PutLists
<1>. QED  BY <1>1, <1>3, <1>4 DEF OnlyList

\* add starts a download where none is active, or instead of a stale one.
LEMMA StartedLists ==
  ASSUME QueueInv, NEW u \in Users, NEW b \in Bots, NEW m \in Messages, NEW url \in Urls,
         AddStarted(u, b, m, url)
  PROVE  /\ Queued(Downloads(u)') = {} /\ Active(Downloads(u)') = {<<m, now>>} /\ OnlyList(u)
         /\ \A x \in Active(Downloads(u)) : now - x[2] > StaleTimeout
<1>. DEFINE q == AddTarget(u)
            dl == [NewDownload(b, m, url) EXCEPT !.status = "downloading", !.started_at = now]
            r == [q EXCEPT !.is_processing = TRUE, !.downloads = Append(@, dl)]
<1>1. Good(q) /\ q \in UserQueue
  BY AddTargetGood DEF Good
<1>2. /\ dl \in QueuedDownload /\ dl.status = "downloading" /\ dl.started_at = now
      /\ dl.message_id = m
  BY DEF NewDownload, QueuedDownload, Status, NotStarted, QueueInv
<1>3. ~q.is_processing /\ queues' = Put(u, r)
  BY DEF AddStarted
<1>. HIDE DEF q, dl
<1>4. q.downloads = <<>>
  BY <1>1, <1>3, Listed
<1>5. r.downloads = Append(<<>>, dl)
  BY <1>1, <1>4 DEF UserQueue
<1>. HIDE DEF r
<1>6. Downloads(u)' = Append(<<>>, dl) /\ OnlyList(u)
  BY <1>3, <1>5, PutLists
<1>7. Queued(Downloads(u)') = {} /\ Active(Downloads(u)') = {<<m, now>>}
  BY <1>2, <1>6, OneActive
<1>8. \A x \in Active(Downloads(u)) : now - x[2] > StaleTimeout
  <2>1. CASE Downloads(u) = <<>>
    BY <2>1, NothingListed
  <2>2. CASE \E x \in Active(Downloads(u)) : now - x[2] > StaleTimeout
    BY <2>2, ActiveAlone
  <2>. QED  BY <1>4, <2>1, <2>2, AddTargetList DEF q
<1>. QED  BY <1>6, <1>7, <1>8

\* add puts a download behind the others of a busy queue.
LEMMA QueuedLists ==
  ASSUME QueueInv, NEW u \in Users, NEW b \in Bots, NEW m \in Messages, NEW url \in Urls,
         AddQueued(u, b, m, url) \/ AddQueuedWithProgress(u, b, m, url)
  PROVE  /\ \E n : Queued(Downloads(u)') = Queued(Downloads(u)) \cup {<<n, m>>}
         /\ Active(Downloads(u)') = Active(Downloads(u)) /\ OnlyList(u)
<1>. DEFINE q == AddTarget(u)
            dl == NewDownload(b, m, url)
            dls == Downloads(u)
            grown == Append(dls, dl)
<1>1. q \in UserQueue /\ q.is_processing /\ q.downloads = dls
  BY AddTargetGood, AddTargetList DEF Good, AddQueued, AddQueuedWithProgress
<1>2. dl \in QueuedDownload /\ dl.status = "queued" /\ dl.message_id = m
  BY DEF NewDownload, QueuedDownload, Status, NotStarted, QueueInv
<1>3. dls \in Seq(QueuedDownload)
  BY ListOf
<1>4. /\ grown \in Seq(QueuedDownload)
      /\ Queued(grown) = Queued(dls) \cup {<<Len(dls) + 1, m>>} /\ Active(grown) = Active(dls)
  <2>. HIDE DEF dl, dls
  <2>. QED  BY <1>2, <1>3, EntriesGrow
<1>5. /\ Downloads(u)' = grown \/ Downloads(u)' = WithProgress(grown, b, url, m)
      /\ OnlyList(u)
  <2>1. CASE AddQueued(u, b, m, url)
    <3>. DEFINE r == [q EXCEPT !.downloads = Append(@, dl)]
    <3>1. queues' = Put(u, r)
      BY <2>1 DEF AddQueued
    <3>. HIDE DEF q, dl, dls
    <3>2. r.downloads = grown
      BY <1>1 DEF UserQueue
    <3>. HIDE DEF r, grown
    <3>. QED  BY <3>1, <3>2, PutLists
  <2>2. CASE AddQueuedWithProgress(u, b, m, url)
    <3>. DEFINE r == [q EXCEPT !.downloads = WithProgress(Append(@, dl), b, url, m)]
    <3>1. queues' = Put(u, r)
      BY <2>2 DEF AddQueuedWithProgress
    <3>. HIDE DEF q, dl, dls
    <3>2. r.downloads = WithProgress(grown, b, url, m)
      BY <1>1 DEF UserQueue
    <3>. HIDE DEF r, grown
    <3>. QED  BY <3>1, <3>2, PutLists
  <2>. QED  BY <2>1, <2>2
<1>. HIDE DEF grown
<1>6. /\ Queued(WithProgress(grown, b, url, m)) = Queued(grown)
      /\ Active(WithProgress(grown, b, url, m)) = Active(grown)
  BY <1>4, ProgressEntries
<1>7. Queued(Downloads(u)') = Queued(grown) /\ Active(Downloads(u)') = Active(grown)
  BY <1>5, <1>6
<1>. HIDE DEF dls
<1>. QED  BY <1>4, <1>5, <1>7 DEF dls

\* set_progress_message does not matter here.
LEMMA ProgressLists ==
  ASSUME QueueInv, NEW u \in Users, NEW b, NEW url, NEW m, SetProgressMessage(u, b, url, m)
  PROVE  \A v \in Users : /\ Queued(Downloads(v)') = Queued(Downloads(v))
                          /\ Active(Downloads(v)') = Active(Downloads(v))
<1>1. CASE u \notin DOMAIN queues
  BY <1>1 DEF SetProgressMessage, Downloads
<1>2. CASE u \in DOMAIN queues
  <2>1. queues[u] \in UserQueue /\ Downloads(u) = queues[u].downloads
    BY <1>2 DEF QueueInv, Good, Downloads
  <2>2. Downloads(u)' = WithProgress(Downloads(u), b, url, m) /\ OnlyList(u)
    BY <1>2, <2>1 DEF SetProgressMessage, Downloads, UserQueue, OnlyList
  <2>3. Downloads(u) \in Seq(QueuedDownload)
    BY ListOf
  <2>. QED  BY <2>2, <2>3, ProgressEntries DEF OnlyList
<1>. QED  BY <1>1, <1>2

\* get_next makes the first waiting download the active one.
LEMMA NextLists ==
  ASSUME QueueInv, NEW u \in Users, StartNext(u)
  PROVE  LET m == Downloads(u)[NextIndex(u)].message_id
         IN  /\ <<NextIndex(u), m>> \in Queued(Downloads(u))
             /\ Queued(Downloads(u)') = Queued(Downloads(u)) \ {<<NextIndex(u), m>>}
             /\ Active(Downloads(u)') = {<<m, now>>} /\ OnlyList(u)
<1>. DEFINE dls == Downloads(u)
            fin == FinishActive(dls)
            new == [fin EXCEPT ![NextIndex(u)].status = "downloading",
                               ![NextIndex(u)].started_at = now]
<1>1. dls # <<>>
  <2>1. ASSUME dls = <<>> PROVE FALSE
    <3>1. FinishActive(<<>>) = <<>>
      BY DEF FinishActive, With
    <3>2. With(<<>>, "queued") = {}
      BY DEF With
    <3>. QED  BY <2>1, <3>1, <3>2 DEF StartNext, HasNext
  <2>. QED  BY <2>1
<1>2. u \in DOMAIN queues /\ queues[u] \in UserQueue /\ dls = queues[u].downloads
  BY <1>1, NonEmptyBusy DEF Good
<1>3. PICK k : BusyAt(dls, k)
  BY <1>1, ListOf
<1>4. /\ fin \in Seq(QueuedDownload) /\ DOMAIN fin = DOMAIN dls /\ Len(fin) = Len(dls)
      /\ \A i \in DOMAIN dls : fin[i].status = IF i <= k THEN "done" ELSE "queued"
      /\ With(fin, "queued") = (k+1)..Len(dls)
      /\ With(fin, "queued") # {} => First(fin, "queued") = k + 1
  BY <1>3, ActiveAndNext DEF BusyAt
<1>5. /\ k \in Nat /\ Len(dls) \in Nat /\ DOMAIN dls = 1..Len(dls)
      /\ Queued(dls) = {<<i, dls[i].message_id>> : i \in (k + 1)..Len(dls)}
      /\ First(dls, "downloading") = k /\ With(dls, "downloading") = {k}
  BY <1>3, BusyActive
<1>6. NextIndex(u) = k + 1 /\ k + 1 \in 1..Len(dls)
  BY <1>4, <1>5 DEF StartNext, HasNext, NextIndex
<1>7. fin = [dls EXCEPT ![k].status = "done"]
  BY <1>5 DEF FinishActive
<1>8. Downloads(u)' = new /\ OnlyList(u)
  <2>. DEFINE touched == [queues[u] EXCEPT !.downloads = new, !.last_activity = now]
  <2>1. queues' = [queues EXCEPT ![u].downloads = new, ![u].last_activity = now]
    BY <1>2 DEF StartNext
  <2>2. queues' = [queues EXCEPT ![u] = touched]
    BY <2>1
  <2>. HIDE DEF new
  <2>3. touched.downloads = new
    BY <1>2 DEF UserQueue
  <2>. HIDE DEF touched
  <2>4. queues'[u] = touched /\ DOMAIN queues' = DOMAIN queues
        /\ \A v \in DOMAIN queues : v # u => queues'[v] = queues[v]
    BY <1>2, <2>2
  <2>. QED  BY <1>2, <2>3, <2>4 DEF Downloads, OnlyList
<1>9. /\ DOMAIN new = 1..Len(dls)
      /\ \A i \in 1..Len(dls) :
           new[i] = IF i = k + 1 THEN [fin[i] EXCEPT !.status = "downloading", !.started_at = now]
                    ELSE fin[i]
  BY <1>4, <1>5, <1>6
<1>10. ASSUME NEW i \in 1..Len(dls)
       PROVE  /\ new[i].message_id = dls[i].message_id
              /\ new[i].status = IF i = k + 1 THEN "downloading" ELSE fin[i].status
              /\ i = k + 1 => new[i].started_at = now
  <2>1. dls[i] \in QueuedDownload /\ fin[i] \in QueuedDownload
    BY <1>3, <1>4, <1>5 DEF BusyAt
  <2>2. fin[i].message_id = dls[i].message_id
    <3>1. fin[i] = IF i = k THEN [dls[i] EXCEPT !.status = "done"] ELSE dls[i]
      BY <1>5, <1>7
    <3>2. [dls[i] EXCEPT !.status = "done"].message_id = dls[i].message_id
      BY <2>1 DEF QueuedDownload
    <3>. QED  BY <3>1, <3>2
  <2>3. LET d == [fin[i] EXCEPT !.status = "downloading", !.started_at = now]
        IN  d.message_id = fin[i].message_id /\ d.status = "downloading" /\ d.started_at = now
    BY <2>1 DEF QueuedDownload
  <2>. HIDE DEF new, fin
  <2>. QED  BY <1>9, <2>2, <2>3
<1>. HIDE DEF new, fin, dls
<1>11. With(new, "queued") = (k + 2)..Len(dls) /\ With(new, "downloading") = {k + 1}
  <2>1. \A i \in 1..Len(dls) : new[i].status = IF i = k + 1 THEN "downloading"
                                               ELSE IF i <= k THEN "done" ELSE "queued"
    BY <1>4, <1>5, <1>10
  <2>2. \A i : i \in (k + 2)..Len(dls) <=> i \in 1..Len(dls) /\ i # k + 1 /\ ~(i <= k)
    BY <1>5
  <2>3. With(new, "queued") = (k + 2)..Len(dls)
    <3>1. \A i \in DOMAIN new : new[i].status = "queued" <=> i # k + 1 /\ ~(i <= k)
      BY <1>9, <2>1
    <3>. QED  BY <1>9, <2>2, <3>1 DEF With
  <2>4. With(new, "downloading") = {k + 1}
    BY <1>6, <1>9, <2>1 DEF With
  <2>. QED  BY <2>3, <2>4
<1>12. Active(new) = {<<dls[k + 1].message_id, now>>}
  BY <1>6, <1>10, <1>11 DEF Active
<1>13. Queued(new) = {<<i, dls[i].message_id>> : i \in (k + 2)..Len(dls)}
  <2>1. (k + 2)..Len(dls) \subseteq 1..Len(dls)
    BY <1>5
  <2>. QED  BY <1>10, <1>11, <2>1 DEF Queued
<1>14. Queued(new) = Queued(dls) \ {<<k + 1, dls[k + 1].message_id>>}
  <2>1. \A i : i \in (k + 2)..Len(dls) <=> i \in (k + 1)..Len(dls) /\ i # k + 1
    BY <1>5
  <2>. QED  BY <1>5, <1>13, <2>1
<1>15. <<k + 1, dls[k + 1].message_id>> \in Queued(dls)
  BY <1>5, <1>6
<1>. QED  BY <1>6, <1>8, <1>12, <1>14, <1>15 DEF dls

\* Where nothing waits, get_next drops the list.
LEMMA DrainLists ==
  ASSUME QueueInv, NEW u \in Users, DrainQueue(u)
  PROVE  Queued(Downloads(u)) = {} /\ Downloads(u)' = <<>> /\ OnlyList(u)
<1>1. CASE Downloads(u) = <<>>
  BY <1>1, NothingListed DEF DrainQueue, Downloads, OnlyList
<1>2. CASE Downloads(u) # <<>>
  <2>. DEFINE r == [queues[u] EXCEPT !.downloads = <<>>, !.is_processing = FALSE]
  <2>1. u \in DOMAIN queues /\ queues[u] \in UserQueue
    BY <1>2, NonEmptyBusy DEF Good
  <2>2. queues' = [queues EXCEPT ![u] = r]
    BY <1>2 DEF DrainQueue
  <2>3. r.downloads = <<>>
    BY <2>1 DEF UserQueue
  <2>. HIDE DEF r
  <2>4. queues'[u] = r /\ DOMAIN queues' = DOMAIN queues
        /\ \A v \in DOMAIN queues : v # u => queues'[v] = queues[v]
    BY <2>1, <2>2
  <2>5. Queued(Downloads(u)) = {}
    <3>1. PICK k : BusyAt(Downloads(u), k)
      BY <1>2, ListOf
    <3>2. With(FinishActive(Downloads(u)), "queued") = (k+1)..Len(Downloads(u))
      BY <3>1, ActiveAndNext DEF BusyAt
    <3>3. (k+1)..Len(Downloads(u)) = {}
      BY <3>2 DEF DrainQueue, HasNext
    <3>. QED  BY <3>1, <3>3, BusyActive
  <2>. QED  BY <2>1, <2>3, <2>4, <2>5 DEF Downloads, OnlyList
<1>. QED  BY <1>1, <1>2

\* The clean-up only forgets empty lists.
LEMMA CleanupLists ==
  ASSUME CleanupPass
  PROVE  \A u \in Users : Downloads(u)' = Downloads(u)
BY DEF CleanupPass, Expired, Downloads

-----------------------------------------------------------------------------
(* What runs *)

\* What runs was started at some time, and never at 0, which stands for None.
StartedInv == \A u \in Users : running[u] # Nobody => running[u].since # NotStarted

RefinementInv == QueueInv /\ StartedInv

-----------------------------------------------------------------------------
(* The lists of the refinement *)

\* Sequences over the same indices are equally long.
LEMMA SameLength ==
  ASSUME NEW m \in Nat, NEW n \in Nat, 1..m = 1..n
  PROVE  m = n
<1>1. m > n => m \in 1..m /\ m \notin 1..n
  OBVIOUS
<1>2. n > m => n \in 1..n /\ n \notin 1..m
  OBVIOUS
<1>. QED  BY <1>1, <1>2

LEMMA ActiveAt ==
  ASSUME NEW dls, NEW k, BusyAt(dls, k)
  PROVE  /\ With(dls, "downloading") = {k} /\ First(dls, "downloading") = k
         /\ RunningIn(dls) = [link |-> Link(dls[k]), since |-> dls[k].started_at]
         /\ WaitingIn(dls) = [i \in 1..(Len(dls) - k) |-> Link(dls[k + i])]
         /\ RunningIn(dls) # Nobody /\ Link(dls[k]) \in Links
         /\ k \in Nat /\ Len(dls) \in Nat /\ DOMAIN dls = 1..Len(dls) /\ k \in 1..Len(dls)
<1>1. k \in Nat /\ Len(dls) \in Nat /\ DOMAIN dls = 1..Len(dls) /\ k \in 1..Len(dls)
  BY DEF BusyAt
<1>2. With(dls, "downloading") = {k}
  BY <1>1 DEF BusyAt, With
<1>3. First(dls, "downloading") = k
  BY <1>1, <1>2 DEF First
<1>4. dls[k] \in QueuedDownload
  BY <1>1 DEF BusyAt
<1>5. Link(dls[k]) \in Links /\ dls[k].started_at \in Nat
  BY <1>4 DEF Link, Links, QueuedDownload
<1>6. RunningIn(dls) = [link |-> Link(dls[k]), since |-> dls[k].started_at]
  BY <1>2, <1>3 DEF RunningIn
<1>7. RunningIn(dls) # Nobody
  BY <1>5, <1>6, NobodyAssumption
<1>. QED  BY <1>1, <1>2, <1>3, <1>5, <1>6, <1>7 DEF WaitingIn

LEMMA ActiveIsUnique ==
  ASSUME NEW dls, NEW k, BusyAt(dls, k), NEW j \in DOMAIN dls, dls[j].status = "downloading"
  PROVE  j = k
BY ActiveAt DEF BusyAt

LEMMA NothingIn == RunningIn(<<>>) = Nobody /\ WaitingIn(<<>>) = <<>>
BY DEF RunningIn, WaitingIn, With

\* The line as a sequence of links.
LEMMA LineType ==
  ASSUME NEW dls, NEW k, BusyAt(dls, k)
  PROVE  /\ WaitingIn(dls) \in Seq(Links) /\ Len(WaitingIn(dls)) = Len(dls) - k
         /\ \A i \in 1..(Len(dls) - k) : WaitingIn(dls)[i] = Link(dls[k + i])
<1>. DEFINE n == Len(dls) - k
            line == WaitingIn(dls)
<1>1. k \in Nat /\ Len(dls) \in Nat /\ DOMAIN dls = 1..Len(dls) /\ k \in 1..Len(dls)
  BY ActiveAt
<1>2. n \in Nat
  BY <1>1
<1>3. line = [i \in 1..n |-> Link(dls[k + i])]
  BY ActiveAt
<1>4. ASSUME NEW i \in 1..n PROVE Link(dls[k + i]) \in Links
  <2>1. k + i \in 1..Len(dls)
    BY <1>1
  <2>2. dls[k + i] \in QueuedDownload
    BY <1>1, <2>1 DEF BusyAt
  <2>. QED  BY <2>2 DEF Link, Links, QueuedDownload
<1>. HIDE DEF n, line
<1>5. DOMAIN line = 1..n /\ line = [i \in 1..n |-> line[i]] /\ \A i \in 1..n : line[i] \in Links
  BY <1>3, <1>4
<1>6. line \in Seq(Links) /\ Len(line) = n
  BY <1>2, <1>5, EntriesMakeSeq
<1>. QED  BY <1>3, <1>6 DEF n, line

\* Lists that agree in what counts stand for the same.
LEMMA SameLine ==
  ASSUME NEW dls, NEW k, BusyAt(dls, k), NEW other, BusyAt(other, k), Len(other) = Len(dls),
         \A i \in DOMAIN dls : Link(other[i]) = Link(dls[i]),
         other[k].started_at = dls[k].started_at
  PROVE  RunningIn(other) = RunningIn(dls) /\ WaitingIn(other) = WaitingIn(dls)
<1>1. k \in Nat /\ Len(dls) \in Nat /\ DOMAIN dls = 1..Len(dls) /\ k \in 1..Len(dls)
  BY ActiveAt
<1>2. \A i \in 1..(Len(dls) - k) : k + i \in DOMAIN dls
  BY <1>1
<1>3. RunningIn(other) = RunningIn(dls)
  <2>1. RunningIn(dls) = [link |-> Link(dls[k]), since |-> dls[k].started_at]
    BY ActiveAt
  <2>2. RunningIn(other) = [link |-> Link(other[k]), since |-> other[k].started_at]
    BY ActiveAt
  <2>. QED  BY <1>1, <2>1, <2>2
<1>4. WaitingIn(other) = WaitingIn(dls)
  <2>1. WaitingIn(dls) = [i \in 1..(Len(dls) - k) |-> Link(dls[k + i])]
    BY ActiveAt
  <2>2. WaitingIn(other) = [i \in 1..(Len(other) - k) |-> Link(other[k + i])]
    BY ActiveAt
  <2>. QED  BY <1>2, <2>1, <2>2
<1>. QED  BY <1>3, <1>4

\* A progress message on one of the downloads changes nothing that counts.
LEMMA ProgressSame ==
  ASSUME NEW dls, NEW k, BusyAt(dls, k), NEW b, NEW url, NEW m,
         NEW j, BusyAt(WithProgress(dls, b, url, m), j)
  PROVE  /\ RunningIn(WithProgress(dls, b, url, m)) = RunningIn(dls)
         /\ WaitingIn(WithProgress(dls, b, url, m)) = WaitingIn(dls)
<1>. DEFINE new == WithProgress(dls, b, url, m)
<1>1. CASE new = dls
  BY <1>1
<1>2. ASSUME NEW x, new = [dls EXCEPT ![x].progress_message_id = m]
      PROVE  RunningIn(new) = RunningIn(dls) /\ WaitingIn(new) = WaitingIn(dls)
  <2>1. k \in Nat /\ Len(dls) \in Nat /\ DOMAIN dls = 1..Len(dls) /\ k \in 1..Len(dls)
    BY ActiveAt
  <2>2. DOMAIN new = 1..Len(dls)
    BY <1>2, <2>1
  <2>3. ASSUME NEW i \in 1..Len(dls)
        PROVE  /\ new[i].status = dls[i].status /\ new[i].started_at = dls[i].started_at
               /\ Link(new[i]) = Link(dls[i])
    <3>1. new[i] = IF i = x THEN [dls[i] EXCEPT !.progress_message_id = m] ELSE dls[i]
      BY <1>2, <2>1
    <3>2. dls[i] \in QueuedDownload
      BY <2>1 DEF BusyAt
    <3>3. LET d == [dls[i] EXCEPT !.progress_message_id = m]
          IN  /\ d.status = dls[i].status /\ d.started_at = dls[i].started_at
              /\ Link(d) = Link(dls[i])
      BY <3>2 DEF QueuedDownload, Link
    <3>. QED  BY <3>1, <3>3
  <2>. HIDE DEF new
  <2>4. BusyAt(new, j)
    BY DEF new
  <2>5. Len(new) = Len(dls)
    BY <2>1, <2>2, <2>4 DEF BusyAt
  <2>6. new[k].status = "downloading"
    BY <2>1, <2>3 DEF BusyAt
  <2>7. k = j
    BY <2>1, <2>2, <2>4, <2>6, ActiveIsUnique
  <2>8. /\ BusyAt(new, k) /\ \A i \in DOMAIN dls : Link(new[i]) = Link(dls[i])
        /\ new[k].started_at = dls[k].started_at
    BY <2>1, <2>3, <2>4, <2>7
  <2>. QED  BY <2>5, <2>8, SameLine
<1>3. new = dls \/ \E x : new = [dls EXCEPT ![x].progress_message_id = m]
  BY DEF WithProgress
<1>. QED  BY <1>1, <1>2, <1>3

\* A download behind the active one joins the end of the line.
LEMMA LineGrows ==
  ASSUME NEW dls, NEW k, BusyAt(dls, k), NEW dl \in QueuedDownload, dl.status = "queued"
  PROVE  /\ BusyAt(Append(dls, dl), k)
         /\ RunningIn(Append(dls, dl)) = RunningIn(dls)
         /\ WaitingIn(Append(dls, dl)) = Append(WaitingIn(dls), Link(dl))
<1>. DEFINE new == Append(dls, dl)
            n == Len(dls) - k
<1>1. /\ k \in Nat /\ Len(dls) \in Nat /\ DOMAIN dls = 1..Len(dls) /\ k \in 1..Len(dls)
      /\ dls \in Seq(QueuedDownload) /\ n \in Nat
  BY ActiveAt DEF BusyAt
<1>2. /\ new \in Seq(QueuedDownload) /\ Len(new) = Len(dls) + 1
      /\ DOMAIN new = 1..(Len(dls) + 1) /\ new[Len(dls) + 1] = dl
      /\ \A i \in 1..Len(dls) : new[i] = dls[i]
  BY <1>1
<1>. HIDE DEF new
<1>3. BusyAt(new, k)
  BY <1>1, <1>2 DEF BusyAt
<1>4. RunningIn(new) = RunningIn(dls)
  <2>1. new[k] = dls[k]
    BY <1>1, <1>2
  <2>2. RunningIn(dls) = [link |-> Link(dls[k]), since |-> dls[k].started_at]
    BY ActiveAt
  <2>3. RunningIn(new) = [link |-> Link(new[k]), since |-> new[k].started_at]
    BY <1>3, ActiveAt
  <2>. QED  BY <2>1, <2>2, <2>3
<1>5. WaitingIn(new) = Append(WaitingIn(dls), Link(dl))
  <2>. DEFINE old == WaitingIn(dls)
              grown == WaitingIn(new)
  <2>1. old \in Seq(Links) /\ Len(old) = n /\ \A i \in 1..n : old[i] = Link(dls[k + i])
    BY LineType
  <2>2. Len(new) - k = n + 1
    BY <1>1, <1>2
  <2>3. grown \in Seq(Links) /\ Len(grown) = n + 1 /\ \A i \in 1..(n + 1) : grown[i] = Link(new[k + i])
    BY <1>3, <2>2, LineType
  <2>4. \A i \in 1..n : new[k + i] = dls[k + i]
    BY <1>1, <1>2
  <2>5. new[k + (n + 1)] = dl
    BY <1>1, <1>2
  <2>. HIDE DEF old, grown, n
  <2>6. /\ Len(Append(old, Link(dl))) = n + 1
        /\ \A i \in 1..n : Append(old, Link(dl))[i] = old[i]
        /\ Append(old, Link(dl))[n + 1] = Link(dl)
    BY <1>1, <2>1
  <2>7. \A i \in 1..(n + 1) : grown[i] = Append(old, Link(dl))[i]
    <3>1. \A i \in 1..n : grown[i] = old[i]
      BY <1>1, <2>1, <2>3, <2>4
    <3>2. grown[n + 1] = Link(dl)
      BY <1>1, <2>3, <2>5
    <3>. QED  BY <1>1, <2>6, <3>1, <3>2
  <2>8. Link(dl) \in Links
    BY DEF Link, Links, QueuedDownload
  <2>9. Append(old, Link(dl)) \in Seq(Links)
    BY <2>1, <2>8
  <2>. QED  BY <1>1, <2>3, <2>6, <2>7, <2>9, SeqEqual DEF old, grown
<1>. QED  BY <1>3, <1>4, <1>5 DEF new

\* The next download of the line becomes active.
LEMMA LineMoves ==
  ASSUME NEW dls, NEW k, BusyAt(dls, k), k + 1 \in DOMAIN dls,
         NEW new, BusyAt(new, k + 1), Len(new) = Len(dls),
         \A i \in DOMAIN dls : Link(new[i]) = Link(dls[i])
  PROVE  /\ WaitingIn(dls) # <<>>
         /\ RunningIn(new) = [link |-> Head(WaitingIn(dls)), since |-> new[k + 1].started_at]
         /\ WaitingIn(new) = Tail(WaitingIn(dls))
<1>. DEFINE n == Len(dls) - k
            old == WaitingIn(dls)
            rest == WaitingIn(new)
<1>1. /\ k \in Nat /\ Len(dls) \in Nat /\ DOMAIN dls = 1..Len(dls) /\ k + 1 \in 1..Len(dls)
      /\ n \in Nat \ {0}
  BY ActiveAt
<1>2. old \in Seq(Links) /\ Len(old) = n /\ \A i \in 1..n : old[i] = Link(dls[k + i])
  BY LineType
<1>3. Len(new) - (k + 1) = n - 1
  BY <1>1
<1>4. /\ rest \in Seq(Links) /\ Len(rest) = n - 1
      /\ \A i \in 1..(n - 1) : rest[i] = Link(new[(k + 1) + i])
  BY <1>3, LineType
<1>5. \A i \in 1..(n - 1) : (k + 1) + i = k + (i + 1) /\ k + (i + 1) \in DOMAIN dls /\ i + 1 \in 1..n
  BY <1>1
<1>6. RunningIn(new) = [link |-> Link(new[k + 1]), since |-> new[k + 1].started_at]
  BY ActiveAt
<1>7. Link(new[k + 1]) = Link(dls[k + 1])
  BY <1>1
<1>8. 1 \in 1..n
  BY <1>1
<1>. HIDE DEF n, old, rest
<1>9. /\ old # <<>> /\ Head(old) = old[1] /\ Tail(old) \in Seq(Links) /\ Len(Tail(old)) = n - 1
      /\ \A i \in 1..(n - 1) : Tail(old)[i] = old[i + 1]
  BY <1>1, <1>2
<1>10. ASSUME NEW i \in 1..(n - 1) PROVE rest[i] = Tail(old)[i]
  <2>1. (k + 1) + i = k + (i + 1) /\ k + (i + 1) \in DOMAIN dls /\ i + 1 \in 1..n
    BY <1>5
  <2>2. rest[i] = Link(new[k + (i + 1)])
    BY <1>4, <2>1
  <2>3. old[i + 1] = Link(dls[k + (i + 1)])
    BY <1>2, <2>1
  <2>4. Tail(old)[i] = old[i + 1]
    BY <1>9
  <2>. QED  BY <2>1, <2>2, <2>3, <2>4
<1>11. rest = Tail(old)
  BY <1>4, <1>9, <1>10, SeqEqual
<1>12. Head(old) = Link(dls[k + 1])
  BY <1>2, <1>8, <1>9
<1>. QED  BY <1>6, <1>7, <1>9, <1>11, <1>12 DEF old, rest

\* A list of one active download.
LEMMA OneRuns ==
  ASSUME NEW dl \in QueuedDownload, dl.status = "downloading"
  PROVE  /\ RunningIn(Append(<<>>, dl)) = [link |-> Link(dl), since |-> dl.started_at]
         /\ WaitingIn(Append(<<>>, dl)) = <<>> /\ Link(dl) \in Links
<1>. DEFINE new == Append(<<>>, dl)
<1>1. new \in Seq(QueuedDownload) /\ Len(new) = 1 /\ DOMAIN new = {1} /\ new[1] = dl
  OBVIOUS
<1>. HIDE DEF new
<1>2. BusyAt(new, 1)
  BY <1>1 DEF BusyAt
<1>3. WaitingIn(new) \in Seq(Links) /\ Len(WaitingIn(new)) = 0
  BY <1>1, <1>2, LineType
<1>4. WaitingIn(new) = <<>>
  BY <1>3, EmptySeq
<1>5. RunningIn(new) = [link |-> Link(new[1]), since |-> new[1].started_at] /\ Link(new[1]) \in Links
  BY <1>2, ActiveAt
<1>. QED  BY <1>1, <1>4, <1>5 DEF new

-----------------------------------------------------------------------------
(* The steps of the refinement *)

\* A step that leaves all other lists alone.
LEMMA OneChanges ==
  ASSUME NEW u \in Users, \A v \in Users : v # u => Downloads(v)' = Downloads(v)
  PROVE  /\ running' = [running EXCEPT ![u] = RunningIn(Downloads(u)')]
         /\ waiting' = [waiting EXCEPT ![u] = WaitingIn(Downloads(u)')]
BY DEF running, waiting

\* A step that changes no list, as far as the mapping sees.
LEMMA NoneChanges ==
  ASSUME \A u \in Users : /\ RunningIn(Downloads(u)') = RunningIn(Downloads(u))
                          /\ WaitingIn(Downloads(u)') = WaitingIn(Downloads(u)),
         UNCHANGED <<now, epoch>>
  PROVE  UNCHANGED Sequential!vars
<1>1. running' = running /\ waiting' = waiting
  BY DEF running, waiting
<1>. QED  BY <1>1 DEF Sequential!vars

\* What add finds: the list as it is, and then an active download that is not
\* overdue, or an empty one, in place of a list whose active download is.
LEMMA AddFinds ==
  ASSUME RefinementInv, NEW u \in Users
  PROVE  LET q == AddTarget(u)
         IN  /\ Good(q)
             /\ \/ q.downloads = Downloads(u) /\ ~Sequential!Overdue(u)
                \/ q.downloads = <<>> /\ ~q.is_processing /\ Sequential!Overdue(u)
<1>. DEFINE g == GetQueue(u)
            dls == Downloads(u)
<1>1. Good(g) /\ Good(AddTarget(u)) /\ AddTarget(u) = ResetIfStale(g)
  BY GetQueueGood, AddTargetGood DEF RefinementInv, AddTarget
<1>2. g.downloads = dls
  <2>1. CASE u \in DOMAIN queues
    <3>1. queues[u] \in UserQueue
      BY <2>1 DEF RefinementInv, QueueInv, Good
    <3>. QED  BY <2>1, <3>1 DEF GetQueue, Downloads, UserQueue
  <2>2. CASE u \notin DOMAIN queues
    BY <2>2 DEF GetQueue, NewQueue, Downloads
  <2>. QED  BY <2>1, <2>2
<1>3. running[u] = RunningIn(dls)
  BY DEF running
<1>. HIDE DEF g, dls
<1>4. CASE ~g.is_processing
  <2>1. dls = <<>>
    BY <1>1, <1>2, <1>4, Listed
  <2>2. ~Sequential!Overdue(u)
    BY <1>3, <2>1, NothingIn DEF Sequential!Overdue
  <2>3. AddTarget(u) = g
    BY <1>1, <1>4 DEF ResetIfStale, IsStale
  <2>. QED  BY <1>1, <1>2, <2>2, <2>3 DEF dls
<1>5. CASE g.is_processing
  <2>1. PICK k : BusyAt(dls, k)
    BY <1>1, <1>2, <1>5, Listed
  <2>2. /\ With(dls, "downloading") = {k} /\ First(dls, "downloading") = k
        /\ running[u] = [link |-> Link(dls[k]), since |-> dls[k].started_at]
        /\ running[u] # Nobody
    BY <1>3, <2>1, ActiveAt
  <2>3. dls[k].started_at # NotStarted
    <3>1. running[u].since # NotStarted
      BY <2>2 DEF RefinementInv, StartedInv
    <3>. QED  BY <2>2, <3>1
  <2>4. IsStale(g) <=> Sequential!Overdue(u)
    <3>1. IsStale(g) <=> now - dls[k].started_at > StaleTimeout
      BY <1>2, <1>5, <2>2, <2>3 DEF IsStale
    <3>2. Sequential!Overdue(u) <=> now - running[u].since > StaleTimeout
      BY <2>2 DEF Sequential!Overdue
    <3>. QED  BY <2>2, <3>1, <3>2
  <2>5. CASE IsStale(g)
    <3>1. g \in UserQueue
      BY <1>1 DEF Good
    <3>2. LET r == [g EXCEPT !.downloads = <<>>, !.is_processing = FALSE]
          IN  r.downloads = <<>> /\ ~r.is_processing
      BY <3>1 DEF UserQueue
    <3>. QED  BY <1>1, <2>4, <2>5, <3>2 DEF ResetIfStale
  <2>6. CASE ~IsStale(g)
    BY <1>1, <1>2, <2>4, <2>6 DEF ResetIfStale, dls
  <2>. QED  BY <2>5, <2>6
<1>. QED  BY <1>4, <1>5

LEMMA AddRefines ==
  ASSUME RefinementInv, QueueInv', NEW u \in Users,
         NEW b \in Bots, NEW m \in Messages, NEW url \in Urls,
         AddStarted(u, b, m, url) \/ AddQueued(u, b, m, url) \/ AddQueuedWithProgress(u, b, m, url),
         UNCHANGED <<now, epoch>>
  PROVE  [Sequential!Next]_(Sequential!vars)
<1>. DEFINE q == AddTarget(u)
            dls == Downloads(u)
            dl == NewDownload(b, m, url)
            started == [dl EXCEPT !.status = "downloading", !.started_at = now]
<1>1. /\ Good(q) /\ q \in UserQueue
      /\ \/ q.downloads = dls /\ ~Sequential!Overdue(u)
         \/ q.downloads = <<>> /\ ~q.is_processing /\ Sequential!Overdue(u)
  BY AddFinds DEF Good
<1>2. /\ dl \in QueuedDownload /\ dl.status = "queued"
      /\ started \in QueuedDownload /\ started.status = "downloading" /\ started.started_at = now
  BY DEF NewDownload, QueuedDownload, Status, NotStarted, RefinementInv, QueueInv
<1>3. QueueInv /\ QueueInv' /\ QueueAssumption
  BY QueueAssumption DEF RefinementInv
<1>4. running[u] = RunningIn(dls) /\ waiting[u] = WaitingIn(dls)
  BY DEF running, waiting
<1>5. ~AddIsRefused(u) => Len(q.downloads) < MaxQueueSize
  BY <1>1, <1>3 DEF AddIsRefused, UserQueue
<1>. HIDE DEF q, dls, dl, started
<1>7. CASE AddStarted(u, b, m, url)
  <2>. DEFINE r == [q EXCEPT !.is_processing = TRUE, !.downloads = Append(@, started)]
  <2>1. ~q.is_processing /\ queues' = Put(u, r)
    BY <1>7 DEF AddStarted, q, started, dl
  <2>2. q.downloads = <<>>
    BY <1>1, <2>1, Listed
  <2>3. r.downloads = Append(<<>>, started)
    BY <1>1, <2>2 DEF UserQueue
  <2>. HIDE DEF r
  <2>4. Downloads(u)' = Append(<<>>, started) /\ \A v \in Users : v # u => Downloads(v)' = Downloads(v)
    BY <2>1, <2>3, PutLists DEF OnlyList
  <2>5. /\ RunningIn(Downloads(u)') = [link |-> Link(started), since |-> now]
        /\ WaitingIn(Downloads(u)') = <<>> /\ Link(started) \in Links
    BY <1>2, <2>4, OneRuns
  <2>6. /\ running' = [running EXCEPT ![u] = [link |-> Link(started), since |-> now]]
        /\ waiting' = [waiting EXCEPT ![u] = <<>>]
    BY <2>4, <2>5, OneChanges
  <2>7. CASE Sequential!Overdue(u)
    <3>1. Sequential!Replace(u, Link(started))
      BY <2>6, <2>7 DEF Sequential!Replace, Sequential!Run
    <3>. QED  BY <2>5, <3>1 DEF Sequential!Next
  <2>8. CASE ~Sequential!Overdue(u)
    <3>1. dls = <<>>
      BY <1>1, <2>2, <2>8
    <3>2. running[u] = Nobody /\ waiting[u] = <<>>
      BY <1>4, <3>1, NothingIn
    <3>3. waiting' = waiting
      BY <2>6, <3>2 DEF waiting
    <3>4. Sequential!Start(u, Link(started))
      BY <2>6, <3>2, <3>3 DEF Sequential!Start, Sequential!Run
    <3>. QED  BY <2>5, <3>4 DEF Sequential!Next
  <2>. QED  BY <2>7, <2>8
<1>8. CASE AddQueued(u, b, m, url) \/ AddQueuedWithProgress(u, b, m, url)
  <2>1. q.is_processing /\ Len(q.downloads) < MaxQueueSize
    BY <1>5, <1>8 DEF AddQueued, AddQueuedWithProgress, q
  <2>2. q.downloads = dls /\ ~Sequential!Overdue(u)
    BY <1>1, <2>1
  <2>3. PICK k : BusyAt(dls, k)
    BY <1>1, <2>1, <2>2, Listed
  <2>4. /\ BusyAt(Append(dls, dl), k)
        /\ RunningIn(Append(dls, dl)) = RunningIn(dls)
        /\ WaitingIn(Append(dls, dl)) = Append(WaitingIn(dls), Link(dl))
    BY <1>2, <2>3, LineGrows
  <2>5. /\ RunningIn(Downloads(u)') = RunningIn(dls)
        /\ WaitingIn(Downloads(u)') = Append(WaitingIn(dls), Link(dl))
        /\ \A v \in Users : v # u => Downloads(v)' = Downloads(v)
    <3>1. CASE AddQueued(u, b, m, url)
      <4>. DEFINE r == [q EXCEPT !.downloads = Append(@, dl)]
      <4>1. queues' = Put(u, r)
        BY <3>1 DEF AddQueued, q, dl
      <4>2. r.downloads = Append(dls, dl)
        BY <1>1, <2>2 DEF UserQueue
      <4>. HIDE DEF r
      <4>3. Downloads(u)' = Append(dls, dl) /\ \A v \in Users : v # u => Downloads(v)' = Downloads(v)
        BY <4>1, <4>2, PutLists DEF OnlyList
      <4>. QED  BY <2>4, <4>3
    <3>2. CASE AddQueuedWithProgress(u, b, m, url)
      <4>. DEFINE new == WithProgress(Append(dls, dl), b, url, m)
                  r == [q EXCEPT !.downloads = WithProgress(Append(@, dl), b, url, m)]
      <4>1. queues' = Put(u, r)
        BY <3>2 DEF AddQueuedWithProgress, q, dl
      <4>2. r.downloads = new
        BY <1>1, <2>2 DEF UserQueue
      <4>. HIDE DEF r
      <4>3. Downloads(u)' = new /\ \A v \in Users : v # u => Downloads(v)' = Downloads(v)
        BY <4>1, <4>2, PutLists DEF OnlyList
      <4>4. u \in DOMAIN queues' /\ queues'[u] = r
        BY <4>1 DEF Put
      <4>5. Good(r)
        BY <1>3, <4>4 DEF QueueInv
      <4>6. r.is_processing
        BY <1>1, <2>1 DEF UserQueue, r
      <4>7. PICK j : BusyAt(new, j)
        BY <4>2, <4>5, <4>6, Listed
      <4>8. RunningIn(new) = RunningIn(Append(dls, dl)) /\ WaitingIn(new) = WaitingIn(Append(dls, dl))
        BY <2>4, <4>7, ProgressSame
      <4>. QED  BY <2>4, <4>3, <4>8
    <3>. QED  BY <1>8, <3>1, <3>2
  <2>6. /\ running' = [running EXCEPT ![u] = RunningIn(dls)]
        /\ waiting' = [waiting EXCEPT ![u] = Append(WaitingIn(dls), Link(dl))]
    BY <2>5, OneChanges
  <2>7. running' = running /\ waiting' = [waiting EXCEPT ![u] = Append(@, Link(dl))]
    BY <1>4, <2>6 DEF running
  <2>8. Len(waiting[u]) < MaxQueueSize - 1
    <3>1. Len(waiting[u]) = Len(dls) - k /\ k \in 1..Len(dls) /\ Len(dls) \in Nat
      BY <1>4, <2>3, LineType, ActiveAt
    <3>. QED  BY <1>3, <2>1, <2>2, <3>1
  <2>9. running[u] # Nobody /\ Link(dl) \in Links
    BY <1>2, <1>4, <2>3, ActiveAt DEF Link, Links, QueuedDownload
  <2>10. Sequential!Join(u, Link(dl))
    BY <2>2, <2>7, <2>8, <2>9 DEF Sequential!Join
  <2>. QED  BY <2>9, <2>10 DEF Sequential!Next
<1>. QED  BY <1>7, <1>8

LEMMA ProgressStep ==
  ASSUME RefinementInv, QueueInv', NEW u \in Users, NEW b \in Bots, NEW m \in Messages,
         NEW url \in Urls, SetProgressMessage(u, b, url, m), UNCHANGED <<now, epoch>>
  PROVE  [Sequential!Next]_(Sequential!vars)
<1>. DEFINE dls == Downloads(u)
            new == WithProgress(dls, b, url, m)
<1>1. CASE u \notin DOMAIN queues
  <2>1. \A v \in Users : Downloads(v)' = Downloads(v)
    BY <1>1 DEF SetProgressMessage, Downloads
  <2>. QED  BY <2>1, NoneChanges
<1>2. CASE u \in DOMAIN queues
  <2>1. queues[u] \in UserQueue /\ dls = queues[u].downloads
    BY <1>2 DEF RefinementInv, QueueInv, Good, Downloads
  <2>2. Downloads(u)' = new /\ \A v \in Users : v # u => Downloads(v)' = Downloads(v)
    BY <1>2, <2>1 DEF SetProgressMessage, Downloads, UserQueue
  <2>3. CASE dls = <<>>
    <3>1. new = <<>>
      BY <2>3 DEF WithProgress, ProgressSlots
    <3>2. \A v \in Users : Downloads(v)' = Downloads(v)
      BY <2>2, <2>3, <3>1
    <3>. QED  BY <3>2, NoneChanges
  <2>4. CASE dls # <<>>
    <3>1. PICK k : BusyAt(dls, k)
      BY <2>4, ListOf DEF RefinementInv
    <3>2. new # <<>>
      <4>1. DOMAIN new = DOMAIN dls
        BY DEF WithProgress
      <4>2. k \in DOMAIN dls
        BY <3>1 DEF BusyAt
      <4>. QED  BY <4>1, <4>2
    <3>3. PICK j : BusyAt(new, j)
      BY <2>2, <3>2, ListOfPrime
    <3>4. RunningIn(new) = RunningIn(dls) /\ WaitingIn(new) = WaitingIn(dls)
      BY <3>1, <3>3, ProgressSame
    <3>5. \A v \in Users : /\ RunningIn(Downloads(v)') = RunningIn(Downloads(v))
                           /\ WaitingIn(Downloads(v)') = WaitingIn(Downloads(v))
      BY <2>2, <3>4
    <3>. QED  BY <3>5, NoneChanges
  <2>. QED  BY <2>3, <2>4
<1>. QED  BY <1>1, <1>2

LEMMA StartNextStep ==
  ASSUME RefinementInv, QueueInv', NEW u \in Users, StartNext(u), UNCHANGED <<now, epoch>>
  PROVE  [Sequential!Next]_(Sequential!vars)
<1>. DEFINE dls == Downloads(u)
            fin == FinishActive(dls)
            new == [fin EXCEPT ![NextIndex(u)].status = "downloading",
                               ![NextIndex(u)].started_at = now]
<1>1. dls # <<>>
  <2>1. ASSUME dls = <<>> PROVE FALSE
    <3>1. FinishActive(<<>>) = <<>>
      BY DEF FinishActive, With
    <3>2. With(<<>>, "queued") = {}
      BY DEF With
    <3>. QED  BY <2>1, <3>1, <3>2 DEF StartNext, HasNext
  <2>. QED  BY <2>1
<1>2. u \in DOMAIN queues /\ Good(queues[u]) /\ dls = queues[u].downloads
  BY <1>1, NonEmptyBusy DEF RefinementInv
<1>3. PICK k : BusyAt(dls, k)
  BY <1>1, ListOf DEF RefinementInv
<1>4. /\ fin \in Seq(QueuedDownload) /\ DOMAIN fin = DOMAIN dls /\ Len(fin) = Len(dls)
      /\ With(fin, "queued") = (k+1)..Len(dls)
      /\ With(fin, "queued") # {} => First(fin, "queued") = k + 1
  BY <1>3, ActiveAndNext DEF BusyAt
<1>5. NextIndex(u) = k + 1 /\ k + 1 \in 1..Len(dls) /\ DOMAIN dls = 1..Len(dls)
      /\ k \in Nat /\ Len(dls) \in Nat
  BY <1>3, <1>4, ActiveAt DEF StartNext, HasNext, NextIndex
<1>6. fin = [dls EXCEPT ![k].status = "done"]
  BY <1>3, ActiveAt DEF FinishActive
<1>7. Downloads(u)' = new /\ \A v \in Users : v # u => Downloads(v)' = Downloads(v)
  <2>. DEFINE touched == [queues[u] EXCEPT !.downloads = new, !.last_activity = now]
  <2>1. queues' = [queues EXCEPT ![u].downloads = new, ![u].last_activity = now]
    BY <1>2 DEF StartNext
  <2>2. queues' = [queues EXCEPT ![u] = touched]
    BY <2>1
  <2>. HIDE DEF new
  <2>3. touched.downloads = new
    BY <1>2 DEF Good, UserQueue
  <2>. HIDE DEF touched
  <2>4. queues'[u] = touched /\ DOMAIN queues' = DOMAIN queues
        /\ \A v \in DOMAIN queues : v # u => queues'[v] = queues[v]
    BY <1>2, <2>2
  <2>. QED  BY <1>2, <2>3, <2>4 DEF Downloads
<1>8. /\ DOMAIN new = 1..Len(dls)
      /\ \A i \in 1..Len(dls) :
           new[i] = IF i = k + 1 THEN [fin[i] EXCEPT !.status = "downloading", !.started_at = now]
                    ELSE fin[i]
  BY <1>4, <1>5
<1>9. ASSUME NEW i \in 1..Len(dls)
      PROVE  /\ Link(new[i]) = Link(dls[i])
             /\ i = k + 1 => new[i].status = "downloading" /\ new[i].started_at = now
  <2>1. dls[i] \in QueuedDownload /\ fin[i] \in QueuedDownload
    BY <1>3, <1>4, <1>5 DEF BusyAt
  <2>2. Link(fin[i]) = Link(dls[i])
    <3>1. fin[i] = IF i = k THEN [dls[i] EXCEPT !.status = "done"] ELSE dls[i]
      BY <1>5, <1>6
    <3>2. Link([dls[i] EXCEPT !.status = "done"]) = Link(dls[i])
      BY <2>1 DEF Link, QueuedDownload
    <3>. QED  BY <3>1, <3>2
  <2>3. LET d == [fin[i] EXCEPT !.status = "downloading", !.started_at = now]
        IN  Link(d) = Link(fin[i]) /\ d.status = "downloading" /\ d.started_at = now
    BY <2>1 DEF Link, QueuedDownload
  <2>. HIDE DEF new, fin
  <2>. QED  BY <1>8, <2>2, <2>3
<1>. HIDE DEF new, fin
<1>10. /\ BusyAt(new, k + 1) /\ Len(new) = Len(dls)
       /\ new[k + 1].started_at = now /\ \A i \in DOMAIN dls : Link(new[i]) = Link(dls[i])
  <2>1. new # <<>>
    <3>1. ASSUME new = <<>> PROVE FALSE
      <4>1. DOMAIN <<>> = {}
        OBVIOUS
      <4>. QED  BY <1>5, <1>8, <3>1, <4>1
    <3>. QED  BY <3>1
  <2>2. PICK j : BusyAt(new, j)
    BY <1>7, <2>1, ListOfPrime
  <2>3. k + 1 = j
    BY <1>5, <1>8, <1>9, <2>2, ActiveIsUnique
  <2>4. Len(new) = Len(dls)
    <3>1. new \in Seq(QueuedDownload)
      BY <2>2 DEF BusyAt
    <3>2. DOMAIN new = 1..Len(new) /\ Len(new) \in Nat
      BY <3>1
    <3>3. 1..Len(new) = 1..Len(dls)
      BY <1>8, <3>2
    <3>. QED  BY <1>5, <3>2, <3>3, SameLength
  <2>. QED  BY <1>5, <1>9, <2>2, <2>3, <2>4
<1>11. /\ WaitingIn(dls) # <<>>
       /\ RunningIn(new) = [link |-> Head(WaitingIn(dls)), since |-> new[k + 1].started_at]
       /\ WaitingIn(new) = Tail(WaitingIn(dls))
  BY <1>3, <1>5, <1>10, LineMoves
<1>12. running[u] = RunningIn(dls) /\ waiting[u] = WaitingIn(dls) /\ RunningIn(dls) # Nobody
  BY <1>3, ActiveAt DEF running, waiting
<1>13. /\ running' = [running EXCEPT ![u] = [link |-> Head(waiting[u]), since |-> now]]
       /\ waiting' = [waiting EXCEPT ![u] = Tail(waiting[u])]
  BY <1>7, <1>10, <1>11, <1>12, OneChanges
<1>14. Sequential!Finish(u)
  BY <1>11, <1>12, <1>13 DEF Sequential!Finish, Sequential!Run
<1>. QED  BY <1>14 DEF Sequential!Next

LEMMA DrainStep ==
  ASSUME RefinementInv, NEW u \in Users, DrainQueue(u), UNCHANGED <<now, epoch>>
  PROVE  [Sequential!Next]_(Sequential!vars)
<1>. DEFINE dls == Downloads(u)
<1>1. CASE dls = <<>>
  <2>1. \A v \in Users : Downloads(v)' = Downloads(v)
    BY <1>1 DEF DrainQueue, Downloads
  <2>. QED  BY <2>1, NoneChanges
<1>2. CASE dls # <<>>
  <2>1. PICK k : BusyAt(dls, k)
    BY <1>2, ListOf DEF RefinementInv
  <2>2. u \in DOMAIN queues /\ queues[u] \in UserQueue
    BY <1>2, NonEmptyBusy DEF RefinementInv, Good
  <2>3. WaitingIn(dls) = <<>>
    <3>1. With(FinishActive(dls), "queued") = (k+1)..Len(dls)
      BY <2>1, ActiveAndNext DEF BusyAt
    <3>2. (k+1)..Len(dls) = {} /\ k \in 1..Len(dls) /\ Len(dls) \in Nat
      BY <2>1, <3>1, ActiveAt DEF DrainQueue, HasNext
    <3>3. Len(dls) - k = 0
      <4>1. ~(k + 1 <= Len(dls))
        BY <3>2
      <4>. QED  BY <3>2, <4>1
    <3>. QED  BY <2>1, <3>3, LineType, EmptySeq
  <2>4. Downloads(u)' = <<>> /\ \A v \in Users : v # u => Downloads(v)' = Downloads(v)
    <3>. DEFINE r == [queues[u] EXCEPT !.downloads = <<>>, !.is_processing = FALSE]
    <3>1. queues' = [queues EXCEPT ![u] = r]
      BY <1>2 DEF DrainQueue
    <3>2. r.downloads = <<>>
      BY <2>2 DEF UserQueue
    <3>. HIDE DEF r
    <3>3. queues'[u] = r /\ DOMAIN queues' = DOMAIN queues
          /\ \A v \in DOMAIN queues : v # u => queues'[v] = queues[v]
      BY <2>2, <3>1
    <3>. QED  BY <2>2, <3>2, <3>3 DEF Downloads
  <2>5. running[u] # Nobody /\ waiting[u] = <<>>
    BY <2>1, <2>3, ActiveAt DEF running, waiting
  <2>6. running' = [running EXCEPT ![u] = Nobody] /\ waiting' = [waiting EXCEPT ![u] = <<>>]
    BY <2>4, NothingIn, OneChanges
  <2>7. waiting' = waiting
    BY <2>5, <2>6 DEF waiting
  <2>8. Sequential!Finish(u)
    BY <2>5, <2>6, <2>7 DEF Sequential!Finish
  <2>. QED  BY <2>8 DEF Sequential!Next
<1>. QED  BY <1>1, <1>2

\* The clean-up only forgets empty queues.
LEMMA CleanupStep ==
  ASSUME CleanupPass, UNCHANGED <<now, epoch>>
  PROVE  [Sequential!Next]_(Sequential!vars)
BY CleanupLists, NoneChanges

LEMMA RestartStep ==
  ASSUME LoseMemory, UNCHANGED now
  PROVE  [Sequential!Next]_(Sequential!vars)
<1>1. \A u \in Users : Downloads(u)' = <<>>
  BY DEF LoseMemory, Downloads
<1>2. running' = [u \in Users |-> Nobody] /\ waiting' = [u \in Users |-> <<>>]
  BY <1>1, NothingIn DEF running, waiting
<1>3. Sequential!Restart
  BY <1>2 DEF Sequential!Restart, LoseMemory
<1>. QED  BY <1>3 DEF Sequential!Next

LEMMA TickStep ==
  ASSUME ClockTick, UNCHANGED <<queues, epoch>>
  PROVE  [Sequential!Next]_(Sequential!vars)
<1>1. running' = running /\ waiting' = waiting
  BY DEF running, waiting, Downloads
<1>2. Sequential!Tick
  BY <1>1 DEF Sequential!Tick, ClockTick
<1>. QED  BY <1>2 DEF Sequential!Next

LEMMA StepRefines ==
  ASSUME RefinementInv, [QueueNext]_queueVars
  PROVE  QueueInv' /\ [Sequential!Next]_(Sequential!vars)
<1>1. QueueInv'
  BY QueueInvStep DEF RefinementInv
<1>2. ASSUME NEW u \in Users, QueueCall(u), UNCHANGED <<now, epoch>>
      PROVE  [Sequential!Next]_(Sequential!vars)
  <2>1. CASE AddRefused(u)
    <3>1. \A v \in Users : Downloads(v)' = Downloads(v)
      BY <1>2, <2>1, RefusedLists DEF RefinementInv
    <3>. QED  BY <1>2, <3>1, NoneChanges
  <2>2. CASE \E b \in Bots, m \in Messages, url \in Urls :
               \/ AddStarted(u, b, m, url) \/ AddQueued(u, b, m, url)
               \/ SetProgressMessage(u, b, url, m) \/ AddQueuedWithProgress(u, b, m, url)
    BY <1>1, <1>2, <2>2, AddRefines, ProgressStep
  <2>3. CASE GetNext(u)
    BY <1>1, <1>2, <2>3, StartNextStep, DrainStep DEF GetNext
  <2>. QED  BY <1>2, <2>1, <2>2, <2>3 DEF QueueCall
<1>3. CASE CleanupPass /\ UNCHANGED <<now, epoch>>
  BY <1>1, <1>3, CleanupStep
<1>4. CASE ClockTick /\ UNCHANGED <<queues, epoch>>
  BY <1>1, <1>4, TickStep
<1>5. CASE LoseMemory /\ UNCHANGED now
  BY <1>1, <1>5, RestartStep
<1>6. CASE UNCHANGED queueVars
  <2>1. (\A u \in Users : Downloads(u)' = Downloads(u)) /\ UNCHANGED <<now, epoch>>
    BY <1>6 DEF queueVars, Downloads
  <2>. QED  BY <1>1, <2>1, NoneChanges
<1>. QED  BY <1>1, <1>2, <1>3, <1>4, <1>5, <1>6 DEF QueueNext

\* The abstract specification only ever starts a download now, and now is not 0.
LEMMA StartedKept ==
  ASSUME RefinementInv, [Sequential!Next]_(Sequential!vars)
  PROVE  StartedInv'
<1>1. now # NotStarted
  BY DEF RefinementInv, QueueInv, NotStarted
<1>2. \A u \in Users : \/ running'[u] = running[u] \/ running'[u] = Nobody
                       \/ \E link : running'[u] = [link |-> link, since |-> now]
  <2>1. DOMAIN running = Users
    BY DEF running
  <2>2. ASSUME NEW u \in Users, NEW link, Sequential!Run(u, link)
        PROVE  \A v \in Users : running'[v] = IF v = u THEN [link |-> link, since |-> now]
                                              ELSE running[v]
    BY <2>1, <2>2 DEF Sequential!Run
  <2>3. \/ running' = running \/ running' = [u \in Users |-> Nobody]
        \/ \E u \in Users : \/ running' = [running EXCEPT ![u] = Nobody]
                            \/ \E link : Sequential!Run(u, link)
    BY DEF Sequential!Next, Sequential!vars, Sequential!Start, Sequential!Join,
           Sequential!Replace, Sequential!Finish, Sequential!Tick, Sequential!Restart
  <2>. QED  BY <2>1, <2>2, <2>3
<1>3. ASSUME NEW u \in Users PROVE running'[u] = Nobody \/ running'[u].since # NotStarted
  <2>1. \A link : [link |-> link, since |-> now].since = now
    OBVIOUS
  <2>. QED  BY <1>1, <1>2, <2>1 DEF RefinementInv, StartedInv
<1>. QED  BY <1>3 DEF StartedInv

-----------------------------------------------------------------------------
(* The refinement *)

\* At first nothing runs and nobody waits.
LEMMA RefinementInit == QueueInit => RefinementInv /\ Sequential!Init
<1>. SUFFICES ASSUME QueueInit PROVE RefinementInv /\ Sequential!Init
  OBVIOUS
<1>1. \A u \in Users : Downloads(u) = <<>>
  BY DEF QueueInit, Downloads
<1>2. running = [u \in Users |-> Nobody] /\ waiting = [u \in Users |-> <<>>]
  BY <1>1, NothingIn DEF running, waiting
<1>. QED  BY <1>2, QueueInvInit DEF QueueInit, RefinementInv, StartedInv, Sequential!Init

\* A step of the queue is a step of the abstract specification, or a stutter.
LEMMA RefinementStep ==
  ASSUME RefinementInv, [QueueNext]_queueVars
  PROVE  RefinementInv' /\ [Sequential!Next]_(Sequential!vars)
<1>1. QueueInv' /\ [Sequential!Next]_(Sequential!vars)
  BY StepRefines
<1>2. StartedInv'
  BY <1>1, StartedKept
<1>. QED  BY <1>1, <1>2 DEF RefinementInv

\* The queue of user_download_queue.py is, per user, one running download and a line
\* behind it, first in first out, for any calls of add, set_progress_message and
\* get_next in any order, with the clean-up task and restarts in between.
THEOREM QueueImplementsSequential == QueueSpec => ImplementsSequential
BY RefinementInit, RefinementStep, PTL DEF QueueSpec, ImplementsSequential, Sequential!Spec

-----------------------------------------------------------------------------
(* The processor around the queue *)

\* The points at which a handler has not finished with the message of a user.
LinkPoints == {"checks", "prompt", "reply_first", "reply_queued", "resume"}

TasksOK ==
  /\ task \in [Tasks -> Handler \cup {Idle}]
  /\ \A t \in Tasks : task[t].pc \in LinkPoints => task[t].msg \in Messages
  /\ \A t \in Tasks : task[t].pc = "chain" => task[t].from \in Frames \ {"none"}
  /\ \A t \in Tasks : task[t].pc = "clicked" => task[t].msg = NoMessage

ChatsOK ==
  /\ sent \in Messages \cup {0}
  /\ buttons \subseteq [user : Users, bot : Bots, url : Urls]
  /\ gates \subseteq Users \X Bots
  /\ pending \in [Users \X Bots -> [url : Urls, message_id : Messages] \cup {NoPending}]

ProcInv == QueueInv /\ TasksOK /\ ChatsOK

-----------------------------------------------------------------------------
(* What a handler does to itself *)

\* A handler that awaits something is not idle.
LEMMA AtHandler ==
  ASSUME TasksOK, NEW t \in Tasks, task[t].pc # "idle"
  PROVE  task[t] \in Handler
BY DEF TasksOK, Idle

\* Going on to another call keeps the handlers typed.
LEMMA GotoTyped ==
  ASSUME TasksOK, QueueInv, NEW t \in Tasks, NEW pc \in Points \ {"chain", "clicked"},
         task[t].pc # "idle", pc \in LinkPoints => task[t].msg \in Messages,
         Goto(t, pc)
  PROVE  TasksOK'
<1>. DEFINE h == [task[t] EXCEPT !.pc = pc, !.since = IF pc = "download" THEN now ELSE 0]
<1>1. task[t] \in Handler
  BY AtHandler
<1>2. now \in Nat
  BY DEF QueueInv
<1>3. h \in Handler /\ h.pc = pc /\ h.msg = task[t].msg
  BY <1>1, <1>2 DEF Handler
<1>4. task' = [task EXCEPT ![t] = h]
  BY DEF Goto
<1>. QED  BY <1>3, <1>4 DEF TasksOK

\* A handler that ends leaves the others as they were.
LEMMA ReturnTyped ==
  ASSUME TasksOK, NEW t \in Tasks, Return(t)
  PROVE  TasksOK'
BY DEF TasksOK, Return, Idle, LinkPoints

\* A handler begins typed.
LEMMA BeginTyped ==
  ASSUME TasksOK, NEW t \in Tasks, NEW pc \in Points \ {"chain"}, NEW u \in Users, NEW b \in Bots,
         NEW url \in Urls, NEW m \in Messages \cup {NoMessage},
         pc \in LinkPoints => m \in Messages, pc = "clicked" => m = NoMessage,
         Begin(t, pc, u, b, url, m)
  PROVE  TasksOK'
<1>. DEFINE h == [pc |-> pc, user |-> u, bot |-> b, url |-> url, msg |-> m,
                  from |-> "none", since |-> 0]
<1>1. h \in Handler /\ h.pc = pc /\ h.msg = m
  BY DEF Handler, Frames
<1>2. task' = [task EXCEPT ![t] = h]
  BY DEF Begin
<1>. QED  BY <1>1, <1>2 DEF TasksOK

\* The download that get_next starts has a link and a message of a user.
LEMMA NextTyped ==
  ASSUME QueueInv, NEW u \in Users, StartNext(u)
  PROVE  /\ Downloads(u)[NextIndex(u)].message_id \in Messages
         /\ Downloads(u)[NextIndex(u)].url \in Urls
<1>. DEFINE dls == Downloads(u)
            line == With(FinishActive(dls), "queued")
<1>1. dls \in Seq(QueuedDownload)
  BY DEF QueueInv, Good, UserQueue, Downloads
<1>2. DOMAIN FinishActive(dls) = DOMAIN dls
  BY <1>1 DEF FinishActive
<1>3. line \subseteq DOMAIN dls /\ DOMAIN dls \subseteq Nat /\ line # {}
  BY <1>1, <1>2 DEF With, StartNext, HasNext
<1>4. Good(queues[u]) /\ queues[u].is_processing /\ dls = queues[u].downloads
  BY <1>3, NonEmptyBusy
<1>5. PICK k \in DOMAIN dls :
        \A i \in DOMAIN dls :
          dls[i].status = IF i < k THEN "done"
                          ELSE IF i = k THEN "downloading" ELSE "queued"
  BY <1>4 DEF Good, Shape
<1>6. line = (k+1)..Len(dls) /\ (line # {} => First(FinishActive(dls), "queued") = k + 1)
  BY <1>1, <1>5, ActiveAndNext
<1>7. NextIndex(u) = k + 1 /\ line = (k+1)..Len(dls) /\ line # {}
  BY <1>3, <1>6 DEF NextIndex
<1>8. NextIndex(u) \in 1..Len(dls)
  <2>1. k \in Nat /\ Len(dls) \in Nat /\ k + 1 <= Len(dls)
    BY <1>1, <1>7
  <2>. QED  BY <1>7, <2>1
<1>9. dls[NextIndex(u)] \in QueuedDownload
  BY <1>1, <1>8
<1>. QED  BY <1>9 DEF QueuedDownload

\* Advancing the queue keeps the handlers typed.
LEMMA ProcessNextTyped ==
  ASSUME TasksOK, QueueInv, NEW t \in Tasks, NEW frame \in Frames \ {"none"},
         task[t].pc # "idle", ProcessNext(t, frame)
  PROVE  TasksOK' /\ GetNext(task[t].user) /\ task[t].user \in Users
<1>. DEFINE u == task[t].user
<1>1. task[t] \in Handler /\ u \in Users
  BY AtHandler DEF Handler
<1>2. CASE DrainQueue(u) /\ Return(t)
  BY <1>1, <1>2, ReturnTyped DEF GetNext
<1>3. CASE StartNext(u) /\ ~(DrainQueue(u) /\ Return(t))
  <2>. DEFINE dl == Downloads(u)[NextIndex(u)]
              h == [task[t] EXCEPT !.pc = "chain", !.from = frame, !.since = 0,
                                   !.msg = dl.message_id, !.url = dl.url]
  <2>1. dl.message_id \in Messages /\ dl.url \in Urls
    BY <1>1, <1>3, NextTyped
  <2>2. h \in Handler /\ h.pc = "chain" /\ h.from = frame
    BY <1>1, <2>1 DEF Handler, Points
  <2>3. task' = [task EXCEPT ![t] = h]
    BY <1>3 DEF ProcessNext
  <2>4. TasksOK'
    BY <2>2, <2>3 DEF TasksOK, LinkPoints
  <2>. QED  BY <1>1, <1>3, <2>4 DEF GetNext
<1>. QED  BY <1>2, <1>3 DEF ProcessNext

-----------------------------------------------------------------------------
(* What each step of a handler does to the handlers, the chats and the queues *)

QueueStep == UNCHANGED queues \/ \E u \in Users : QueueCall(u)

StepOK == TasksOK' /\ ChatsOK' /\ QueueStep

\* Advancing the queue, in a step that leaves the chats alone.
LEMMA ProcessNextStep ==
  ASSUME ProcInv, NEW t \in Tasks, NEW frame \in Frames \ {"none"},
         task[t].pc # "idle", ProcessNext(t, frame), ChatsSame
  PROVE  StepOK
<1>1. TasksOK' /\ GetNext(task[t].user) /\ task[t].user \in Users
  BY ProcessNextTyped DEF ProcInv
<1>. QED  BY <1>1 DEF StepOK, QueueStep, QueueCall, ChatsSame, ProcInv, ChatsOK

\* Going on or ending, in a step that leaves the chats and the queues alone.
LEMMA QuietStep ==
  ASSUME ProcInv, TasksOK', ChatsSame, UNCHANGED queues
  PROVE  StepOK
BY DEF StepOK, QueueStep, ChatsSame, ProcInv, ChatsOK

\* What the users begin.
LEMMA ArrivalStep ==
  ASSUME ProcInv, NEW t \in Tasks, Arrival(t)
  PROVE  StepOK
<1>. USE DEF ProcInv
<1>1. ASSUME NEW u \in Users, NEW b \in Bots, NEW url \in Urls, LinkArrives(t, u, b, url)
      PROVE  StepOK
  <2>1. sent + 1 \in Messages /\ Begin(t, "checks", u, b, url, sent + 1)
    BY <1>1 DEF LinkArrives
  <2>2. TasksOK'
    BY <2>1, BeginTyped DEF Points
  <2>. QED  BY <1>1, <2>1, <2>2 DEF LinkArrives, StepOK, QueueStep, ChatsOK
<1>2. ASSUME NEW u \in Users, NEW b \in Bots, OtherUpdate(t, u, b)
      PROVE  StepOK
  <2>1. AnyUrl \in Urls
    BY ProcessorAssumption DEF AnyUrl
  <2>2. Begin(t, "other", u, b, AnyUrl, NoMessage)
    BY <1>2 DEF OtherUpdate
  <2>3. TasksOK'
    BY <2>1, <2>2, BeginTyped DEF Points, LinkPoints
  <2>. QED  BY <1>2, <2>3, QuietStep DEF OtherUpdate
<1>3. CASE FormatPressed(t)
  <2>1. PICK kb \in buttons : Begin(t, "clicked", kb.user, kb.bot, kb.url, NoMessage)
    BY <1>3 DEF FormatPressed
  <2>2. kb.user \in Users /\ kb.bot \in Bots /\ kb.url \in Urls
    BY DEF ChatsOK
  <2>3. TasksOK'
    BY <2>1, <2>2, BeginTyped DEF Points, LinkPoints
  <2>. QED  BY <1>3, <2>3, QuietStep DEF FormatPressed
<1>4. CASE RetryPressed(t)
  <2>1. PICK gate \in gates : Begin(t, "retry", gate[1], gate[2], AnyUrl, NoMessage)
    BY <1>4 DEF RetryPressed
  <2>2. gate[1] \in Users /\ gate[2] \in Bots /\ AnyUrl \in Urls
    BY ProcessorAssumption DEF ChatsOK, AnyUrl
  <2>3. TasksOK'
    BY <2>1, <2>2, BeginTyped DEF Points, LinkPoints
  <2>. QED  BY <1>4, <2>3, QuietStep DEF RetryPressed
<1>. QED  BY <1>1, <1>2, <1>3, <1>4 DEF Arrival

\* The steps that call add or set_progress_message.
LEMMA AddStep ==
  ASSUME ProcInv, NEW t \in Tasks, LinkAdded(t) \/ ReplySent(t) \/ Resumed(t)
  PROVE  StepOK
<1>. DEFINE me == task[t]
<1>. USE DEF ProcInv
<1>1. task[t].pc \in LinkPoints
  BY DEF LinkAdded, ReplySent, Resumed, At, LinkPoints
<1>2. task[t].pc # "idle"
  BY <1>1 DEF LinkPoints
<1>3. me \in Handler /\ me.msg \in Messages
  BY <1>1, <1>2, AtHandler DEF TasksOK
<1>4. me.user \in Users /\ me.bot \in Bots /\ me.url \in Urls
  BY <1>3 DEF Handler
<1>5. ChatsOK'
  BY DEF LinkAdded, ReplySent, Resumed, ChatsSame, ChatsOK
<1>6. QueueStep
  <2>1. CASE LinkAdded(t)
    BY <1>3, <1>4, <2>1 DEF LinkAdded, QueueStep, QueueCall
  <2>2. CASE ReplySent(t)
    BY <1>3, <1>4, <2>2 DEF ReplySent, QueueStep, QueueCall
  <2>3. CASE Resumed(t)
    BY <1>3, <1>4, <2>3 DEF Resumed, QueueStep, QueueCall
  <2>. QED  BY <2>1, <2>2, <2>3
<1>7. Return(t) \/ \E pc \in Points \ {"chain", "clicked"} : Goto(t, pc)
  <2>1. CASE LinkAdded(t)
    BY <2>1 DEF LinkAdded, Points
  <2>2. CASE ReplySent(t)
    BY <2>2 DEF ReplySent, Points
  <2>3. CASE Resumed(t)
    BY <2>3 DEF Resumed, Points
  <2>. QED  BY <2>1, <2>2, <2>3
<1>8. TasksOK'
  BY <1>2, <1>3, <1>7, ReturnTyped, GotoTyped
<1>. QED  BY <1>5, <1>6, <1>8 DEF StepOK

\* The steps that change what is in the chats.
LEMMA ChatStep ==
  ASSUME ProcInv, NEW t \in Tasks,
         \/ LinkGated(t) \/ PromptSent(t) \/ FormatsShown(t) \/ FormatChosen(t)
         \/ RetryUngated(t) \/ RetryAccepted(t)
  PROVE  StepOK
<1>. USE DEF ProcInv
<1>1. task[t].pc # "idle"
  BY DEF LinkGated, PromptSent, FormatsShown, FormatChosen, RetryUngated, RetryAccepted,
         At, InfoPoints
<1>2. task[t] \in Handler
  BY <1>1, AtHandler
<1>3. task[t].user \in Users /\ task[t].bot \in Bots /\ task[t].url \in Urls
  BY <1>2 DEF Handler
<1>4. CASE LinkGated(t)
  <2>1. task[t].msg \in Messages
    BY <1>4 DEF LinkGated, At, TasksOK, LinkPoints
  <2>2. TasksOK'
    BY <1>1, <1>4, <2>1, GotoTyped DEF LinkGated, Points
  <2>3. ChatsOK'
    BY <1>3, <1>4, <2>1 DEF LinkGated, ChatsOK
  <2>. QED  BY <1>4, <2>2, <2>3 DEF LinkGated, StepOK, QueueStep
<1>5. CASE PromptSent(t)
  <2>1. TasksOK'
    BY <1>5, ReturnTyped DEF PromptSent
  <2>2. ChatsOK'
    BY <1>3, <1>5 DEF PromptSent, ChatsOK
  <2>. QED  BY <1>5, <2>1, <2>2 DEF PromptSent, StepOK, QueueStep
<1>6. CASE FormatsShown(t)
  <2>1. TasksOK'
    BY <1>6, ReturnTyped DEF FormatsShown
  <2>2. ChatsOK'
    BY <1>3, <1>6 DEF FormatsShown, ChatsOK
  <2>. QED  BY <1>6, <2>1, <2>2 DEF FormatsShown, StepOK, QueueStep
<1>7. CASE FormatChosen(t)
  <2>1. TasksOK'
    BY <1>1, <1>7, GotoTyped DEF FormatChosen, Points, LinkPoints
  <2>2. ChatsOK'
    BY <1>7 DEF FormatChosen, ChatsOK
  <2>. QED  BY <1>7, <2>1, <2>2 DEF FormatChosen, StepOK, QueueStep
<1>8. CASE RetryUngated(t)
  <2>1. TasksOK'
    BY <1>1, <1>8, GotoTyped DEF RetryUngated, Points, LinkPoints
  <2>2. ChatsOK'
    BY <1>8 DEF RetryUngated, PromptDeleted, ChatsOK
  <2>. QED  BY <1>8, <2>1, <2>2 DEF RetryUngated, StepOK, QueueStep
<1>9. CASE RetryAccepted(t)
  <2>. DEFINE key == <<task[t].user, task[t].bot>>
  <2>1. CASE pending[key] = NoPending
    <3>1. TasksOK'
      BY <1>1, <1>9, <2>1, GotoTyped DEF RetryAccepted, Points, LinkPoints
    <3>2. ChatsOK'
      BY <1>9, <2>1 DEF RetryAccepted, PromptDeleted, ChatsOK
    <3>. QED  BY <1>9, <3>1, <3>2 DEF RetryAccepted, StepOK, QueueStep
  <2>2. CASE pending[key] # NoPending
    <3>. DEFINE h == [task[t] EXCEPT !.pc = "resume", !.url = pending[key].url,
                                     !.msg = pending[key].message_id]
    <3>1. pending[key] \in [url : Urls, message_id : Messages]
      BY <1>3, <2>2 DEF ChatsOK
    <3>2. h \in Handler /\ h.pc = "resume" /\ h.msg \in Messages
      BY <1>2, <3>1 DEF Handler, Points
    <3>3. task' = [task EXCEPT ![t] = h]
      BY <1>9, <2>2 DEF RetryAccepted
    <3>4. TasksOK'
      BY <3>2, <3>3 DEF TasksOK
    <3>5. ChatsOK'
      BY <1>3, <1>9, <2>2 DEF RetryAccepted, PromptDeleted, ChatsOK
    <3>. QED  BY <1>9, <3>4, <3>5 DEF RetryAccepted, StepOK, QueueStep
  <2>. QED  BY <2>1, <2>2
<1>. QED  BY <1>4, <1>5, <1>6, <1>7, <1>8, <1>9

\* The steps that advance the queue.
LEMMA AdvanceStep ==
  ASSUME ProcInv, NEW t \in Tasks,
         \/ FormatsMissing(t) \/ InfoErrorSent(t) \/ DownloadFails(t) \/ Delivered(t)
         \/ RouteFails(t) \/ ChainEnds(t)
  PROVE  StepOK
<1>. USE DEF ProcInv
<1>1. task[t].pc # "idle" /\ ChatsSame
  BY DEF FormatsMissing, InfoErrorSent, DownloadFails, Delivered, RouteFails, ChainEnds,
         At, InfoPoints, RoutePoints
<1>2. \E frame \in Frames \ {"none"} : ProcessNext(t, frame)
  BY DEF FormatsMissing, InfoErrorSent, DownloadFails, Delivered, RouteFails, ChainEnds,
         At, InfoPoints, Frames, TasksOK
<1>. QED  BY <1>1, <1>2, ProcessNextStep

\* The steps that only go on or end.
LEMMA PlainStep ==
  ASSUME ProcInv, NEW t \in Tasks,
         \/ LinkFiltered(t) \/ DownloadSucceeds(t) \/ DownloadRaises(t)
         \/ RetryRefused(t) \/ OtherEnds(t)
  PROVE  StepOK
<1>. USE DEF ProcInv
<1>1. task[t].pc # "idle" /\ ChatsSame /\ UNCHANGED queues
  BY DEF LinkFiltered, DownloadSucceeds, DownloadRaises, RetryRefused, OtherEnds, At
<1>2. Return(t) \/ \E pc \in Points \ ({"chain", "clicked"} \cup LinkPoints) : Goto(t, pc)
  BY DEF LinkFiltered, DownloadSucceeds, DownloadRaises, RetryRefused, OtherEnds,
         Points, LinkPoints
<1>3. TasksOK'
  BY <1>1, <1>2, ReturnTyped, GotoTyped
<1>. QED  BY <1>1, <1>3, QuietStep

\* What a raise in the formats or in a chained download does.
LEMMA RaiseStep ==
  ASSUME ProcInv, NEW t \in Tasks, FormatsRaise(t) \/ ChainRaises(t)
  PROVE  StepOK
<1>. USE DEF ProcInv
<1>1. task[t].pc # "idle" /\ ChatsSame
  BY DEF FormatsRaise, ChainRaises, At
<1>2. \/ (Return(t) \/ Goto(t, "info_failed")) /\ UNCHANGED queues
      \/ \E frame \in Frames \ {"none"} : ProcessNext(t, frame)
  <2>1. CASE FormatsRaise(t)
    BY <2>1 DEF FormatsRaise, Frames
  <2>2. CASE ChainRaises(t)
    <3>1. task[t].from \in Frames \ {"none"}
      BY <2>2 DEF ChainRaises, At, TasksOK
    <3>. QED  BY <2>2, <3>1 DEF ChainRaises, Frames
  <2>. QED  BY <2>1, <2>2
<1>3. CASE (Return(t) \/ Goto(t, "info_failed")) /\ UNCHANGED queues
  <2>1. TasksOK'
    BY <1>1, <1>3, ReturnTyped, GotoTyped DEF Points, LinkPoints
  <2>. QED  BY <1>1, <1>3, <2>1, QuietStep
<1>. QED  BY <1>1, <1>2, <1>3, ProcessNextStep

-----------------------------------------------------------------------------
(* The invariant *)

\* Whatever a handler does, it keeps the invariant's own half, and it does to the
\* queues what a client of the queue may do.
LEMMA HandlerStep ==
  ASSUME ProcInv, NEW t \in Tasks, Arrival(t) \/ Resume(t) \/ Chained(t)
  PROVE  StepOK
BY ArrivalStep, AddStep, ChatStep, AdvanceStep, PlainStep, RaiseStep DEF Resume, Chained

\* Every step of the processor is a step of the queue, or leaves the queue alone.
LEMMA ProcessorUsesQueue ==
  ASSUME ProcInv, [Next]_vars
  PROVE  [QueueNext]_queueVars /\ TasksOK' /\ ChatsOK'
<1>1. ASSUME NEW t \in Tasks, Arrival(t) \/ Resume(t) \/ Chained(t), UNCHANGED <<now, epoch>>
      PROVE  [QueueNext]_queueVars /\ TasksOK' /\ ChatsOK'
  <2>1. StepOK
    BY <1>1, HandlerStep
  <2>. QED  BY <1>1, <2>1 DEF StepOK, QueueStep, QueueNext, queueVars
<1>2. CASE CleanupPass /\ UNCHANGED <<now, epoch>> /\ UNCHANGED procVars
  BY <1>2 DEF QueueNext, procVars, ProcInv, TasksOK, ChatsOK
<1>3. CASE TimePasses
  BY <1>3 DEF TimePasses, QueueNext, procVars, ProcInv, TasksOK, ChatsOK
<1>4. CASE Restart
  BY <1>4 DEF Restart, QueueNext, ProcInv, TasksOK, ChatsOK, Idle, LinkPoints
<1>5. CASE UNCHANGED vars
  BY <1>5 DEF vars, queueVars, ProcInv, TasksOK, ChatsOK
<1>. QED  BY <1>1, <1>2, <1>3, <1>4, <1>5 DEF Next

\* The invariant is inductive, and implies the types.
LEMMA ProcInvInit == Init => ProcInv
<1>. SUFFICES ASSUME Init PROVE ProcInv
  OBVIOUS
<1>1. QueueInv
  BY QueueInvInit DEF Init
<1>. QED  BY <1>1 DEF Init, ProcInv, TasksOK, ChatsOK, Idle, LinkPoints

LEMMA ProcInvStep == ProcInv /\ [Next]_vars => ProcInv'
<1>. SUFFICES ASSUME ProcInv, [Next]_vars PROVE ProcInv'
  OBVIOUS
<1>1. [QueueNext]_queueVars /\ TasksOK' /\ ChatsOK'
  BY ProcessorUsesQueue
<1>2. QueueInv'
  BY <1>1, QueueInvStep DEF ProcInv
<1>. QED  BY <1>1, <1>2 DEF ProcInv

LEMMA ProcInvImplies == ProcInv => TypeOK /\ QueueShape
BY QueueInvImplies DEF ProcInv, TypeOK, TasksOK, ChatsOK

\* The handlers, the keyboards, the prompts and the pending links keep their types,
\* with every fault: no handler calls add without a link and a message.
THEOREM ProcessorTypeCorrect == Spec => []TypeOK
BY ProcInvInit, ProcInvStep, ProcInvImplies, PTL DEF Spec

\* With the handlers of processor.py as its clients, whatever they raise and
\* whenever the process restarts, no queue holds two active downloads, none waits
\* where nothing is active and none overtakes another.
THEOREM ProcessorQueueShape == Spec => []QueueShape
BY ProcInvInit, ProcInvStep, ProcInvImplies, PTL DEF Spec

\* The handlers are clients of the queue and nothing else touches it: the processor
\* implements UserDownloadQueue, with every fault and every restart.
THEOREM ProcessorImplementsQueue == Spec => QueueSpec
<1>1. ProcInv /\ [Next]_vars => ProcInv' /\ [QueueNext]_queueVars
  BY ProcInvStep, ProcessorUsesQueue
<1>2. Init => ProcInv /\ QueueInit
  BY ProcInvInit DEF Init
<1>. QED  BY <1>1, <1>2, PTL DEF Spec, QueueSpec

\* So a user of the bots has one running download and a line, first in first out,
\* whatever the handlers do and raise.
THEOREM ProcessorImplementsSequential == Spec => ImplementsSequential
BY ProcessorImplementsQueue, QueueImplementsSequential, PTL

-----------------------------------------------------------------------------
(* Where the links are: with a handler, pending, or waiting in a queue.  A    *)
(* link is in one of these places at a time: that is inductive, and says more *)
(* than that no two handlers have it.                                         *)

\* The points at which a handler has the link that its msg names.
CarryPoints == {"checks", "resume"} \cup HoldingPoints

\* Each place with the message of the link that is there.
Carried ==
  {<<<<"task", t>>, task[t].msg>> :
     t \in {s \in Tasks : task[s].pc \in CarryPoints /\ task[s].msg \in Messages}}

Pended ==
  {<<<<"pending", key>>, pending[key].message_id>> :
     key \in {k \in Users \X Bots : pending[k] # NoPending}}

Lined ==
  UNION {{<<<<"line", <<u, x[1]>>>>, x[2]>> : x \in Queued(Downloads(u))} : u \in Users}

Whereabouts == Carried \cup Pended \cup Lined

LinkInv ==
  /\ \A v, w \in Whereabouts : v[2] = w[2] => v = w
  /\ \A w \in Whereabouts : w[2] <= sent

\* Places of different kinds are different.
LEMMA Kinds ==
  \A x, m : /\ <<<<"task", x>>, m>> \notin Pended \cup Lined
            /\ <<<<"pending", x>>, m>> \notin Carried \cup Lined
            /\ <<<<"line", x>>, m>> \notin Carried \cup Pended
BY DEF Carried, Pended, Lined

\* Links that stay where they are, or are forgotten.
LEMMA LinksStay ==
  ASSUME LinkInv, Whereabouts' \subseteq Whereabouts, sent' = sent
  PROVE  LinkInv'
BY DEF LinkInv

\* One link goes from one place to another.
LEMMA LinkMoves ==
  ASSUME LinkInv, sent' = sent, NEW p, NEW q, NEW m, <<p, m>> \in Whereabouts,
         Whereabouts' \subseteq (Whereabouts \ {<<p, m>>}) \cup {<<q, m>>}
  PROVE  LinkInv'
<1>1. \A w \in Whereabouts \ {<<p, m>>} : w[2] # m
  BY DEF LinkInv
<1>2. \A w \in Whereabouts' : w = <<q, m>> \/ (w \in Whereabouts /\ w[2] # m)
  BY <1>1
<1>3. m <= sent
  BY DEF LinkInv
<1>. QED  BY <1>2, <1>3 DEF LinkInv

\* A link that has just been sent is nowhere else.
LEMMA LinkComes ==
  ASSUME LinkInv, sent \in Nat, sent' = sent + 1, \A w \in Whereabouts : w[2] \in Nat,
         NEW q, Whereabouts' \subseteq Whereabouts \cup {<<q, sent + 1>>}
  PROVE  LinkInv'
<1>1. \A w \in Whereabouts : w[2] # sent + 1 /\ w[2] <= sent + 1
  BY DEF LinkInv
<1>2. \A w \in Whereabouts' : w = <<q, sent + 1>> \/ w \in Whereabouts
  OBVIOUS
<1>3. sent + 1 <= sent + 1
  OBVIOUS
<1>. QED  BY <1>1, <1>2, <1>3 DEF LinkInv

\* Messages are numbers.
LEMMA NumberedLinks ==
  ASSUME ProcInv
  PROVE  sent \in Nat /\ \A w \in Whereabouts : w[2] \in Nat
<1>1. Messages \subseteq Nat
  BY ProcessorAssumption
<1>2. ASSUME NEW w \in Carried PROVE w[2] \in Nat
  <2>1. PICK s \in Tasks : task[s].msg \in Messages /\ w = <<<<"task", s>>, task[s].msg>>
    BY DEF Carried
  <2>. QED  BY <1>1, <2>1
<1>3. ASSUME NEW w \in Pended PROVE w[2] \in Nat
  <2>1. PICK key \in Users \X Bots :
          pending[key] # NoPending /\ w = <<<<"pending", key>>, pending[key].message_id>>
    BY DEF Pended
  <2>2. pending[key] \in [url : Urls, message_id : Messages]
    BY <2>1 DEF ProcInv, ChatsOK
  <2>. QED  BY <1>1, <2>1, <2>2
<1>4. ASSUME NEW u \in Users, NEW x \in Queued(Downloads(u)) PROVE x[2] \in Nat
  <2>1. PICK i \in With(Downloads(u), "queued") : x = <<i, Downloads(u)[i].message_id>>
    BY DEF Queued
  <2>2. Downloads(u)[i] \in QueuedDownload
    BY <2>1, ListOf DEF ProcInv, With
  <2>. QED  BY <1>1, <2>1, <2>2 DEF QueuedDownload
<1>5. \A w \in Lined : w[2] \in Nat
  BY <1>4 DEF Lined
<1>. QED  BY <1>1, <1>2, <1>3, <1>5 DEF Whereabouts, ProcInv, ChatsOK

-----------------------------------------------------------------------------
(* What the steps of a handler and of the queue do to the places *)

\* A handler that changes leaves its place, and may take one.
LEMMA TaskChanges ==
  ASSUME TasksOK, NEW t \in Tasks, NEW h, task' = [task EXCEPT ![t] = h]
  PROVE  /\ Carried' \subseteq (Carried \ {<<<<"task", t>>, task[t].msg>>})
                                 \cup {<<<<"task", t>>, h.msg>>}
         /\ h.pc \notin CarryPoints \/ h.msg \notin Messages =>
              Carried' \subseteq Carried \ {<<<<"task", t>>, task[t].msg>>}
<1>. SUFFICES ASSUME NEW w \in Carried'
              PROVE  \/ w \in Carried \ {<<<<"task", t>>, task[t].msg>>}
                     \/ /\ w = <<<<"task", t>>, h.msg>>
                        /\ h.pc \in CarryPoints /\ h.msg \in Messages
  OBVIOUS
<1>1. PICK s \in Tasks : /\ task'[s].pc \in CarryPoints /\ task'[s].msg \in Messages
                         /\ w = <<<<"task", s>>, task'[s].msg>>
  BY DEF Carried
<1>2. task'[t] = h /\ (s # t => task'[s] = task[s])
  BY DEF TasksOK
<1>3. CASE s = t
  BY <1>1, <1>2, <1>3
<1>4. CASE s # t
  <2>1. w \in Carried
    BY <1>1, <1>2, <1>4 DEF Carried
  <2>. QED  BY <1>1, <1>4, <2>1
<1>. QED  BY <1>3, <1>4

LEMMA GotoPlaces ==
  ASSUME TasksOK, NEW t \in Tasks, NEW pc, task[t].pc # "idle", Goto(t, pc)
  PROVE  /\ pc \notin CarryPoints => Carried' \subseteq Carried \ {<<<<"task", t>>, task[t].msg>>}
         /\ task[t].pc \in CarryPoints \/ task[t].msg \notin Messages => Carried' \subseteq Carried
<1>. DEFINE h == [task[t] EXCEPT !.pc = pc, !.since = IF pc = "download" THEN now ELSE 0]
<1>1. task[t] \in Handler
  BY AtHandler
<1>2. h.pc = pc /\ h.msg = task[t].msg
  BY <1>1 DEF Handler
<1>3. task' = [task EXCEPT ![t] = h]
  BY DEF Goto
<1>. HIDE DEF h
<1>4. task[t].pc \in CarryPoints /\ task[t].msg \in Messages =>
        <<<<"task", t>>, task[t].msg>> \in Carried
  BY DEF Carried
<1>. QED  BY <1>2, <1>3, <1>4, TaskChanges

LEMMA ReturnPlaces ==
  ASSUME TasksOK, NEW t \in Tasks, Return(t)
  PROVE  Carried' \subseteq Carried \ {<<<<"task", t>>, task[t].msg>>}
<1>1. Idle.pc \notin CarryPoints
  BY DEF Idle, CarryPoints, HoldingPoints
<1>. QED  BY <1>1, TaskChanges DEF Return

LEMMA BeginPlaces ==
  ASSUME TasksOK, NEW t \in Tasks, NEW pc, NEW u, NEW b, NEW url, NEW m, Begin(t, pc, u, b, url, m)
  PROVE  /\ Carried' \subseteq Carried \cup {<<<<"task", t>>, m>>}
         /\ pc \notin CarryPoints => Carried' \subseteq Carried
<1>. DEFINE h == [pc |-> pc, user |-> u, bot |-> b, url |-> url, msg |-> m,
                  from |-> "none", since |-> 0]
<1>1. task' = [task EXCEPT ![t] = h] /\ h.pc = pc /\ h.msg = m
  BY DEF Begin
<1>. HIDE DEF h
<1>. QED  BY <1>1, TaskChanges

LEMMA LinesShrink ==
  ASSUME \A u \in Users : Queued(Downloads(u)') \subseteq Queued(Downloads(u))
  PROVE  Lined' \subseteq Lined
BY DEF Lined

LEMMA LineGetsLonger ==
  ASSUME NEW u \in Users, NEW n, NEW m, OnlyList(u),
         Queued(Downloads(u)') = Queued(Downloads(u)) \cup {<<n, m>>}
  PROVE  Lined' \subseteq Lined \cup {<<<<"line", <<u, n>>>>, m>>}
<1>. SUFFICES ASSUME NEW w \in Lined' PROVE w \in Lined \/ w = <<<<"line", <<u, n>>>>, m>>
  OBVIOUS
<1>1. PICK v \in Users : \E x \in Queued(Downloads(v)') : w = <<<<"line", <<v, x[1]>>>>, x[2]>>
  BY DEF Lined
<1>2. PICK x \in Queued(Downloads(v)') : w = <<<<"line", <<v, x[1]>>>>, x[2]>>
  BY <1>1
<1>3. CASE x \in Queued(Downloads(v))
  BY <1>2, <1>3 DEF Lined
<1>4. CASE x \notin Queued(Downloads(v))
  <2>1. v = u
    BY <1>2, <1>4 DEF OnlyList
  <2>2. x = <<n, m>>
    BY <1>2, <1>4, <2>1
  <2>. QED  BY <1>2, <2>1, <2>2
<1>. QED  BY <1>3, <1>4

LEMMA LineGetsShorter ==
  ASSUME NEW u \in Users, NEW n, NEW m, OnlyList(u), <<n, m>> \in Queued(Downloads(u)),
         Queued(Downloads(u)') = Queued(Downloads(u)) \ {<<n, m>>}
  PROVE  /\ <<<<"line", <<u, n>>>>, m>> \in Lined
         /\ Lined' \subseteq Lined \ {<<<<"line", <<u, n>>>>, m>>}
<1>1. <<<<"line", <<u, n>>>>, m>> \in Lined
  <2>1. <<<<"line", <<u, <<n, m>>[1]>>>>, <<n, m>>[2]>> \in Lined
    BY DEF Lined
  <2>. QED  BY <2>1
<1>2. ASSUME NEW w \in Lined' PROVE w \in Lined /\ w # <<<<"line", <<u, n>>>>, m>>
  <2>1. PICK v \in Users : \E x \in Queued(Downloads(v)') : w = <<<<"line", <<v, x[1]>>>>, x[2]>>
    BY DEF Lined
  <2>2. PICK x \in Queued(Downloads(v)') : w = <<<<"line", <<v, x[1]>>>>, x[2]>>
    BY <2>1
  <2>3. x \in Queued(Downloads(v))
    BY <2>2 DEF OnlyList
  <2>4. w \in Lined
    BY <2>2, <2>3 DEF Lined
  <2>5. v = u => x # <<n, m>>
    BY <2>2
  <2>6. x = <<x[1], x[2]>>
    BY <2>3 DEF Queued
  <2>. QED  BY <2>2, <2>4, <2>5, <2>6
<1>. QED  BY <1>1, <1>2

-----------------------------------------------------------------------------
(* What the steps do to the links *)

\* A handler goes on with its link, or drops it.
LEMMA QuietLinks ==
  ASSUME LinkInv, Carried' \subseteq Carried, UNCHANGED <<queues, pending, sent>>
  PROVE  LinkInv'
<1>1. Pended' = Pended /\ Lined' = Lined
  BY DEF Pended, Lined, Downloads
<1>. QED  BY <1>1, LinksStay DEF Whereabouts

\* A waiting link leaves its line for a handler.
LEMMA TakenLinks ==
  ASSUME TasksOK, LinkInv, NEW t \in Tasks, NEW u \in Users, NEW n, NEW m, NEW h,
         OnlyList(u), <<n, m>> \in Queued(Downloads(u)),
         Queued(Downloads(u)') = Queued(Downloads(u)) \ {<<n, m>>},
         h.msg = m, task' = [task EXCEPT ![t] = h], UNCHANGED <<pending, sent>>
  PROVE  LinkInv'
<1>. DEFINE p == <<"line", <<u, n>>>>
            q == <<"task", t>>
<1>1. Pended' = Pended
  BY DEF Pended
<1>2. Carried' \subseteq Carried \cup {<<q, m>>}
  BY TaskChanges
<1>3. <<p, m>> \in Lined /\ Lined' \subseteq Lined \ {<<p, m>>}
  BY LineGetsShorter
<1>4. <<p, m>> \notin Carried \cup Pended
  BY Kinds
<1>5. /\ <<p, m>> \in Whereabouts
      /\ Whereabouts' \subseteq (Whereabouts \ {<<p, m>>}) \cup {<<q, m>>}
  BY <1>1, <1>2, <1>3, <1>4 DEF Whereabouts
<1>. QED  BY <1>5, LinkMoves

\* get_next gives the handler that calls it the first waiting link in exchange.
LEMMA NextLinks ==
  ASSUME ProcInv, LinkInv, NEW t \in Tasks, NEW frame, task[t].pc # "idle",
         ProcessNext(t, frame), UNCHANGED <<pending, sent>>
  PROVE  LinkInv'
<1>1. task[t] \in Handler /\ TasksOK /\ QueueInv
  BY AtHandler DEF ProcInv
<1>2. PICK u \in Users : u = task[t].user
  BY <1>1 DEF Handler
<1>3. CASE DrainQueue(u) /\ Return(t)
  <2>1. Queued(Downloads(u)') = {} /\ OnlyList(u)
    BY <1>1, <1>3, DrainLists, NothingListed
  <2>2. Lined' \subseteq Lined
    BY <2>1, LinesShrink DEF OnlyList
  <2>3. Carried' \subseteq Carried
    BY <1>1, <1>3, ReturnPlaces
  <2>4. Pended' = Pended
    BY DEF Pended
  <2>. QED  BY <2>2, <2>3, <2>4, LinksStay DEF Whereabouts
<1>4. CASE StartNext(u) /\ ~(DrainQueue(u) /\ Return(t))
  <2>. DEFINE n == NextIndex(u)
              m == Downloads(u)[n].message_id
              h == [task[t] EXCEPT !.pc = "chain", !.from = frame, !.since = 0,
                                   !.msg = m, !.url = Downloads(u)[n].url]
  <2>1. task' = [task EXCEPT ![t] = h]
    BY <1>2, <1>4 DEF ProcessNext
  <2>2. h.msg = m
    BY <1>1 DEF Handler
  <2>3. /\ <<n, m>> \in Queued(Downloads(u)) /\ OnlyList(u)
        /\ Queued(Downloads(u)') = Queued(Downloads(u)) \ {<<n, m>>}
    BY <1>1, <1>4, NextLists
  <2>. HIDE DEF h, m, n
  <2>. QED  BY <1>1, <2>1, <2>2, <2>3, TakenLinks
<1>. QED  BY <1>2, <1>3, <1>4 DEF ProcessNext

\* What add does with the link of the handler that calls it.
LEMMA AddLinks ==
  ASSUME ProcInv, LinkInv, NEW t \in Tasks, task[t].pc \in {"checks", "resume"},
         UNCHANGED <<pending, sent>>,
         NEW u, NEW b, NEW m, NEW url,
         task[t].user = u, task[t].bot = b, task[t].msg = m, task[t].url = url,
         \/ AddRefused(u) /\ Goto(t, "other")
         \/ AddStarted(u, b, m, url) /\ \E pc : Goto(t, pc)
         \/ /\ AddQueued(u, b, m, url) \/ AddQueuedWithProgress(u, b, m, url)
            /\ Goto(t, "reply_queued") \/ Return(t)
  PROVE  LinkInv'
<1>. DEFINE p == <<"task", t>>
<1>1. /\ task[t] \in Handler /\ m \in Messages /\ task[t].pc # "idle" /\ TasksOK /\ QueueInv
      /\ task[t].pc \in CarryPoints
  BY AtHandler DEF ProcInv, TasksOK, LinkPoints, CarryPoints
<1>2. u \in Users /\ b \in Bots /\ url \in Urls
  BY <1>1 DEF Handler
<1>3. Pended' = Pended
  BY DEF Pended
<1>4. \A pc : Goto(t, pc) => Carried' \subseteq Carried
  BY <1>1, GotoPlaces
<1>5. CASE AddRefused(u) /\ Goto(t, "other")
  <2>1. \A v \in Users : Downloads(v)' = Downloads(v)
    BY <1>1, <1>2, <1>5, RefusedLists
  <2>2. Lined' \subseteq Lined
    BY <2>1, LinesShrink
  <2>. QED  BY <1>3, <1>4, <1>5, <2>2, LinksStay DEF Whereabouts
<1>6. CASE AddStarted(u, b, m, url) /\ \E pc : Goto(t, pc)
  <2>1. Queued(Downloads(u)') = {} /\ OnlyList(u)
    BY <1>1, <1>2, <1>6, StartedLists
  <2>2. Lined' \subseteq Lined
    BY <2>1, LinesShrink DEF OnlyList
  <2>. QED  BY <1>3, <1>4, <1>6, <2>2, LinksStay DEF Whereabouts
<1>7. CASE /\ AddQueued(u, b, m, url) \/ AddQueuedWithProgress(u, b, m, url)
           /\ Goto(t, "reply_queued") \/ Return(t)
  <2>1. PICK n : Queued(Downloads(u)') = Queued(Downloads(u)) \cup {<<n, m>>}
    BY <1>1, <1>2, <1>7, QueuedLists
  <2>2. OnlyList(u)
    BY <1>1, <1>2, <1>7, QueuedLists
  <2>. DEFINE q == <<"line", <<u, n>>>>
  <2>3. Lined' \subseteq Lined \cup {<<q, m>>}
    BY <1>2, <2>1, <2>2, LineGetsLonger
  <2>4. Carried' \subseteq Carried \ {<<p, m>>}
    <3>1. "reply_queued" \notin CarryPoints
      BY DEF CarryPoints, HoldingPoints
    <3>. QED  BY <1>1, <1>7, <3>1, GotoPlaces, ReturnPlaces
  <2>5. <<p, m>> \in Carried
    BY <1>1 DEF Carried
  <2>6. <<p, m>> \notin Pended \cup Lined
    BY Kinds
  <2>7. /\ <<p, m>> \in Whereabouts
        /\ Whereabouts' \subseteq (Whereabouts \ {<<p, m>>}) \cup {<<q, m>>}
    BY <1>3, <2>3, <2>4, <2>5, <2>6 DEF Whereabouts
  <2>. QED  BY <2>7, LinkMoves
<1>. QED  BY <1>5, <1>6, <1>7

\* The link of a user who has not subscribed is set aside.
LEMMA GatedLinks ==
  ASSUME ProcInv, LinkInv, NEW t \in Tasks, LinkGated(t)
  PROVE  LinkInv'
<1>. DEFINE key == <<task[t].user, task[t].bot>>
            m == task[t].msg
            p == <<"task", t>>
            q == <<"pending", key>>
<1>1. /\ task[t] \in Handler /\ m \in Messages /\ task[t].pc = "checks" /\ TasksOK
      /\ key \in Users \X Bots
  BY AtHandler DEF LinkGated, At, ProcInv, TasksOK, LinkPoints, Handler
<1>2. pending' = [pending EXCEPT ![key] = [url |-> task[t].url, message_id |-> m]]
  BY DEF LinkGated
<1>3. <<p, m>> \in Carried
  BY <1>1 DEF Carried, CarryPoints
<1>4. Carried' \subseteq Carried \ {<<p, m>>}
  BY <1>1, GotoPlaces DEF LinkGated, CarryPoints, HoldingPoints
<1>5. Pended' \subseteq Pended \cup {<<q, m>>}
  <2>1. ASSUME NEW k \in Users \X Bots
        PROVE  pending'[k] = IF k = key THEN [url |-> task[t].url, message_id |-> m] ELSE pending[k]
    BY <1>1, <1>2 DEF ProcInv, ChatsOK
  <2>. QED  BY <2>1 DEF Pended
<1>6. Lined' = Lined
  BY DEF LinkGated, Lined, Downloads
<1>7. <<p, m>> \notin Pended \cup Lined
  BY Kinds
<1>8. /\ <<p, m>> \in Whereabouts
      /\ Whereabouts' \subseteq (Whereabouts \ {<<p, m>>}) \cup {<<q, m>>}
  BY <1>3, <1>4, <1>5, <1>6, <1>7 DEF Whereabouts
<1>. QED  BY <1>8, LinkMoves DEF LinkGated

\* The pending link is popped by one of those who retry.
LEMMA RetryLinks ==
  ASSUME ProcInv, LinkInv, NEW t \in Tasks, RetryAccepted(t)
  PROVE  LinkInv'
<1>. DEFINE key == <<task[t].user, task[t].bot>>
            m == pending[key].message_id
            p == <<"pending", key>>
            q == <<"task", t>>
<1>1. task[t] \in Handler /\ task[t].pc = "retry" /\ TasksOK /\ key \in Users \X Bots
  BY AtHandler DEF RetryAccepted, At, ProcInv, Handler
<1>2. Lined' = Lined
  BY DEF RetryAccepted, Lined, Downloads
<1>3. CASE pending[key] = NoPending
  <2>1. Carried' \subseteq Carried
    BY <1>1, <1>3, GotoPlaces DEF RetryAccepted, CarryPoints, HoldingPoints
  <2>2. Pended' = Pended
    BY <1>3 DEF RetryAccepted, Pended
  <2>. QED  BY <1>2, <2>1, <2>2, LinksStay DEF Whereabouts, RetryAccepted
<1>4. CASE pending[key] # NoPending
  <2>. DEFINE h == [task[t] EXCEPT !.pc = "resume", !.url = pending[key].url, !.msg = m]
  <2>1. task' = [task EXCEPT ![t] = h] /\ pending' = [pending EXCEPT ![key] = NoPending]
    BY <1>4 DEF RetryAccepted
  <2>2. h.msg = m
    BY <1>1 DEF Handler
  <2>. HIDE DEF h
  <2>3. Carried' \subseteq Carried \cup {<<q, m>>}
    BY <1>1, <2>1, <2>2, TaskChanges
  <2>4. <<p, m>> \in Pended
    BY <1>1, <1>4 DEF Pended
  <2>5. Pended' \subseteq Pended \ {<<p, m>>}
    <3>1. ASSUME NEW k \in Users \X Bots
          PROVE  pending'[k] = IF k = key THEN NoPending ELSE pending[k]
      BY <1>1, <2>1 DEF ProcInv, ChatsOK
    <3>. QED  BY <3>1 DEF Pended
  <2>6. <<p, m>> \notin Carried \cup Lined
    BY Kinds
  <2>7. /\ <<p, m>> \in Whereabouts
        /\ Whereabouts' \subseteq (Whereabouts \ {<<p, m>>}) \cup {<<q, m>>}
    BY <1>2, <2>3, <2>4, <2>5, <2>6 DEF Whereabouts
  <2>. QED  BY <2>7, LinkMoves DEF RetryAccepted
<1>. QED  BY <1>3, <1>4

\* Whatever users begin.
LEMMA ArrivalLinks ==
  ASSUME ProcInv, LinkInv, NEW t \in Tasks, Arrival(t)
  PROVE  LinkInv'
<1>. USE DEF ProcInv
<1>1. ASSUME NEW u \in Users, NEW b \in Bots, NEW url \in Urls, LinkArrives(t, u, b, url)
      PROVE  LinkInv'
  <2>1. sent' = sent + 1 /\ Begin(t, "checks", u, b, url, sent + 1) /\ UNCHANGED <<queues, pending>>
    BY <1>1 DEF LinkArrives
  <2>2. Carried' \subseteq Carried \cup {<<<<"task", t>>, sent + 1>>}
    BY <2>1, BeginPlaces
  <2>3. Pended' = Pended /\ Lined' = Lined
    BY <2>1 DEF Pended, Lined, Downloads
  <2>4. Whereabouts' \subseteq Whereabouts \cup {<<<<"task", t>>, sent + 1>>}
    BY <2>2, <2>3 DEF Whereabouts
  <2>. QED  BY <2>1, <2>4, NumberedLinks, LinkComes
<1>2. ASSUME \E pc \in {"other", "clicked", "retry"} : \E u, b, url : Begin(t, pc, u, b, url, NoMessage),
             UNCHANGED queues, ChatsSame
      PROVE  LinkInv'
  <2>1. Carried' \subseteq Carried
    BY <1>2, BeginPlaces DEF CarryPoints, HoldingPoints
  <2>. QED  BY <1>2, <2>1, QuietLinks DEF ChatsSame
<1>3. ASSUME NEW u \in Users, NEW b \in Bots, OtherUpdate(t, u, b) PROVE LinkInv'
  BY <1>2, <1>3 DEF OtherUpdate
<1>4. CASE FormatPressed(t)
  BY <1>2, <1>4 DEF FormatPressed
<1>5. CASE RetryPressed(t)
  BY <1>2, <1>5 DEF RetryPressed
<1>. QED  BY <1>1, <1>3, <1>4, <1>5 DEF Arrival

\* The other steps of a handler: it goes on with its link, or drops it.
LEMMA OtherLinks ==
  ASSUME ProcInv, LinkInv, NEW t \in Tasks,
         \/ LinkFiltered(t) \/ PromptSent(t) \/ FormatsShown(t) \/ FormatChosen(t)
         \/ DownloadSucceeds(t) \/ DownloadRaises(t) \/ RetryRefused(t) \/ RetryUngated(t)
         \/ OtherEnds(t)
  PROVE  LinkInv'
<1>. USE DEF ProcInv
<1>1. task[t].pc # "idle" /\ UNCHANGED <<queues, pending, sent>>
  BY DEF LinkFiltered, PromptSent, FormatsShown, FormatChosen, DownloadSucceeds, DownloadRaises,
         RetryRefused, RetryUngated, OtherEnds, At, InfoPoints, ChatsSame
<1>2. \/ Return(t)
      \/ Goto(t, "other")
      \/ Goto(t, "download") /\ task[t].pc = "clicked"
      \/ Goto(t, "deliver") /\ task[t].pc = "download"
  BY DEF LinkFiltered, PromptSent, FormatsShown, FormatChosen, DownloadSucceeds, DownloadRaises,
         RetryRefused, RetryUngated, OtherEnds, At
<1>3. "other" \notin CarryPoints /\ "download" \in CarryPoints
  BY DEF CarryPoints, HoldingPoints
<1>4. task[t].pc = "clicked" => task[t].msg \notin Messages
  BY QueueAssumption DEF TasksOK
<1>5. Carried' \subseteq Carried
  BY <1>1, <1>2, <1>3, <1>4, GotoPlaces, ReturnPlaces
<1>. QED  BY <1>1, <1>5, QuietLinks

\* The status message of a link has been sent.
LEMMA ReplyLinks ==
  ASSUME ProcInv, LinkInv, NEW t \in Tasks, ReplySent(t)
  PROVE  LinkInv'
<1>. DEFINE me == task[t]
<1>1. me.pc # "idle" /\ TasksOK /\ QueueInv /\ UNCHANGED <<pending, sent>>
  BY DEF ReplySent, At, ProcInv, ChatsSame
<1>2. me \in Handler /\ me.user \in Users
  BY <1>1, AtHandler DEF Handler
<1>3. Carried' \subseteq Carried
  <2>1. "reply_first" \in CarryPoints
    BY DEF CarryPoints, HoldingPoints
  <2>2. Return(t) \/ \E pc : Goto(t, pc) /\ me.pc \in CarryPoints
    BY <2>1 DEF ReplySent, At
  <2>. QED  BY <1>1, <2>2, GotoPlaces, ReturnPlaces
<1>4. Lined' \subseteq Lined
  <2>1. CASE UNCHANGED queues
    BY <2>1 DEF Lined, Downloads
  <2>2. CASE SetProgressMessage(me.user, me.bot, me.url, me.msg)
    BY <1>1, <1>2, <2>2, ProgressLists, LinesShrink
  <2>. QED  BY <2>1, <2>2 DEF ReplySent
<1>5. Pended' = Pended
  BY <1>1 DEF Pended
<1>. QED  BY <1>1, <1>3, <1>4, <1>5, LinksStay DEF Whereabouts

\* The steps after which the queue may go on.
LEMMA AdvanceLinks ==
  ASSUME ProcInv, LinkInv, NEW t \in Tasks,
         \/ FormatsMissing(t) \/ FormatsRaise(t) \/ InfoErrorSent(t) \/ DownloadFails(t)
         \/ Delivered(t) \/ RouteFails(t) \/ Chained(t)
  PROVE  LinkInv'
<1>. USE DEF ProcInv
<1>1. task[t].pc # "idle" /\ UNCHANGED <<pending, sent>>
  BY DEF FormatsMissing, FormatsRaise, InfoErrorSent, DownloadFails, Delivered, RouteFails,
         Chained, ChainEnds, ChainRaises, At, InfoPoints, RoutePoints, ChatsSame
<1>2. \/ \E frame : ProcessNext(t, frame)
      \/ /\ Return(t) \/ (Goto(t, "info_failed") /\ task[t].pc \in {"info", "chain"})
         /\ UNCHANGED queues
  <2>1. CASE ChainRaises(t)
    <3>1. task[t].from \in {"download", "info", "info_resumed", "info_exc", "route_exc"}
      BY <2>1 DEF ChainRaises, At, TasksOK, Frames
    <3>. QED  BY <2>1, <3>1 DEF ChainRaises, At
  <2>2. CASE ~ChainRaises(t)
    BY <2>2 DEF FormatsMissing, FormatsRaise, InfoErrorSent, DownloadFails, Delivered,
                RouteFails, Chained, ChainEnds, At
  <2>. QED  BY <2>1, <2>2
<1>3. CASE \E frame : ProcessNext(t, frame)
  BY <1>1, <1>3, NextLinks
<1>4. CASE /\ Return(t) \/ (Goto(t, "info_failed") /\ task[t].pc \in {"info", "chain"})
           /\ UNCHANGED queues
  <2>1. "info" \in CarryPoints /\ "chain" \in CarryPoints
    BY DEF CarryPoints, HoldingPoints
  <2>2. Carried' \subseteq Carried
    BY <1>1, <1>4, <2>1, GotoPlaces, ReturnPlaces
  <2>. QED  BY <1>1, <1>4, <2>2, QuietLinks
<1>. QED  BY <1>2, <1>3, <1>4

LEMMA HandlerLinks ==
  ASSUME ProcInv, LinkInv, NEW t \in Tasks, Arrival(t) \/ Resume(t) \/ Chained(t)
  PROVE  LinkInv'
<1>1. CASE LinkAdded(t) \/ Resumed(t)
  BY <1>1, AddLinks DEF LinkAdded, Resumed, At, ChatsSame
<1>. QED  BY <1>1, ArrivalLinks, GatedLinks, RetryLinks, OtherLinks, ReplyLinks, AdvanceLinks
          DEF Resume

LEMMA LinkInvInit == Init => LinkInv
<1>. SUFFICES ASSUME Init PROVE LinkInv
  OBVIOUS
<1>1. Carried = {}
  BY DEF Init, Carried, CarryPoints, HoldingPoints, Idle
<1>2. Pended = {}
  BY DEF Init, Pended
<1>3. \A u \in Users : Downloads(u) = <<>>
  BY DEF Init, QueueInit, Downloads
<1>4. Lined = {}
  BY <1>3, NothingListed DEF Lined
<1>. QED  BY <1>1, <1>2, <1>4 DEF LinkInv, Whereabouts

LEMMA LinkInvStep ==
  ASSUME ProcInv, LinkInv, [Next]_vars
  PROVE  LinkInv'
<1>1. ASSUME NEW t \in Tasks, Arrival(t) \/ Resume(t) \/ Chained(t)
      PROVE  LinkInv'
  BY <1>1, HandlerLinks
<1>2. CASE CleanupPass /\ UNCHANGED procVars
  <2>1. Carried' = Carried /\ Pended' = Pended /\ sent' = sent
    BY <1>2 DEF procVars, Carried, Pended
  <2>2. Lined' \subseteq Lined
    BY <1>2, CleanupLists, LinesShrink
  <2>. QED  BY <2>1, <2>2, LinksStay DEF Whereabouts
<1>3. CASE UNCHANGED queues /\ UNCHANGED procVars
  <2>1. Carried' = Carried
    BY <1>3 DEF procVars, Carried
  <2>. QED  BY <1>3, <2>1, QuietLinks DEF procVars
<1>4. CASE Restart
  <2>1. Carried' = {}
    BY <1>4 DEF Restart, Carried, CarryPoints, HoldingPoints, Idle
  <2>2. Pended' = {}
    BY <1>4 DEF Restart, Pended
  <2>3. \A u \in Users : Downloads(u)' = <<>>
    BY <1>4 DEF Restart, LoseMemory, Downloads
  <2>4. Lined' = {}
    BY <2>3, NothingListed DEF Lined
  <2>. QED  BY <1>4, <2>1, <2>2, <2>4, LinksStay DEF Whereabouts, Restart
<1>. QED  BY <1>1, <1>2, <1>3, <1>4 DEF Next, TimePasses, vars, procVars

LEMMA LinkInvImplies ==
  ASSUME ProcInv, LinkInv
  PROVE  LinkTakenOnce
<1>. SUFFICES ASSUME NEW u \in Users, NEW s \in Tasks, NEW t \in Tasks,
                     Holds(s, u), Holds(t, u), task[s].msg = task[t].msg
              PROVE  s = t
  BY DEF LinkTakenOnce
<1>1. /\ task[s].pc \in HoldingPoints /\ task[s].msg # NoMessage
      /\ task[t].pc \in HoldingPoints
  BY DEF Holds
<1>2. task[s] \in Handler
  BY <1>1, AtHandler DEF ProcInv, HoldingPoints
<1>3. task[s].msg \in Messages
  BY <1>1, <1>2 DEF Handler
<1>4. /\ <<<<"task", s>>, task[s].msg>> \in Whereabouts
      /\ <<<<"task", t>>, task[t].msg>> \in Whereabouts
  BY <1>1, <1>3 DEF Whereabouts, Carried, CarryPoints
<1>5. <<<<"task", s>>, task[s].msg>> = <<<<"task", t>>, task[t].msg>>
  BY <1>4 DEF LinkInv
<1>. QED  BY <1>5

\* However the handlers interleave, raise and are restarted, no link is taken up by
\* two of them: neither get_next nor a retry gives one link to two callers.
THEOREM LinksTakenOnce == Spec => []LinkTakenOnce
<1>1. ProcInv /\ LinkInv /\ [Next]_vars => (ProcInv /\ LinkInv)'
  BY ProcInvStep, LinkInvStep
<1>2. Init => ProcInv /\ LinkInv
  BY ProcInvInit, LinkInvInit
<1>3. ProcInv /\ LinkInv => LinkTakenOnce
  BY LinkInvImplies
<1>. QED  BY <1>1, <1>2, <1>3, PTL DEF Spec

-----------------------------------------------------------------------------
(* Without faults and format buttons the queues and the handlers agree.  What *)
(* makes that inductive is the clock: while a handler has the active download *)
(* of a queue, the download is not stale, so add never drops it.              *)

\* The points that a link without format buttons never gets to, if no call raises.
FormatPoints == {"info", "info_resumed", "info_failed", "clicked"}

PlainPoints ==
  /\ buttons = {}
  /\ \A t \in Tasks : /\ task[t].pc \notin FormatPoints
                      /\ task[t].pc \in HoldingPoints => task[t].msg \in Messages

\* The handlers and the active download of u's queue have each other.
HeldOf(u) ==
  /\ \A t \in Tasks : Holds(t, u) => \E x \in Active(Downloads(u)) : x[1] = task[t].msg
  /\ \A x \in Active(Downloads(u)) :
       /\ now - x[2] <= StaleTimeout
       /\ \E t \in Tasks : Holds(t, u) /\ task[t].msg = x[1]

HeldInv == PlainPoints /\ \A u \in Users : HeldOf(u)

\* One handler has the active download.
LEMMA SoleHolder ==
  ASSUME QueueInv, LinkTakenOnce, HeldInv, NEW u \in Users,
         NEW s \in Tasks, NEW t \in Tasks, Holds(s, u), Holds(t, u)
  PROVE  s = t
<1>1. PICK x \in Active(Downloads(u)) : x[1] = task[s].msg
  BY DEF HeldInv, HeldOf
<1>2. PICK y \in Active(Downloads(u)) : y[1] = task[t].msg
  BY DEF HeldInv, HeldOf
<1>3. x = y
  BY ActiveAlone
<1>. QED  BY <1>1, <1>2, <1>3 DEF LinkTakenOnce

\* A step of a handler changes nothing of the others.
LEMMA OtherHandlers ==
  ASSUME TasksOK, NEW t \in Tasks, NEW h, task' = [task EXCEPT ![t] = h]
  PROVE  /\ task'[t] = h
         /\ \A s \in Tasks : s # t => task'[s] = task[s]
         /\ \A s \in Tasks : \A u : s # t => (Holds(s, u)' <=> Holds(s, u))
BY DEF TasksOK, Holds

LEMMA PlainSteps ==
  ASSUME PlainPoints, TasksOK, NEW t \in Tasks, NEW h, task' = [task EXCEPT ![t] = h],
         buttons' = {}, h.pc \notin FormatPoints, h.pc \in HoldingPoints => h.msg \in Messages
  PROVE  PlainPoints'
<1>1. \A s \in Tasks : task'[s] = IF s = t THEN h ELSE task[s]
  BY DEF TasksOK
<1>. QED  BY <1>1 DEF PlainPoints

\* Nothing changes in u's list, nor in who works for u.
LEMMA HeldSame ==
  ASSUME NEW u \in Users, HeldOf(u), Active(Downloads(u)') = Active(Downloads(u)), now' = now,
         \A s \in Tasks : /\ Holds(s, u)' <=> Holds(s, u)
                          /\ Holds(s, u) => task'[s].msg = task[s].msg
  PROVE  HeldOf(u)'
<1>1. Active(Downloads(u))' = Active(Downloads(u)')
  BY DEF Active, With
<1>. QED  BY <1>1 DEF HeldOf

\* A handler goes on, before it has a download or with the one it has.
LEMMA KeepHeld ==
  ASSUME HeldInv, TasksOK, NEW t \in Tasks, NEW h, task' = [task EXCEPT ![t] = h],
         now' = now, buttons' = {},
         \A u \in Users : Active(Downloads(u)') = Active(Downloads(u)),
         h.pc \notin FormatPoints,
         h.pc \in HoldingPoints <=> task[t].pc \in HoldingPoints,
         h.pc \in HoldingPoints => h.user = task[t].user /\ h.msg = task[t].msg
  PROVE  HeldInv'
<1>1. task'[t] = h /\ \A s \in Tasks : s # t => task'[s] = task[s]
  BY OtherHandlers
<1>2. PlainPoints'
  BY PlainSteps DEF HeldInv, PlainPoints
<1>3. ASSUME NEW u \in Users PROVE HeldOf(u)'
  <2>1. ASSUME NEW s \in Tasks
        PROVE  /\ Holds(s, u)' <=> Holds(s, u)
               /\ Holds(s, u) => task'[s].msg = task[s].msg
    <3>1. CASE s = t
      BY <1>1, <3>1 DEF Holds
    <3>2. CASE s # t
      BY <1>1, <3>2 DEF Holds
    <3>. QED  BY <3>1, <3>2
  <2>. QED  BY <2>1, HeldSame DEF HeldInv
<1>. QED  BY <1>2, <1>3 DEF HeldInv

\* A handler gets the download that becomes active in u's queue.
LEMMA StartHeld ==
  ASSUME HeldInv, QueueInv, TasksOK, NEW t \in Tasks, NEW h, task' = [task EXCEPT ![t] = h],
         now' = now, buttons' = {},
         NEW u \in Users, NEW m \in Messages, h.user = u, h.msg = m,
         h.pc \in HoldingPoints \ FormatPoints,
         Active(Downloads(u)') = {<<m, now>>}, OnlyList(u),
         \A s \in Tasks : s # t => ~Holds(s, u),
         \A v \in Users : v # u => ~Holds(t, v)
  PROVE  HeldInv'
<1>1. task'[t] = h /\ \A s \in Tasks : s # t => task'[s] = task[s]
  BY OtherHandlers
<1>2. PlainPoints'
  BY PlainSteps DEF HeldInv
<1>3. Holds(t, u)' /\ \A s \in Tasks : s # t => ~Holds(s, u)'
  BY <1>1, QueueAssumption DEF Holds
<1>4. HeldOf(u)'
  <2>1. Active(Downloads(u))' = {<<m, now>>}
    BY DEF Active, With
  <2>2. now - now <= StaleTimeout
    BY QueueAssumption DEF QueueInv
  <2>. QED  BY <1>1, <1>3, <2>1, <2>2 DEF HeldOf
<1>5. ASSUME NEW v \in Users, v # u PROVE HeldOf(v)'
  <2>1. ~Holds(t, v) /\ ~Holds(t, v)'
    BY <1>1, <1>5 DEF Holds
  <2>2. \A s \in Tasks : /\ Holds(s, v)' <=> Holds(s, v)
                         /\ Holds(s, v) => task'[s].msg = task[s].msg
    BY <1>1, <2>1 DEF Holds
  <2>3. Downloads(v)' = Downloads(v)
    BY <1>5 DEF OnlyList
  <2>. QED  BY <2>2, <2>3, HeldSame DEF HeldInv
<1>. QED  BY <1>2, <1>4, <1>5 DEF HeldInv

\* The handler of the last download ends.
LEMMA DropHeld ==
  ASSUME HeldInv, TasksOK, NEW t \in Tasks, Return(t), now' = now, buttons' = {},
         NEW u \in Users, Active(Downloads(u)') = {}, OnlyList(u),
         \A s \in Tasks : s # t => ~Holds(s, u),
         \A v \in Users : v # u => ~Holds(t, v)
  PROVE  HeldInv'
<1>0. task' = [task EXCEPT ![t] = Idle] /\ Idle.pc \notin HoldingPoints \cup FormatPoints
  BY DEF Return, Idle, HoldingPoints, FormatPoints
<1>1. task'[t] = Idle /\ \A s \in Tasks : s # t => task'[s] = task[s]
  BY <1>0, OtherHandlers
<1>2. PlainPoints'
  BY <1>0, PlainSteps DEF HeldInv
<1>3. HeldOf(u)'
  <2>1. \A s \in Tasks : ~Holds(s, u)'
    BY <1>0, <1>1 DEF Holds
  <2>2. Active(Downloads(u))' = {}
    BY DEF Active, With
  <2>. QED  BY <2>1, <2>2 DEF HeldOf
<1>4. ASSUME NEW v \in Users, v # u PROVE HeldOf(v)'
  <2>1. ~Holds(t, v) /\ ~Holds(t, v)'
    BY <1>0, <1>1, <1>4 DEF Holds
  <2>2. \A s \in Tasks : /\ Holds(s, v)' <=> Holds(s, v)
                         /\ Holds(s, v) => task'[s].msg = task[s].msg
    BY <1>1, <2>1 DEF Holds
  <2>3. Downloads(v)' = Downloads(v)
    BY <1>4 DEF OnlyList
  <2>. QED  BY <2>2, <2>3, HeldSame DEF HeldInv
<1>. QED  BY <1>2, <1>3, <1>4 DEF HeldInv

-----------------------------------------------------------------------------
(* The steps, without faults and format buttons *)

LEMMA GotoHeld ==
  ASSUME HeldInv, TasksOK, NEW t \in Tasks, NEW pc, task[t].pc # "idle", Goto(t, pc),
         now' = now, buttons' = {},
         \A u \in Users : Active(Downloads(u)') = Active(Downloads(u)),
         pc \notin FormatPoints, pc \in HoldingPoints <=> task[t].pc \in HoldingPoints
  PROVE  HeldInv'
<1>. DEFINE h == [task[t] EXCEPT !.pc = pc, !.since = IF pc = "download" THEN now ELSE 0]
<1>1. task[t] \in Handler
  BY AtHandler
<1>2. h.pc = pc /\ h.msg = task[t].msg /\ h.user = task[t].user
  BY <1>1 DEF Handler
<1>3. task' = [task EXCEPT ![t] = h]
  BY DEF Goto
<1>. HIDE DEF h
<1>. QED  BY <1>2, <1>3, KeepHeld

LEMMA ReturnHeld ==
  ASSUME HeldInv, TasksOK, NEW t \in Tasks, task[t].pc \notin HoldingPoints, Return(t),
         now' = now, buttons' = {},
         \A u \in Users : Active(Downloads(u)') = Active(Downloads(u))
  PROVE  HeldInv'
<1>1. task' = [task EXCEPT ![t] = Idle] /\ Idle.pc \notin HoldingPoints \cup FormatPoints
  BY DEF Return, Idle, HoldingPoints, FormatPoints
<1>. QED  BY <1>1, KeepHeld

LEMMA BeginHeld ==
  ASSUME HeldInv, TasksOK, NEW t \in Tasks, NEW pc \in {"checks", "other", "retry"},
         NEW u, NEW b, NEW url, NEW m, Begin(t, pc, u, b, url, m),
         now' = now, UNCHANGED <<queues, buttons>>
  PROVE  HeldInv'
<1>. DEFINE h == [pc |-> pc, user |-> u, bot |-> b, url |-> url, msg |-> m,
                  from |-> "none", since |-> 0]
<1>1. task' = [task EXCEPT ![t] = h] /\ h.pc = pc /\ task[t].pc = "idle"
  BY DEF Begin, At
<1>2. pc \notin HoldingPoints \cup FormatPoints /\ "idle" \notin HoldingPoints
  BY DEF HoldingPoints, FormatPoints
<1>3. buttons' = {} /\ \A v \in Users : Downloads(v)' = Downloads(v)
  BY DEF HeldInv, PlainPoints, Downloads
<1>. HIDE DEF h
<1>. QED  BY <1>1, <1>2, <1>3, KeepHeld

\* get_next at the end of a download: the handler has another one, or ends.
LEMMA NextHeld ==
  ASSUME ProcInv, LinkTakenOnce, HeldInv, NEW t \in Tasks, NEW frame,
         task[t].pc \in HoldingPoints, ProcessNext(t, frame), now' = now, UNCHANGED buttons
  PROVE  HeldInv'
<1>1. /\ task[t] \in Handler /\ TasksOK /\ QueueInv /\ buttons' = {} /\ task[t].pc # "idle"
      /\ task[t].msg \in Messages
  BY AtHandler DEF ProcInv, HeldInv, PlainPoints, HoldingPoints
<1>2. PICK u \in Users : u = task[t].user
  BY <1>1 DEF Handler
<1>3. Holds(t, u) /\ \A v \in Users : v # u => ~Holds(t, v)
  BY <1>1, <1>2, QueueAssumption DEF Holds
<1>4. \A s \in Tasks : s # t => ~Holds(s, u)
  BY <1>1, <1>3, SoleHolder
<1>5. CASE DrainQueue(u) /\ Return(t)
  <2>1. Active(Downloads(u)') = {} /\ OnlyList(u)
    BY <1>1, <1>5, DrainLists, NothingListed
  <2>. QED  BY <1>1, <1>3, <1>4, <1>5, <2>1, DropHeld
<1>6. CASE StartNext(u) /\ ~(DrainQueue(u) /\ Return(t))
  <2>. DEFINE n == NextIndex(u)
              m == Downloads(u)[n].message_id
              h == [task[t] EXCEPT !.pc = "chain", !.from = frame, !.since = 0,
                                   !.msg = m, !.url = Downloads(u)[n].url]
  <2>1. task' = [task EXCEPT ![t] = h]
    BY <1>2, <1>6 DEF ProcessNext
  <2>2. h.pc = "chain" /\ h.msg = m /\ h.user = u
    BY <1>1, <1>2 DEF Handler
  <2>3. Active(Downloads(u)') = {<<m, now>>} /\ OnlyList(u)
    BY <1>1, <1>6, NextLists
  <2>4. m \in Messages
    BY <1>1, <1>6, NextTyped
  <2>5. "chain" \in HoldingPoints \ FormatPoints
    BY DEF HoldingPoints, FormatPoints
  <2>. HIDE DEF h, m, n
  <2>. QED  BY <1>1, <1>3, <1>4, <2>1, <2>2, <2>3, <2>4, <2>5, StartHeld
<1>. QED  BY <1>2, <1>5, <1>6 DEF ProcessNext

\* Start times are numbers.
LEMMA StartTimes ==
  ASSUME QueueInv, NEW u \in Users
  PROVE  \A x \in Active(Downloads(u)) : x[2] \in Nat
<1>1. ASSUME NEW x \in Active(Downloads(u)) PROVE x[2] \in Nat
  <2>1. PICK i \in With(Downloads(u), "downloading") :
          x = <<Downloads(u)[i].message_id, Downloads(u)[i].started_at>>
    BY DEF Active
  <2>2. Downloads(u)[i] \in QueuedDownload
    BY <2>1, ListOf DEF With
  <2>. QED  BY <2>1, <2>2 DEF QueuedDownload
<1>. QED  BY <1>1

\* add starts a download only where no handler has one.
LEMMA AddHeld ==
  ASSUME ProcInv, HeldInv, NEW t \in Tasks, task[t].pc \in {"checks", "resume"},
         now' = now, UNCHANGED buttons,
         NEW u, NEW b, NEW m, NEW url,
         task[t].user = u, task[t].bot = b, task[t].msg = m, task[t].url = url,
         \/ AddRefused(u) /\ Goto(t, "other")
         \/ AddStarted(u, b, m, url) /\ (Goto(t, "reply_first") \/ Goto(t, "download"))
         \/ /\ AddQueued(u, b, m, url) \/ AddQueuedWithProgress(u, b, m, url)
            /\ Goto(t, "reply_queued") \/ Return(t)
  PROVE  HeldInv'
<1>1. /\ task[t] \in Handler /\ m \in Messages /\ task[t].pc # "idle" /\ TasksOK /\ QueueInv
      /\ buttons' = {}
  BY AtHandler DEF ProcInv, TasksOK, LinkPoints, HeldInv, PlainPoints
<1>2. u \in Users /\ b \in Bots /\ url \in Urls
  BY <1>1 DEF Handler
<1>3. /\ task[t].pc \notin HoldingPoints
      /\ {"other", "reply_queued"} \cap (HoldingPoints \cup FormatPoints) = {}
      /\ {"reply_first", "download"} \subseteq HoldingPoints \ FormatPoints
  BY DEF HoldingPoints, FormatPoints
<1>4. CASE AddRefused(u) /\ Goto(t, "other")
  <2>1. \A v \in Users : Downloads(v)' = Downloads(v)
    BY <1>1, <1>2, <1>4, RefusedLists
  <2>. QED  BY <1>1, <1>3, <1>4, <2>1, GotoHeld
<1>5. CASE AddStarted(u, b, m, url) /\ (Goto(t, "reply_first") \/ Goto(t, "download"))
  <2>1. /\ Active(Downloads(u)') = {<<m, now>>} /\ OnlyList(u)
        /\ \A x \in Active(Downloads(u)) : now - x[2] > StaleTimeout
    BY <1>1, <1>2, <1>5, StartedLists
  <2>2. Active(Downloads(u)) = {}
    <3>1. ASSUME NEW x \in Active(Downloads(u)) PROVE FALSE
      <4>1. now - x[2] <= StaleTimeout /\ now - x[2] > StaleTimeout
        BY <1>2, <2>1 DEF HeldInv, HeldOf
      <4>2. now \in Nat /\ x[2] \in Nat /\ StaleTimeout \in Nat
        BY <1>1, <1>2, StartTimes, QueueAssumption DEF QueueInv
      <4>. QED  BY <4>1, <4>2
    <3>. QED  BY <3>1
  <2>3. \A s \in Tasks : ~Holds(s, u)
    BY <1>2, <2>2 DEF HeldInv, HeldOf
  <2>4. \A v \in Users : ~Holds(t, v)
    BY <1>3 DEF Holds
  <2>5. PICK pc \in {"reply_first", "download"} : Goto(t, pc)
    BY <1>5
  <2>. DEFINE h == [task[t] EXCEPT !.pc = pc, !.since = IF pc = "download" THEN now ELSE 0]
  <2>6. h.pc = pc /\ h.msg = m /\ h.user = u
    BY <1>1 DEF Handler
  <2>7. task' = [task EXCEPT ![t] = h]
    BY <2>5 DEF Goto
  <2>8. pc \in HoldingPoints \ FormatPoints
    BY <1>3
  <2>. HIDE DEF h
  <2>. QED  BY <1>1, <1>2, <2>1, <2>3, <2>4, <2>6, <2>7, <2>8, StartHeld
<1>6. CASE /\ AddQueued(u, b, m, url) \/ AddQueuedWithProgress(u, b, m, url)
           /\ Goto(t, "reply_queued") \/ Return(t)
  <2>1. Active(Downloads(u)') = Active(Downloads(u)) /\ OnlyList(u)
    BY <1>1, <1>2, <1>6, QueuedLists
  <2>2. \A v \in Users : Active(Downloads(v)') = Active(Downloads(v))
    BY <2>1 DEF OnlyList
  <2>. QED  BY <1>1, <1>3, <1>6, <2>2, GotoHeld, ReturnHeld
<1>. QED  BY <1>4, <1>5, <1>6

\* Whatever users begin.
LEMMA ArrivalHeld ==
  ASSUME ProcInv, HeldInv, NEW t \in Tasks, Arrival(t), now' = now
  PROVE  HeldInv'
<1>. USE DEF ProcInv
<1>1. CASE FormatPressed(t)
  BY <1>1 DEF FormatPressed, HeldInv, PlainPoints
<1>2. CASE ~FormatPressed(t)
  <2>1. UNCHANGED <<queues, buttons>>
    BY <1>2 DEF Arrival, LinkArrives, OtherUpdate, RetryPressed, ChatsSame
  <2>2. \E pc \in {"checks", "other", "retry"} : \E u, b, url, m : Begin(t, pc, u, b, url, m)
    BY <1>2 DEF Arrival, LinkArrives, OtherUpdate, RetryPressed
  <2>. QED  BY <2>1, <2>2, BeginHeld
<1>. QED  BY <1>1, <1>2

\* The steps of a handler that has no download, other than add.
LEMMA IdleHeld ==
  ASSUME ProcInv, HeldInv, NEW t \in Tasks, now' = now,
         \/ LinkFiltered(t) \/ LinkGated(t) \/ PromptSent(t)
         \/ RetryRefused(t) \/ RetryUngated(t) \/ RetryAccepted(t) \/ OtherEnds(t)
  PROVE  HeldInv'
<1>1. /\ task[t].pc \in {"checks", "prompt", "retry", "other"} /\ TasksOK
      /\ UNCHANGED <<queues, buttons>>
  BY DEF LinkFiltered, LinkGated, PromptSent, RetryRefused, RetryUngated, RetryAccepted,
         OtherEnds, At, ChatsSame, ProcInv
<1>2. task[t].pc \notin HoldingPoints /\ task[t].pc # "idle"
  BY <1>1 DEF HoldingPoints
<1>3. buttons' = {} /\ \A v \in Users : Downloads(v)' = Downloads(v)
  BY <1>1 DEF HeldInv, PlainPoints, Downloads
<1>4. {"other", "prompt", "resume"} \cap (HoldingPoints \cup FormatPoints) = {}
  BY DEF HoldingPoints, FormatPoints
<1>5. CASE Goto(t, "other") \/ Goto(t, "prompt")
  BY <1>1, <1>2, <1>3, <1>4, <1>5, GotoHeld
<1>6. CASE Return(t)
  BY <1>1, <1>2, <1>3, <1>6, ReturnHeld
<1>7. CASE RetryAccepted(t) /\ pending[<<task[t].user, task[t].bot>>] # NoPending
  <2>. DEFINE key == <<task[t].user, task[t].bot>>
              h == [task[t] EXCEPT !.pc = "resume", !.url = pending[key].url,
                                   !.msg = pending[key].message_id]
  <2>1. task' = [task EXCEPT ![t] = h]
    BY <1>7 DEF RetryAccepted
  <2>2. h.pc = "resume"
    BY <1>1, <1>2, AtHandler DEF Handler
  <2>. HIDE DEF h
  <2>. QED  BY <1>1, <1>2, <1>3, <1>4, <2>1, <2>2, KeepHeld
<1>. QED  BY <1>5, <1>6, <1>7 DEF LinkFiltered, LinkGated, PromptSent, RetryRefused,
             RetryUngated, RetryAccepted, OtherEnds

\* The status message of a link has been sent.
LEMMA ReplyHeld ==
  ASSUME YoutubeUrls = {}, ProcInv, HeldInv, NEW t \in Tasks, ReplySent(t), now' = now
  PROVE  HeldInv'
<1>1. /\ task[t].pc \in {"reply_first", "reply_queued"} /\ TasksOK /\ QueueInv /\ UNCHANGED buttons
  BY DEF ReplySent, At, ProcInv, ChatsSame
<1>2. task[t].pc # "idle" /\ buttons' = {}
  BY <1>1 DEF HeldInv, PlainPoints
<1>3. CASE At(t, "reply_first") /\ Goto(t, "download") /\ UNCHANGED queues
  <2>1. \A v \in Users : Downloads(v)' = Downloads(v)
    BY <1>3 DEF Downloads
  <2>2. {"reply_first", "download"} \subseteq HoldingPoints \ FormatPoints
    BY DEF HoldingPoints, FormatPoints
  <2>. QED  BY <1>1, <1>2, <1>3, <2>1, <2>2, GotoHeld DEF At
<1>4. CASE /\ At(t, "reply_queued") /\ Return(t)
           /\ SetProgressMessage(task[t].user, task[t].bot, task[t].url, task[t].msg)
  <2>1. PICK u \in Users : u = task[t].user
    BY <1>2, <1>1, AtHandler DEF Handler
  <2>2. \A v \in Users : Active(Downloads(v)') = Active(Downloads(v))
    BY <1>1, <1>4, <2>1, ProgressLists
  <2>3. task[t].pc \notin HoldingPoints
    BY <1>4 DEF At, HoldingPoints
  <2>. QED  BY <1>1, <1>2, <1>4, <2>2, <2>3, ReturnHeld
<1>. QED  BY <1>3, <1>4 DEF ReplySent

LEMMA HandlerHeld ==
  ASSUME Faults = {}, YoutubeUrls = {}, ProcInv, LinkTakenOnce, HeldInv, now' = now,
         NEW t \in Tasks, Arrival(t) \/ Resume(t) \/ Chained(t)
  PROVE  HeldInv'
<1>. USE DEF ProcInv
<1>1. CASE LinkAdded(t) \/ Resumed(t)
  <2>1. UNCHANGED buttons /\ task[t].pc \in {"checks", "resume"}
    BY <1>1 DEF LinkAdded, Resumed, At, ChatsSame
  <2>. QED  BY <1>1, <2>1, AddHeld DEF LinkAdded, Resumed
<1>2. CASE DownloadFails(t) \/ Delivered(t) \/ ChainEnds(t)
  <2>1. UNCHANGED buttons /\ task[t].pc \in {"download", "deliver", "chain"}
    BY <1>2 DEF DownloadFails, Delivered, ChainEnds, At, ChatsSame
  <2>2. task[t].pc \in HoldingPoints
    BY <2>1 DEF HoldingPoints
  <2>3. \E frame : ProcessNext(t, frame)
    BY <1>2 DEF DownloadFails, Delivered, ChainEnds
  <2>. QED  BY <2>1, <2>2, <2>3, NextHeld
<1>3. CASE DownloadSucceeds(t)
  <2>1. {"download", "deliver"} \subseteq HoldingPoints \ FormatPoints
    BY DEF HoldingPoints, FormatPoints
  <2>2. /\ task[t].pc = "download" /\ buttons' = {} /\ Goto(t, "deliver")
        /\ \A v \in Users : Downloads(v)' = Downloads(v)
    BY <1>3 DEF DownloadSucceeds, At, ChatsSame, HeldInv, PlainPoints, Downloads
  <2>. QED  BY <2>1, <2>2, GotoHeld
<1>4. CASE \/ FormatsShown(t) \/ FormatsMissing(t) \/ FormatsRaise(t) \/ InfoErrorSent(t)
           \/ FormatChosen(t) \/ DownloadRaises(t) \/ RouteFails(t) \/ ChainRaises(t)
  <2>1. task[t].pc \in FormatPoints
    BY <1>4 DEF FormatsShown, FormatsMissing, FormatsRaise, InfoErrorSent, FormatChosen,
                DownloadRaises, RouteFails, ChainRaises, At, InfoPoints, FormatPoints
  <2>. QED  BY <2>1 DEF HeldInv, PlainPoints
<1>. QED  BY <1>1, <1>2, <1>3, <1>4, ArrivalHeld, IdleHeld, ReplyHeld DEF Resume, Chained

LEMMA HeldInvInit == Init => HeldInv
<1>. SUFFICES ASSUME Init PROVE HeldInv
  OBVIOUS
<1>1. PlainPoints
  BY DEF Init, PlainPoints, Idle, HoldingPoints, FormatPoints
<1>2. \A u \in Users : Downloads(u) = <<>>
  BY DEF Init, QueueInit, Downloads
<1>3. \A t \in Tasks, u \in Users : ~Holds(t, u)
  BY DEF Init, Idle, HoldingPoints, Holds
<1>. QED  BY <1>1, <1>2, <1>3, NothingListed DEF HeldInv, HeldOf

\* While a handler has the active download the clock does not pass its time.
LEMMA TickHeld ==
  ASSUME Faults = {}, ProcInv, HeldInv, TimePasses
  PROVE  HeldInv'
<1>1. now' = now + 1 /\ UNCHANGED <<queues, task, buttons>>
  BY DEF TimePasses, ClockTick, procVars
<1>2. PlainPoints'
  BY <1>1 DEF HeldInv, PlainPoints
<1>3. ASSUME NEW u \in Users PROVE HeldOf(u)'
  <2>1. Active(Downloads(u))' = Active(Downloads(u)) /\ \A t \in Tasks : Holds(t, u)' <=> Holds(t, u)
    BY <1>1 DEF Downloads, Holds, Active, With
  <2>2. ASSUME NEW x \in Active(Downloads(u)) PROVE now + 1 - x[2] <= StaleTimeout
    <3>1. PICK i \in With(Downloads(u), "downloading") :
            x = <<Downloads(u)[i].message_id, Downloads(u)[i].started_at>>
      BY DEF Active
    <3>2. \E t \in Tasks : Holds(t, u) /\ task[t].msg = Downloads(u)[i].message_id
      BY <3>1 DEF HeldInv, HeldOf
    <3>3. now - x[2] < StaleTimeout
      BY <3>1, <3>2 DEF TimePasses
    <3>4. now \in Nat /\ x[2] \in Nat /\ StaleTimeout \in Nat
      BY StartTimes, QueueAssumption DEF ProcInv, QueueInv
    <3>. QED  BY <3>3, <3>4
  <2>3. /\ \A t \in Tasks : Holds(t, u) => \E x \in Active(Downloads(u)) : x[1] = task[t].msg
        /\ \A x \in Active(Downloads(u)) : \E t \in Tasks : Holds(t, u) /\ task[t].msg = x[1]
    BY DEF HeldInv, HeldOf
  <2>4. ASSUME NEW x \in Active(Downloads(u))' PROVE now' - x[2] <= StaleTimeout
    <3>1. x \in Active(Downloads(u))
      BY <2>1
    <3>2. now + 1 - x[2] <= StaleTimeout
      BY <2>2, <3>1
    <3>3. now \in Nat /\ x[2] \in Nat /\ StaleTimeout \in Nat
      BY <3>1, StartTimes, QueueAssumption DEF ProcInv, QueueInv
    <3>. QED  BY <1>1, <3>2, <3>3
  <2>5. \A t \in Tasks : Holds(t, u)' => \E x \in Active(Downloads(u))' : x[1] = task'[t].msg
    BY <1>1, <2>1, <2>3
  <2>6. \A x \in Active(Downloads(u))' : \E t \in Tasks : Holds(t, u)' /\ task'[t].msg = x[1]
    BY <1>1, <2>1, <2>3
  <2>. QED  BY <2>4, <2>5, <2>6 DEF HeldOf
<1>. QED  BY <1>2, <1>3 DEF HeldInv

LEMMA HeldInvStep ==
  ASSUME Faults = {}, YoutubeUrls = {}, ProcInv, LinkTakenOnce, HeldInv, [Next]_vars
  PROVE  HeldInv'
<1>1. ASSUME NEW t \in Tasks, Arrival(t) \/ Resume(t) \/ Chained(t), UNCHANGED now
      PROVE  HeldInv'
  BY <1>1, HandlerHeld
<1>2. CASE UNCHANGED <<task, buttons, now>> /\ \A u \in Users : Downloads(u)' = Downloads(u)
  <2>1. PlainPoints'
    BY <1>2 DEF HeldInv, PlainPoints
  <2>2. \A u \in Users : HeldOf(u)'
    <3>1. ASSUME NEW u \in Users PROVE HeldOf(u)'
      <4>1. \A s \in Tasks : /\ Holds(s, u)' <=> Holds(s, u)
                             /\ Holds(s, u) => task'[s].msg = task[s].msg
        BY <1>2 DEF Holds
      <4>. QED  BY <1>2, <4>1, HeldSame DEF HeldInv
    <3>. QED  BY <3>1
  <2>. QED  BY <2>1, <2>2 DEF HeldInv
<1>3. CASE CleanupPass /\ UNCHANGED <<now, epoch>> /\ UNCHANGED procVars
  BY <1>2, <1>3, CleanupLists DEF procVars
<1>4. CASE UNCHANGED vars
  BY <1>2, <1>4 DEF vars, Downloads
<1>5. CASE Restart
  <2>1. PlainPoints'
    BY <1>5 DEF Restart, HeldInv, PlainPoints, Idle, HoldingPoints, FormatPoints
  <2>2. \A u \in Users : Downloads(u)' = <<>>
    BY <1>5 DEF Restart, LoseMemory, Downloads
  <2>3. \A t \in Tasks, u \in Users : ~Holds(t, u)'
    BY <1>5 DEF Restart, Idle, HoldingPoints, Holds
  <2>4. \A u \in Users : Active(Downloads(u))' = {}
    BY <2>2, NothingListed DEF Active, With
  <2>. QED  BY <2>1, <2>3, <2>4 DEF HeldInv, HeldOf
<1>. QED  BY <1>1, <1>3, <1>4, <1>5, TickHeld DEF Next

LEMMA HeldInvImplies ==
  ASSUME QueueInv, LinkTakenOnce, HeldInv
  PROVE  ActiveLinkHeld /\ OneDownloadPerUser
<1>1. ASSUME NEW u \in Users, NEW s \in Tasks, NEW t \in Tasks,
             Transferring(s, u), Transferring(t, u)
      PROVE  s = t
  <2>1. Holds(s, u) /\ Holds(t, u)
    BY <1>1, QueueAssumption DEF Transferring, Holds, HeldInv, PlainPoints, HoldingPoints
  <2>. QED  BY <2>1, SoleHolder
<1>2. ASSUME NEW u \in Users
      PROVE  LET active  == {Downloads(u)[i].message_id : i \in With(Downloads(u), "downloading")}
                 holders == {t \in Tasks : Holds(t, u)}
             IN  /\ {task[t].msg : t \in holders} = active
                 /\ Cardinality(holders) = Cardinality(active)
  <2>. DEFINE active  == {Downloads(u)[i].message_id : i \in With(Downloads(u), "downloading")}
              holders == {t \in Tasks : Holds(t, u)}
  <2>1. ASSUME NEW t \in holders PROVE task[t].msg \in active
    <3>1. PICK x \in Active(Downloads(u)) : x[1] = task[t].msg
      BY DEF HeldInv, HeldOf
    <3>. QED  BY <3>1 DEF Active
  <2>2. ASSUME NEW i \in With(Downloads(u), "downloading")
        PROVE  \E t \in holders : task[t].msg = Downloads(u)[i].message_id
    <3>1. <<Downloads(u)[i].message_id, Downloads(u)[i].started_at>> \in Active(Downloads(u))
      BY DEF Active
    <3>. QED  BY <3>1 DEF HeldInv, HeldOf
  <2>3. {task[t].msg : t \in holders} = active
    BY <2>1, <2>2
  <2>4. CASE holders = {}
    <3>1. active = {}
      BY <2>3, <2>4
    <3>. QED  BY <2>3, <2>4, <3>1
  <2>5. CASE holders # {}
    <3>1. PICK t : t \in holders
      BY <2>5
    <3>2. holders = {t}
      BY <3>1, SoleHolder
    <3>3. active = {task[t].msg}
      BY <2>3, <3>2
    <3>4. Cardinality({t}) = 1 /\ Cardinality({task[t].msg}) = 1
      BY FS_Singleton
    <3>. QED  BY <2>3, <3>2, <3>3, <3>4
  <2>. QED  BY <2>4, <2>5
<1>. QED  BY <1>1, <1>2 DEF ActiveLinkHeld, OneDownloadPerUser

\* The three invariants together, without faults and format buttons.
LEMMA AllHeld ==
  ASSUME Faults = {}, YoutubeUrls = {}
  PROVE  Spec => [](HeldInv /\ QueueInv /\ ActiveLinkHeld /\ OneDownloadPerUser)
<1>1. ProcInv /\ LinkInv /\ HeldInv /\ [Next]_vars => (ProcInv /\ LinkInv /\ HeldInv)'
  BY ProcInvStep, LinkInvStep, LinkInvImplies, HeldInvStep
<1>2. Init => ProcInv /\ LinkInv /\ HeldInv
  BY ProcInvInit, LinkInvInit, HeldInvInit
<1>3. ProcInv /\ LinkInv /\ HeldInv => QueueInv /\ ActiveLinkHeld /\ OneDownloadPerUser
  BY LinkInvImplies, HeldInvImplies DEF ProcInv
<1>. QED  BY <1>1, <1>2, <1>3, PTL DEF Spec

\* Where no call raises, no link holds the queue past its time and no link has
\* format buttons: a busy queue's active download is the link of one handler, which
\* will call get_next, and no handler works on a link of an idle queue.
THEOREM ActiveHeld ==
  ASSUME Faults = {}, YoutubeUrls = {}
  PROVE  Spec => []ActiveLinkHeld
BY AllHeld, PTL

\* Under the same conditions the docstring of UserDownloadQueue is right: "only 1
\* download runs at a time per user", over all the bots the user writes to.
THEOREM OneAtATime ==
  ASSUME Faults = {}, YoutubeUrls = {}
  PROVE  Spec => []OneDownloadPerUser
BY AllHeld, PTL
==============================================================================
