------------------------ MODULE DownloadServiceProofs ------------------------
(***************************************************************************)
(* What DownloadService guarantees for any links, files, qualities, bots   *)
(* and number of requests.  One invariant carries all four properties: it  *)
(* follows a set of file ids from the uploads that made it, through the    *)
(* saving into Redis and the media table, to the request that is answered  *)
(* from there, and says of it wherever it is what Fits says.               *)
(***************************************************************************)
EXTENDS DownloadService, FiniteSetTheorems, WellFoundedInduction, TLAPS

Bots == {a.bot : a \in Asks}
Qualities == {a.quality : a \in Asks}

Items == [link : Links, quality : Qualities, n : Nat \ {0}, kind : Kinds]
FileIds == [item : Items, kind : Kinds, bot : Bots]
Types == Kinds \cup {"album"}

Points ==
  {"idle", "redis", "db", "copy", "download", "storage", "saving", "send", "sendfiles", "end"}

Request ==
  [pc : Points, key : Keys, bot : Bots, files : SUBSET Items, empty : SUBSET Items,
   stuck : SUBSET Items, ids : SUBSET FileIds,
   type : Types, hit : BOOLEAN, told : {"none", "ok", "failed"}]

Saving ==
  [pc : {"idle", "redis", "row", "commit", "end"}, key : Keys, ids : SUBSET FileIds,
   type : Types, row : Requests \cup {NoRow}]

Entries == [key : Keys, ids : SUBSET FileIds, type : Types]

Rows == [key : Keys, id : FileIds, type : Types, by : Requests]

\* The places of the files behind a key, and of those that ids stand for.
Places(k) == {i.n : i \in Behind(k)}
PlacesOf(ids) == {i.item.n : i \in ids}

\* What is known of ids under a key and a stored type: they are of the link and, if
\* one was asked for, of the quality; one that is alone has a kind that the stored
\* type leads to, unless files were sent again; none is missing, unless not every
\* file of the link reached the cache.
Fits(ids, key, type, past) ==
  /\ \A i \in ids : i.item.link = key.link /\ (key.quality # Any => i.item.quality = key.quality)
  /\ "resent" \notin past /\ Cardinality(ids) = 1 => \A i \in ids : i.kind \in Ladder(type)
  /\ "partial" \in past \/ PlacesOf(ids) = Places(key)

GoodRequest(q, past) ==
  /\ q \in Request
  /\ q.pc \in {"copy", "send", "saving"} => Fits(q.ids, q.key, q.type, past)
  /\ q.hit => q.pc \in {"copy", "send"} /\ q.files = {}
  /\ q.pc = "storage" => q.files = Behind(q.key) /\ q.ids = {}
  /\ q.pc \in {"saving", "send", "sendfiles"} => q.files \subseteq Behind(q.key)
  /\ q.pc = "send" => q.files \subseteq q.stuck
  /\ q.pc = "sendfiles" => q.ids = {} \/ "resent" \in past
  /\ q.pc \in {"redis", "db", "copy", "download"} => q.files = {}
  /\ q.pc \in {"redis", "db", "download"} => q.ids = {}
  /\ q.told = "ok" => q.pc = "end" /\ q.files \subseteq q.empty \cup q.stuck

GoodSaving(s, past) ==
  /\ s \in Saving
  /\ s.pc \in {"redis", "row", "commit"} =>
       Fits(s.ids, s.key, s.type, past) /\ IsFiniteSet(s.ids) /\ s.ids # {}
  /\ s.pc = "commit" => Cardinality(s.ids) = 1

GoodEntry(e, past) == e \in Entries /\ Fits(e.ids, e.key, e.type, past)

GoodRow(w, past) == w \in Rows /\ Fits({w.id}, w.key, w.type, past)

RequestsGood == request \in [Requests -> Request] /\ \A r \in Requests : GoodRequest(request[r], mishaps)
SavingGood == saving \in [Requests -> Saving] /\ \A r \in Requests : GoodSaving(saving[r], mishaps)
RedisGood == \A e \in redis : GoodEntry(e, mishaps)
RowsGood == \A w \in rows : GoodRow(w, mishaps)

CacheInv == link \in Links /\ RequestsGood /\ SavingGood /\ RedisGood /\ RowsGood

SameFiles(n, q) == n.files = q.files /\ n.empty = q.empty /\ n.stuck = q.stuck

-----------------------------------------------------------------------------
(* The files behind a key *)

LEMMA FilesBehind ==
  ASSUME NEW k \in Keys
  PROVE  /\ Behind(k) \subseteq Items /\ IsFiniteSet(Behind(k)) /\ Behind(k) # {}
         /\ \A i \in Behind(k) : i.link = k.link /\ i.quality = k.quality
         /\ \A i, j \in Behind(k) : i.n = j.n => i = j
         /\ \E i \in Behind(k) : \A j \in Behind(k) : i.n <= j.n
<1> DEFINE places == IF k.quality = "audio" THEN {1} ELSE DOMAIN KindsOf[k.link]
           files == [n \in places |-> Item(k, n)]
<1>1. k.link \in Links /\ k.quality \in Qualities
  BY DEF Keys, Links, Qualities
<1>2. KindsOf[k.link] \in Seq(Kinds) /\ KindsOf[k.link] # <<>>
  BY <1>1, AsksAssumption
<1>3. /\ Len(KindsOf[k.link]) \in Nat \ {0} /\ DOMAIN KindsOf[k.link] = 1..Len(KindsOf[k.link])
      /\ \A n \in DOMAIN KindsOf[k.link] : KindsOf[k.link][n] \in Kinds
  BY <1>2
<1>4. IsFiniteSet(places) /\ places \subseteq Nat \ {0} /\ 1 \in places /\ \A n \in places : 1 <= n
  <2>1. IsFiniteSet({1}) /\ IsFiniteSet(1..Len(KindsOf[k.link]))
    <3>1. Len(KindsOf[k.link]) \in Int /\ 1 \in Int
      BY <1>3
    <3> QED BY <3>1, FS_Interval, FS_Singleton
  <2>2. CASE k.quality = "audio"
    <3>1. places = {1}
      BY <2>2
    <3> QED BY <2>1, <3>1
  <2>3. CASE k.quality # "audio"
    <3>1. places = 1..Len(KindsOf[k.link])
      BY <1>3, <2>3
    <3> QED BY <1>3, <2>1, <3>1
  <2> QED BY <2>2, <2>3
<1>5. \A n \in places : /\ Item(k, n) \in Items /\ Item(k, n).n = n
                        /\ Item(k, n).link = k.link /\ Item(k, n).quality = k.quality
  BY <1>1, <1>3, <1>4 DEF Item, Items, Kinds
<1>6. Behind(k) = {Item(k, n) : n \in places}
  BY DEF Behind
<1>7. IsFiniteSet(Behind(k))
  <2>1. files \in [places -> Behind(k)] /\ \A i \in Behind(k) : \E n \in places : files[n] = i
    BY <1>6
  <2> HIDE DEF files, places
  <2>2. files \in Surjection(places, Behind(k))
    BY <2>1 DEF Surjection
  <2> QED BY <1>4, <2>2, FS_Surjection
<1> HIDE DEF places
<1> QED BY <1>4, <1>5, <1>6, <1>7

\* Without the audio, or with one file, every quality has the same places.
LEMMA SamePlaces ==
  ASSUME NEW k \in Keys, NEW j \in Keys, j.link = k.link
  PROVE  Places(j) = Places(k)
<1>1. /\ KindsOf[k.link] \in Seq(Kinds)
      /\ k.quality = "audio" \/ j.quality = "audio" => Len(KindsOf[k.link]) = 1
  BY AsksAssumption DEF Keys, Links
<1>2. \A l \in {j, k} :
        Places(l) = IF l.quality = "audio" THEN {1} ELSE DOMAIN KindsOf[l.link]
  <2> SUFFICES ASSUME NEW l \in {j, k}
               PROVE  Places(l) = IF l.quality = "audio" THEN {1} ELSE DOMAIN KindsOf[l.link]
    OBVIOUS
  <2> DEFINE places == IF l.quality = "audio" THEN {1} ELSE DOMAIN KindsOf[l.link]
  <2>1. Behind(l) = {Item(l, n) : n \in places}
    BY DEF Behind
  <2> HIDE DEF places
  <2>2. \A n \in places : Item(l, n).n = n
    BY DEF Item
  <2>3. Places(l) = places
    BY <2>1, <2>2 DEF Places
  <2> QED BY <2>3 DEF places
<1>3. k.quality = "audio" \/ j.quality = "audio" => DOMAIN KindsOf[k.link] = {1}
  BY <1>1
<1> QED BY <1>2, <1>3

LEMMA FitsLonger ==
  ASSUME NEW ids, NEW key, NEW type, NEW less, NEW more, less \subseteq more,
         Fits(ids, key, type, less)
  PROVE  Fits(ids, key, type, more)
BY DEF Fits

-----------------------------------------------------------------------------
(* Requests and savings, one changed *)

LEMMA RequestsKept ==
  ASSUME CacheInv, NEW r \in Requests, NEW q, Set(r, q), GoodRequest(q, mishaps'),
         mishaps \subseteq mishaps'
  PROVE  RequestsGood'
<1>1. \A s \in Requests : GoodRequest(request[s], mishaps')
  BY FitsLonger DEF CacheInv, RequestsGood, GoodRequest
<1>2. \A s \in Requests : request'[s] = IF s = r THEN q ELSE request[s]
  BY DEF Set, CacheInv, RequestsGood
<1>3. request' \in [Requests -> Request]
  BY DEF Set, CacheInv, RequestsGood, GoodRequest
<1> QED BY <1>1, <1>2, <1>3 DEF RequestsGood

LEMMA SavingKept ==
  ASSUME CacheInv, NEW r \in Requests, NEW s, SetSaving(r, s), GoodSaving(s, mishaps'),
         mishaps \subseteq mishaps'
  PROVE  SavingGood'
<1>1. \A t \in Requests : GoodSaving(saving[t], mishaps')
  BY FitsLonger DEF CacheInv, SavingGood, GoodSaving
<1>2. \A t \in Requests : saving'[t] = IF t = r THEN s ELSE saving[t]
  BY DEF SetSaving, CacheInv, SavingGood
<1>3. saving' \in [Requests -> Saving]
  BY DEF SetSaving, CacheInv, SavingGood, GoodSaving
<1> QED BY <1>1, <1>2, <1>3 DEF SavingGood

LEMMA TheRestKept ==
  ASSUME CacheInv, mishaps \subseteq mishaps'
  PROVE  /\ request' = request => RequestsGood'
         /\ saving' = saving => SavingGood'
         /\ redis' \subseteq redis => RedisGood'
         /\ rows' \subseteq rows => RowsGood'
<1>1. \A r \in Requests : GoodRequest(request[r], mishaps') /\ GoodSaving(saving[r], mishaps')
  BY FitsLonger DEF CacheInv, RequestsGood, GoodRequest, SavingGood, GoodSaving
<1>2. \A e \in redis : GoodEntry(e, mishaps')
  BY FitsLonger DEF CacheInv, RedisGood, GoodEntry
<1>3. \A w \in rows : GoodRow(w, mishaps')
  BY FitsLonger DEF CacheInv, RowsGood, GoodRow
<1> QED BY <1>1, <1>2, <1>3 DEF CacheInv, RequestsGood, SavingGood, RedisGood, RowsGood

LEMMA CacheMediaKept ==
  ASSUME CacheInv, NEW k \in Keys, NEW ids \in SUBSET FileIds, NEW type \in Types,
         Fits(ids, k, type, mishaps), mishaps' = mishaps, CacheMedia(k, ids, type)
  PROVE  RedisGood'
<1> DEFINE e == [key |-> k, ids |-> ids, type |-> type]
<1>1. e \in Entries /\ e.key = k /\ e.ids = ids /\ e.type = type
  BY DEF Entries
<1>2. redis' \subseteq redis \cup {e}
  BY DEF CacheMedia, MediaKey
<1> HIDE DEF e
<1>3. GoodEntry(e, mishaps)
  BY <1>1 DEF GoodEntry
<1> QED BY <1>2, <1>3 DEF CacheInv, RedisGood

\* A request that goes on, with all its data or with an answer.
LEMMA GoesOn ==
  ASSUME NEW q \in Request, NEW pc \in Points
  PROVE  LET n == [q EXCEPT !.pc = pc]
         IN  /\ n \in Request /\ n.pc = pc /\ n.ids = q.ids /\ n.type = q.type /\ n.hit = q.hit
             /\ n.key = q.key /\ SameFiles(n, q) /\ n.told = q.told
BY DEF Request, SameFiles

WithIds(q, pc, ids, type) == [q EXCEPT !.pc = pc, !.ids = ids, !.type = type]

Found(q, pc, ids, type) == [q EXCEPT !.pc = pc, !.ids = ids, !.type = type, !.hit = TRUE]

Missed(q) == [q EXCEPT !.pc = "download", !.ids = {}, !.type = "video", !.hit = FALSE]

LEMMA GoesOnWithIds ==
  ASSUME NEW q \in Request, NEW pc \in Points, NEW ids \in SUBSET FileIds, NEW type \in Types
  PROVE  LET n == WithIds(q, pc, ids, type)
         IN  /\ n \in Request /\ n.pc = pc /\ n.ids = ids /\ n.type = type /\ n.hit = q.hit
             /\ n.key = q.key /\ SameFiles(n, q) /\ n.told = q.told
<1> DEFINE a == [q EXCEPT !.pc = pc]
           b == [a EXCEPT !.ids = ids]
           c == [b EXCEPT !.type = type]
<1>1. /\ a \in Request /\ a.pc = pc /\ a.hit = q.hit
      /\ a.key = q.key /\ SameFiles(a, q) /\ a.told = q.told
  BY DEF Request, SameFiles
<1>2. WithIds(q, pc, ids, type) = c
  BY DEF WithIds
<1> HIDE DEF a
<1>3. /\ b \in Request /\ b.pc = pc /\ b.hit = q.hit /\ b.ids = ids
      /\ b.key = q.key /\ SameFiles(b, q) /\ b.told = q.told
  BY <1>1 DEF Request, SameFiles
<1> HIDE DEF b
<1>4. /\ c \in Request /\ c.pc = pc /\ c.hit = q.hit /\ c.ids = ids /\ c.type = type
      /\ c.key = q.key /\ SameFiles(c, q) /\ c.told = q.told
  BY <1>3 DEF Request, SameFiles
<1> HIDE DEF c
<1> QED BY <1>2, <1>4

LEMMA GoesOnFound ==
  ASSUME NEW q \in Request, NEW pc \in Points, NEW ids \in SUBSET FileIds, NEW type \in Types
  PROVE  LET n == Found(q, pc, ids, type)
         IN  /\ n \in Request /\ n.pc = pc /\ n.ids = ids /\ n.type = type
             /\ n.key = q.key /\ SameFiles(n, q) /\ n.told = q.told
<1> DEFINE n == WithIds(q, pc, ids, type)
<1>1. Found(q, pc, ids, type) = [n EXCEPT !.hit = TRUE]
  BY DEF Found, WithIds
<1>2. /\ n \in Request /\ n.pc = pc /\ n.ids = ids /\ n.type = type
      /\ n.key = q.key /\ SameFiles(n, q) /\ n.told = q.told
  BY GoesOnWithIds
<1> HIDE DEF n
<1>3. LET m == [n EXCEPT !.hit = TRUE]
      IN  /\ m \in Request /\ m.pc = n.pc /\ m.ids = n.ids /\ m.type = n.type
          /\ m.key = n.key /\ SameFiles(m, n) /\ m.told = n.told
  BY <1>2 DEF Request, SameFiles
<1> QED BY <1>1, <1>2, <1>3 DEF SameFiles

LEMMA GoesOnMissed ==
  ASSUME NEW q \in Request
  PROVE  LET n == Missed(q)
         IN  /\ n \in Request /\ n.pc = "download" /\ ~n.hit /\ n.ids = {}
             /\ n.key = q.key /\ SameFiles(n, q) /\ n.told = q.told
<1> DEFINE n == WithIds(q, "download", {}, "video")
<1>1. Missed(q) = [n EXCEPT !.hit = FALSE]
  BY DEF Missed, WithIds
<1>2. "download" \in Points /\ {} \in SUBSET FileIds /\ "video" \in Types
  BY DEF Points, Types, Kinds
<1>3. /\ n \in Request /\ n.pc = "download" /\ n.ids = {} /\ n.key = q.key
      /\ SameFiles(n, q) /\ n.told = q.told
  BY <1>2, GoesOnWithIds
<1> HIDE DEF n
<1>4. LET m == [n EXCEPT !.hit = FALSE]
      IN  /\ m \in Request /\ m.pc = n.pc /\ ~m.hit /\ m.ids = n.ids
          /\ m.key = n.key /\ SameFiles(m, n) /\ m.told = n.told
  BY <1>3 DEF Request, SameFiles
<1> QED BY <1>1, <1>3, <1>4 DEF SameFiles

LEMMA IdleIsGood ==
  ASSUME link \in Links
  PROVE  /\ Idle \in Request /\ Idle.pc = "idle" /\ ~Idle.hit /\ Idle.files = {}
         /\ Idle.ids = {} /\ Idle.told = "none"
         /\ NotSaving \in Saving /\ NotSaving.pc = "idle"
<1>1. NoKey \in Keys /\ (CHOOSE b \in {a.bot : a \in Asks} : TRUE) \in Bots
  BY DEF NoKey, Keys, Bots, Links
<1> QED BY <1>1 DEF Idle, NotSaving, Request, Saving, Points, Types, Kinds

\* The answer: nothing of a request is left but the files it did not delete.
LEMMA Told ==
  ASSUME CacheInv, NEW r \in Requests, NEW q, NEW told \in {"ok", "failed"},
         q.files \in SUBSET Items, q.empty \in SUBSET Items, q.stuck \in SUBSET Items,
         told = "ok" => q.files \subseteq q.empty \cup q.stuck,
         Tell(r, q, told), mishaps \subseteq mishaps'
  PROVE  RequestsGood'
<1> DEFINE a == [Idle EXCEPT !.pc = "end"]
           b == [a EXCEPT !.told = told]
           d == [b EXCEPT !.files = q.files]
           e == [d EXCEPT !.empty = q.empty]
           c == [e EXCEPT !.stuck = q.stuck]
<1>1. a \in Request /\ a.pc = "end" /\ ~a.hit
  BY IdleIsGood DEF CacheInv, Request, Points
<1>2. [Idle EXCEPT !.pc = "end", !.told = told, !.files = q.files,
                   !.empty = q.empty, !.stuck = q.stuck] = c
  OBVIOUS
<1> HIDE DEF a
<1>3. b \in Request /\ b.pc = "end" /\ ~b.hit /\ b.told = told
  BY <1>1 DEF Request
<1> HIDE DEF b
<1>4. /\ c \in Request /\ c.pc = "end" /\ ~c.hit /\ c.told = told
      /\ c.files = q.files /\ c.empty = q.empty /\ c.stuck = q.stuck
  <2>1. d \in Request /\ d.pc = "end" /\ ~d.hit /\ d.told = told /\ d.files = q.files
    BY <1>3 DEF Request
  <2> HIDE DEF d
  <2>2. /\ e \in Request /\ e.pc = "end" /\ ~e.hit /\ e.told = told
        /\ e.files = q.files /\ e.empty = q.empty
    BY <2>1 DEF Request
  <2> HIDE DEF e
  <2> QED BY <2>2 DEF Request
<1> HIDE DEF c
<1>5. GoodRequest(c, mishaps')
  BY <1>4 DEF GoodRequest
<1>6. Set(r, c)
  BY <1>2 DEF Tell
<1> QED BY <1>5, <1>6, RequestsKept

-----------------------------------------------------------------------------
(* download(), up to the downloader *)

LEMMA AskKept ==
  ASSUME CacheInv, NEW r \in Requests, Ask(r)
  PROVE  CacheInv'
<1>1. PICK a \in Asks :
        /\ a.link = link
        /\ Set(r, [Idle EXCEPT !.pc = "redis", !.bot = a.bot,
                               !.key = [link |-> a.link, quality |-> a.quality]])
  BY DEF Ask
<1> DEFINE key == [link |-> a.link, quality |-> a.quality]
           x == [Idle EXCEPT !.pc = "redis"]
           y == [x EXCEPT !.bot = a.bot]
           z == [y EXCEPT !.key = key]
<1>2. key \in Keys /\ a.bot \in Bots
  BY DEF Keys, Bots
<1>3. Idle \in Request /\ ~Idle.hit /\ Idle.files = {} /\ Idle.ids = {} /\ Idle.told = "none"
  BY IdleIsGood DEF CacheInv
<1>4. x \in Request /\ x.pc = "redis" /\ ~x.hit /\ x.files = {} /\ x.ids = {} /\ x.told = "none"
  BY <1>3 DEF Request, Points
<1>5. [Idle EXCEPT !.pc = "redis", !.bot = a.bot, !.key = key] = z
  OBVIOUS
<1> HIDE DEF key, x
<1>6. y \in Request /\ y.pc = "redis" /\ ~y.hit /\ y.files = {} /\ y.ids = {} /\ y.told = "none"
  BY <1>2, <1>4 DEF Request
<1> HIDE DEF y
<1>7. z \in Request /\ z.pc = "redis" /\ ~z.hit /\ z.files = {} /\ z.ids = {} /\ z.told = "none"
  BY <1>2, <1>6 DEF Request
<1> HIDE DEF z
<1>8. Set(r, z)
  BY <1>1, <1>5 DEF key
<1>9. GoodRequest(z, mishaps')
  BY <1>7 DEF GoodRequest
<1>10. CacheUnchanged /\ mishaps \subseteq mishaps'
  BY DEF Ask, CacheUnchanged
<1> QED BY <1>8, <1>9, <1>10, RequestsKept, TheRestKept DEF CacheInv, CacheUnchanged

\* The steps of a request that touch nothing else.
LEMMA RequestStep ==
  ASSUME CacheInv, NEW r \in Requests, CacheUnchanged, NEW q, Set(r, q), GoodRequest(q, mishaps)
  PROVE  CacheInv'
<1>1. mishaps' = mishaps
  BY DEF CacheUnchanged
<1> QED BY <1>1, RequestsKept, TheRestKept DEF CacheInv, CacheUnchanged

LEMMA AnswerStep ==
  ASSUME CacheInv, NEW r \in Requests, NEW told \in {"ok", "failed"},
         told = "ok" => request[r].files \subseteq request[r].empty \cup request[r].stuck,
         Tell(r, request[r], told), CacheUnchanged
  PROVE  CacheInv'
<1>1. mishaps' = mishaps
  BY DEF CacheUnchanged
<1>2. /\ request[r].files \in SUBSET Items /\ request[r].empty \in SUBSET Items
      /\ request[r].stuck \in SUBSET Items
  BY DEF CacheInv, RequestsGood, Request
<1> QED BY <1>1, <1>2, Told, TheRestKept DEF CacheInv, CacheUnchanged

LEMMA GoodNow ==
  ASSUME CacheInv, NEW r \in Requests
  PROVE  /\ GoodRequest(request[r], mishaps) /\ request[r] \in Request /\ Key(r) \in Keys
         /\ request[r].files \in SUBSET Items /\ request[r].empty \in SUBSET Items
         /\ request[r].stuck \in SUBSET Items
         /\ GoodSaving(saving[r], mishaps) /\ saving[r] \in Saving
BY DEF CacheInv, RequestsGood, SavingGood, GoodRequest, GoodSaving, Key, Request

LEMMA LookInRedisKept ==
  ASSUME CacheInv, NEW r \in Requests, LookInRedis(r)
  PROVE  CacheInv'
<1> DEFINE q == request[r]
<1>1. q \in Request /\ GoodRequest(q, mishaps) /\ q.pc = "redis" /\ CacheUnchanged
  BY GoodNow DEF LookInRedis, At
<1>2. CASE Goto(r, "db")
  <2> DEFINE n == [q EXCEPT !.pc = "db"]
  <2>1. n \in Request /\ n.pc = "db" /\ n.hit = q.hit /\ n.ids = q.ids
       /\ SameFiles(n, q) /\ n.told = q.told
    BY <1>1, GoesOn DEF Points
  <2>2. GoodRequest(n, mishaps)
    BY <1>1, <2>1 DEF GoodRequest, SameFiles
  <2> QED BY <1>1, <1>2, <2>2, RequestStep DEF Goto
<1>3. CASE \E e \in Cached(Key(r)) :
             Set(r, [q EXCEPT !.pc = "send", !.ids = e.ids, !.type = e.type, !.hit = TRUE])
  <2>1. PICK e \in Cached(Key(r)) :
          Set(r, [q EXCEPT !.pc = "send", !.ids = e.ids, !.type = e.type, !.hit = TRUE])
    BY <1>3
  <2>2. e.key = q.key /\ GoodEntry(e, mishaps)
    BY DEF Cached, MediaKey, Key, CacheInv, RedisGood
  <2>3. e.ids \in SUBSET FileIds /\ e.type \in Types
    BY <2>2 DEF GoodEntry, Entries
  <2> DEFINE n == Found(q, "send", e.ids, e.type)
  <2>4. /\ n \in Request /\ n.pc = "send" /\ n.ids = e.ids /\ n.type = e.type
        /\ n.key = q.key /\ SameFiles(n, q) /\ n.told = q.told
    BY <1>1, <2>3, GoesOnFound DEF Points
  <2> HIDE DEF n
  <2>5. GoodRequest(n, mishaps)
    BY <1>1, <2>2, <2>4 DEF GoodRequest, SameFiles, GoodEntry
  <2> QED BY <1>1, <2>1, <2>5, RequestStep DEF n, Found
<1> QED BY <1>2, <1>3 DEF LookInRedis

\* A row answers a request for its link: it fits whatever quality was asked for.
LEMMA RowFits ==
  ASSUME CacheInv, NEW k \in Keys, NEW w \in FindCached(k)
  PROVE  Fits({w.id}, k, w.type, mishaps) /\ w.id \in FileIds /\ w.type \in Types
<1>1. GoodRow(w, mishaps) /\ w.key \in Keys /\ w.key.link = k.link
  BY DEF FindCached, CacheInv, RowsGood, GoodRow, Rows
<1>2. Places(w.key) = Places(k)
  BY <1>1, SamePlaces
<1> QED BY <1>1, <1>2 DEF FindCached, GoodRow, Fits, Rows

LEMMA LookInDbKept ==
  ASSUME CacheInv, NEW r \in Requests, LookInDb(r)
  PROVE  CacheInv'
<1> DEFINE q == request[r]
<1>1. /\ q \in Request /\ GoodRequest(q, mishaps) /\ q.pc = "db" /\ CacheUnchanged
      /\ q.key \in Keys /\ q.key = Key(r)
  BY GoodNow DEF LookInDb, At, Key
<1>2. CASE Goto(r, "download")
  <2> DEFINE n == [q EXCEPT !.pc = "download"]
  <2>1. n \in Request /\ n.pc = "download" /\ n.hit = q.hit /\ n.ids = q.ids
       /\ SameFiles(n, q) /\ n.told = q.told
    BY <1>1, GoesOn DEF Points
  <2>2. GoodRequest(n, mishaps)
    BY <1>1, <2>1 DEF GoodRequest, SameFiles
  <2> QED BY <1>1, <1>2, <2>2, RequestStep DEF Goto
<1>3. CASE \E w \in FindCached(Key(r)) :
             Set(r, [q EXCEPT !.pc = "copy", !.ids = {w.id}, !.type = w.type, !.hit = TRUE])
  <2>1. PICK w \in FindCached(Key(r)) :
          Set(r, [q EXCEPT !.pc = "copy", !.ids = {w.id}, !.type = w.type, !.hit = TRUE])
    BY <1>3
  <2>2. Fits({w.id}, q.key, w.type, mishaps) /\ {w.id} \in SUBSET FileIds /\ w.type \in Types
    BY <1>1, RowFits
  <2> DEFINE n == Found(q, "copy", {w.id}, w.type)
  <2>3. /\ n \in Request /\ n.pc = "copy" /\ n.ids = {w.id} /\ n.type = w.type
        /\ n.key = q.key /\ SameFiles(n, q) /\ n.told = q.told
    BY <1>1, <2>2, GoesOnFound DEF Points
  <2> HIDE DEF n
  <2>4. GoodRequest(n, mishaps)
    BY <1>1, <2>2, <2>3 DEF GoodRequest, SameFiles
  <2> QED BY <1>1, <2>1, <2>4, RequestStep DEF n, Found
<1> QED BY <1>2, <1>3 DEF LookInDb

LEMMA CopyKept ==
  ASSUME CacheInv, NEW r \in Requests, CopyToRedis(r) \/ CheckFails(r)
  PROVE  CacheInv'
<1> DEFINE q == request[r]
<1>1. /\ q \in Request /\ GoodRequest(q, mishaps) /\ q.key = Key(r) /\ Key(r) \in Keys
      /\ q.pc \in {"db", "copy"} /\ UNCHANGED <<link, saving, rows, mishaps>>
  BY GoodNow DEF CopyToRedis, CheckFails, At, Key
<1>2. mishaps' = mishaps /\ mishaps \subseteq mishaps'
  BY <1>1
<1>3. RedisGood'
  <2>1. CASE redis' = redis
    BY <1>2, <2>1, TheRestKept
  <2>2. CASE q.pc = "copy" /\ CacheMedia(Key(r), q.ids, q.type)
    <3>1. Fits(q.ids, Key(r), q.type, mishaps)
      BY <1>1, <2>2 DEF GoodRequest, SameFiles
    <3>2. q.ids \in SUBSET FileIds /\ q.type \in Types
      BY <1>1 DEF Request
    <3> QED BY <1>1, <1>2, <2>2, <3>1, <3>2, CacheMediaKept
  <2> QED BY <2>1, <2>2 DEF CopyToRedis, CheckFails, At
<1>4. RequestsGood'
  <2>1. CASE CopyToRedis(r)
    <3> DEFINE n == [q EXCEPT !.pc = "send"]
    <3>1. q.pc = "copy" /\ Set(r, n)
      BY <2>1 DEF CopyToRedis, At, Goto
    <3>2. /\ n \in Request /\ n.pc = "send" /\ n.ids = q.ids /\ n.type = q.type
          /\ n.key = q.key /\ SameFiles(n, q) /\ n.told = q.told
      BY <1>1, GoesOn DEF Points
    <3> HIDE DEF n
    <3>3. GoodRequest(n, mishaps')
      BY <1>1, <1>2, <3>1, <3>2 DEF GoodRequest, SameFiles
    <3> QED BY <1>2, <3>1, <3>3, RequestsKept
  <2>2. CASE CheckFails(r)
    <3> DEFINE n == Missed(q)
    <3>1. Set(r, n)
      BY <2>2 DEF CheckFails, Missed
    <3>2. /\ n \in Request /\ n.pc = "download" /\ ~n.hit /\ n.ids = {}
          /\ n.key = q.key /\ SameFiles(n, q) /\ n.told = q.told
      BY <1>1, GoesOnMissed
    <3> HIDE DEF n
    <3>3. GoodRequest(n, mishaps')
      BY <1>1, <3>2 DEF GoodRequest, SameFiles
    <3> QED BY <1>2, <3>1, <3>3, RequestsKept
  <2> QED BY <2>1, <2>2
<1> QED BY <1>1, <1>2, <1>3, <1>4, TheRestKept DEF CacheInv

-----------------------------------------------------------------------------
(* download(), from the downloader on, and send_to_user *)

LEMMA AnswersKept ==
  ASSUME CacheInv, NEW r \in Requests, CacheUnchanged,
         \/ Tell(r, request[r], "failed")
         \/ At(r, "send") /\ Tell(r, request[r], "ok")
  PROVE  CacheInv'
<1>1. CASE Tell(r, request[r], "failed")
  BY <1>1, AnswerStep
<1>2. CASE At(r, "send") /\ Tell(r, request[r], "ok")
  <2>1. request[r].files \subseteq request[r].stuck
    BY <1>2, GoodNow DEF GoodRequest, At
  <2> QED BY <1>2, <2>1, AnswerStep
<1> QED BY <1>1, <1>2

LEMMA RateLimitedKept ==
  ASSUME CacheInv, NEW r \in Requests, RateLimited(r)
  PROVE  CacheInv'
BY AnswersKept DEF RateLimited

LEMMA SendIdsKept ==
  ASSUME CacheInv, NEW r \in Requests, SendIds(r)
  PROVE  CacheInv'
BY AnswersKept DEF SendIds

LEMMA SendFilesRefusedKept ==
  ASSUME CacheInv, NEW r \in Requests, SendFilesRefused(r)
  PROVE  CacheInv'
BY AnswersKept DEF SendFilesRefused

\* Telegram refuses: an answer, or the files that are left are sent.
LEMMA RefusedKept ==
  ASSUME CacheInv, NEW r \in Requests, SendIdsRefused(r)
  PROVE  CacheInv'
<1> DEFINE q == request[r]
           n == [q EXCEPT !.pc = "sendfiles"]
<1>1. q \in Request /\ GoodRequest(q, mishaps) /\ q.pc = "send" /\ UNCHANGED <<link, saving, redis, rows>>
  BY GoodNow DEF SendIdsRefused, At
<1>2. CASE q.files # {} /\ Set(r, n) /\ mishaps' = mishaps \cup {"resent"}
  <2>1. /\ n \in Request /\ n.pc = "sendfiles" /\ n.hit = q.hit /\ n.key = q.key
        /\ SameFiles(n, q) /\ n.told = q.told /\ n.ids = q.ids /\ n.type = q.type
    BY <1>1, GoesOn DEF Points
  <2> HIDE DEF n
  <2>2. GoodRequest(n, mishaps')
    BY <1>1, <1>2, <2>1 DEF GoodRequest, SameFiles
  <2> QED BY <1>1, <1>2, <2>2, RequestsKept, TheRestKept DEF CacheInv
<1>3. CASE /\ mishaps' = mishaps
           /\ \/ Tell(r, request[r], "failed")
              \/ At(r, "send") /\ Tell(r, request[r], "ok")
  BY <1>1, <1>3, AnswersKept DEF CacheUnchanged
<1> QED BY <1>2, <1>3 DEF SendIdsRefused, Goto

LEMMA DownloadKept ==
  ASSUME CacheInv, NEW r \in Requests, Download(r)
  PROVE  CacheInv'
<1> DEFINE q == request[r]
<1>1. /\ q \in Request /\ GoodRequest(q, mishaps) /\ q.pc = "download" /\ CacheUnchanged
      /\ q.key \in Keys /\ q.key = Key(r)
  BY GoodNow DEF Download, At, Key
<1>2. ASSUME NEW empty \in SUBSET Behind(q.key),
             Set(r, [q EXCEPT !.pc = "storage", !.files = Behind(q.key), !.empty = empty])
      PROVE  CacheInv'
  <2> DEFINE a == [q EXCEPT !.pc = "storage"]
             b == [a EXCEPT !.files = Behind(q.key)]
             n == [b EXCEPT !.empty = empty]
  <2>1. Behind(q.key) \subseteq Items
    BY <1>1, FilesBehind
  <2>2. Set(r, n)
    BY <1>2
  <2>3. /\ a \in Request /\ a.pc = "storage" /\ a.hit = q.hit /\ a.key = q.key
        /\ a.told = q.told /\ a.ids = q.ids
    BY <1>1, GoesOn DEF Points
  <2> HIDE DEF a
  <2>4. /\ b \in Request /\ b.pc = "storage" /\ b.hit = q.hit /\ b.key = q.key
        /\ b.told = q.told /\ b.ids = q.ids /\ b.files = Behind(q.key)
    BY <2>1, <2>3 DEF Request
  <2> HIDE DEF b
  <2>5. /\ n \in Request /\ n.pc = "storage" /\ n.hit = q.hit /\ n.key = q.key
        /\ n.told = q.told /\ n.ids = q.ids /\ n.files = Behind(q.key)
    BY <2>1, <2>4 DEF Request
  <2> HIDE DEF n
  <2>6. GoodRequest(n, mishaps)
    BY <1>1, <2>5 DEF GoodRequest
  <2> QED BY <1>1, <2>2, <2>6, RequestStep
<1> QED BY <1>1, <1>2, AnswersKept DEF Download

LEMMA NotStoredKept ==
  ASSUME CacheInv, NEW r \in Requests, NotStored(r)
  PROVE  CacheInv'
<1> DEFINE q == request[r]
           n == [q EXCEPT !.pc = "sendfiles"]
<1>1. q \in Request /\ GoodRequest(q, mishaps) /\ q.pc = "storage" /\ CacheUnchanged /\ Set(r, n)
  BY GoodNow DEF NotStored, At, Goto
<1>2. /\ n \in Request /\ n.pc = "sendfiles" /\ n.hit = q.hit /\ n.key = q.key /\ n.ids = q.ids
      /\ SameFiles(n, q) /\ n.told = q.told
  BY <1>1, GoesOn DEF Points
<1> HIDE DEF n
<1>3. GoodRequest(n, mishaps)
  BY <1>1, <1>2 DEF GoodRequest, SameFiles
<1> QED BY <1>1, <1>3, RequestStep

\* What the uploads of some files leave to be saved.
LEMMA UploadsFit ==
  ASSUME NEW k \in Keys, NEW up \in SUBSET Behind(k), up # {}, NEW bot \in Bots,
         NEW past, up = Behind(k) \/ "partial" \in past
  PROVE  LET ids == {Id(i, i.kind, bot) : i \in up}
             type == IF Cardinality(up) = 1 THEN (CHOOSE i \in up : TRUE).kind ELSE "album"
         IN  /\ ids \in SUBSET FileIds /\ type \in Types /\ IsFiniteSet(ids) /\ ids # {}
             /\ Fits(ids, k, type, past)
<1> DEFINE ids == {Id(i, i.kind, bot) : i \in up}
           type == IF Cardinality(up) = 1 THEN (CHOOSE i \in up : TRUE).kind ELSE "album"
           made == [i \in up |-> Id(i, i.kind, bot)]
<1>1. /\ up \subseteq Items /\ IsFiniteSet(up)
      /\ \A i \in up : i.link = k.link /\ i.quality = k.quality
  BY FilesBehind, FS_Subset
<1>2. \A i \in up : /\ Id(i, i.kind, bot) \in FileIds /\ Id(i, i.kind, bot).item = i
                    /\ Id(i, i.kind, bot).kind = i.kind
  BY <1>1 DEF Id, FileIds, Items
<1>3. IsFiniteSet(ids) /\ ids # {}
  <2>1. made \in [up -> ids] /\ \A i \in ids : \E j \in up : made[j] = i
    OBVIOUS
  <2> HIDE DEF made, ids
  <2>2. made \in Surjection(up, ids)
    BY <2>1 DEF Surjection
  <2> QED BY <1>1, <2>1, <2>2, FS_Surjection
<1>4. ids \in SUBSET FileIds
  BY <1>2
<1>5. type \in Types
  BY <1>1 DEF Types, Items
<1>6. \A x \in ids : x.item \in up /\ x.kind = x.item.kind
  BY <1>2
<1>7. \A i \in up : \E x \in ids : x.item = i
  BY <1>2
<1> HIDE DEF ids
<1>8. ASSUME Cardinality(ids) = 1, NEW x \in ids PROVE x.kind \in Ladder(type)
  <2>1. ids = {x}
    BY <1>3, <1>8, FS_Singleton
  <2>2. up = {x.item}
    BY <1>6, <1>7, <2>1
  <2>3. type = x.kind /\ x.kind \in Kinds
    BY <1>1, <1>6, <2>2, FS_Singleton DEF Items
  <2> HIDE DEF type
  <2> QED BY <2>3 DEF Ladder, Kinds
<1>9. PlacesOf(ids) = {i.n : i \in up}
  BY <1>6, <1>7 DEF PlacesOf
<1> HIDE DEF type
<1>10. Fits(ids, k, type, past)
  BY <1>1, <1>6, <1>8, <1>9 DEF Fits, Places
<1> QED BY <1>3, <1>4, <1>5, <1>10 DEF ids, type

LEMMA SavedRecord ==
  ASSUME NEW k \in Keys, NEW ids \in SUBSET FileIds, NEW type \in Types, NEW past,
         Fits(ids, k, type, past), IsFiniteSet(ids), ids # {}
  PROVE  GoodSaving([pc |-> "redis", key |-> k, ids |-> ids, type |-> type, row |-> NoRow], past)
<1> DEFINE s == [pc |-> "redis", key |-> k, ids |-> ids, type |-> type, row |-> NoRow]
<1>1. s \in Saving /\ s.pc = "redis" /\ s.key = k /\ s.ids = ids /\ s.type = type
  BY DEF Saving
<1> HIDE DEF s
<1>2. GoodSaving(s, past)
  BY <1>1 DEF GoodSaving
<1> QED BY <1>2 DEF s

LEMMA StoredKept ==
  ASSUME CacheInv, NEW r \in Requests, Stored(r)
  PROVE  CacheInv'
<1> DEFINE q == request[r]
<1>1. /\ q \in Request /\ GoodRequest(q, mishaps) /\ q.pc = "storage"
      /\ q.key \in Keys /\ q.key = Key(r) /\ q.bot \in Bots /\ q.files = Behind(q.key)
  BY GoodNow DEF Stored, At, Key, GoodRequest, Request
<1>2. PICK up \in (SUBSET (q.files \ q.empty)) \ {{}} :
        LET ids == {Id(i, i.kind, q.bot) : i \in up}
            type == IF Cardinality(up) = 1 THEN (CHOOSE i \in up : TRUE).kind ELSE "album"
        IN  /\ Set(r, WithIds(q, "saving", ids, type))
            /\ SetSaving(r, [pc |-> "redis", key |-> q.key, ids |-> ids, type |-> type, row |-> NoRow])
            /\ mishaps' = IF up = q.files THEN mishaps ELSE mishaps \cup {"partial"}
  BY <1>1 DEF Stored, WithIds, SetSaving
<1>3. /\ mishaps \subseteq mishaps' /\ redis' = redis /\ rows' = rows /\ link' = link
      /\ up = Behind(q.key) \/ "partial" \in mishaps'
  BY <1>1, <1>2 DEF Stored
<1> DEFINE ids == {Id(i, i.kind, q.bot) : i \in up}
           type == IF Cardinality(up) = 1 THEN (CHOOSE i \in up : TRUE).kind ELSE "album"
           n == WithIds(q, "saving", ids, type)
<1>4. /\ ids \in SUBSET FileIds /\ type \in Types /\ IsFiniteSet(ids) /\ ids # {}
      /\ Fits(ids, q.key, type, mishaps')
  <2>1. up \in SUBSET Behind(q.key) /\ up # {}
    BY <1>1
  <2> QED BY <1>1, <1>3, <2>1, UploadsFit
<1>5. /\ Set(r, n)
      /\ SetSaving(r, [pc |-> "redis", key |-> q.key, ids |-> ids, type |-> type, row |-> NoRow])
  BY <1>2
<1> HIDE DEF ids, type
<1>6. /\ n \in Request /\ n.pc = "saving" /\ n.ids = ids /\ n.type = type /\ n.hit = q.hit
      /\ n.key = q.key /\ SameFiles(n, q) /\ n.told = q.told
  BY <1>1, <1>4, GoesOnWithIds DEF Points
<1> HIDE DEF n
<1>7. GoodRequest(n, mishaps')
  BY <1>1, <1>4, <1>6 DEF GoodRequest, SameFiles
<1>8. RequestsGood'
  BY <1>3, <1>5, <1>7, RequestsKept
<1>9. SavingGood'
  <2>1. GoodSaving([pc |-> "redis", key |-> q.key, ids |-> ids, type |-> type, row |-> NoRow], mishaps')
    BY <1>1, <1>4, SavedRecord
  <2> QED BY <1>3, <1>5, <2>1, SavingKept
<1> QED BY <1>3, <1>8, <1>9, TheRestKept DEF CacheInv

LEMMA FirstFile ==
  ASSUME NEW k \in Keys, NEW files \in SUBSET Behind(k), files # {}
  PROVE  First(files) \in files
<1>1. \A i \in files : i.n \in Nat
  BY FilesBehind DEF Items
<1> DEFINE places == {i.n : i \in files}
<1>2. \E n \in places : \A m \in places : n <= m
  <2>1. places \in SUBSET Nat /\ places # {}
    BY <1>1
  <2> HIDE DEF places
  <2>2. PICK n \in places : \A m \in places : <<m, n>> \notin OpToRel(<, Nat)
    BY <2>1, NatLessThanWellFounded, WFMin, Zenon
  <2>3. \A m \in places : m \in Nat /\ n \in Nat /\ ~(m < n)
    BY <2>1, <2>2 DEF OpToRel
  <2> QED BY <2>3
<1> QED BY <1>2 DEF First

\* The id that is remembered of files sent directly.
LEMMA DirectFits ==
  ASSUME NEW k \in Keys, NEW bot \in Bots, NEW kind, NEW given \in Types, NEW past,
         NEW files \in SUBSET Behind(k), files # {},
         kind = First(files).kind \/ (kind = "document" /\ First(files).kind = "video"),
         \/ given = "video" \/ given = "album" \/ "resent" \in past
         \/ given = First(files).kind,
         Cardinality(Behind(k)) = 1 \/ "partial" \in past
  PROVE  LET ids == {Id(First(files), kind, bot)}
             type == BackgroundType(kind, given)
         IN  /\ ids \in SUBSET FileIds /\ type \in Types /\ IsFiniteSet(ids) /\ ids # {}
             /\ Fits(ids, k, type, past)
<1> DEFINE f == First(files)
           id == Id(f, kind, bot)
           type == BackgroundType(kind, given)
<1>1. f \in Behind(k) /\ f \in Items /\ f.link = k.link /\ f.quality = k.quality /\ f.kind \in Kinds
  BY FirstFile, FilesBehind DEF Items
<1>2. kind \in Kinds
  BY <1>1 DEF Kinds
<1> HIDE DEF f
<1>3. id \in FileIds /\ id.item = f /\ id.kind = kind
  BY <1>1, <1>2 DEF Id, FileIds
<1>4. type \in Types
  BY <1>2 DEF BackgroundType, Types, Kinds
<1>5. "resent" \in past \/ kind \in Ladder(type)
  <2>1. kind = f.kind \/ (kind = "document" /\ f.kind = "video")
    BY DEF f
  <2>2. given = "video" \/ given = "album" \/ given = f.kind \/ "resent" \in past
    BY DEF f
  <2>3. CASE kind \in {"photo", "audio"}
    BY <2>3 DEF BackgroundType, Ladder
  <2>4. CASE kind \in {"video", "document"}
    <3>1. type = given
      BY <2>4 DEF BackgroundType
    <3>2. given \in {"video", "album", "document"} \/ "resent" \in past
      BY <2>1, <2>2, <2>4
    <3> HIDE DEF type
    <3> QED BY <2>4, <2>1, <2>2, <3>1, <3>2 DEF Ladder
  <2> QED BY <1>2, <2>3, <2>4 DEF Kinds
<1>6. "partial" \in past \/ PlacesOf({id}) = Places(k)
  <2>1. CASE Cardinality(Behind(k)) = 1
    <3>1. Behind(k) = {f}
      BY <1>1, <2>1, FilesBehind, FS_Singleton
    <3> HIDE DEF id
    <3> QED BY <1>3, <3>1 DEF PlacesOf, Places
  <2> QED BY <2>1
<1> HIDE DEF id, type
<1>7. Fits({id}, k, type, past)
  BY <1>1, <1>3, <1>5, <1>6 DEF Fits
<1> QED BY <1>3, <1>4, <1>7, FS_Singleton DEF id, type, f

LEMMA SendFilesKept ==
  ASSUME CacheInv, NEW r \in Requests, SendFiles(r)
  PROVE  CacheInv'
<1> DEFINE q == request[r]
           valid == q.files \ q.empty
           first == First(valid)
<1>1. /\ q \in Request /\ q.key \in Keys /\ q.key = Key(r) /\ q.bot \in Bots /\ q.type \in Types
      /\ q.files \subseteq Behind(q.key)
      /\ q.ids = {} \/ "resent" \in mishaps
  BY GoodNow DEF SendFiles, At, Key, GoodRequest, Request
<1>2. valid # {} /\ valid \in SUBSET Behind(q.key) /\ valid \in SUBSET q.files
  BY <1>1 DEF SendFiles
<1>3. PICK kind \in {first.kind} \cup
                    {k \in {"document"} : Cardinality(valid) = 1 /\ first.kind = "video"},
           given \in GivenTypes(r) :
        SetSaving(r, [pc |-> "redis", key |-> q.key, ids |-> {Id(first, kind, q.bot)},
                      type |-> BackgroundType(kind, given), row |-> NoRow])
  BY <1>1 DEF SendFiles, SetSaving
<1>4. PICK stuck \in SUBSET valid :
        Tell(r, [q EXCEPT !.files = (q.files \ valid) \cup stuck, !.stuck = stuck], "ok")
  BY DEF SendFiles
<1>5. /\ mishaps \subseteq mishaps' /\ redis' = redis /\ rows' = rows /\ link' = link
      /\ Cardinality(Behind(q.key)) = 1 \/ "partial" \in mishaps'
  BY <1>1 DEF SendFiles
<1>6. first \in valid /\ first.kind \in Kinds /\ valid \subseteq Items
  <2> HIDE DEF valid
  <2> QED BY <1>1, <1>2, FirstFile, FilesBehind DEF Items
<1>7. given \in Types /\ (given = "video" \/ given = "album" \/ given = first.kind \/ "resent" \in mishaps')
  <2>1. CASE q.ids # {}
    BY <1>1, <1>5, <2>1 DEF GivenTypes
  <2>2. CASE q.ids = {}
    <3>1. given \in {"video", IF Cardinality(q.files) = 1 THEN First(q.files).kind ELSE "album"}
      BY <2>2 DEF GivenTypes
    <3>2. "video" \in Types /\ "album" \in Types /\ first.kind \in Types
      BY <1>6 DEF Types, Kinds
    <3>3. ASSUME Cardinality(q.files) = 1 PROVE First(q.files) = first
      <4>1. IsFiniteSet(q.files)
        BY <1>1, FilesBehind, FS_Subset
      <4>2. \E x : q.files = {x}
        BY <3>3, <4>1, FS_Singleton
      <4>3. valid = q.files
        BY <1>2, <4>2
      <4> QED BY <4>3
    <3> HIDE DEF first
    <3> QED BY <3>1, <3>2, <3>3
  <2> QED BY <2>1, <2>2
<1> DEFINE ids == {Id(first, kind, q.bot)}
           type == BackgroundType(kind, given)
<1>8. /\ ids \in SUBSET FileIds /\ type \in Types /\ IsFiniteSet(ids) /\ ids # {}
      /\ Fits(ids, q.key, type, mishaps')
  <2> HIDE DEF valid
  <2>1. kind = First(valid).kind \/ (kind = "document" /\ First(valid).kind = "video")
    BY <1>3
  <2> QED BY <1>1, <1>2, <1>5, <1>7, <2>1, DirectFits
<1>9. SavingGood'
  <2>1. SetSaving(r, [pc |-> "redis", key |-> q.key, ids |-> ids, type |-> type, row |-> NoRow])
    BY <1>3
  <2> HIDE DEF ids, type
  <2>2. GoodSaving([pc |-> "redis", key |-> q.key, ids |-> ids, type |-> type, row |-> NoRow], mishaps')
    BY <1>1, <1>8, SavedRecord
  <2> QED BY <1>5, <2>1, <2>2, SavingKept
<1>10. RequestsGood'
  <2> DEFINE m == [q EXCEPT !.files = (q.files \ valid) \cup stuck]
             n == [m EXCEPT !.stuck = stuck]
  <2>1. m \in Request /\ m.files = (q.files \ valid) \cup stuck /\ m.empty = q.empty
    <3>1. (q.files \ valid) \cup stuck \in SUBSET Items
      BY <1>1, <1>6, GoodNow
    <3> HIDE DEF valid
    <3> QED BY <1>1, <3>1 DEF Request
  <2>2. Tell(r, n, "ok")
    BY <1>4
  <2> HIDE DEF m
  <2>3. /\ n \in Request /\ n.files = (q.files \ valid) \cup stuck /\ n.empty = q.empty
        /\ n.stuck = stuck
    <3>1. stuck \in SUBSET Items
      BY <1>6
    <3> HIDE DEF valid
    <3> QED BY <2>1, <3>1 DEF Request
  <2>4. n.files \subseteq n.empty \cup n.stuck
    BY <2>3
  <2> HIDE DEF n
  <2>5. n.files \in SUBSET Items /\ n.empty \in SUBSET Items /\ n.stuck \in SUBSET Items
    BY <2>3 DEF Request
  <2> QED BY <1>5, <2>2, <2>4, <2>5, Told
<1> QED BY <1>5, <1>9, <1>10, TheRestKept DEF CacheInv

LEMMA CleanupKept ==
  ASSUME CacheInv, NEW r \in Requests, Cleanup(r)
  PROVE  CacheInv'
<1> DEFINE q == request[r]
<1>1. /\ q \in Request /\ GoodRequest(q, mishaps) /\ q.pc = "saving" /\ q.files \in SUBSET Items
      /\ UNCHANGED <<link, redis, rows, mishaps>> /\ SetSaving(r, NotSaving)
  BY GoodNow DEF Cleanup, At, SetSaving
<1>2. PICK stuck \in SUBSET q.files :
        Set(r, [q EXCEPT !.pc = "send", !.files = stuck, !.stuck = stuck])
  BY DEF Cleanup
<1> DEFINE a == [q EXCEPT !.pc = "send"]
           b == [a EXCEPT !.files = stuck]
           n == [b EXCEPT !.stuck = stuck]
<1>3. Set(r, n)
  BY <1>2
<1>4. /\ a \in Request /\ a.pc = "send" /\ a.ids = q.ids /\ a.type = q.type /\ a.hit = q.hit
      /\ a.key = q.key /\ a.told = q.told
  BY <1>1, GoesOn DEF Points
<1> HIDE DEF a
<1>5. /\ b \in Request /\ b.pc = "send" /\ b.ids = q.ids /\ b.type = q.type /\ b.hit = q.hit
      /\ b.key = q.key /\ b.told = q.told /\ b.files = stuck
  BY <1>1, <1>4 DEF Request
<1> HIDE DEF b
<1>6. /\ n \in Request /\ n.pc = "send" /\ n.ids = q.ids /\ n.type = q.type /\ n.hit = q.hit
      /\ n.key = q.key /\ n.told = q.told /\ n.files = stuck /\ n.stuck = stuck
  BY <1>1, <1>5 DEF Request
<1> HIDE DEF n
<1>7. GoodRequest(n, mishaps') /\ mishaps \subseteq mishaps'
  BY <1>1, <1>6 DEF GoodRequest
<1>8. GoodSaving(NotSaving, mishaps')
  BY IdleIsGood DEF GoodSaving, CacheInv
<1> QED BY <1>1, <1>3, <1>7, <1>8, RequestsKept, SavingKept, TheRestKept DEF CacheInv

\* Raises and Timeout: nothing of the saving is left.
LEMMA FailsKept ==
  ASSUME CacheInv, NEW r \in Requests, Raises(r) \/ Timeout(r)
  PROVE  CacheInv'
<1>1. /\ Tell(r, request[r], "failed") /\ SetSaving(r, NotSaving)
      /\ UNCHANGED <<link, redis, rows, mishaps>>
  BY DEF Raises, Timeout, SetSaving
<1>2. /\ mishaps \subseteq mishaps' /\ request[r].files \in SUBSET Items
      /\ request[r].empty \in SUBSET Items /\ request[r].stuck \in SUBSET Items
  BY <1>1, GoodNow
<1>3. GoodSaving(NotSaving, mishaps')
  BY IdleIsGood DEF GoodSaving, CacheInv
<1> QED BY <1>1, <1>2, <1>3, Told, SavingKept, TheRestKept DEF CacheInv

-----------------------------------------------------------------------------
(* Saving *)

LEMMA SavingEndsGood ==
  ASSUME CacheInv, NEW r \in Requests, SavingEnds(r), mishaps' = mishaps
  PROVE  SavingGood'
<1> DEFINE over == [NotSaving EXCEPT !.pc = "end"]
<1>1. NotSaving \in Saving /\ NotSaving.pc = "idle"
  BY IdleIsGood DEF CacheInv
<1>2. over \in Saving /\ over.pc = "end"
  BY <1>1 DEF Saving
<1>3. SetSaving(r, over) \/ SetSaving(r, NotSaving)
  BY DEF SavingEnds, SetSaving
<1> HIDE DEF over
<1>4. GoodSaving(over, mishaps') /\ GoodSaving(NotSaving, mishaps')
  BY <1>1, <1>2 DEF GoodSaving
<1> QED BY <1>3, <1>4, SavingKept

LEMMA SaveInRedisKept ==
  ASSUME CacheInv, NEW r \in Requests, SaveInRedis(r)
  PROVE  CacheInv'
<1> DEFINE s == saving[r]
           n == [s EXCEPT !.pc = "row"]
<1>1. /\ s \in Saving /\ GoodSaving(s, mishaps) /\ s.pc = "redis"
      /\ s.key \in Keys /\ s.ids \in SUBSET FileIds /\ s.type \in Types
  BY GoodNow DEF SaveInRedis, Saving
<1>2. /\ mishaps' = mishaps /\ mishaps \subseteq mishaps' /\ request' = request /\ rows' = rows
      /\ link' = link /\ SetSaving(r, n) /\ CacheMedia(s.key, s.ids, s.type)
  BY DEF SaveInRedis
<1>3. /\ n \in Saving /\ n.pc = "row" /\ n.key = s.key /\ n.ids = s.ids /\ n.type = s.type
  BY <1>1 DEF Saving
<1> HIDE DEF n
<1>4. GoodSaving(n, mishaps')
  BY <1>1, <1>2, <1>3 DEF GoodSaving
<1>5. Fits(s.ids, s.key, s.type, mishaps)
  BY <1>1 DEF GoodSaving
<1>6. RedisGood'
  BY <1>1, <1>2, <1>5, CacheMediaKept
<1> QED BY <1>2, <1>4, <1>6, SavingKept, TheRestKept DEF CacheInv

LEMMA FindRowKept ==
  ASSUME CacheInv, NEW r \in Requests, FindRow(r)
  PROVE  CacheInv'
<1> DEFINE s == saving[r]
           same == {w \in rows : w.key = s.key /\ w.type = s.type}
           row == IF same = {} THEN NoRow ELSE (CHOOSE w \in same : TRUE).by
           m == [s EXCEPT !.pc = "commit"]
           n == [m EXCEPT !.row = row]
<1>1. /\ s \in Saving /\ GoodSaving(s, mishaps) /\ s.pc = "row"
      /\ UNCHANGED <<link, request, redis, rows, mishaps>>
      /\ \/ SavingEnds(r)
         \/ SetSaving(r, n) /\ ~(Cardinality(s.ids) > 1)
  BY GoodNow DEF FindRow
<1>2. mishaps' = mishaps /\ mishaps \subseteq mishaps'
  BY <1>1
<1>3. CASE SetSaving(r, n) /\ ~(Cardinality(s.ids) > 1)
  <2>1. row \in Requests \cup {NoRow}
    BY DEF CacheInv, RowsGood, GoodRow, Rows
  <2> HIDE DEF row
  <2>2. m \in Saving /\ m.pc = "commit" /\ m.key = s.key /\ m.ids = s.ids /\ m.type = s.type
    BY <1>1 DEF Saving
  <2> HIDE DEF m
  <2>3. n \in Saving /\ n.pc = "commit" /\ n.key = s.key /\ n.ids = s.ids /\ n.type = s.type
    BY <2>1, <2>2 DEF Saving
  <2> HIDE DEF n
  <2>4. Cardinality(s.ids) \in Nat /\ Cardinality(s.ids) # 0
    BY <1>1, FS_CardinalityType, FS_EmptySet DEF GoodSaving
  <2>5. Cardinality(s.ids) = 1
    BY <1>3, <2>4
  <2>6. GoodSaving(n, mishaps')
    BY <1>1, <1>2, <2>3, <2>5 DEF GoodSaving
  <2> QED BY <1>1, <1>2, <1>3, <2>6, SavingKept, TheRestKept DEF CacheInv
<1> QED BY <1>1, <1>2, <1>3, SavingEndsGood, TheRestKept DEF CacheInv

LEMMA SaveRowKept ==
  ASSUME CacheInv, NEW r \in Requests, SaveRow(r)
  PROVE  CacheInv'
<1> DEFINE s == saving[r]
           id == CHOOSE i \in s.ids : TRUE
           new(by) == [key |-> s.key, type |-> s.type, by |-> by, id |-> id]
<1>1. /\ s \in Saving /\ GoodSaving(s, mishaps) /\ s.pc = "commit" /\ SavingEnds(r)
      /\ UNCHANGED <<link, request, redis, mishaps>>
      /\ \E by \in Requests : rows' \subseteq rows \cup {new(by)}
  <2>1. saving[r] \in Saving
    BY GoodNow
  <2>2. s.row \in Requests \/ s.row = NoRow
    BY <2>1 DEF Saving
  <2>3. \/ s.row # NoRow /\ rows' \subseteq rows \cup {new(s.row)}
        \/ rows' \subseteq rows \cup {new(r)}
    BY DEF SaveRow
  <2>4. \E by \in Requests : rows' \subseteq rows \cup {new(by)}
    <3> HIDE DEF new
    <3> QED BY <2>2, <2>3
  <2> QED BY <2>1, <2>4, GoodNow DEF SaveRow
<1>2. mishaps' = mishaps /\ mishaps \subseteq mishaps'
  BY <1>1
<1>3. /\ s.key \in Keys /\ s.ids \in SUBSET FileIds /\ s.type \in Types
      /\ Fits(s.ids, s.key, s.type, mishaps) /\ s.ids = {id}
  <2>1. Cardinality(s.ids) = 1 /\ IsFiniteSet(s.ids) /\ Fits(s.ids, s.key, s.type, mishaps)
    BY <1>1 DEF GoodSaving
  <2>2. \E x : s.ids = {x}
    BY <2>1, FS_Singleton
  <2> QED BY <1>1, <2>1, <2>2 DEF Saving
<1> HIDE DEF id
<1>4. \A by \in Requests : /\ new(by) \in Rows /\ new(by).key = s.key
                           /\ new(by).type = s.type /\ new(by).id = id
  BY <1>3 DEF Rows
<1> HIDE DEF new
<1>5. \A by \in Requests : GoodRow(new(by), mishaps)
  BY <1>3, <1>4 DEF GoodRow
<1>6. RowsGood'
  BY <1>1, <1>2, <1>5 DEF RowsGood, CacheInv
<1> QED BY <1>1, <1>2, <1>6, SavingEndsGood, TheRestKept DEF CacheInv

LEMMA SaveFailsOrExpires ==
  ASSUME CacheInv, (\E r \in Requests : SaveFails(r)) \/ (\E k \in Keys : Expires(k))
  PROVE  CacheInv'
<1>1. /\ link' = link /\ request' = request /\ rows' = rows /\ mishaps' = mishaps
      /\ redis' \subseteq redis /\ mishaps \subseteq mishaps'
  BY DEF SaveFails, Expires
<1>2. saving' = saving \/ \E r \in Requests : SavingEnds(r)
  BY DEF SaveFails, Expires
<1> QED BY <1>1, <1>2, SavingEndsGood, TheRestKept DEF CacheInv

-----------------------------------------------------------------------------
(* The theorems *)

LEMMA CacheInvariant == Spec => []CacheInv
<1>1. Init => CacheInv
  <2> SUFFICES ASSUME Init PROVE CacheInv
    OBVIOUS
  <2>1. /\ Idle \in Request /\ Idle.pc = "idle" /\ ~Idle.hit
        /\ Idle.told = "none" /\ NotSaving \in Saving /\ NotSaving.pc = "idle"
    BY IdleIsGood DEF Init
  <2>2. GoodRequest(Idle, mishaps) /\ GoodSaving(NotSaving, mishaps)
    BY <2>1 DEF GoodRequest, GoodSaving
  <2> QED BY <2>1, <2>2 DEF Init, CacheInv, RequestsGood, SavingGood, RedisGood, RowsGood
<1>2. CacheInv /\ [Next]_vars => CacheInv'
  <2> SUFFICES ASSUME CacheInv, [Next]_vars PROVE CacheInv'
    OBVIOUS
  <2>1. ASSUME NEW r \in Requests, Ask(r) PROVE CacheInv'
    BY <2>1, AskKept
  <2>2. ASSUME NEW r \in Requests, Step(r) PROVE CacheInv'
    BY <2>2, LookInRedisKept, LookInDbKept, CopyKept, DownloadKept, NotStoredKept, StoredKept,
       CleanupKept, SendIdsKept, RefusedKept, SendFilesKept, SendFilesRefusedKept DEF Step
  <2>3. ASSUME NEW r \in Requests, Save(r) PROVE CacheInv'
    BY <2>3, SaveInRedisKept, FindRowKept, SaveRowKept DEF Save
  <2>4. ASSUME NEW r \in Requests, Fault(r) PROVE CacheInv'
    BY <2>4, RateLimitedKept, CopyKept, FailsKept, SaveFailsOrExpires DEF Fault
  <2>5. CASE \E k \in Keys : Expires(k)
    BY <2>5, SaveFailsOrExpires
  <2>6. CASE UNCHANGED vars
    <3>1. /\ link' = link /\ request' = request /\ saving' = saving /\ redis' \subseteq redis
          /\ rows' \subseteq rows /\ mishaps \subseteq mishaps'
      BY <2>6 DEF vars
    <3> QED BY <3>1, TheRestKept DEF CacheInv
  <2> QED BY <2>1, <2>2, <2>3, <2>4, <2>5, <2>6 DEF Next
<1> QED BY <1>1, <1>2, PTL DEF Spec

\* What a user is sent from the cache or the storage channel is behind the link asked
\* for, in the quality asked for, however requests, savings and expirations cross
\* (downloader.py: download, check_cache, send_to_user).
THEOREM SentAsAsked == Spec => []SendsWhatWasAsked
<1>1. CacheInv => SendsWhatWasAsked
  BY GoodNow DEF SendsWhatWasAsked, At, Key, GoodRequest, Fits
<1> QED BY <1>1, CacheInvariant, PTL

\* An entry of Redis misses a file of its link only after an upload of that link
\* failed or its album was sent without a storage channel: no crossing of requests
\* makes an entry of a part of the files (downloader.py, _cache_and_cleanup).
THEOREM EntriesComplete == Spec => []IncompleteExplained
<1>1. CacheInv => IncompleteExplained
  BY DEF IncompleteExplained, CacheInv, RedisGood, GoodEntry, Fits, Places, PlacesOf
<1> QED BY <1>1, CacheInvariant, PTL

\* What a request found in the cache is among the kinds that send_to_user goes
\* through for the stored type, whoever stored it, as which message and where,
\* unless files that could not be deleted were sent after a refused id
\* (downloader.py: check_cache, _background_cache, _send_single_file_id).
THEOREM CacheCanBeSent == Spec => []CachedIsSendable
<1>1. CacheInv => CachedIsSendable
  <2> SUFFICES ASSUME CacheInv, "resent" \notin mishaps, NEW r \in Requests, request[r].hit,
                      NEW i \in request[r].ids, i.bot = request[r].bot
               PROVE  i \in Tries(r)
    BY DEF CachedIsSendable
  <2>1. Fits(request[r].ids, request[r].key, request[r].type, mishaps)
    BY GoodNow DEF GoodRequest
  <2> QED BY <2>1 DEF Fits, Tries, Sendable
<1> QED BY <1>1, CacheInvariant, PTL

\* A request that is answered with success has deleted its temporary files, but for
\* empty ones and those whose unlink failed (downloader.py: download,
\* _send_files_direct).
THEOREM FilesAreDeleted == Spec => []FilesGoWithSuccess
<1>1. CacheInv => FilesGoWithSuccess
  BY GoodNow DEF FilesGoWithSuccess, GoodRequest
<1> QED BY <1>1, CacheInvariant, PTL
=============================================================================
