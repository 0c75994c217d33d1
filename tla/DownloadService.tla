-------------------------- MODULE DownloadService --------------------------
(***************************************************************************)
(* DownloadService of src/services/downloaders/downloader.py: how a link   *)
(* is answered from the cache (Redis, then the media table), or            *)
(* downloaded, copied to a storage channel, remembered and sent.  The      *)
(* downloader itself is one step here: MediaDownloads and YouTubeDownloads *)
(* look into it; the counters it keeps in Redis are in RateLimits.         *)
(*                                                                         *)
(* A request is a handler's call of download(), followed by send_to_user.  *)
(* Every await between two accesses to shared state is a step boundary,    *)
(* and the handler's wait_for may cancel download() at any of them.        *)
(***************************************************************************)
EXTENDS Naturals, Sequences, FiniteSets

CONSTANTS
  Requests,    \* slots for requests: so many at a time
  Asks,        \* what may be asked for: records [link, quality, bot]
  KindsOf,     \* KindsOf[l]: the kinds of the files behind link l, in order
  Sources      \* the links of platforms that MediaSource has

Kinds == {"video", "photo", "audio", "document"}
Any == "none"      \* quality None: whatever is best

Links == {a.link : a \in Asks}
Keys == {[link |-> a.link, quality |-> a.quality] : a \in Asks}

ASSUME AsksAssumption ==
  /\ KindsOf \in [Links -> Seq(Kinds) \ {<<>>}]
  /\ Sources \subseteq Links
  \* Sound is asked for with the keyboard of a YouTube video.
  /\ \A a \in Asks : a.quality = "audio" => Len(KindsOf[a.link]) = 1

VARIABLES
  link,        \* the link of this behaviour: nothing is shared with others
  request,     \* the requests
  saving,      \* per request: its file ids on their way into the cache
  redis,       \* the entries media:{link}:{quality}: records [key, ids, type]
  rows,        \* the rows of the media table that have a file id: records
               \* [key, id, type, by], where by tells rows of one key apart
  mishaps      \* history of the link: "partial" when not every file reached
               \* the cache, "resent" when files left behind were sent again

vars == <<link, request, saving, redis, rows, mishaps>>

-----------------------------------------------------------------------------
(* Files, file ids and the cache                                           *)

Item(k, n) ==
  [link |-> k.link, quality |-> k.quality, n |-> n,
   kind |-> IF k.quality = "audio" THEN "audio" ELSE KindsOf[k.link][n]]
Behind(k) == {Item(k, n) : n \in IF k.quality = "audio" THEN {1} ELSE DOMAIN KindsOf[k.link]}

\* A file id: the file, the kind it was sent as, and the bot that sent it.
Id(item, kind, bot) == [item |-> item, kind |-> kind, bot |-> bot]

NoRow == "none"

\* Mutant: the quality is left out of the key.
MediaKeyOfLink(k) == CHOOSE j \in Keys : j.link = k.link

MediaKey(k) == k

Cached(k) == {e \in redis : e.key = MediaKey(k)}
CacheMedia(k, ids, type) ==
  redis' = (redis \ Cached(k)) \cup {[key |-> MediaKey(k), ids |-> ids, type |-> type]}

\* find_cached: without a quality, any row of the link.
FindCached(k) ==
  {w \in rows : w.key.link = k.link /\ (k.quality # Any => w.key.quality = k.quality)}

-----------------------------------------------------------------------------
\* Of the files of a request on disk, empty are those without a byte and stuck
\* those that could not be deleted.
NoKey == CHOOSE k \in Keys : TRUE

NotSaving == [pc |-> "idle", key |-> NoKey, ids |-> {}, type |-> "video", row |-> NoRow]

Idle == [pc |-> "idle", key |-> NoKey, bot |-> CHOOSE b \in {a.bot : a \in Asks} : TRUE,
         files |-> {}, empty |-> {}, stuck |-> {}, ids |-> {}, type |-> "video",
         hit |-> FALSE, told |-> "none"]

InDownload == {"redis", "db", "copy", "download", "storage", "saving"}

At(r, pc) == request[r].pc = pc
Key(r) == request[r].key
Set(r, rec) == request' = [request EXCEPT ![r] = rec]
Goto(r, pc) == Set(r, [request[r] EXCEPT !.pc = pc])
Tell(r, rec, told) ==
  Set(r, [Idle EXCEPT !.pc = "end", !.told = told, !.files = rec.files,
                      !.empty = rec.empty, !.stuck = rec.stuck])

CacheUnchanged == UNCHANGED <<link, saving, redis, rows, mishaps>>

Init ==
  /\ link \in Links
  /\ request = [r \in Requests |-> Idle]
  /\ saving = [r \in Requests |-> NotSaving]
  /\ redis = {} /\ rows = {}
  /\ mishaps = {}

-----------------------------------------------------------------------------
(* download(), up to the downloader                                        *)

\* A slot is used again when the task its request left behind is over.
Ask(r) ==
  /\ request[r].pc \in {"idle", "end"} /\ saving[r].pc = "idle"
  /\ \E a \in {b \in Asks : b.link = link} :
       Set(r, [Idle EXCEPT !.pc = "redis", !.bot = a.bot,
                           !.key = [link |-> a.link, quality |-> a.quality]])
  /\ CacheUnchanged

RateLimited(r) ==
  /\ At(r, "redis")
  /\ Tell(r, request[r], "failed")
  /\ CacheUnchanged

\* check_cache, first part.
LookInRedis(r) ==
  /\ At(r, "redis")
  /\ \/ \E e \in Cached(Key(r)) :
          Set(r, [request[r] EXCEPT !.pc = "send", !.ids = e.ids, !.type = e.type, !.hit = TRUE])
     \/ Cached(Key(r)) = {} /\ Goto(r, "db")
  /\ CacheUnchanged

\* check_cache, second part.  scalar_one_or_none raises when there are several
\* rows, and a failed check is a miss.
LookInDb(r) ==
  /\ At(r, "db")
  /\ \/ \E w \in FindCached(Key(r)) :
          /\ FindCached(Key(r)) = {w}
          /\ Set(r, [request[r] EXCEPT !.pc = "copy", !.ids = {w.id}, !.type = w.type, !.hit = TRUE])
     \/ Cardinality(FindCached(Key(r))) # 1 /\ Goto(r, "download")
  /\ CacheUnchanged

\* What the database knew is put into Redis.
CopyToRedis(r) ==
  /\ At(r, "copy")
  /\ CacheMedia(Key(r), request[r].ids, request[r].type)
  /\ Goto(r, "send")
  /\ UNCHANGED <<link, saving, rows, mishaps>>

\* A failing query, set or commit is a miss; what was written stays.
CheckFails(r) ==
  /\ request[r].pc \in {"db", "copy"}
  /\ Set(r, [request[r] EXCEPT !.pc = "download", !.ids = {}, !.type = "video", !.hit = FALSE])
  /\ \/ At(r, "copy") /\ CacheMedia(Key(r), request[r].ids, request[r].type)
     \/ UNCHANGED redis
  /\ UNCHANGED <<link, saving, rows, mishaps>>

-----------------------------------------------------------------------------
(* download(), from the downloader on                                      *)

\* A file that was written may be empty.
Download(r) ==
  /\ At(r, "download")
  /\ \/ Tell(r, request[r], "failed")
     \/ \E empty \in SUBSET Behind(Key(r)) :
          Set(r, [request[r] EXCEPT !.pc = "storage", !.files = Behind(Key(r)), !.empty = empty])
  /\ CacheUnchanged

\* No storage channel, or no upload got through: the files are sent as they are.
NotStored(r) ==
  /\ At(r, "storage")
  /\ Goto(r, "sendfiles")
  /\ CacheUnchanged

\* The uploads: each file is tried twice and may fail, as an empty one does; the
\* others go on.
Stored(r) ==
  /\ At(r, "storage")
  /\ \E up \in (SUBSET (request[r].files \ request[r].empty)) \ {{}} :
       LET ids == {Id(i, i.kind, request[r].bot) : i \in up}
           type == IF Cardinality(up) = 1 THEN (CHOOSE i \in up : TRUE).kind ELSE "album"
       IN
       /\ Set(r, [request[r] EXCEPT !.pc = "saving", !.ids = ids, !.type = type])
       /\ saving' = [saving EXCEPT ![r] = [pc |-> "redis", key |-> Key(r), ids |-> ids, type |-> type, row |-> NoRow]]
       /\ mishaps' = IF up = request[r].files THEN mishaps ELSE mishaps \cup {"partial"}
  /\ UNCHANGED <<link, redis, rows>>

\* Mutant: the files of a partial upload are kept for another try.
CleanupComplete(r) ==
  /\ At(r, "saving") /\ saving[r].pc = "end"
  /\ saving' = [saving EXCEPT ![r] = NotSaving]
  /\ \E stuck \in SUBSET request[r].files :
       Set(r, [request[r] EXCEPT !.pc = "send", !.stuck = stuck,
         !.files = IF Cardinality(request[r].ids) = Cardinality(@) THEN stuck ELSE @])
  /\ UNCHANGED <<link, redis, rows, mishaps>>

\* The temporary files go when the ids are in the cache, empty ones included.  An
\* unlink that fails is logged, and its file stays.
Cleanup(r) ==
  /\ At(r, "saving") /\ saving[r].pc = "end"
  /\ saving' = [saving EXCEPT ![r] = NotSaving]
  /\ \E stuck \in SUBSET request[r].files :
       Set(r, [request[r] EXCEPT !.pc = "send", !.files = stuck, !.stuck = stuck])
  /\ UNCHANGED <<link, redis, rows, mishaps>>

\* An exception, of Redis or of the file system: the files stay.
Raises(r) ==
  /\ \/ request[r].pc \in {"download", "storage"}
     \/ At(r, "saving") /\ saving[r].pc = "redis"
  /\ Tell(r, request[r], "failed")
  /\ saving' = [saving EXCEPT ![r] = NotSaving]
  /\ UNCHANGED <<link, redis, rows, mishaps>>

\* wait_for cancels download(); CancelledError passes by its except clause.
Timeout(r) ==
  /\ request[r].pc \in InDownload
  /\ Tell(r, request[r], "failed")
  /\ saving' = [saving EXCEPT ![r] = NotSaving]
  /\ UNCHANGED <<link, redis, rows, mishaps>>

-----------------------------------------------------------------------------
(* The ids on their way into the cache: in download(), or in the task that *)
(* _send_files_direct leaves behind                                        *)

SetSaving(r, rec) == saving' = [saving EXCEPT ![r] = rec]
SavingEnds(r) ==
  SetSaving(r, IF At(r, "saving") THEN [NotSaving EXCEPT !.pc = "end"] ELSE NotSaving)

\* Mutant: of an album only the first id is remembered.
SaveFirstInRedis(r) ==
  /\ saving[r].pc = "redis"
  /\ CacheMedia(saving[r].key, {CHOOSE i \in saving[r].ids : TRUE}, saving[r].type)
  /\ SetSaving(r, [saving[r] EXCEPT !.pc = "row"])
  /\ UNCHANGED <<link, request, rows, mishaps>>

SaveInRedis(r) ==
  /\ saving[r].pc = "redis"
  /\ CacheMedia(saving[r].key, saving[r].ids, saving[r].type)
  /\ SetSaving(r, [saving[r] EXCEPT !.pc = "row"])
  /\ UNCHANGED <<link, request, rows, mishaps>>

\* create_or_update_cache, first half: the row of the link, quality and type.
\* The database refuses unknown sources and the types of albums that
\* download() makes up; get_one raises when it finds two rows.
FindRow(r) ==
  /\ saving[r].pc = "row"
  /\ LET same == {w \in rows : w.key = saving[r].key /\ w.type = saving[r].type}
         fails == \/ saving[r].key.link \notin Sources
                  \/ Cardinality(saving[r].ids) > 1
                  \/ Cardinality(same) > 1
     IN
     \/ fails /\ SavingEnds(r)
     \/ /\ ~fails
        /\ SetSaving(r, [saving[r] EXCEPT !.pc = "commit",
                           !.row = IF same = {} THEN NoRow ELSE (CHOOSE w \in same : TRUE).by])
  /\ UNCHANGED <<link, request, redis, rows, mishaps>>

\* Second half: the row is changed, or a new one inserted.  The unique key
\* stops a second row only if there is a quality: NULLs are distinct.
SaveRow(r) ==
  /\ saving[r].pc = "commit"
  /\ LET new(by) == [key |-> saving[r].key, type |-> saving[r].type, by |-> by,
                     id |-> CHOOSE i \in saving[r].ids : TRUE]
         same == {w \in rows : w.key = saving[r].key /\ w.type = saving[r].type}
     IN rows' =
       IF saving[r].row # NoRow
       THEN {w \in rows : w \notin same \/ w.by # saving[r].row} \cup {new(saving[r].row)}
       ELSE IF same # {} /\ saving[r].key.quality # Any THEN rows
       ELSE rows \cup {new(r)}
  /\ SavingEnds(r)
  /\ UNCHANGED <<link, request, redis, mishaps>>

\* Failures of the database are logged, in the background those of Redis too.
SaveFails(r) ==
  /\ \/ saving[r].pc \in {"row", "commit"}
     \/ saving[r].pc = "redis" /\ ~At(r, "saving")
  /\ SavingEnds(r)
  /\ UNCHANGED <<link, request, redis, rows, mishaps>>

\* The time to live of an entry in Redis.
Expires(k) ==
  /\ Cached(k) # {}
  /\ redis' = redis \ Cached(k)
  /\ UNCHANGED <<link, request, saving, rows, mishaps>>

-----------------------------------------------------------------------------
(* send_to_user                                                            *)

\* send_order of _send_single_file_id, and the types a missing one is taken
\* for.  Telegram sends a file id only as the kind it has, and only for the
\* bot that got it.
Ladder(type) ==
  CASE type = "photo" -> {"photo", "document"}
    [] type = "audio" -> {"audio", "document"}
    [] type = "document" -> {"document"}
    [] OTHER -> {"video", "document", "photo"}

\* The ids that can be sent: an album has the types of its files on record,
\* and its last resort is to send them one by one.
Sendable(ids, type, bot) ==
  {i \in ids : i.bot = bot /\ (Cardinality(ids) = 1 => i.kind \in Ladder(type))}

Tries(r) == Sendable(request[r].ids, request[r].type, request[r].bot)

SendIds(r) ==
  /\ At(r, "send")
  /\ Tries(r) = request[r].ids
  /\ Tell(r, request[r], "ok")
  /\ CacheUnchanged

\* Telegram refuses.  One file is a failure, but if its request still has files
\* that could not be deleted those are sent; of an album the files that go
\* through one by one arrive, and it counts as sent.
SendIdsRefused(r) ==
  /\ At(r, "send")
  /\ \/ Cardinality(request[r].ids) = 1 /\ Tell(r, request[r], "failed") /\ UNCHANGED mishaps
     \/ /\ Cardinality(request[r].ids) = 1 /\ request[r].files # {}
        /\ Goto(r, "sendfiles")
        /\ mishaps' = mishaps \cup {"resent"}
     \/ Cardinality(request[r].ids) > 1 /\ Tell(r, request[r], "ok") /\ UNCHANGED mishaps
  /\ UNCHANGED <<link, saving, redis, rows>>

\* Mutant: only the type of the downloader is looked at.
BackgroundTypeGiven(kind, given) == given

\* _background_cache: the type it stores for a message of this kind.
BackgroundType(kind, given) == IF kind \in {"photo", "audio"} THEN kind ELSE given

First(items) == CHOOSE i \in items : \A j \in items : i.n <= j.n

\* The type in the result: of the upload that came before, else of the
\* downloader, where a missing one means "video".
GivenTypes(r) ==
  IF request[r].ids # {} THEN {request[r].type}
  ELSE {"video", IF Cardinality(request[r].files) = 1 THEN First(request[r].files).kind ELSE "album"}

\* _send_files_direct: one file, a large YouTube video as a document, or an
\* album, of which the first message is remembered.  Empty files are left out
\* and stay on disk, as do those whose unlink fails.
SendFiles(r) ==
  /\ At(r, "sendfiles")
  /\ LET valid == request[r].files \ request[r].empty
         first == First(valid)
     IN
     /\ valid # {}
     /\ \E kind \in {first.kind} \cup
                    {k \in {"document"} : Cardinality(valid) = 1 /\ first.kind = "video"},
           given \in GivenTypes(r) :
          saving' = [saving EXCEPT ![r] =
            [pc |-> "redis", key |-> Key(r), ids |-> {Id(first, kind, request[r].bot)},
             type |-> BackgroundType(kind, given), row |-> NoRow]]
     /\ \E stuck \in SUBSET valid :
          Tell(r, [request[r] EXCEPT !.files = (@ \ valid) \cup stuck, !.stuck = stuck], "ok")
  /\ mishaps' = IF Cardinality(Behind(Key(r))) = 1 THEN mishaps ELSE mishaps \cup {"partial"}
  /\ UNCHANGED <<link, redis, rows>>

\* Too large, all empty, or refused: the files stay.
SendFilesRefused(r) ==
  /\ At(r, "sendfiles")
  /\ Tell(r, request[r], "failed")
  /\ CacheUnchanged

-----------------------------------------------------------------------------
Step(r) ==
  \/ LookInRedis(r) \/ LookInDb(r) \/ CopyToRedis(r) \/ Download(r)
  \/ NotStored(r) \/ Stored(r) \/ Cleanup(r)
  \/ SendIds(r) \/ SendIdsRefused(r) \/ SendFiles(r) \/ SendFilesRefused(r)

Save(r) == SaveInRedis(r) \/ FindRow(r) \/ SaveRow(r)

Fault(r) == RateLimited(r) \/ CheckFails(r) \/ Raises(r) \/ Timeout(r) \/ SaveFails(r)

Next ==
  \/ \E r \in Requests : Ask(r) \/ Step(r) \/ Save(r) \/ Fault(r)
  \/ \E k \in Keys : Expires(k)

Spec == Init /\ [][Next]_vars

-----------------------------------------------------------------------------
(* Properties *)

\* Whoever filled the cache, and however requests for the same link crossed,
\* what a user is sent is behind the link asked for, in the quality asked for.
SendsWhatWasAsked ==
  \A r \in Requests : At(r, "send") =>
    \A i \in request[r].ids :
      /\ i.item.link = Key(r).link
      /\ Key(r).quality # Any => i.item.quality = Key(r).quality

\* An entry of Redis holds every file behind its link, unless an upload of the
\* link failed or its album was sent without a storage channel.
IncompleteExplained ==
  \A e \in redis : "partial" \in mishaps \/ {i.item.n : i \in e.ids} = {i.n : i \in Behind(e.key)}

\* What check_cache answers can be sent, but for what another bot has uploaded:
\* among the kinds send_to_user goes through for the stored type is the one the
\* file has.  It is not so once files that could not be deleted were sent after
\* Telegram refused their id: they are stored under the type of that id.
CachedIsSendable ==
  "resent" \notin mishaps =>
    \A r \in Requests : request[r].hit =>
      {i \in request[r].ids : i.bot = request[r].bot} \subseteq Tries(r)

\* Of the temporary files of a request that succeeded only those are left that
\* are empty or whose unlink failed.
FilesGoWithSuccess ==
  \A r \in Requests : request[r].told = "ok" =>
    request[r].files \subseteq request[r].empty \cup request[r].stuck
=============================================================================
