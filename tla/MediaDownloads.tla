--------------------------- MODULE MediaDownloads ---------------------------
(***************************************************************************)
(* The platform downloaders of src/services/media: what download() of      *)
(* Instagram, TikTok, Pinterest, VK and the generic yt-dlp platforms does  *)
(* with the shared directory of temporary files, from the semaphore to the *)
(* moment the download service has sent the files and removed them.        *)
(*                                                                         *)
(* Each downloader owns a semaphore and the files whose names start with   *)
(* its platform, so one platform at a time is modelled.  The names on disk *)
(* are made from the id extracted from the link (a slot): links without an *)
(* id share one slot ("unknown", "item").  A worker thread goes through    *)
(* the platform's strategies; a timeout cancels the coroutine, not the     *)
(* thread.  YouTube has a module of its own.                               *)
(***************************************************************************)
EXTENDS Naturals, FiniteSets

CONSTANTS
  Requests,     \* calls of download(), each made at most once
  Platforms,    \* the platforms looked at, a subset of PlatformNames
  LinksOf,      \* LinksOf[p]: the links of users that p's downloader is given
  SlotOf,       \* SlotOf[l]: the id extracted from l, or the shared default
  ShowsOf,      \* ShowsOf[l]: the media the page behind l shows
  SlotsUnder,   \* SlotsUnder[s]: the slots whose file names start as those of s
  Permits,      \* Permits[p]: the size of the semaphore of p's downloader
  MaxTries,     \* attempts to fetch the metadata of a post
  MaxEdits      \* bound: how often a file and its copies are re-encoded

PlatformNames == {"instagram", "tiktok", "pinterest", "vk", "generic"}

Links == UNION {LinksOf[p] : p \in Platforms}
Slots == {SlotOf[l] : l \in Links}

ASSUME PlatformsAssumption == Platforms \subseteq PlatformNames
ASSUME SlotsAssumption ==
  SlotsUnder \in [Slots -> SUBSET Slots] /\ \A s \in Slots : s \in SlotsUnder[s]
ASSUME LimitsAssumption ==
  /\ Permits \in [Platforms -> Nat \ {0}]
  /\ MaxTries \in Nat \ {0} /\ MaxEdits \in Nat

VARIABLES
  platform,     \* the platform of this behaviour
  request,      \* the calls of download()
  disk,         \* the files of the platform in the temporary directory
  old           \* slots whose entry was last modified more than an hour ago

vars == <<platform, request, disk, old>>

-----------------------------------------------------------------------------
(* A file: its path (slot, base, edits), the media it holds, and whether   *)
(* all of it is there.  The base is the part of the name the strategy      *)
(* chooses; edits counts the times the file was re-encoded, each time      *)
(* under a longer name.                                                    *)

SamePath(f, g) ==
  /\ f.slot = g.slot
  /\ f.base = g.base
  /\ f.edits = g.edits
  /\ platform = "tiktok" => f.of = g.of     \* TikTok names hold title and id

Nowhere == "nowhere"

Idle == [pc |-> "idle", link |-> Nowhere, post |-> "none", tries |-> 0,
         files |-> {}, cancelled |-> FALSE, alone |-> TRUE, broken |-> FALSE]

InThread == {"fetch", "ytdlp", "sidecar", "url", "loader", "merge", "story",
             "video", "photo", "board"}
InLoop == {"html", "edit", "check"}
AtService == {"result", "sent"}
Final == {"idle", "done", "failed"}

At(r, pc) == request[r].pc = pc
Slot(r) == SlotOf[request[r].link]
Media(r) == ShowsOf[request[r].link]
Set(r, rec) == request' = [request EXCEPT ![r] = rec]

\* A call that has ended keeps nothing.
End(r, pc) == Set(r, [Idle EXCEPT !.pc = pc])
Fail(r) == End(r, "failed")

\* A cancelled request is a thread without its coroutine.  _download_sync of
\* Instagram is one thread for the whole chain; elsewhere the coroutine goes
\* from one strategy to the next.  broken remembers, while the call is alone,
\* whether a step of it left a file that is not complete (a history flag).
Goto(r, pc, broke) ==
  IF \/ pc = "failed"
     \/ request[r].cancelled /\ ~(platform = "instagram" /\ pc \in InThread)
  THEN Fail(r)
  ELSE Set(r, [request[r] EXCEPT !.pc = pc, !.broken = @ \/ (broke /\ request[r].alone)])
Finish(r, found, broke) ==
  IF request[r].cancelled THEN Fail(r)
  ELSE Set(r, [request[r] EXCEPT !.files = found, !.pc = "edit", !.post = "none", !.tries = 0,
                                 !.broken = @ \/ (broke /\ request[r].alone)])
DiskUnchanged == UNCHANGED <<disk, old>>

InSlot(s) == {f \in disk : f.slot = s}
\* The media files of a slot's directory d.
MediaIn(d, s) == {f \in d : f.slot = s}
\* The files a name pattern of the slot matches: those of longer ids as well.
Matching(s) == {f \in disk : f.slot \in SlotsUnder[s]}
\* What the paths of some files hold now.
OnDisk(files) == {g \in disk : \E f \in files : SamePath(f, g)}

Written(r, base, whole) ==
  [slot |-> Slot(r), base |-> base, edits |-> 0, of |-> Media(r), whole |-> whole]
File(r, base) == Written(r, base, TRUE)
Files(r, bases) == {File(r, base) : base \in bases}
Rests(r, bases) == {Written(r, base, FALSE) : base \in bases}

\* A write replaces what the path held and makes the platform's entry in the
\* temporary directory new again, except that the files of Instagram lie one
\* directory further down: only the first of them changes the entry.
PutAll(files) ==
  /\ disk' = (disk \ OnDisk(files)) \cup files
  /\ old' = {s \in old : \/ platform = "instagram" /\ InSlot(s) # {}
                         \/ \A f \in files : f.slot # s}

Put(f) == PutAll({f})

\* An old entry that is empty now is not looked at.
Remove(files) ==
  /\ disk' = disk \ files
  /\ old' = {s \in old : \E f \in disk' : f.slot = s}

\* A write that fails leaves the path as it was, or with a part of the file.
\* What yt-dlp leaves when it fails ("rest": a stream, an unmerged or partial
\* download) has a name of its own; what no strategy would take for media by its
\* suffix is left out.
Leave(r, base, broke) == IF broke THEN Put(Written(r, base, FALSE)) ELSE DiskUnchanged

\* yt-dlp does not download again what is on disk under the name it would use,
\* goes on with what a failed run has left, and removes it in the end.
Downloaded(r) ==
  LET f == File(r, "ytdlp") IN
  IF OnDisk({f}) # {} THEN DiskUnchanged
  ELSE /\ disk' = (disk \ OnDisk(Rests(r, {"rest"}))) \cup {f}
       /\ old' = IF platform = "instagram" /\ InSlot(Slot(r)) # {} THEN old ELSE old \ {Slot(r)}

-----------------------------------------------------------------------------
Init ==
  /\ platform \in Platforms
  /\ request = [r \in Requests |-> Idle]
  /\ disk = {}
  /\ old = {}

\* The service calls download(): it waits for the semaphore.
Call(r) ==
  /\ At(r, "idle")
  /\ \E l \in LinksOf[platform] : Set(r, [request[r] EXCEPT !.pc = "wait", !.link = l])
  /\ UNCHANGED <<platform, disk, old>>

\* Mutant: the permit is given back only by a download that succeeds.
HoldingUntilSuccess == {r \in Requests : request[r].pc \in InThread \cup InLoop \cup {"failed"}}

Holding == {r \in Requests : request[r].pc \in InThread \cup InLoop /\ ~request[r].cancelled}

Working(r) == request[r].pc \notin Final \cup {"wait"}

\* The flags are looked at no more.
NotAlone(r) == [request[r] EXCEPT !.alone = FALSE, !.broken = FALSE]

Neighbours(r) ==
  {q \in Requests \ {r} : /\ Working(q)
                          /\ \/ Slot(q) \in SlotsUnder[Slot(r)]
                             \/ Slot(r) \in SlotsUnder[Slot(q)]}

\* A kind of Instagram link the downloader does not know fails at once.
FirstSteps ==
  IF platform = "instagram" THEN {"fetch", "story", "failed"} ELSE {"ytdlp"}

\* The semaphore is taken and the directory made; alone remembers whether the
\* slot was empty and nobody else was at work on it (a history flag).
Enter(r) ==
  /\ At(r, "wait")
  /\ Cardinality(Holding) < Permits[platform]
  /\ \E pc \in FirstSteps :
       request' = [q \in Requests |->
         IF q # r THEN IF q \in Neighbours(r) THEN NotAlone(q) ELSE request[q]
         ELSE IF pc = "failed" THEN [Idle EXCEPT !.pc = pc]
         ELSE [request[r] EXCEPT !.pc = pc,
                 !.alone = Matching(Slot(r)) = {} /\ Neighbours(r) = {}]]
  /\ UNCHANGED <<platform, disk, old>>

-----------------------------------------------------------------------------
(* Instagram                                                               *)

\* _fetch_post_with_retry: an error is tried again; a post that does not
\* exist, or the last error, ends the attempts; a required login ends all.
FetchPost(r) ==
  /\ At(r, "fetch")
  /\ \/ \E kind \in {"sidecar", "video", "photo"} :
          Set(r, [request[r] EXCEPT
                !.post = kind, !.tries = 0, !.pc = IF kind = "sidecar" THEN "sidecar" ELSE "ytdlp"])
     \/ /\ request[r].tries + 1 < MaxTries
        /\ Set(r, [request[r] EXCEPT !.tries = @ + 1])
     \/ Set(r, [request[r] EXCEPT !.tries = 0, !.pc = "ytdlp"])
     \/ Fail(r)
  /\ UNCHANGED <<platform, disk, old>>

\* Of an album the first piece is a video, the second a photo.
Pieces == {"node1", "node2"}
Images == {"photo", "node2"}

\* _download_sidecar: the nodes that could be downloaded.  If there is none, the
\* whole post with instaloader, which keeps what it finds under its names, and
\* everything in the directory; else yt-dlp as the last chance.
Sidecar(r) ==
  /\ At(r, "sidecar")
  /\ \E hurt \in SUBSET Pieces :
       \/ \E nodes \in (SUBSET (Pieces \ hurt)) \ {{}} :
            /\ PutAll(Files(r, nodes) \cup Rests(r, hurt))
            /\ Finish(r, Files(r, nodes), hurt # {})
       \/ LET kept == {f.base : f \in OnDisk(Files(r, Pieces))} IN
          /\ PutAll(Files(r, Pieces \ (kept \cup hurt)) \cup Rests(r, hurt))
          /\ Finish(r, MediaIn(disk', Slot(r)), hurt # {})
       \/ PutAll(Rests(r, hurt)) /\ Goto(r, "ytdlp", hurt # {})
  /\ UNCHANGED platform

\* What follows a yt-dlp failure for each kind of post.
AfterYtDlp(post) ==
  CASE post = "video" -> "loader"
    [] post = "photo" -> "url"
    [] OTHER -> "failed"

\* _try_ytdlp_download: the files of the target directory whose name has the
\* marker of yt-dlp, so the re-encoded ones and the streams as well.
YtDlpInstagram(r) ==
  /\ platform = "instagram" /\ At(r, "ytdlp")
  /\ \/ /\ Downloaded(r)
        /\ Finish(r, {f \in MediaIn(disk', Slot(r)) : f.base \in {"ytdlp", "rest"}}, FALSE)
     \/ \E broke \in BOOLEAN :
          Goto(r, AfterYtDlp(request[r].post), broke) /\ Leave(r, "rest", broke)
  /\ UNCHANGED platform

\* The address of the video of a photo with music: from the metadata, else
\* from the API.  What fails is removed.
FromUrl(r) ==
  /\ At(r, "url")
  /\ \/ Put(File(r, "audio")) /\ Finish(r, {File(r, "audio")}, FALSE)
     \/ Goto(r, "loader", FALSE) /\ (DiskUnchanged \/ Remove(OnDisk({File(r, "audio")})))
  /\ UNCHANGED platform

\* instaloader's download_post, then every media file of the directory, with
\* what yt-dlp has left there.  For a photo an exception is tolerated and what
\* is on disk is taken.  A file of instaloader has its name when it is whole.
Loader(r) ==
  /\ At(r, "loader")
  /\ \/ /\ request[r].post = "video"
        /\ \/ Put(File(r, "video")) /\ Finish(r, MediaIn(disk', Slot(r)), FALSE)
           \/ Fail(r) /\ DiskUnchanged
     \/ /\ request[r].post = "photo"
        /\ Put(File(r, "photo")) \/ DiskUnchanged
        /\ LET found == MediaIn(disk', Slot(r)) IN
           IF found = {} THEN Fail(r)
           ELSE Set(r, [request[r] EXCEPT !.files = found, !.pc = "merge"])
  /\ UNCHANGED platform

\* The photo and its audio track become one video, of which only the size is
\* looked at, else the photos are the result, and a part of the video may stay.
Merge(r) ==
  /\ At(r, "merge")
  /\ \E broke \in BOOLEAN :
       \/ \E f \in OnDisk(request[r].files) :
            LET merged == [f EXCEPT !.base = "merged", !.edits = 0, !.whole = @ /\ ~broke] IN
            Put(merged) /\ Finish(r, {merged}, broke)
       \/ Finish(r, request[r].files, broke) /\ Leave(r, "merged", broke)
  /\ UNCHANGED platform

\* _handle_story_sync: the items, each in a directory of its own.
Story(r) ==
  /\ At(r, "story")
  /\ \/ Put(File(r, "story")) /\ Finish(r, {File(r, "story")}, FALSE)
     \/ Fail(r) /\ DiskUnchanged
  /\ UNCHANGED platform

-----------------------------------------------------------------------------
(* TikTok, VK and the generic platforms: one yt-dlp call.  With the option *)
(* ignoreerrors a failed download can still be reported.                   *)

\* Mutant: the files are looked for in the whole temporary directory.
YtDlpTikTokAnywhere(r) ==
  /\ platform = "tiktok" /\ At(r, "ytdlp")
  /\ \/ Downloaded(r) /\ Finish(r, disk', FALSE)
     \/ Fail(r) /\ DiskUnchanged
  /\ UNCHANGED platform

\* TikTok takes every media file of its directory.
YtDlpTikTok(r) ==
  /\ platform = "tiktok" /\ At(r, "ytdlp")
  /\ \/ Downloaded(r) /\ Finish(r, MediaIn(disk', Slot(r)), FALSE)
     \/ \E broke \in BOOLEAN :
          /\ Leave(r, "rest", broke)
          /\ LET found == MediaIn(disk', Slot(r)) IN
             Fail(r) \/ (found # {} /\ Finish(r, found, broke))
  /\ UNCHANGED platform

\* VK and the generic platforms name the one file themselves.
YtDlpSingle(r) ==
  /\ platform \in {"vk", "generic"} /\ At(r, "ytdlp")
  /\ \/ Downloaded(r) /\ Finish(r, {File(r, "ytdlp")}, FALSE)
     \/ \E broke \in BOOLEAN :
          Leave(r, "rest", broke) /\ (Fail(r) \/ Finish(r, {File(r, "ytdlp")}, broke))
  /\ UNCHANGED platform

-----------------------------------------------------------------------------
(* Pinterest                                                               *)

\* _strategy_ytdlp: one video of the directory, whichever run left it there, be
\* it a failed one; every image in it is removed.  A photo pin, or a directory
\* without a video, goes on to the next strategy.
YtDlpPinterest(r) ==
  /\ platform = "pinterest" /\ At(r, "ytdlp")
  /\ \E broke, got \in BOOLEAN :
       /\ ~(broke /\ got)
       /\ LET here == OnDisk({File(r, "ytdlp")}) # {}
              rests == Rests(r, {"rest"})
              present == CASE got /\ ~here -> (disk \ OnDisk(rests)) \cup {File(r, "ytdlp")}
                           [] broke -> (disk \ OnDisk(rests)) \cup rests
                           [] OTHER -> disk
              images == {f \in present : f.slot = Slot(r) /\ f.base \in Images}
          IN \/ /\ \E f \in MediaIn(present, Slot(r)) \ images : Finish(r, {f}, broke)
                /\ disk' = present \ images
             \/ ~got /\ Goto(r, "html", broke) /\ disk' = present
       /\ old' = IF disk' = disk THEN old ELSE old \ {Slot(r)}
  /\ UNCHANGED platform

\* _strategy_html_media: the page gives the address of a video, of an image,
\* or nothing; nothing sends a board to pinterest-dl and ends a single pin.
Html(r) ==
  /\ At(r, "html")
  /\ \E pc \in {"video", "photo", "board", "failed"} : Goto(r, pc, FALSE)
  /\ UNCHANGED <<platform, disk, old>>

\* _download_file_sync for the address the page gave.  A video that cannot be
\* downloaded leaves the image; an image that cannot, the last strategy.  The
\* part that came stays under the name of the file, unless it is very small.
FromPage(r) ==
  /\ platform = "pinterest"
  /\ \E kind \in {"video", "photo"} :
       /\ At(r, kind)
       /\ \/ Put(File(r, kind)) /\ Finish(r, {File(r, kind)}, FALSE)
          \/ \E broke \in BOOLEAN :
               /\ \E pc \in IF kind = "video" THEN {"photo", "board", "failed"}
                                             ELSE {"board", "failed"} : Goto(r, pc, broke)
               /\ Leave(r, kind, broke) \/ (~broke /\ Remove(OnDisk({File(r, kind)})))
  /\ UNCHANGED platform

\* _strategy_pinterest_dl: the pins that could be downloaded.
Board(r) ==
  /\ At(r, "board")
  /\ \E hurt \in SUBSET Pieces :
       \/ \E pins \in (SUBSET (Pieces \ hurt)) \ {{}} :
            /\ PutAll(Files(r, pins) \cup Rests(r, hurt))
            /\ Finish(r, Files(r, pins), hurt # {})
       \/ PutAll(Rests(r, hurt)) /\ Fail(r)
  /\ UNCHANGED platform

-----------------------------------------------------------------------------
(* After the thread                                                        *)

EditedOn == {"instagram", "tiktok"}     \* where a video may be re-encoded

Copy(f, whole) == [f EXCEPT !.edits = @ + 1, !.whole = whole]

\* The videos of the result.
Editable(r) ==
  {f \in OnDisk(request[r].files) :
     platform \in EditedOn /\ f.base \notin Images /\ f.edits < MaxEdits}

\* Mutant: the original is removed and stays in the list.
EditAppends(r) ==
  /\ At(r, "edit")
  /\ \/ \E f \in Editable(r) :
          LET edited == Copy(f, f.whole) IN
          /\ disk' = (disk \ {f}) \cup {edited}
          /\ old' = old \ {Slot(r)}
          /\ Set(r, [request[r] EXCEPT !.pc = "check", !.files = @ \cup {edited}])
     \/ Set(r, [request[r] EXCEPT !.pc = "check"]) /\ DiskUnchanged
  /\ UNCHANGED platform

\* _compress_videos, _remove_watermark: a file that exists is written again
\* under a longer name and the original removed, or it is kept as it is.  When
\* the program fails, Instagram, which looks at the size of the copy only, may
\* take the part that was written (cut); TikTok leaves it beside the original
\* (left).
Edit(r) ==
  /\ At(r, "edit")
  /\ \E some \in SUBSET Editable(r), hurt \in SUBSET Editable(r) :
       LET cut == IF platform = "instagram" THEN some \cap hurt ELSE {}
           left == IF platform = "tiktok" THEN hurt \ some ELSE {}
           edited == {Copy(f, f.whole /\ f \notin cut) : f \in some}
           new == edited \cup {Copy(f, FALSE) : f \in left}
       IN
       /\ hurt = cut \cup left
       /\ disk' = (disk \ (OnDisk(new) \cup some)) \cup new
       /\ old' = IF platform = "instagram" \/ new = {} THEN old ELSE old \ {Slot(r)}
       /\ Set(r, [request[r] EXCEPT !.pc = "check", !.broken = @ \/ (hurt # {} /\ request[r].alone),
             !.files = {f \in @ : ~\E g \in some : SamePath(f, g)} \cup edited])
  /\ UNCHANGED platform

\* The last look at the disk: Instagram leaves out files that are gone, even
\* all of them; Pinterest fails when none is left; VK and the generic platforms
\* take another file whose name starts the same; TikTok does not look.
Checked(r) ==
  LET found == {f \in request[r].files : OnDisk({f}) # {}} IN
  CASE platform = "instagram" -> {found}
    [] platform = "pinterest" -> {found} \ {{}}
    [] platform = "tiktok"    -> {request[r].files}
    [] OTHER -> IF found # {} THEN {found} ELSE {{f} : f \in Matching(Slot(r))}

\* The semaphore is released with the result.
Check(r) ==
  /\ At(r, "check")
  /\ \/ \E files \in Checked(r) :
          Set(r, [request[r] EXCEPT !.pc = "result", !.files = files])
     \/ Checked(r) = {} /\ Fail(r)
  /\ UNCHANGED <<platform, disk, old>>

\* The service reads the files to send them, to the storage or to the user.
\* Files that are gone are skipped; what cannot be sent is left on disk.
Send(r) ==
  /\ At(r, "result")
  /\ LET sent == OnDisk(request[r].files) IN
     \/ sent # {} /\ Set(r, [NotAlone(r) EXCEPT !.pc = "sent", !.files = sent])
     \/ Fail(r)
  /\ UNCHANGED <<platform, disk, old>>

\* cleanup(): the files that were sent, by their paths.
\* A directory left empty goes with them.
Cleanup(r) ==
  /\ At(r, "sent")
  /\ Remove(OnDisk(request[r].files))
  /\ End(r, "done")
  /\ UNCHANGED platform

\* wait_for gives up after three minutes, wherever the coroutine is.  The
\* programs that re-encode its files are not stopped.
Timeout(r) ==
  /\ ~request[r].cancelled
  /\ \/ /\ request[r].pc \in {"wait"} \cup InLoop \cup AtService
        /\ Fail(r)
        /\ \/ DiskUnchanged
           \/ At(r, "edit") /\ \E f \in Editable(r) : Put(Copy(f, FALSE))
     \/ /\ request[r].pc \in InThread
        /\ Set(r, [NotAlone(r) EXCEPT !.cancelled = TRUE])
        /\ DiskUnchanged
  /\ UNCHANGED platform

-----------------------------------------------------------------------------
(* The hourly task cleanup_temp_files                                      *)

\* No download lasts an hour: time is bounded by the timeouts of the sockets.
HourPasses(s) ==
  /\ InSlot(s) # {} /\ s \notin old
  /\ \A r \in Requests : Working(r) => Slot(r) # s
  /\ old' = old \cup {s}
  /\ UNCHANGED <<platform, request, disk>>

\* Mutant: only plain files are removed, directories stay.
CleanupFilesOnly(s) ==
  /\ s \in old /\ platform \in {"vk", "generic"}
  /\ disk' = disk \ InSlot(s)
  /\ old' = old \ {s}
  /\ UNCHANGED <<platform, request>>

CleanupTempFiles(s) ==
  /\ s \in old
  /\ disk' = disk \ InSlot(s)
  /\ old' = old \ {s}
  /\ UNCHANGED <<platform, request>>

-----------------------------------------------------------------------------
Thread(r) ==
  \/ FetchPost(r) \/ Sidecar(r) \/ YtDlpInstagram(r) \/ FromUrl(r) \/ Loader(r)
  \/ Merge(r) \/ Story(r) \/ YtDlpTikTok(r) \/ YtDlpSingle(r)
  \/ YtDlpPinterest(r) \/ FromPage(r) \/ Board(r)

Coroutine(r) == Enter(r) \/ Html(r) \/ Edit(r) \/ Check(r) \/ Send(r) \/ Cleanup(r)

Next ==
  \/ \E r \in Requests : Call(r) \/ Thread(r) \/ Coroutine(r) \/ Timeout(r)
  \/ \E s \in Slots : HourPasses(s) \/ CleanupTempFiles(s)

\* A request is in its thread or in the loop, and a slot is old or not, so that
\* of each pair of actions at most one is enabled.  Threads end, since the sockets
\* and most programs of a thread have timeouts; the event loop goes on, and
\* wait_for bounds a coroutine whose ffmpeg hangs, which has none (Instagram);
\* the worker's cron job runs.  Nothing makes a user send a link.
Fairness ==
  /\ \A r \in Requests : WF_vars(Thread(r) \/ Coroutine(r))
  /\ \A s \in Slots : WF_vars(HourPasses(s) \/ CleanupTempFiles(s))

Spec == Init /\ [][Next]_vars /\ Fairness
-----------------------------------------------------------------------------
(* Properties                                                              *)

\* No other media shares the names of r's files: the id was extracted, and for
\* VK and the generic platforms, which look by prefix, no longer id is in use.
WellNamed(r) ==
  \A l \in LinksOf[platform] :
    \/ ShowsOf[l] = Media(r)
    \/ /\ SlotOf[l] # Slot(r)
       /\ platform \in {"vk", "generic"} => SlotOf[l] \notin SlotsUnder[Slot(r)]

\* What is sent for a link is the media of that link, whatever the other
\* downloads, the leftovers of earlier ones and the cleanup do meanwhile
\* (download of each platform, the collection of files by directory).
OwnMedia ==
  \A r \in Requests : At(r, "sent") /\ WellNamed(r) =>
    \A f \in request[r].files : f.of = Media(r)

\* A download that had its names to itself hands over at least one file; they
\* are all on disk, so that neither a re-encoding nor the hourly cleanup took
\* one, and none is handed over beside a re-encoded copy of it.  If no step of
\* the call broke off inside a file, each of them is whole, and they are one
\* file or pieces of an album: nothing is handed over twice.
\* (_collect_media, _compress_videos, _remove_watermark, cleanup_temp_files).
AloneIsComplete ==
  \A r \in Requests : At(r, "result") /\ request[r].alone =>
    /\ request[r].files # {}
    /\ request[r].files \subseteq disk
    /\ \A f, g \in request[r].files : f.base = g.base => f = g
    /\ ~request[r].broken =>
         /\ \A f \in request[r].files : f.whole
         /\ \A f, g \in request[r].files : f = g \/ {f.base, g.base} \subseteq Pieces

\* The temporary directory does not fill up: what failed and timed out
\* downloads leave is removed in the end (cleanup, cleanup_temp_files).
TempEmptied == []<>(disk = {})

\* The calls come to an end, those that wait for the semaphore while others
\* are cancelled or fail with it too (async with self.semaphore): since a call
\* is made once, it has ended when none waits or is at work.
EveryCallEnds == []<>(\A r \in Requests : request[r].pc \in Final)
=============================================================================
