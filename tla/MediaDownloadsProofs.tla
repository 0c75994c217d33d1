------------------------ MODULE MediaDownloadsProofs ------------------------
(***************************************************************************)
(* What the platform downloaders of MediaDownloads guarantee for any       *)
(* links, ids, semaphores and number of calls at a time, with every        *)
(* failure, time-out and clean-up.  One invariant says what is on disk and *)
(* in the hands of a call, whoever put it there; the other what a call     *)
(* finds that has had its names to itself: nothing while all its steps     *)
(* ended well or cleanly, then its own complete files; only what it has    *)
(* written itself once a step has broken off.                              *)
(***************************************************************************)
EXTENDS MediaDownloads, TLAPS

Bases ==
  {"node1", "node2", "ytdlp", "rest", "audio", "merged", "story", "video", "photo"}

FileType == [slot : Slots, base : Bases, edits : Nat, of : {ShowsOf[l] : l \in Links}, whole : BOOLEAN]

\* The files that hold media of a link of p, or a part of it, under its names.
Genuine(p) ==
  {f \in FileType : \E l \in LinksOf[p] : f.slot = SlotOf[l] /\ f.of = ShowsOf[l]}

\* Those of l as its download writes them.
Fresh(l) ==
  [slot : {SlotOf[l]}, base : Bases, edits : {0}, of : {ShowsOf[l]}, whole : BOOLEAN]

\* Where the chain of a platform may be before its files are complete.
ChainOf(p) ==
  CASE p = "instagram" -> {"fetch", "ytdlp", "sidecar", "url", "loader", "merge", "story"}
    [] p = "pinterest" -> {"ytdlp", "html", "video", "photo", "board"}
    [] OTHER -> {"ytdlp"}

ByPrefix == {"vk", "generic"}

\* The slots of the files that a call for l may take for its own.
ReachOf(p, l) == IF p \in ByPrefix THEN SlotsUnder[SlotOf[l]] ELSE {SlotOf[l]}

Calls(p) ==
  [pc : Final \cup {"wait"} \cup InThread \cup InLoop \cup AtService,
   link : LinksOf[p] \cup {Nowhere}, post : {"none", "sidecar", "video", "photo"}, tries : Nat,
   files : SUBSET Genuine(p), cancelled : BOOLEAN, alone : BOOLEAN, broken : BOOLEAN]

GoodCall(p, q) ==
  /\ q \in Calls(p)
  /\ q.pc \in Final => q.files = {}
  /\ q.pc \notin Final => q.link \in LinksOf[p] /\ \A f \in q.files : f.slot \in ReachOf(p, q.link)
  /\ q.pc \in InThread \cup {"html"} => q.pc \in ChainOf(p)

\* No two of the files d have the same path.
OnePerPath(d) == \A f, g \in d : SamePath(f, g) => f = g

FileInv ==
  /\ platform \in Platforms
  /\ request = [r \in Requests |-> request[r]]
  /\ \A r \in Requests : GoodCall(platform, request[r])
  /\ disk \subseteq Genuine(platform)
  /\ OnePerPath(disk)
  /\ \A s \in old : \E f \in disk : f.slot = s

\* The files d that a download of l might come across.
Mine(l, d) == {f \in d : f.slot \in SlotsUnder[SlotOf[l]]}

\* A result that is complete: one file, or pieces of an album.
Complete(files) ==
  /\ \A f \in files : f.whole
  /\ \A f, g \in files : f = g \/ {f.base, g.base} \subseteq Pieces

\* What an undisturbed call q finds on disk d, with o the old slots.
Undisturbed(p, q, d, o) ==
  LET mine == Mine(q.link, d) IN
  /\ SlotOf[q.link] \notin o
  /\ \A f \in mine : f.slot = SlotOf[q.link]
  /\ q.pc \in InThread \cup {"html"} =>
       /\ mine \subseteq Fresh(q.link) /\ \A f \in mine : f.base # "merged"
       /\ p \in ByPrefix => mine = {}
       /\ ~q.broken /\ q.pc # "merge" => mine = {}
  /\ q.pc = "merge" =>
       /\ q.files \subseteq mine /\ q.files # {}
       /\ ~q.broken => Complete(q.files)
  /\ q.pc \in {"edit", "check", "result"} =>
       /\ q.files # {}
       /\ \A f, g \in q.files : f.base = g.base => f = g
       /\ ~q.broken => Complete(q.files)
       /\ \/ q.files \subseteq mine
          \/ /\ p \in ByPrefix /\ q.pc # "result"
             /\ \A f \in q.files, g \in mine : f.base # g.base
             /\ ~q.broken => mine = {}

Related(s, t) == s \in SlotsUnder[t] \/ t \in SlotsUnder[s]

AloneInv ==
  \A r \in Requests : Working(r) /\ request[r].alone =>
    /\ Undisturbed(platform, request[r], disk, old)
    /\ \A q \in Requests \ {r} : Working(q) => ~Related(Slot(q), Slot(r))

Inv == FileInv /\ AloneInv

-----------------------------------------------------------------------------
(* What a step of a call does *)

\* The files a step of r adds or takes away, the old entries it leaves.
DiskEffect(r) ==
  /\ platform' = platform
  /\ disk' \subseteq Genuine(platform)
  /\ OnePerPath(disk')
  /\ \A f \in disk' \ disk : f.slot = Slot(r)
  /\ \A f \in disk \ disk' : f.slot \in ReachOf(platform, request[r].link)
  /\ old' \subseteq old
  /\ \A s \in old' : \E f \in disk' : f.slot = s

\* The call that r becomes.
CallEffect(r, rec) ==
  /\ Set(r, rec)
  /\ GoodCall(platform, rec)
  /\ rec.pc \notin Final =>
       Working(r) /\ rec.link = request[r].link /\ (rec.alone => request[r].alone)
  /\ Working(r) \/ disk' = disk
  /\ rec.pc \notin Final /\ rec.alone /\ Undisturbed(platform, request[r], disk, old)
       => Undisturbed(platform, rec, disk', old')

Effect(r) == DiskEffect(r) /\ \E rec : CallEffect(r, rec)

\* The paths of a call's slot are its own.
LEMMA ReachIsUnder ==
  ASSUME NEW p \in Platforms, NEW l \in LinksOf[p]
  PROVE  /\ l \in Links /\ SlotOf[l] \in Slots /\ SlotOf[l] \in SlotsUnder[SlotOf[l]]
         /\ SlotOf[l] \in ReachOf(p, l)
         /\ ReachOf(p, l) \subseteq SlotsUnder[SlotOf[l]]
<1>1. l \in Links /\ SlotOf[l] \in Slots
  BY DEF Slots, Links
<1>. QED  BY <1>1, SlotsAssumption DEF ReachOf

\* What a link's download writes is genuine.
LEMMA FreshIsGenuine ==
  ASSUME NEW p \in Platforms, NEW l \in LinksOf[p]
  PROVE  Fresh(l) \subseteq Genuine(p)
<1>1. l \in Links
  BY ReachIsUnder
<1>. QED  BY <1>1 DEF Fresh, Genuine, FileType, Slots

\* A call at work has a link.
LEMMA WorkingLink ==
  ASSUME FileInv, NEW r \in Requests, Working(r)
  PROVE  request[r].link \in LinksOf[platform] /\ request[r] \in Calls(platform)
BY DEF FileInv, GoodCall, Working

\* An undisturbed call finds the same when its files are the same.
LEMMA SameMine ==
  ASSUME NEW p, NEW q, NEW d, NEW e, NEW o, NEW n, Undisturbed(p, q, d, o),
         Mine(q.link, e) = Mine(q.link, d), n \subseteq o
  PROVE  Undisturbed(p, q, e, n)
BY DEF Undisturbed

\* The files of an undisturbed call are not touched by those at work elsewhere.
LEMMA OthersMine ==
  ASSUME Inv, NEW r \in Requests, NEW q \in Requests \ {r}, DiskEffect(r),
         Working(r), Working(q), request[q].alone
  PROVE  Mine(request[q].link, disk') = Mine(request[q].link, disk)
<1>. DEFINE l == request[q].link
            k == request[r].link
<1>1. l \in LinksOf[platform] /\ k \in LinksOf[platform] /\ platform \in Platforms
  BY WorkingLink DEF Inv, FileInv
<1>2. ~Related(SlotOf[k], SlotOf[l]) /\ Undisturbed(platform, request[q], disk, old)
  BY DEF Inv, AloneInv, Slot
<1>3. SlotOf[k] \notin SlotsUnder[SlotOf[l]] /\ SlotOf[l] \notin SlotsUnder[SlotOf[k]]
  BY <1>2 DEF Related
<1>4. ASSUME NEW f \in Mine(l, disk') PROVE f \in Mine(l, disk)
  <2>1. f \in disk' /\ f.slot # SlotOf[k]
    BY <1>3 DEF Mine
  <2>. QED  BY <2>1 DEF DiskEffect, Slot, Mine
<1>5. ASSUME NEW f \in Mine(l, disk) PROVE f \in Mine(l, disk')
  <2>1. f \in disk /\ f.slot = SlotOf[l]
    BY <1>2 DEF Mine, Undisturbed
  <2>2. f.slot \notin ReachOf(platform, k)
    BY <1>1, <1>3, <2>1, ReachIsUnder
  <2>. QED  BY <2>1, <2>2 DEF DiskEffect, Mine
<1>. QED  BY <1>4, <1>5

\* The other calls keep what they have, and an undisturbed one remains so.
LEMMA EffectKeeps ==
  ASSUME Inv, NEW r \in Requests, Effect(r)
  PROVE  Inv'
<1>1. PICK rec : CallEffect(r, rec)
  BY DEF Effect
<1>2. request'[r] = rec /\ \A q \in Requests \ {r} : request'[q] = request[q]
  BY <1>1 DEF CallEffect, Set, Inv, FileInv
<1>3. request' = [q \in Requests |-> request'[q]]
  BY <1>1 DEF CallEffect, Set, Inv, FileInv
<1>4. platform' = platform
  BY DEF Effect, DiskEffect
<1>5. FileInv'
  <2>1. \A q \in Requests : GoodCall(platform, request'[q])
    BY <1>1, <1>2 DEF CallEffect, Inv, FileInv
  <2>2. \A q \in Requests : GoodCall(platform', request'[q])
    BY <1>4, <2>1
  <2>3. OnePerPath(disk)'
    BY <1>4 DEF Effect, DiskEffect, OnePerPath, SamePath
  <2>4. disk' \subseteq Genuine(platform')
    BY <1>4 DEF Effect, DiskEffect
  <2>. QED  BY <1>3, <1>4, <2>2, <2>3, <2>4 DEF FileInv, Inv, Effect, DiskEffect
<1>6. \A q \in Requests : Working(q)' =>
        /\ Working(q) /\ request'[q].link = request[q].link
        /\ request'[q].alone => request[q].alone
  <2>1. ASSUME NEW q \in Requests, Working(q)'
        PROVE  /\ Working(q) /\ request'[q].link = request[q].link
               /\ request'[q].alone => request[q].alone
    <3>1. CASE q = r
      <4>1. rec.pc \notin Final
        BY <1>2, <2>1, <3>1 DEF Working
      <4>. QED  BY <1>1, <1>2, <3>1, <4>1 DEF CallEffect
    <3>2. CASE q # r
      BY <1>2, <2>1, <3>2 DEF Working
    <3>. QED  BY <3>1, <3>2
  <2>. QED  BY <2>1
<1>7. ASSUME NEW q \in Requests, Working(q)', request'[q].alone
      PROVE  Undisturbed(platform, request'[q], disk', old')
  <2>1. Working(q) /\ request[q].alone /\ Undisturbed(platform, request[q], disk, old)
    BY <1>6, <1>7 DEF Inv, AloneInv
  <2>2. CASE q = r
    <3>1. rec.pc \notin Final /\ rec.alone
      BY <1>2, <1>7, <2>2 DEF Working
    <3>. QED  BY <1>1, <1>2, <2>1, <2>2, <3>1 DEF CallEffect
  <2>3. CASE q # r
    <3>1. Mine(request[q].link, disk') = Mine(request[q].link, disk)
      <4>1. CASE Working(r)
        BY <2>1, <2>3, <4>1, OthersMine DEF Effect
      <4>2. CASE disk' = disk
        BY <4>2
      <4>. QED  BY <1>1, <4>1, <4>2 DEF CallEffect
    <3>2. request'[q] = request[q] /\ old' \subseteq old
      BY <1>2, <2>3 DEF Effect, DiskEffect
    <3>. QED  BY <2>1, <3>1, <3>2, SameMine
  <2>. QED  BY <2>2, <2>3
<1>8. ASSUME NEW q \in Requests, Working(q)', request'[q].alone,
             NEW s \in Requests \ {q}, Working(s)'
      PROVE  ~Related(SlotOf[request'[s].link], SlotOf[request'[q].link])
  BY <1>6, <1>8 DEF Inv, AloneInv, Slot
<1>9. AloneInv'
  BY <1>4, <1>7, <1>8 DEF AloneInv, Slot, Related
<1>. QED  BY <1>5, <1>9 DEF Inv

-----------------------------------------------------------------------------
(* What the parts of a step do *)

Quiet(r) == request[r].alone /\ Undisturbed(platform, request[r], disk, old)

Own(r) == Mine(request[r].link, disk)

\* The names of r's link are written by nobody else, and not old.
Tidy(r, d, o) == Slot(r) \notin o /\ Mine(request[r].link, d) \subseteq Fresh(request[r].link)

Places == InThread \cup {"html"}

\* A call in its thread is at work, with a link, where its platform has a place.
LEMMA InPlace ==
  ASSUME FileInv, NEW r \in Requests, request[r].pc \in Places
  PROVE  /\ Working(r) /\ request[r] \in Calls(platform)
         /\ platform \in Platforms /\ request[r].link \in LinksOf[platform]
         /\ request[r].pc \in ChainOf(platform)
         /\ Slot(r) \in Slots /\ Slot(r) \in ReachOf(platform, request[r].link)
         /\ Slot(r) \in SlotsUnder[Slot(r)]
<1>1. Working(r) /\ platform \in Platforms
  BY DEF Places, InThread, Working, Final, FileInv
<1>2. request[r] \in Calls(platform) /\ request[r].link \in LinksOf[platform]
  BY <1>1, WorkingLink
<1>3. request[r].pc \in ChainOf(platform)
  BY DEF FileInv, GoodCall, Places
<1>. QED  BY <1>1, <1>2, <1>3, ReachIsUnder DEF Slot

LEMMA QuietInPlace ==
  ASSUME NEW r \in Requests, request[r].pc \in Places, Quiet(r)
  PROVE  /\ Tidy(r, disk, old) /\ request[r].alone
         /\ \A f \in Own(r) : f.base # "merged"
         /\ platform \in ByPrefix => Own(r) = {}
         /\ ~request[r].broken /\ request[r].pc # "merge" => Own(r) = {}
BY DEF Quiet, Undisturbed, Tidy, Places, Slot, Own

\* A step that leaves the directory as it is.
LEMMA NothingWritten ==
  ASSUME FileInv, NEW r \in Requests, platform' = platform, DiskUnchanged
  PROVE  DiskEffect(r)
BY DEF FileInv, DiskEffect, DiskUnchanged

\* A step that takes some files of r's slot away and writes others.
Rewrites(r, gone, new) ==
  /\ platform' = platform
  /\ gone \subseteq disk /\ \A f \in gone : f.slot = Slot(r)
  /\ new \subseteq Genuine(platform) /\ OnePerPath(new) /\ \A f \in new : f.slot = Slot(r)
  /\ disk' = (disk \ (OnDisk(new) \cup gone)) \cup new
  /\ old' \subseteq old
  /\ Slot(r) \in old' => \E f \in disk' : f.slot = Slot(r)

LEMMA Rewritten ==
  ASSUME FileInv, NEW r \in Requests, request[r].link \in LinksOf[platform],
         NEW gone, NEW new, Rewrites(r, gone, new)
  PROVE  DiskEffect(r)
<1>1. platform \in Platforms
  BY DEF FileInv
<1>2. /\ \A f \in disk' \ disk : f.slot = Slot(r)
      /\ \A f \in disk \ disk' : f.slot = Slot(r)
      /\ disk' \subseteq Genuine(platform)
  BY DEF Rewrites, OnDisk, SamePath, FileInv
<1>3. OnePerPath(disk')
  <2>1. ASSUME NEW f \in disk', NEW g \in disk', SamePath(f, g) PROVE f = g
    <3>1. SamePath(g, f)
      BY <2>1 DEF SamePath
    <3>2. CASE f \in new /\ g \in new
      BY <2>1, <3>2 DEF Rewrites, OnePerPath
    <3>3. CASE f \notin new /\ g \notin new
      BY <2>1, <3>3 DEF Rewrites, OnePerPath, FileInv
    <3>4. CASE f \in new /\ g \notin new
      BY <2>1, <3>4 DEF Rewrites, OnDisk
    <3>5. CASE f \notin new /\ g \in new
      BY <3>1, <3>5 DEF Rewrites, OnDisk
    <3>. QED  BY <3>2, <3>3, <3>4, <3>5
  <2>. QED  BY <2>1 DEF OnePerPath
<1>4. ASSUME NEW s \in old' PROVE \E f \in disk' : f.slot = s
  <2>1. CASE s = Slot(r)
    BY <2>1, <1>4 DEF Rewrites
  <2>2. CASE s # Slot(r)
    <3>1. PICK f \in disk : f.slot = s
      BY <1>4 DEF Rewrites, FileInv
    <3>. QED  BY <1>2, <2>2, <3>1
  <2>. QED  BY <2>1, <2>2
<1>5. Slot(r) \in ReachOf(platform, request[r].link)
  BY <1>1, ReachIsUnder DEF Slot
<1>. QED  BY <1>2, <1>3, <1>4, <1>5 DEF DiskEffect, Rewrites

\* What an undisturbed call finds after such a step.
LEMMA RewrittenAlone ==
  ASSUME FileInv, NEW r \in Requests, request[r].pc \in Places, Quiet(r),
         NEW gone, NEW new, Rewrites(r, gone, new), new \subseteq Fresh(request[r].link)
  PROVE  /\ Tidy(r, disk', old') /\ new \subseteq Mine(request[r].link, disk')
         /\ Mine(request[r].link, disk') \subseteq Own(r) \cup new
         /\ Own(r) = {} => Mine(request[r].link, disk') = new
<1>. DEFINE l == request[r].link
<1>1. \A f \in new : f.slot \in SlotsUnder[SlotOf[l]]
  BY InPlace DEF Rewrites, Slot
<1>2. Mine(l, disk') \subseteq Own(r) \cup new /\ new \subseteq Mine(l, disk')
  BY <1>1 DEF Mine, Rewrites, Own
<1>3. Tidy(r, disk, old)
  BY QuietInPlace
<1>. QED  BY <1>2, <1>3 DEF Tidy, Own, Rewrites

\* Writing some files.
LEMMA PutRewrites ==
  ASSUME FileInv, NEW r \in Requests, NEW files \in SUBSET Genuine(platform),
         \A f \in files : f.slot = Slot(r), OnePerPath(files), PutAll(files), platform' = platform
  PROVE  Rewrites(r, {}, files)
<1>1. disk' = (disk \ OnDisk(files)) \cup files /\ old' \subseteq old
  BY DEF PutAll
<1>2. ASSUME Slot(r) \in old' PROVE \E f \in disk' : f.slot = Slot(r)
  <2>1. PICK f \in disk : f.slot = Slot(r)
    BY <1>1, <1>2 DEF FileInv
  <2>2. CASE f \in OnDisk(files)
    BY <1>1, <2>2 DEF OnDisk
  <2>. QED  BY <1>1, <2>1, <2>2
<1>. QED  BY <1>1, <1>2 DEF Rewrites

\* Removing some files.
LEMMA RemoveRewrites ==
  ASSUME FileInv, NEW r \in Requests, NEW files \in SUBSET disk,
         \A f \in files : f.slot = Slot(r), Remove(files), platform' = platform
  PROVE  Rewrites(r, files, {})
BY DEF Remove, Rewrites, OnDisk, OnePerPath

\* What a call writes in its thread.
LEMMA FreshFiles ==
  ASSUME FileInv, NEW r \in Requests, request[r].link \in LinksOf[platform],
         NEW files \in SUBSET Fresh(request[r].link)
  PROVE  files \in SUBSET Genuine(platform) /\ \A f \in files : f.slot = Slot(r)
BY FreshIsGenuine DEF FileInv, Fresh, Slot

Part(r, base) == Written(r, base, FALSE)

LEMMA WrittenFile ==
  ASSUME NEW r \in Requests, NEW base \in Bases, NEW whole \in BOOLEAN
  PROVE  LET f == Written(r, base, whole) IN
         /\ f \in Fresh(request[r].link) /\ f.base = base /\ f.whole = whole
         /\ f.slot = Slot(r) /\ {f} \in SUBSET Fresh(request[r].link) /\ OnePerPath({f})
BY DEF Written, Fresh, Slot, Media, OnePerPath

LEMMA WrittenPart ==
  ASSUME NEW r \in Requests, NEW base \in Bases
  PROVE  /\ {Part(r, base)} \in SUBSET Fresh(request[r].link) /\ OnePerPath({Part(r, base)})
         /\ Part(r, base).slot = Slot(r) /\ Part(r, base).base = base
BY DEF Part, Written, Fresh, Slot, Media, OnePerPath

\* yt-dlp has written its file, now or before.
LEMMA DownloadedEffect ==
  ASSUME FileInv, NEW r \in Requests, request[r].pc \in Places, Downloaded(r), platform' = platform
  PROVE  /\ DiskEffect(r)
         /\ \E f \in disk' : f.slot = Slot(r) /\ f.base = "ytdlp"
         /\ Quiet(r) => /\ Tidy(r, disk', old')
                        /\ Own(r) = {} => Mine(request[r].link, disk') = {File(r, "ytdlp")}
<1>. DEFINE file == File(r, "ytdlp")
            rests == Rests(r, {"rest"})
            l == request[r].link
<1>1. l \in LinksOf[platform] /\ Slot(r) \in SlotsUnder[Slot(r)]
  BY InPlace
<1>2. /\ {file} \in SUBSET Fresh(l) /\ file.slot = Slot(r) /\ file.base = "ytdlp"
      /\ OnePerPath({file})
  BY WrittenFile DEF File, Bases
<1>3. \A f \in OnDisk(rests) : f.slot = Slot(r)
  BY DEF OnDisk, SamePath, Rests, Written
<1>4. CASE OnDisk({file}) # {}
  <2>1. DiskUnchanged
    BY <1>4 DEF Downloaded
  <2>2. PICK g \in disk : SamePath(file, g)
    BY <1>4 DEF OnDisk
  <2>3. g.slot = Slot(r) /\ g.base = "ytdlp"
    BY <1>2, <2>2 DEF SamePath
  <2>4. ASSUME Quiet(r) PROVE Tidy(r, disk', old') /\ Own(r) # {}
    <3>1. g \in Own(r)
      BY <1>1, <2>3 DEF Own, Mine, Slot
    <3>2. Tidy(r, disk, old)
      BY <2>4, QuietInPlace
    <3>. QED  BY <2>1, <3>1, <3>2 DEF DiskUnchanged
  <2>5. DiskEffect(r)
    BY <2>1, NothingWritten
  <2>. QED  BY <2>1, <2>3, <2>4, <2>5 DEF DiskUnchanged
<1>5. CASE OnDisk({file}) = {}
  <2>1. /\ disk' = (disk \ OnDisk(rests)) \cup {file}
        /\ old' \subseteq old /\ file \in disk'
    BY <1>5 DEF Downloaded
  <2>2. {file} \subseteq Genuine(platform)
    BY <1>1, <1>2, FreshFiles
  <2>3. Rewrites(r, OnDisk(rests), {file})
    <3>1. OnDisk(rests) \subseteq disk
      BY DEF OnDisk
    <3>. QED  BY <1>2, <1>3, <1>5, <2>1, <2>2, <3>1 DEF Rewrites
  <2>4. DiskEffect(r)
    BY <1>1, <2>3, Rewritten
  <2>5. Quiet(r) => Tidy(r, disk', old') /\ (Own(r) = {} => Mine(l, disk') = {file})
    BY <1>2, <2>3, RewrittenAlone
  <2>. QED  BY <1>2, <2>1, <2>4, <2>5
<1>. QED  BY <1>4, <1>5

\* A write may have broken off.
LEMMA LeaveEffect ==
  ASSUME FileInv, NEW r \in Requests, request[r].pc \in Places, NEW base \in Bases,
         NEW broke \in BOOLEAN, Leave(r, base, broke), platform' = platform
  PROVE  \E new \in SUBSET Fresh(request[r].link) :
           /\ Rewrites(r, {}, new)
           /\ broke => new = {Part(r, base)}
           /\ ~broke => new = {}
           /\ \A f \in new : f.base = base
<1>. DEFINE part == Part(r, base)
<1>1. request[r].link \in LinksOf[platform]
  BY InPlace
<1>2. CASE broke
  <2>1. /\ {part} \in SUBSET Fresh(request[r].link) /\ OnePerPath({part})
        /\ part.base = base
    BY WrittenPart
  <2>2. {part} \in SUBSET Genuine(platform) /\ \A f \in {part} : f.slot = Slot(r)
    BY <1>1, <2>1, FreshFiles
  <2>3. PutAll({part})
    BY <1>2 DEF Leave, Put, Part
  <2>4. Rewrites(r, {}, {part})
    BY <2>1, <2>2, <2>3, PutRewrites
  <2>. QED  BY <1>2, <2>1, <2>4
<1>3. CASE ~broke
  <2>1. DiskUnchanged
    BY <1>3 DEF Leave
  <2>2. Rewrites(r, {}, {})
    BY <2>1 DEF Rewrites, DiskUnchanged, OnDisk, OnePerPath, FileInv
  <2>. QED  BY <1>3, <2>2
<1>. QED  BY <1>2, <1>3

\* A call that has ended keeps nothing.
LEMMA EndedCall ==
  ASSUME NEW p, NEW pc \in Final, NEW rec, rec = [Idle EXCEPT !.pc = pc]
  PROVE  rec \in Calls(p) /\ rec.pc = pc /\ rec.files = {}
BY DEF Idle, Calls

\* A call ends.
LEMMA Ended ==
  ASSUME FileInv, NEW r \in Requests, NEW pc \in Final, End(r, pc), DiskEffect(r),
         Working(r) \/ disk' = disk
  PROVE  Effect(r)
<1>. DEFINE rec == [Idle EXCEPT !.pc = pc]
<1>1. rec \in Calls(platform) /\ rec.pc \in Final /\ rec.files = {}
  BY EndedCall
<1>2. GoodCall(platform, rec)
  BY <1>1 DEF GoodCall, Final, InThread
<1>. QED  BY <1>1, <1>2 DEF End, Effect, CallEffect

LEMMA FailedInPlace ==
  ASSUME FileInv, NEW r \in Requests, request[r].pc \in Places, DiskEffect(r), Fail(r)
  PROVE  Effect(r)
BY InPlace, Ended DEF Fail, Final

\* What a call that goes on in its thread must find: nothing when all is well.
StillTidy(r, broken) ==
  /\ Tidy(r, disk', old')
  /\ \A f \in Mine(request[r].link, disk') : f.base # "merged"
  /\ platform \in ByPrefix \/ ~broken => Mine(request[r].link, disk') = {}

\* A call in its thread goes on to another place.
LEMMA MovedOn ==
  ASSUME FileInv, NEW r \in Requests, request[r].pc \in Places, DiskEffect(r),
         NEW rec \in Calls(platform), Set(r, rec), rec.link = request[r].link,
         rec.alone = request[r].alone, rec.files = request[r].files,
         rec.pc \in ChainOf(platform), rec.pc \in Places \ {"merge"},
         Quiet(r) => StillTidy(r, rec.broken)
  PROVE  Effect(r)
<1>1. Working(r)
  BY InPlace
<1>2. GoodCall(platform, rec)
  BY <1>1, WorkingLink DEF GoodCall, FileInv, Working, Places, InThread, Final
<1>3. ASSUME Quiet(r) PROVE Undisturbed(platform, rec, disk', old')
  <2>1. /\ Tidy(r, disk', old')
        /\ \A f \in Mine(rec.link, disk') : f.base # "merged"
        /\ platform \in ByPrefix => Mine(rec.link, disk') = {}
        /\ ~rec.broken => Mine(rec.link, disk') = {}
    BY <1>3 DEF StillTidy
  <2>2. rec.pc \notin {"edit", "check", "result"} /\ rec.pc # "merge"
    BY DEF Places, InThread
  <2>3. \A f \in Mine(rec.link, disk') : f.slot = SlotOf[rec.link]
    BY <2>1 DEF Tidy, Fresh
  <2>. QED  BY <2>1, <2>2, <2>3 DEF Undisturbed, Tidy, Slot
<1>. QED  BY <1>1, <1>2, <1>3 DEF Effect, CallEffect, Quiet

LEMMA GoneTo ==
  ASSUME FileInv, NEW r \in Requests, request[r].pc \in Places, DiskEffect(r),
         NEW pc \in (ChainOf(platform) \cap (Places \ {"merge"})) \cup {"failed"},
         NEW broke \in BOOLEAN, Goto(r, pc, broke),
         Quiet(r) => StillTidy(r, request[r].broken \/ broke)
  PROVE  Effect(r)
<1>. DEFINE rec == [request[r] EXCEPT !.pc = pc, !.broken = @ \/ (broke /\ request[r].alone)]
<1>1. Working(r) /\ request[r] \in Calls(platform)
  BY InPlace
<1>2. CASE Fail(r)
  BY <1>2, FailedInPlace
<1>3. CASE pc # "failed" /\ Set(r, rec)
  <2>1. rec \in Calls(platform)
    BY <1>1, <1>3 DEF Calls, Places, InLoop
  <2>2. /\ rec.link = request[r].link /\ rec.alone = request[r].alone
        /\ rec.files = request[r].files /\ rec.pc = pc
        /\ rec.broken = (request[r].broken \/ (broke /\ request[r].alone))
    BY <1>1 DEF Calls
  <2>3. Quiet(r) => StillTidy(r, rec.broken)
    BY <2>2 DEF Quiet, StillTidy
  <2>. QED  BY <1>3, <2>1, <2>2, <2>3, MovedOn
<1>. QED  BY <1>2, <1>3 DEF Goto

\* A call goes on after a step that may have broken off.
LEMMA WentOn ==
  ASSUME FileInv, NEW r \in Requests, request[r].pc \in Places \ {"merge"}, platform \notin ByPrefix,
         NEW pc \in (ChainOf(platform) \cap (Places \ {"merge"})) \cup {"failed"},
         NEW gone, NEW new \in SUBSET Fresh(request[r].link), Rewrites(r, gone, new),
         \A f \in new : f.base # "merged", NEW broke \in BOOLEAN, broke \/ new = {}, Goto(r, pc, broke)
  PROVE  Effect(r)
<1>1. DiskEffect(r)
  BY InPlace, Rewritten
<1>2. Quiet(r) => StillTidy(r, request[r].broken \/ broke)
  <2>1. ASSUME Quiet(r), ~(request[r].broken \/ broke) PROVE Mine(request[r].link, disk') = {}
    <3>1. Own(r) = {}
      BY <2>1, QuietInPlace
    <3>. QED  BY <2>1, <3>1, RewrittenAlone
  <2>2. ASSUME Quiet(r), NEW f \in Mine(request[r].link, disk') PROVE f.base # "merged"
    <3>1. f \in Own(r) \cup new
      BY <2>2, RewrittenAlone
    <3>. QED  BY <2>2, <3>1, QuietInPlace
  <2>. QED  BY <2>1, <2>2, RewrittenAlone DEF StillTidy
<1>. QED  BY <1>1, <1>2, GoneTo

\* A download is complete.
LEMMA Finished ==
  ASSUME FileInv, NEW r \in Requests, Working(r), DiskEffect(r), NEW broke \in BOOLEAN,
         NEW found \in SUBSET Genuine(platform), Finish(r, found, broke),
         \A f \in found : f.slot \in ReachOf(platform, request[r].link),
         Quiet(r) =>
           /\ Tidy(r, disk', old') /\ found # {}
           /\ \A f, g \in found : f.base = g.base => f = g
           /\ ~(request[r].broken \/ broke) => Complete(found)
           /\ \/ found \subseteq Mine(request[r].link, disk')
              \/ /\ platform \in ByPrefix
                 /\ \A f \in found, g \in Mine(request[r].link, disk') : f.base # g.base
                 /\ ~(request[r].broken \/ broke) => Mine(request[r].link, disk') = {}
  PROVE  Effect(r)
<1>. DEFINE rec == [request[r] EXCEPT !.files = found, !.pc = "edit", !.post = "none", !.tries = 0,
                                      !.broken = @ \/ (broke /\ request[r].alone)]
<1>1. request[r] \in Calls(platform) /\ request[r].link \in LinksOf[platform]
  BY WorkingLink
<1>2. CASE Fail(r)
  BY <1>2, Ended DEF Fail, Final
<1>3. CASE Set(r, rec)
  <2>1. rec \in Calls(platform)
    BY <1>1 DEF Calls, InLoop
  <2>2. /\ rec.link = request[r].link /\ rec.alone = request[r].alone
        /\ rec.files = found /\ rec.pc = "edit"
        /\ rec.broken = (request[r].broken \/ (broke /\ request[r].alone))
    BY <1>1 DEF Calls
  <2>3. GoodCall(platform, rec)
    BY <1>1, <2>1, <2>2 DEF GoodCall, InThread, Final
  <2>4. ASSUME Quiet(r) PROVE Undisturbed(platform, rec, disk', old')
    <3>1. Tidy(r, disk', old') /\ (rec.broken <=> request[r].broken \/ broke)
      BY <2>2, <2>4 DEF Quiet
    <3>2. \A f \in Mine(rec.link, disk') : f.slot = SlotOf[rec.link]
      BY <2>2, <3>1 DEF Tidy, Fresh
    <3>3. SlotOf[rec.link] \notin old'
      BY <2>2, <3>1 DEF Tidy, Slot
    <3>. QED  BY <2>2, <2>4, <3>1, <3>2, <3>3 DEF Undisturbed, InThread
  <2>. QED  BY <1>3, <2>2, <2>3, <2>4 DEF Effect, CallEffect, Quiet
<1>. QED  BY <1>2, <1>3 DEF Finish

\* A fresh file is told by its path.
LEMMA FreshPath ==
  ASSUME NEW l, NEW f \in Fresh(l), NEW g \in Fresh(l), f.base = g.base
  PROVE  SamePath(f, g)
BY DEF Fresh, SamePath

\* A download is complete with files of its slot that are on disk.
LEMMA FinishedWith ==
  ASSUME FileInv, NEW r \in Requests, request[r].pc \in Places, DiskEffect(r), NEW broke \in BOOLEAN,
         NEW found \in SUBSET disk', Finish(r, found, broke), \A f \in found : f.slot = Slot(r),
         Quiet(r) => /\ Tidy(r, disk', old') /\ found # {}
                     /\ ~(request[r].broken \/ broke) => Complete(found)
  PROVE  Effect(r)
<1>1. /\ Working(r) /\ Slot(r) \in ReachOf(platform, request[r].link)
      /\ Slot(r) \in SlotsUnder[Slot(r)]
  BY InPlace
<1>2. found \in SUBSET Genuine(platform)
  BY DEF DiskEffect
<1>3. found \subseteq Mine(request[r].link, disk')
  BY <1>1 DEF Mine, Slot
<1>4. ASSUME Quiet(r), NEW f \in found, NEW g \in found, f.base = g.base PROVE f = g
  <2>1. f \in Fresh(request[r].link) /\ g \in Fresh(request[r].link)
    BY <1>3, <1>4 DEF Tidy
  <2>2. SamePath(f, g)
    BY <1>4, <2>1, FreshPath
  <2>. QED  BY <2>2 DEF DiskEffect, OnePerPath
<1>. QED  BY <1>1, <1>2, <1>3, <1>4, Finished

\* Files are written, and some of them are the result.
LEMMA WrittenAndFinished ==
  ASSUME FileInv, NEW r \in Requests, request[r].pc \in Places, platform' = platform,
         NEW files \in SUBSET Fresh(request[r].link), OnePerPath(files), PutAll(files),
         NEW found \in SUBSET files, found # {}, NEW broke \in BOOLEAN, Finish(r, found, broke),
         ~broke => Complete(found)
  PROVE  Effect(r)
<1>1. request[r].link \in LinksOf[platform]
  BY InPlace
<1>2. files \in SUBSET Genuine(platform) /\ \A f \in files : f.slot = Slot(r)
  BY <1>1, FreshFiles
<1>3. Rewrites(r, {}, files)
  BY <1>2, PutRewrites
<1>4. DiskEffect(r) /\ (Quiet(r) => Tidy(r, disk', old'))
  BY <1>1, <1>3, Rewritten, RewrittenAlone
<1>5. found \in SUBSET disk' /\ \A f \in found : f.slot = Slot(r)
  BY <1>2, <1>3 DEF Rewrites
<1>. QED  BY <1>4, <1>5, FinishedWith

LEMMA FileIsComplete ==
  ASSUME NEW r, NEW base
  PROVE  Complete({File(r, base)})
BY DEF Complete, File, Written

\* One whole file is written and is the result.
LEMMA OneFileFinished ==
  ASSUME FileInv, NEW r \in Requests, request[r].pc \in Places, platform' = platform,
         NEW base \in Bases, Put(File(r, base)), Finish(r, {File(r, base)}, FALSE)
  PROVE  Effect(r)
<1>1. {File(r, base)} \in SUBSET Fresh(request[r].link) /\ OnePerPath({File(r, base)})
  BY WrittenFile DEF File
<1>2. PutAll({File(r, base)})
  BY DEF Put
<1>. QED  BY <1>1, <1>2, WrittenAndFinished, FileIsComplete

\* What is on disk in the slot, or a part of it, is the result: when all went
\* well, what has just been written.
LEMMA Collected ==
  ASSUME FileInv, NEW r \in Requests, request[r].pc \in Places \ {"merge"}, DiskEffect(r),
         NEW broke \in BOOLEAN, NEW found \in SUBSET disk', Finish(r, found, broke),
         \A f \in found : f.slot = Slot(r), found # {},
         Quiet(r) => Tidy(r, disk', old'),
         Quiet(r) /\ Own(r) = {} /\ ~broke => Complete(Mine(request[r].link, disk'))
  PROVE  Effect(r)
<1>1. ASSUME Quiet(r), ~(request[r].broken \/ broke) PROVE Complete(found)
  <2>1. Own(r) = {}
    BY <1>1, QuietInPlace
  <2>2. found \subseteq Mine(request[r].link, disk')
    BY InPlace DEF Mine, Slot
  <2>. QED  BY <1>1, <2>1, <2>2 DEF Complete
<1>. QED  BY <1>1, FinishedWith

-----------------------------------------------------------------------------
(* One lemma for every step of a call *)

LEMMA FetchPostEffect ==
  ASSUME FileInv, NEW r \in Requests, FetchPost(r)
  PROVE  Effect(r)
<1>1. /\ request[r].pc \in Places /\ request[r].pc = "fetch"
      /\ DiskUnchanged /\ platform' = platform
  BY DEF FetchPost, At, Places, InThread, DiskUnchanged
<1>2. request[r] \in Calls(platform) /\ platform = "instagram" /\ DiskEffect(r)
  BY <1>1, InPlace, NothingWritten DEF ChainOf
<1>3. ASSUME NEW rec \in Calls(platform), Set(r, rec), rec.link = request[r].link,
             rec.alone = request[r].alone, rec.files = request[r].files,
             rec.broken = request[r].broken, rec.pc \in {"fetch", "sidecar", "ytdlp"}
      PROVE  Effect(r)
  <2>1. rec.pc \in ChainOf(platform) /\ rec.pc \in Places \ {"merge"}
    BY <1>2, <1>3 DEF ChainOf, Places, InThread
  <2>2. Quiet(r) => StillTidy(r, rec.broken)
    BY <1>1, <1>2, <1>3, QuietInPlace DEF StillTidy, DiskUnchanged, Own, ByPrefix
  <2>. QED  BY <1>1, <1>2, <1>3, <2>1, <2>2, MovedOn
<1>4. CASE \E kind \in {"sidecar", "video", "photo"} :
             Set(r, [request[r] EXCEPT
               !.post = kind, !.tries = 0, !.pc = IF kind = "sidecar" THEN "sidecar" ELSE "ytdlp"])
  <2>1. PICK kind \in {"sidecar", "video", "photo"} :
               Set(r, [request[r] EXCEPT
                 !.post = kind, !.tries = 0, !.pc = IF kind = "sidecar" THEN "sidecar" ELSE "ytdlp"])
    BY <1>4
  <2>. DEFINE rec == [request[r] EXCEPT
                !.post = kind, !.tries = 0, !.pc = IF kind = "sidecar" THEN "sidecar" ELSE "ytdlp"]
  <2>2. /\ rec \in Calls(platform) /\ rec.link = request[r].link /\ rec.alone = request[r].alone
        /\ rec.files = request[r].files /\ rec.pc \in {"sidecar", "ytdlp"}
        /\ rec.broken = request[r].broken
    BY <1>2 DEF Calls, InThread
  <2>. QED  BY <1>3, <2>1, <2>2
<1>5. CASE Set(r, [request[r] EXCEPT !.tries = @ + 1])
  <2>. DEFINE rec == [request[r] EXCEPT !.tries = @ + 1]
  <2>1. /\ rec \in Calls(platform) /\ rec.link = request[r].link /\ rec.alone = request[r].alone
        /\ rec.files = request[r].files /\ rec.pc = "fetch" /\ rec.broken = request[r].broken
    BY <1>1, <1>2 DEF Calls
  <2>. QED  BY <1>3, <1>5, <2>1
<1>6. CASE Set(r, [request[r] EXCEPT !.tries = 0, !.pc = "ytdlp"])
  <2>. DEFINE rec == [request[r] EXCEPT !.tries = 0, !.pc = "ytdlp"]
  <2>1. /\ rec \in Calls(platform) /\ rec.link = request[r].link /\ rec.alone = request[r].alone
        /\ rec.files = request[r].files /\ rec.pc = "ytdlp" /\ rec.broken = request[r].broken
    BY <1>2 DEF Calls, InThread
  <2>. QED  BY <1>3, <1>6, <2>1
<1>7. CASE Fail(r)
  BY <1>1, <1>2, <1>7, FailedInPlace
<1>. QED  BY <1>4, <1>5, <1>6, <1>7 DEF FetchPost

\* Some files that are whole and others that are not.
LEMMA MixedFiles ==
  ASSUME NEW r \in Requests, NEW good \in SUBSET Bases, NEW hurt \in SUBSET Bases,
         good \cap hurt = {}
  PROVE  /\ Files(r, good) \cup Rests(r, hurt) \in SUBSET Fresh(request[r].link)
         /\ OnePerPath(Files(r, good) \cup Rests(r, hurt))
         /\ good \subseteq Pieces => Complete(Files(r, good))
         /\ hurt = {} => Rests(r, hurt) = {}
         /\ good # {} => Files(r, good) # {}
<1>1. /\ \A base \in Bases : File(r, base) \in Fresh(request[r].link) /\ File(r, base).base = base
                             /\ File(r, base).whole
      /\ \A base \in Bases : Part(r, base) \in Fresh(request[r].link) /\ Part(r, base).base = base
  BY WrittenFile, WrittenPart DEF File
<1>2. /\ \A f \in Files(r, good) : \E base \in good : f = File(r, base)
      /\ \A f \in Rests(r, hurt) : \E base \in hurt : f = Part(r, base)
  BY DEF Files, Rests, Part
<1>3. OnePerPath(Files(r, good) \cup Rests(r, hurt))
  <2>1. ASSUME NEW f \in Files(r, good) \cup Rests(r, hurt),
               NEW g \in Files(r, good) \cup Rests(r, hurt), f.base = g.base
        PROVE  f = g
    <3>1. CASE f \in Files(r, good) /\ g \in Files(r, good)
      BY <1>1, <1>2, <2>1, <3>1
    <3>2. CASE f \in Rests(r, hurt) /\ g \in Rests(r, hurt)
      BY <1>1, <1>2, <2>1, <3>2
    <3>3. CASE f \in Files(r, good) /\ g \in Rests(r, hurt)
      BY <1>1, <1>2, <2>1, <3>3
    <3>4. CASE f \in Rests(r, hurt) /\ g \in Files(r, good)
      BY <1>1, <1>2, <2>1, <3>4
    <3>. QED  BY <2>1, <3>1, <3>2, <3>3, <3>4
  <2>. QED  BY <2>1 DEF OnePerPath, SamePath
<1>4. good \subseteq Pieces => Complete(Files(r, good))
  BY <1>1, <1>2 DEF Complete
<1>5. Files(r, good) \cup Rests(r, hurt) \in SUBSET Fresh(request[r].link)
  BY <1>1, <1>2
<1>6. (hurt = {} => Rests(r, hurt) = {}) /\ (good # {} => Files(r, good) # {})
  BY DEF Files, Rests
<1>. QED  BY <1>3, <1>4, <1>5, <1>6

LEMMA PiecesAreBases == Pieces \subseteq Bases /\ "node1" \in Pieces
BY DEF Pieces, Bases

\* The whole post, beside what the directory holds.
LEMMA FallbackEffect ==
  ASSUME FileInv, NEW r \in Requests, request[r].pc = "sidecar", platform' = platform,
         platform = "instagram", NEW hurt \in SUBSET Pieces,
         NEW kept, kept = {f.base : f \in OnDisk(Files(r, Pieces))},
         PutAll(Files(r, Pieces \ (kept \cup hurt)) \cup Rests(r, hurt)),
         Finish(r, MediaIn(disk', Slot(r)), hurt # {})
  PROVE  Effect(r)
<1>. DEFINE l == request[r].link
            good == Pieces \ (kept \cup hurt)
            new == Files(r, good) \cup Rests(r, hurt)
            found == MediaIn(disk', Slot(r))
<1>1. request[r].pc \in Places \ {"merge"}
  BY DEF Places, InThread
<1>2. l \in LinksOf[platform] /\ Slot(r) \in SlotsUnder[Slot(r)]
  BY <1>1, InPlace
<1>3. /\ new \in SUBSET Fresh(l) /\ OnePerPath(new)
      /\ Complete(Files(r, good))
  <2>1. /\ good \in SUBSET Bases /\ hurt \in SUBSET Bases
        /\ good \cap hurt = {} /\ good \subseteq Pieces
    BY PiecesAreBases
  <2>. HIDE DEF good
  <2>. QED  BY <2>1, MixedFiles
<1>0. PutAll(new) /\ Finish(r, found, hurt # {})
  OBVIOUS
<1>. HIDE DEF new, found
<1>4. new \in SUBSET Genuine(platform) /\ \A f \in new : f.slot = Slot(r)
  BY <1>2, <1>3, FreshFiles
<1>5. Rewrites(r, {}, new)
  BY <1>0, <1>3, <1>4, PutRewrites
<1>6. DiskEffect(r) /\ (Quiet(r) => Tidy(r, disk', old'))
  BY <1>1, <1>2, <1>3, <1>5, Rewritten, RewrittenAlone
<1>7. found \in SUBSET disk' /\ \A f \in found : f.slot = Slot(r)
  BY DEF found, MediaIn
<1>8. found # {}
  <2>1. CASE new # {}
    BY <1>4, <1>5, <2>1 DEF Rewrites, found, MediaIn
  <2>2. CASE new = {}
    <3>1. "node1" \notin good
      <4>1. Files(r, good) = {}
        BY <2>2 DEF new
      <4>. HIDE DEF good
      <4>. QED  BY <4>1 DEF Files
    <3>2. "node1" \notin hurt
      BY <2>2 DEF new, Rests
    <3>3. PICK f \in OnDisk(Files(r, Pieces)) : f.base = "node1"
      BY <3>1, <3>2, PiecesAreBases
    <3>4. f \in disk /\ f.slot = Slot(r)
      BY <3>3 DEF OnDisk, SamePath, Files, File, Written
    <3>5. OnDisk(new) = {}
      BY <2>2 DEF OnDisk
    <3>. QED  BY <1>5, <3>4, <3>5 DEF Rewrites, found, MediaIn
  <2>. QED  BY <2>1, <2>2
<1>9. ASSUME Quiet(r), Own(r) = {}, hurt = {} PROVE Complete(Mine(l, disk'))
  <2>1. Mine(l, disk') = new
    BY <1>1, <1>3, <1>5, <1>9, RewrittenAlone
  <2>2. Rests(r, hurt) = {}
    BY <1>9 DEF Rests
  <2>3. new = Files(r, good)
    BY <2>2 DEF new
  <2>. QED  BY <1>3, <2>1, <2>3
<1>10. (hurt # {}) \in BOOLEAN
  OBVIOUS
<1>. QED  BY <1>0, <1>1, <1>6, <1>7, <1>8, <1>9, <1>10, Collected

LEMMA SidecarEffect ==
  ASSUME FileInv, NEW r \in Requests, Sidecar(r)
  PROVE  Effect(r)
<1>1. request[r].pc \in Places \ {"merge"} /\ request[r].pc = "sidecar" /\ platform' = platform
  BY DEF Sidecar, At, Places, InThread
<1>2. platform = "instagram"
  BY <1>1, InPlace DEF ChainOf
<1>3. PICK hurt \in SUBSET Pieces :
       \/ \E nodes \in (SUBSET (Pieces \ hurt)) \ {{}} :
            /\ PutAll(Files(r, nodes) \cup Rests(r, hurt))
            /\ Finish(r, Files(r, nodes), hurt # {})
       \/ LET kept == {f.base : f \in OnDisk(Files(r, Pieces))} IN
          /\ PutAll(Files(r, Pieces \ (kept \cup hurt)) \cup Rests(r, hurt))
          /\ Finish(r, MediaIn(disk', Slot(r)), hurt # {})
       \/ PutAll(Rests(r, hurt)) /\ Goto(r, "ytdlp", hurt # {})
  BY DEF Sidecar
<1>4. ASSUME NEW nodes \in (SUBSET (Pieces \ hurt)) \ {{}},
             PutAll(Files(r, nodes) \cup Rests(r, hurt)), Finish(r, Files(r, nodes), hurt # {})
      PROVE  Effect(r)
  <2>. DEFINE files == Files(r, nodes) \cup Rests(r, hurt)
  <2>1. /\ files \in SUBSET Fresh(request[r].link) /\ OnePerPath(files)
        /\ Complete(Files(r, nodes)) /\ Files(r, nodes) # {}
    BY MixedFiles, PiecesAreBases
  <2>2. Files(r, nodes) \in SUBSET files /\ (hurt # {}) \in BOOLEAN
    OBVIOUS
  <2>. QED  BY <1>1, <1>4, <2>1, <2>2, WrittenAndFinished
<1>5. CASE LET kept == {f.base : f \in OnDisk(Files(r, Pieces))} IN
           /\ PutAll(Files(r, Pieces \ (kept \cup hurt)) \cup Rests(r, hurt))
           /\ Finish(r, MediaIn(disk', Slot(r)), hurt # {})
  BY <1>1, <1>2, <1>5, FallbackEffect
<1>6. CASE PutAll(Rests(r, hurt)) /\ Goto(r, "ytdlp", hurt # {})
  <2>1. Files(r, {}) = {}
    BY DEF Files
  <2>2. /\ Rests(r, hurt) \in SUBSET Fresh(request[r].link) /\ OnePerPath(Rests(r, hurt))
        /\ hurt = {} => Rests(r, hurt) = {}
    BY <2>1, MixedFiles, PiecesAreBases
  <2>8. \A f \in Rests(r, hurt) : f.base # "merged"
    BY DEF Rests, Written, Pieces
  <2>3. request[r].link \in LinksOf[platform]
    BY <1>1, InPlace
  <2>4. Rests(r, hurt) \in SUBSET Genuine(platform) /\ \A f \in Rests(r, hurt) : f.slot = Slot(r)
    BY <2>2, <2>3, FreshFiles
  <2>5. Rewrites(r, {}, Rests(r, hurt))
    BY <1>1, <1>6, <2>2, <2>4, PutRewrites
  <2>6. "ytdlp" \in (ChainOf(platform) \cap (Places \ {"merge"})) /\ platform \notin ByPrefix
    BY <1>2 DEF ChainOf, Places, InThread, ByPrefix
  <2>7. (hurt # {}) \in BOOLEAN /\ ((hurt # {}) \/ Rests(r, hurt) = {})
    BY <2>2
  <2>. QED  BY <1>1, <1>6, <2>2, <2>5, <2>6, <2>7, <2>8, WentOn
<1>. QED  BY <1>3, <1>4, <1>5, <1>6

LEMMA YtDlpInstagramEffect ==
  ASSUME FileInv, NEW r \in Requests, YtDlpInstagram(r)
  PROVE  Effect(r)
<1>1. /\ request[r].pc \in Places \ {"merge"} /\ platform' = platform
      /\ platform = "instagram" /\ platform \notin ByPrefix
  BY DEF YtDlpInstagram, At, Places, InThread, ByPrefix
<1>2. ASSUME Downloaded(r),
             Finish(r, {f \in MediaIn(disk', Slot(r)) : f.base \in {"ytdlp", "rest"}}, FALSE)
      PROVE  Effect(r)
  <2>. DEFINE found == {f \in MediaIn(disk', Slot(r)) : f.base \in {"ytdlp", "rest"}}
  <2>1. /\ DiskEffect(r)
        /\ \E f \in disk' : f.slot = Slot(r) /\ f.base = "ytdlp"
        /\ Quiet(r) => /\ Tidy(r, disk', old')
                       /\ Own(r) = {} => Mine(request[r].link, disk') = {File(r, "ytdlp")}
    BY <1>1, <1>2, DownloadedEffect
  <2>2. found \in SUBSET disk' /\ found # {} /\ \A f \in found : f.slot = Slot(r)
    BY <2>1 DEF MediaIn
  <2>3. Quiet(r) /\ Own(r) = {} => Complete(Mine(request[r].link, disk'))
    BY <2>1, FileIsComplete
  <2>. QED  BY <1>1, <1>2, <2>1, <2>2, <2>3, Collected
<1>3. ASSUME NEW broke \in BOOLEAN, Goto(r, AfterYtDlp(request[r].post), broke),
             Leave(r, "rest", broke)
      PROVE  Effect(r)
  <2>1. AfterYtDlp(request[r].post) \in {"loader", "url", "failed"}
    BY DEF AfterYtDlp
  <2>2. AfterYtDlp(request[r].post) \in (ChainOf(platform) \cap (Places \ {"merge"})) \cup {"failed"}
    BY <1>1, <2>1 DEF ChainOf, Places, InThread
  <2>3. "rest" \in Bases
    BY DEF Bases
  <2>4. PICK new \in SUBSET Fresh(request[r].link) :
          Rewrites(r, {}, new) /\ (~broke => new = {}) /\ \A f \in new : f.base = "rest"
    BY <1>1, <1>3, <2>3, LeaveEffect
  <2>. QED  BY <1>1, <1>3, <2>2, <2>4, WentOn
<1>. QED  BY <1>2, <1>3 DEF YtDlpInstagram

LEMMA FromUrlEffect ==
  ASSUME FileInv, NEW r \in Requests, FromUrl(r)
  PROVE  Effect(r)
<1>1. request[r].pc \in Places \ {"merge"} /\ request[r].pc = "url" /\ platform' = platform
  BY DEF FromUrl, At, Places, InThread
<1>2. platform = "instagram" /\ platform \notin ByPrefix
  BY <1>1, InPlace DEF ChainOf, ByPrefix
<1>3. CASE Put(File(r, "audio")) /\ Finish(r, {File(r, "audio")}, FALSE)
  BY <1>1, <1>3, OneFileFinished DEF Bases
<1>4. CASE Goto(r, "loader", FALSE) /\ (DiskUnchanged \/ Remove(OnDisk({File(r, "audio")})))
  <2>1. "loader" \in (ChainOf(platform) \cap (Places \ {"merge"}))
    BY <1>2 DEF ChainOf, Places, InThread
  <2>2. \A f \in OnDisk({File(r, "audio")}) : f \in disk /\ f.slot = Slot(r)
    BY DEF OnDisk, SamePath, File, Written
  <2>3. \E gone : Rewrites(r, gone, {})
    <3>1. CASE DiskUnchanged
      <4>1. Rewrites(r, {}, {})
        BY <1>1, <3>1 DEF Rewrites, DiskUnchanged, OnDisk, OnePerPath, FileInv
      <4>. QED  BY <4>1
    <3>2. CASE Remove(OnDisk({File(r, "audio")}))
      <4>1. OnDisk({File(r, "audio")}) \in SUBSET disk
        BY <2>2
      <4>2. Rewrites(r, OnDisk({File(r, "audio")}), {})
        BY <1>1, <2>2, <3>2, <4>1, RemoveRewrites
      <4>. QED  BY <4>2
    <3>. QED  BY <1>4, <3>1, <3>2
  <2>. QED  BY <1>1, <1>2, <1>4, <2>1, <2>3, WentOn
<1>. QED  BY <1>3, <1>4 DEF FromUrl

LEMMA LoaderEffect ==
  ASSUME FileInv, NEW r \in Requests, Loader(r)
  PROVE  Effect(r)
<1>. DEFINE found == MediaIn(disk', Slot(r))
            l == request[r].link
<1>1. request[r].pc \in Places \ {"merge"} /\ request[r].pc = "loader" /\ platform' = platform
  BY DEF Loader, At, Places, InThread
<1>2. /\ platform = "instagram" /\ request[r] \in Calls(platform) /\ Working(r)
      /\ l \in LinksOf[platform] /\ Slot(r) \in SlotsUnder[Slot(r)]
      /\ ReachOf(platform, l) = {Slot(r)}
  BY <1>1, InPlace DEF ChainOf, ReachOf, ByPrefix, Slot
<1>3. found \in SUBSET disk' /\ \A f \in found : f.slot = Slot(r)
  BY DEF MediaIn
<1>4. found \subseteq Mine(l, disk')
  BY <1>2 DEF MediaIn, Mine, Slot
<1>5. ASSUME NEW base \in {"video", "photo"}, Put(File(r, base))
      PROVE  /\ DiskEffect(r) /\ File(r, base) \in found
             /\ Quiet(r) => /\ Tidy(r, disk', old')
                            /\ Own(r) = {} => Mine(l, disk') = {File(r, base)}
                            /\ Mine(l, disk') \subseteq Own(r) \cup {File(r, base)}
  <2>0. base \in Bases
    BY DEF Bases
  <2>1. /\ {File(r, base)} \in SUBSET Fresh(l) /\ OnePerPath({File(r, base)})
        /\ File(r, base).slot = Slot(r)
    BY <2>0, WrittenFile DEF File
  <2>2. {File(r, base)} \in SUBSET Genuine(platform)
    BY <1>2, <2>1, FreshFiles
  <2>3. Rewrites(r, {}, {File(r, base)})
    BY <1>1, <1>5, <2>1, <2>2, PutRewrites DEF Put
  <2>4. File(r, base) \in found
    BY <2>1, <2>3 DEF Rewrites, MediaIn
  <2>. QED  BY <1>1, <1>2, <2>1, <2>3, <2>4, Rewritten, RewrittenAlone
<1>6. CASE Put(File(r, "video")) /\ Finish(r, found, FALSE)
  <2>1. Quiet(r) /\ Own(r) = {} => Complete(Mine(l, disk'))
    BY <1>5, <1>6, FileIsComplete
  <2>. QED  BY <1>1, <1>3, <1>5, <1>6, <2>1, Collected
<1>7. CASE Fail(r) /\ DiskUnchanged
  BY <1>1, <1>7, NothingWritten, FailedInPlace
<1>8. CASE /\ Put(File(r, "photo")) \/ DiskUnchanged
           /\ IF found = {} THEN Fail(r)
              ELSE Set(r, [request[r] EXCEPT !.files = found, !.pc = "merge"])
  <2>1. /\ DiskEffect(r)
        /\ Quiet(r) => /\ Tidy(r, disk', old')
                       /\ \A f \in Mine(l, disk') : f.base # "merged"
    <3>1. CASE Put(File(r, "photo"))
      BY <1>1, <1>5, <3>1, QuietInPlace DEF File, Written
    <3>2. CASE DiskUnchanged
      BY <1>1, <3>2, NothingWritten, QuietInPlace DEF DiskUnchanged, Own
    <3>. QED  BY <1>8, <3>1, <3>2
  <2>2. ASSUME Quiet(r), ~request[r].broken, found # {} PROVE Complete(found)
    <3>1. Own(r) = {}
      BY <1>1, <2>2, QuietInPlace
    <3>2. CASE Put(File(r, "photo"))
      <4>1. found \subseteq {File(r, "photo")}
        BY <1>4, <1>5, <2>2, <3>1, <3>2
      <4>. QED  BY <4>1, FileIsComplete DEF Complete
    <3>3. CASE DiskUnchanged
      BY <1>4, <2>2, <3>1, <3>3 DEF DiskUnchanged, Own
    <3>. QED  BY <1>8, <3>2, <3>3
  <2>3. CASE found = {}
    BY <1>1, <1>8, <2>1, <2>3, FailedInPlace
  <2>4. CASE found # {}
    <3>. DEFINE rec == [request[r] EXCEPT !.files = found, !.pc = "merge"]
    <3>1. found \in SUBSET Genuine(platform)
      BY <1>3, <2>1 DEF DiskEffect
    <3>2. /\ rec \in Calls(platform) /\ rec.link = l /\ rec.alone = request[r].alone
          /\ rec.files = found /\ rec.pc = "merge" /\ rec.broken = request[r].broken
      BY <1>2, <3>1 DEF Calls, InThread
    <3>3. GoodCall(platform, rec)
      BY <1>2, <1>3, <3>2 DEF GoodCall, ChainOf, Final
    <3>4. ASSUME Quiet(r) PROVE Undisturbed(platform, rec, disk', old')
      <4>1. /\ Tidy(r, disk', old') /\ (~rec.broken => Complete(found))
            /\ \A f \in Mine(l, disk') : f.base # "merged"
        BY <2>1, <2>2, <2>4, <3>2, <3>4
      <4>. QED  BY <1>2, <1>4, <2>4, <3>2, <4>1 DEF Undisturbed, Tidy, ByPrefix, Fresh, Slot
    <3>. QED  BY <1>2, <1>8, <2>1, <2>4, <3>2, <3>3, <3>4 DEF Effect, CallEffect, Quiet
  <2>. QED  BY <2>3, <2>4
<1>. QED  BY <1>6, <1>7, <1>8 DEF Loader

LEMMA MergeEffect ==
  ASSUME FileInv, NEW r \in Requests, Merge(r)
  PROVE  Effect(r)
<1>. DEFINE l == request[r].link
            files == request[r].files
<1>1. request[r].pc \in Places /\ request[r].pc = "merge" /\ platform' = platform
  BY DEF Merge, At, Places, InThread
<1>2. /\ platform = "instagram" /\ request[r] \in Calls(platform) /\ Working(r)
      /\ l \in LinksOf[platform] /\ ReachOf(platform, l) = {Slot(r)}
  BY <1>1, InPlace DEF ChainOf, ReachOf, ByPrefix, Slot
<1>3. files \in SUBSET Genuine(platform) /\ \A f \in files : f.slot = Slot(r)
  BY <1>1, <1>2 DEF FileInv, GoodCall, Calls, Final
<1>4. Quiet(r) => /\ files \subseteq Own(r) /\ files # {} /\ Own(r) \subseteq Fresh(l)
                  /\ ~request[r].broken => Complete(files)
  BY <1>1 DEF Quiet, Undisturbed, InThread, Own
<1>5. ASSUME NEW broke \in BOOLEAN, NEW f \in OnDisk(files),
             Put([f EXCEPT !.base = "merged", !.edits = 0, !.whole = @ /\ ~broke]),
             Finish(r, {[f EXCEPT !.base = "merged", !.edits = 0, !.whole = @ /\ ~broke]}, broke)
      PROVE  Effect(r)
  <2>. DEFINE merged == [f EXCEPT !.base = "merged", !.edits = 0, !.whole = @ /\ ~broke]
  <2>1. f \in Genuine(platform) /\ f \in disk /\ f.slot = Slot(r)
    BY <1>3 DEF OnDisk, SamePath, FileInv
  <2>2. /\ merged \in FileType /\ merged.slot = f.slot /\ merged.of = f.of
        /\ merged.base = "merged" /\ merged.edits = 0 /\ merged.whole = (f.whole /\ ~broke)
    BY <2>1 DEF Genuine, FileType, Bases
  <2>3. merged \in Genuine(platform) /\ merged.slot = Slot(r)
    BY <2>1, <2>2 DEF Genuine
  <2>4. PutAll({merged}) /\ Finish(r, {merged}, broke)
    BY <1>5 DEF Put
  <2>. HIDE DEF merged
  <2>5. {merged} \in SUBSET Genuine(platform) /\ OnePerPath({merged})
    BY <2>3 DEF OnePerPath
  <2>6. Rewrites(r, {}, {merged})
    BY <1>1, <2>3, <2>4, <2>5, PutRewrites
  <2>9. DiskEffect(r)
    BY <1>2, <2>6, Rewritten
  <2>7. merged \in disk'
    BY <2>6 DEF Rewrites
  <2>8. ASSUME Quiet(r)
        PROVE  /\ Tidy(r, disk', old')
               /\ ~(request[r].broken \/ broke) => Complete({merged})
    <3>1. PICK g \in files : SamePath(g, f)
      BY DEF OnDisk
    <3>2. g = f
      BY <1>4, <2>1, <2>8, <3>1 DEF Own, Mine, FileInv, OnePerPath
    <3>3. f \in Fresh(l)
      BY <1>4, <2>8, <3>2
    <3>4. merged \in Fresh(l)
      BY <2>2, <3>3 DEF Fresh, FileType
    <3>5. ~request[r].broken => f.whole
      BY <1>4, <2>8, <3>2 DEF Complete
    <3>6. Tidy(r, disk', old')
      BY <1>1, <2>6, <2>8, <3>4, RewrittenAlone
    <3>. QED  BY <2>2, <3>5, <3>6 DEF Complete
  <2>. QED  BY <1>1, <2>3, <2>4, <2>7, <2>8, <2>9, FinishedWith
<1>6. ASSUME NEW broke \in BOOLEAN, Finish(r, files, broke), Leave(r, "merged", broke)
      PROVE  Effect(r)
  <2>1. "merged" \in Bases
    BY DEF Bases
  <2>2. PICK new \in SUBSET Fresh(l) :
          Rewrites(r, {}, new) /\ (~broke => new = {}) /\ \A f \in new : f.base = "merged"
    BY <1>1, <1>6, <2>1, LeaveEffect
  <2>3. DiskEffect(r)
    BY <1>2, <2>2, Rewritten
  <2>4. ASSUME Quiet(r) PROVE files \subseteq Mine(l, disk') /\ Tidy(r, disk', old')
    <3>1. \A f \in files : f \in disk /\ f.base # "merged" /\ f \in Own(r)
      BY <1>1, <1>4, <2>4, QuietInPlace DEF Own, Mine
    <3>2. \A f \in files : f \notin OnDisk(new)
      BY <2>2, <3>1 DEF OnDisk, SamePath
    <3>3. Tidy(r, disk', old')
      BY <1>1, <2>2, <2>4, RewrittenAlone
    <3>. QED  BY <2>2, <3>1, <3>2, <3>3 DEF Rewrites, Mine, Own
  <2>5. ASSUME Quiet(r), NEW f \in files, NEW g \in files, f.base = g.base PROVE f = g
    <3>1. f \in Fresh(l) /\ g \in Fresh(l) /\ f \in disk /\ g \in disk
      BY <1>4, <2>5 DEF Own, Mine
    <3>2. SamePath(f, g)
      BY <2>5, <3>1, FreshPath
    <3>. QED  BY <3>1, <3>2 DEF FileInv, OnePerPath
  <2>6. \A f \in files : f.slot \in ReachOf(platform, l)
    BY <1>2, <1>3
  <2>7. Quiet(r) => files # {} /\ (~(request[r].broken \/ broke) => Complete(files))
    BY <1>4
  <2>. HIDE DEF files
  <2>. QED  BY <1>2, <1>3, <1>6, <2>3, <2>4, <2>5, <2>6, <2>7, Finished
<1>. QED  BY <1>5, <1>6 DEF Merge

LEMMA StoryEffect ==
  ASSUME FileInv, NEW r \in Requests, Story(r)
  PROVE  Effect(r)
<1>1. request[r].pc \in Places /\ platform' = platform
  BY DEF Story, At, Places, InThread
<1>2. CASE Put(File(r, "story")) /\ Finish(r, {File(r, "story")}, FALSE)
  BY <1>1, <1>2, OneFileFinished DEF Bases
<1>3. CASE Fail(r) /\ DiskUnchanged
  BY <1>1, <1>3, NothingWritten, FailedInPlace
<1>. QED  BY <1>2, <1>3 DEF Story

LEMMA YtDlpTikTokEffect ==
  ASSUME FileInv, NEW r \in Requests, YtDlpTikTok(r)
  PROVE  Effect(r)
<1>. DEFINE found == MediaIn(disk', Slot(r))
            l == request[r].link
<1>1. request[r].pc \in Places \ {"merge"} /\ platform' = platform /\ "rest" \in Bases
  BY DEF YtDlpTikTok, At, Places, InThread, Bases
<1>2. l \in LinksOf[platform]
  BY <1>1, InPlace
<1>3. found \in SUBSET disk' /\ \A f \in found : f.slot = Slot(r)
  BY DEF MediaIn
<1>4. CASE Downloaded(r) /\ Finish(r, found, FALSE)
  <2>1. /\ DiskEffect(r)
        /\ \E f \in disk' : f.slot = Slot(r) /\ f.base = "ytdlp"
        /\ Quiet(r) => /\ Tidy(r, disk', old')
                       /\ Own(r) = {} => Mine(l, disk') = {File(r, "ytdlp")}
    BY <1>1, <1>4, DownloadedEffect
  <2>2. found # {}
    BY <2>1 DEF MediaIn
  <2>3. Quiet(r) /\ Own(r) = {} => Complete(Mine(l, disk'))
    BY <2>1, FileIsComplete
  <2>. QED  BY <1>1, <1>3, <1>4, <2>1, <2>2, <2>3, Collected
<1>5. ASSUME NEW broke \in BOOLEAN, Leave(r, "rest", broke),
             Fail(r) \/ (found # {} /\ Finish(r, found, broke))
      PROVE  Effect(r)
  <2>1. PICK new \in SUBSET Fresh(l) : Rewrites(r, {}, new) /\ (~broke => new = {})
    BY <1>1, <1>5, LeaveEffect
  <2>2. DiskEffect(r) /\ (Quiet(r) => Tidy(r, disk', old'))
    BY <1>1, <1>2, <2>1, Rewritten, RewrittenAlone
  <2>3. Quiet(r) /\ Own(r) = {} /\ ~broke => Complete(Mine(l, disk'))
    <3>1. ASSUME Quiet(r), Own(r) = {}, ~broke PROVE Mine(l, disk') = {}
      BY <1>1, <2>1, <3>1, RewrittenAlone
    <3>. QED  BY <3>1 DEF Complete
  <2>4. CASE Fail(r)
    BY <1>1, <2>2, <2>4, FailedInPlace
  <2>5. CASE found # {} /\ Finish(r, found, broke)
    BY <1>1, <1>3, <2>2, <2>3, <2>5, Collected
  <2>. QED  BY <1>5, <2>4, <2>5
<1>. QED  BY <1>4, <1>5 DEF YtDlpTikTok

LEMMA YtDlpSingleEffect ==
  ASSUME FileInv, NEW r \in Requests, YtDlpSingle(r)
  PROVE  Effect(r)
<1>. DEFINE l == request[r].link
            f == File(r, "ytdlp")
<1>1. /\ request[r].pc \in Places \ {"merge"} /\ platform' = platform /\ platform \in ByPrefix
      /\ "rest" \in Bases
  BY DEF YtDlpSingle, At, Places, InThread, ByPrefix, Bases
<1>2. {f} \in SUBSET Fresh(l) /\ f.slot = Slot(r) /\ f.base = "ytdlp"
  BY WrittenFile DEF File, Bases
<1>3. /\ Working(r) /\ l \in LinksOf[platform] /\ Slot(r) \in ReachOf(platform, l)
  BY <1>1, InPlace
<1>4. {f} \in SUBSET Genuine(platform) /\ \A g \in {f} : g.slot \in ReachOf(platform, l)
  BY <1>2, <1>3, FreshFiles
<1>5. Complete({f})
  BY FileIsComplete
<1>6. Quiet(r) => Own(r) = {}
  BY <1>1, QuietInPlace
<1>. HIDE DEF f
<1>7. CASE Downloaded(r) /\ Finish(r, {f}, FALSE)
  <2>1. /\ DiskEffect(r)
        /\ Quiet(r) => Tidy(r, disk', old') /\ Mine(l, disk') = {f}
    BY <1>1, <1>6, <1>7, DownloadedEffect DEF f
  <2>. QED  BY <1>3, <1>4, <1>5, <1>7, <2>1, Finished
<1>8. ASSUME NEW broke \in BOOLEAN, Leave(r, "rest", broke), Fail(r) \/ Finish(r, {f}, broke)
      PROVE  Effect(r)
  <2>1. PICK new \in SUBSET Fresh(l) :
          Rewrites(r, {}, new) /\ (~broke => new = {}) /\ \A g \in new : g.base = "rest"
    BY <1>1, <1>8, LeaveEffect
  <2>2. DiskEffect(r) /\ (Quiet(r) => Tidy(r, disk', old') /\ Mine(l, disk') = new)
    BY <1>1, <1>3, <1>6, <2>1, Rewritten, RewrittenAlone
  <2>3. CASE Fail(r)
    BY <1>1, <2>2, <2>3, FailedInPlace
  <2>4. CASE Finish(r, {f}, broke)
    BY <1>1, <1>2, <1>3, <1>4, <1>5, <2>1, <2>2, <2>4, Finished
  <2>. QED  BY <1>8, <2>3, <2>4
<1>. QED  BY <1>7, <1>8 DEF YtDlpSingle, f

\* The directory of a pin when yt-dlp has ended: with its video, with a part of
\* it, or as it was; and the images gone that were there.
LEMMA YtDlpPinterestEffect ==
  ASSUME FileInv, NEW r \in Requests, YtDlpPinterest(r)
  PROVE  Effect(r)
<1>. DEFINE l == request[r].link
            file == File(r, "ytdlp")
            rests == Rests(r, {"rest"})
<1>1. /\ request[r].pc \in Places \ {"merge"} /\ platform' = platform
      /\ platform = "pinterest" /\ platform \notin ByPrefix
  BY DEF YtDlpPinterest, At, Places, InThread, ByPrefix
<1>2. l \in LinksOf[platform]
  BY <1>1, InPlace
<1>3. PICK broke \in BOOLEAN, got \in BOOLEAN :
       /\ ~(broke /\ got)
       /\ LET here == OnDisk({file}) # {}
              present == CASE got /\ ~here -> (disk \ OnDisk(rests)) \cup {file}
                           [] broke -> (disk \ OnDisk(rests)) \cup rests
                           [] OTHER -> disk
              images == {f \in present : f.slot = Slot(r) /\ f.base \in Images}
          IN \/ /\ \E f \in MediaIn(present, Slot(r)) \ images : Finish(r, {f}, broke)
                /\ disk' = present \ images
             \/ ~got /\ Goto(r, "html", broke) /\ disk' = present
       /\ old' = IF disk' = disk THEN old ELSE old \ {Slot(r)}
  BY DEF YtDlpPinterest
<1>4. /\ {file} \in SUBSET Fresh(l) /\ file.slot = Slot(r) /\ file.base = "ytdlp"
      /\ OnePerPath({file}) /\ Complete({file})
  BY WrittenFile, FileIsComplete DEF File, Bases
<1>5. /\ rests \in SUBSET Fresh(l) /\ OnePerPath(rests)
      /\ \A f \in rests : f.slot = Slot(r) /\ f.base = "rest"
  <2>1. rests = {Part(r, "rest")}
    BY DEF Rests, Part
  <2>. QED  BY <2>1, WrittenPart DEF Bases
<1>6. /\ {file} \in SUBSET Genuine(platform) /\ rests \in SUBSET Genuine(platform)
  BY <1>2, <1>4, <1>5, FreshFiles
<1>7. \A f \in OnDisk(rests) : f \in disk /\ f.slot = Slot(r) /\ f.base = "rest"
  BY <1>5 DEF OnDisk, SamePath
<1>. DEFINE here == OnDisk({file}) # {}
            present == CASE got /\ ~here -> (disk \ OnDisk(rests)) \cup {file}
                         [] broke -> (disk \ OnDisk(rests)) \cup rests
                         [] OTHER -> disk
            images == {f \in present : f.slot = Slot(r) /\ f.base \in Images}
            seen == {f \in disk : f.slot = Slot(r) /\ f.base \in Images}
            new == CASE got /\ ~here -> {file} [] broke -> rests [] OTHER -> {}
            gone == IF got /\ ~here THEN OnDisk(rests) ELSE {}
<1>8. images = seen /\ seen \cap OnDisk(rests) = {} /\ seen \cap OnDisk(new) = {}
  <2>1. file.base \notin Images /\ \A f \in rests : f.base \notin Images
    BY <1>4, <1>5 DEF Images
  <2>2. \A f \in OnDisk(rests) : f.base \notin Images
    BY <1>7 DEF Images
  <2>3. \A f \in OnDisk(new) : f.base \notin Images
    BY <2>1 DEF OnDisk, SamePath
  <2>. QED  BY <2>1, <2>2, <2>3
<1>9. present = (disk \ (OnDisk(new) \cup gone)) \cup new
  <2>1. OnDisk({}) = {}
    BY DEF OnDisk
  <2>. QED  BY <1>3, <2>1
<1>10. /\ new \in SUBSET Fresh(l) /\ OnePerPath(new) /\ new \in SUBSET Genuine(platform)
       /\ \A f \in new : f.slot = Slot(r) /\ f.base # "merged"
       /\ gone \subseteq disk /\ \A f \in gone : f.slot = Slot(r)
       /\ \A f \in new : f.base \notin Images
       /\ ~got /\ ~broke => new = {}
       /\ ~broke => Complete(new)
  <2>1. OnePerPath({}) /\ Complete({})
    BY DEF OnePerPath, Complete
  <2>. QED  BY <1>3, <1>4, <1>5, <1>6, <1>7, <2>1 DEF Images
<1>11. Slot(r) \in old' => \E f \in disk' : f.slot = Slot(r)
  BY <1>3 DEF FileInv
<1>12. old' \subseteq old
  BY <1>3
<1>13. \/ /\ \E f \in MediaIn(present, Slot(r)) \ images : Finish(r, {f}, broke)
          /\ disk' = present \ images
       \/ ~got /\ Goto(r, "html", broke) /\ disk' = present
  BY <1>3
<1>. HIDE DEF new, gone, present, images, seen
<1>14. CASE ~got /\ Goto(r, "html", broke) /\ disk' = present
  <2>1. "html" \in (ChainOf(platform) \cap (Places \ {"merge"}))
    BY <1>1 DEF ChainOf, Places, InThread
  <2>2. Rewrites(r, gone, new)
    BY <1>1, <1>9, <1>10, <1>11, <1>12, <1>14 DEF Rewrites
  <2>. QED  BY <1>1, <1>10, <1>14, <2>1, <2>2, WentOn
<1>15. ASSUME NEW f \in MediaIn(present, Slot(r)) \ images, Finish(r, {f}, broke),
              disk' = present \ images
       PROVE  Effect(r)
  <2>1. seen \subseteq disk /\ \A g \in seen : g.slot = Slot(r) /\ g.base \in Images
    BY DEF seen
  <2>2. Rewrites(r, gone \cup seen, new)
    <3>1. disk' = (disk \ (OnDisk(new) \cup (gone \cup seen))) \cup new
      BY <1>8, <1>9, <1>10, <1>15, <2>1
    <3>. QED  BY <1>1, <1>10, <1>11, <1>12, <2>1, <3>1 DEF Rewrites
  <2>3. DiskEffect(r) /\ (Quiet(r) => Tidy(r, disk', old'))
    BY <1>1, <1>2, <1>10, <2>2, Rewritten, RewrittenAlone
  <2>4. {f} \in SUBSET disk' /\ \A g \in {f} : g.slot = Slot(r)
    BY <1>15 DEF MediaIn
  <2>5. Quiet(r) /\ Own(r) = {} /\ ~broke => Complete(Mine(l, disk'))
    <3>1. ASSUME Quiet(r), Own(r) = {} PROVE Mine(l, disk') = new
      BY <1>1, <1>10, <2>2, <3>1, RewrittenAlone
    <3>. QED  BY <1>10, <3>1
  <2>. QED  BY <1>1, <1>15, <2>3, <2>4, <2>5, Collected
<1>. QED  BY <1>13, <1>14, <1>15

LEMMA HtmlEffect ==
  ASSUME FileInv, NEW r \in Requests, Html(r)
  PROVE  Effect(r)
<1>1. /\ request[r].pc \in Places \ {"merge"} /\ request[r].pc = "html"
      /\ platform' = platform /\ DiskUnchanged
  BY DEF Html, At, Places, DiskUnchanged
<1>2. platform = "pinterest" /\ platform \notin ByPrefix
  BY <1>1, InPlace DEF ChainOf, ByPrefix, InThread
<1>3. PICK pc \in {"video", "photo", "board", "failed"} : Goto(r, pc, FALSE)
  BY DEF Html
<1>4. pc \in (ChainOf(platform) \cap (Places \ {"merge"})) \cup {"failed"}
  BY <1>2 DEF ChainOf, Places, InThread
<1>5. Rewrites(r, {}, {})
  BY <1>1 DEF Rewrites, DiskUnchanged, OnDisk, OnePerPath, FileInv
<1>. QED  BY <1>1, <1>2, <1>3, <1>4, <1>5, WentOn

LEMMA FromPageEffect ==
  ASSUME FileInv, NEW r \in Requests, FromPage(r)
  PROVE  Effect(r)
<1>1. PICK kind \in {"video", "photo"} :
       /\ At(r, kind)
       /\ \/ Put(File(r, kind)) /\ Finish(r, {File(r, kind)}, FALSE)
          \/ \E broke \in BOOLEAN :
               /\ \E pc \in IF kind = "video" THEN {"photo", "board", "failed"}
                                             ELSE {"board", "failed"} : Goto(r, pc, broke)
               /\ Leave(r, kind, broke) \/ (~broke /\ Remove(OnDisk({File(r, kind)})))
  BY DEF FromPage
<1>2. /\ request[r].pc \in Places \ {"merge"} /\ platform' = platform
      /\ platform = "pinterest" /\ platform \notin ByPrefix
      /\ kind \in Bases /\ kind # "merged"
  BY <1>1 DEF FromPage, At, Places, InThread, ByPrefix, Bases
<1>3. CASE Put(File(r, kind)) /\ Finish(r, {File(r, kind)}, FALSE)
  BY <1>2, <1>3, OneFileFinished
<1>4. ASSUME NEW broke \in BOOLEAN, NEW pc \in {"photo", "board", "failed"}, Goto(r, pc, broke),
             Leave(r, kind, broke) \/ (~broke /\ Remove(OnDisk({File(r, kind)})))
      PROVE  Effect(r)
  <2>1. pc \in (ChainOf(platform) \cap (Places \ {"merge"})) \cup {"failed"}
    BY <1>2 DEF ChainOf, Places, InThread
  <2>2. CASE Leave(r, kind, broke)
    <3>1. PICK new \in SUBSET Fresh(request[r].link) :
            Rewrites(r, {}, new) /\ (~broke => new = {}) /\ \A f \in new : f.base = kind
      BY <1>2, <2>2, LeaveEffect
    <3>. QED  BY <1>2, <1>4, <2>1, <3>1, WentOn
  <2>3. CASE ~broke /\ Remove(OnDisk({File(r, kind)}))
    <3>1. /\ OnDisk({File(r, kind)}) \in SUBSET disk
          /\ \A f \in OnDisk({File(r, kind)}) : f.slot = Slot(r)
      BY DEF OnDisk, SamePath, File, Written
    <3>2. Rewrites(r, OnDisk({File(r, kind)}), {})
      BY <1>2, <2>3, <3>1, RemoveRewrites
    <3>. QED  BY <1>2, <1>4, <2>1, <3>2, WentOn
  <2>. QED  BY <1>4, <2>2, <2>3
<1>. QED  BY <1>1, <1>3, <1>4

LEMMA BoardEffect ==
  ASSUME FileInv, NEW r \in Requests, Board(r)
  PROVE  Effect(r)
<1>1. request[r].pc \in Places /\ platform' = platform
  BY DEF Board, At, Places, InThread
<1>2. PICK hurt \in SUBSET Pieces :
       \/ \E pins \in (SUBSET (Pieces \ hurt)) \ {{}} :
            /\ PutAll(Files(r, pins) \cup Rests(r, hurt))
            /\ Finish(r, Files(r, pins), hurt # {})
       \/ PutAll(Rests(r, hurt)) /\ Fail(r)
  BY DEF Board
<1>3. ASSUME NEW pins \in (SUBSET (Pieces \ hurt)) \ {{}},
             PutAll(Files(r, pins) \cup Rests(r, hurt)), Finish(r, Files(r, pins), hurt # {})
      PROVE  Effect(r)
  <2>. DEFINE files == Files(r, pins) \cup Rests(r, hurt)
  <2>1. /\ files \in SUBSET Fresh(request[r].link) /\ OnePerPath(files)
        /\ Complete(Files(r, pins)) /\ Files(r, pins) # {}
    BY MixedFiles, PiecesAreBases
  <2>2. Files(r, pins) \in SUBSET files /\ (hurt # {}) \in BOOLEAN
    OBVIOUS
  <2>. QED  BY <1>1, <1>3, <2>1, <2>2, WrittenAndFinished
<1>4. CASE PutAll(Rests(r, hurt)) /\ Fail(r)
  <2>1. Files(r, {}) = {}
    BY DEF Files
  <2>2. /\ Rests(r, hurt) \in SUBSET Fresh(request[r].link) /\ OnePerPath(Rests(r, hurt))
    BY <2>1, MixedFiles, PiecesAreBases
  <2>3. request[r].link \in LinksOf[platform]
    BY <1>1, InPlace
  <2>4. Rests(r, hurt) \in SUBSET Genuine(platform) /\ \A f \in Rests(r, hurt) : f.slot = Slot(r)
    BY <2>2, <2>3, FreshFiles
  <2>5. DiskEffect(r)
    BY <1>1, <1>4, <2>2, <2>3, <2>4, PutRewrites, Rewritten
  <2>. QED  BY <1>1, <1>4, <2>5, FailedInPlace
<1>. QED  BY <1>2, <1>3, <1>4

-----------------------------------------------------------------------------
(* After the thread *)

InService == {"edit", "check", "result", "sent"}

\* The call r has files in its hands and is no longer in its thread.
LEMMA InHand ==
  ASSUME FileInv, NEW r \in Requests, request[r].pc \in InService
  PROVE  /\ Working(r) /\ request[r] \in Calls(platform) /\ platform \in Platforms
         /\ request[r].link \in LinksOf[platform]
         /\ request[r].files \in SUBSET Genuine(platform)
         /\ \A f \in request[r].files : f.slot \in ReachOf(platform, request[r].link)
         /\ Slot(r) \in SlotsUnder[Slot(r)] /\ Slot(r) \in ReachOf(platform, request[r].link)
         /\ ReachOf(platform, request[r].link) \subseteq SlotsUnder[Slot(r)]
<1>1. Working(r) /\ platform \in Platforms
  BY DEF InService, Working, Final, FileInv
<1>2. request[r] \in Calls(platform) /\ request[r].link \in LinksOf[platform]
  BY <1>1, WorkingLink
<1>. QED  BY <1>1, <1>2, ReachIsUnder DEF FileInv, GoodCall, Calls, Working, Slot

\* A call goes on to the next stage.
LEMMA Onward ==
  ASSUME FileInv, NEW r \in Requests, request[r].pc \in InService, DiskEffect(r),
         NEW rec \in Calls(platform), Set(r, rec), rec.pc \in InService,
         rec.link = request[r].link, rec.alone => request[r].alone,
         \A f \in rec.files : f.slot \in ReachOf(platform, request[r].link),
         Quiet(r) /\ rec.alone => Undisturbed(platform, rec, disk', old')
  PROVE  Effect(r)
<1>1. Working(r) /\ request[r].link \in LinksOf[platform]
  BY InHand
<1>2. rec.pc \notin Final /\ rec.pc \notin InThread \cup {"html"}
  BY DEF InService, InThread, Final
<1>3. GoodCall(platform, rec)
  BY <1>1, <1>2 DEF GoodCall
<1>. QED  BY <1>1, <1>2, <1>3 DEF Effect, CallEffect, Quiet

LEMMA FailedInHand ==
  ASSUME FileInv, NEW r \in Requests, request[r].pc \in InService, DiskEffect(r), Fail(r)
  PROVE  Effect(r)
BY InHand, Ended DEF Fail, Final

\* What an undisturbed call finds under the paths of its files.
LEMMA OwnFiles ==
  ASSUME FileInv, NEW files \in SUBSET disk
  PROVE  OnDisk(files) = files
BY DEF OnDisk, SamePath, FileInv, OnePerPath

\* A copy of a file has a path of its own.
LEMMA CopyOfFile ==
  ASSUME NEW p, NEW f \in Genuine(p), NEW whole \in BOOLEAN, NEW c, c = Copy(f, whole)
  PROVE  /\ c \in Genuine(p) /\ c.slot = f.slot /\ c.base = f.base /\ c.of = f.of
         /\ c.edits = f.edits + 1 /\ f.edits \in Nat /\ (whole => c.whole)
<1>1. f \in FileType /\ f.edits \in Nat
  BY DEF Genuine, FileType
<1>2. c = [slot |-> f.slot, base |-> f.base, edits |-> f.edits + 1, of |-> f.of, whole |-> whole]
  BY <1>1 DEF Copy, FileType
<1>3. c \in FileType
  BY <1>1, <1>2 DEF FileType
<1>. QED  BY <1>1, <1>2, <1>3 DEF Genuine

\* Some files are written again, but for those cut off; of others a part is left.
Kept(f, cut) == Copy(f, f.whole /\ f \notin cut)
Cut(f) == Copy(f, FALSE)
Again(some, left, cut) == {Kept(f, cut) : f \in some} \cup {Cut(f) : f \in left}

\* The copy c of f.
CopyOf(p, c, f) ==
  /\ c \in Genuine(p) /\ c.slot = f.slot /\ c.base = f.base /\ c.of = f.of
  /\ c.edits = f.edits + 1 /\ f.edits \in Nat

LEMMA KeptCopy ==
  ASSUME NEW p, NEW f \in Genuine(p), NEW cut
  PROVE  CopyOf(p, Kept(f, cut), f) /\ (f.whole /\ cut = {} => Kept(f, cut).whole)
<1>. DEFINE whole == f.whole /\ f \notin cut
            c == Kept(f, cut)
<1>1. whole \in BOOLEAN /\ c = Copy(f, whole) /\ (f.whole /\ cut = {} => whole)
  BY DEF Kept
<1>. HIDE DEF whole, c
<1>2. CopyOf(p, c, f) /\ (whole => c.whole)
  BY <1>1, CopyOfFile DEF CopyOf
<1>. QED  BY <1>1, <1>2 DEF c

LEMMA CutCopy ==
  ASSUME NEW p, NEW f \in Genuine(p)
  PROVE  CopyOf(p, Cut(f), f)
<1>. DEFINE whole == FALSE
            c == Cut(f)
<1>1. whole \in BOOLEAN /\ c = Copy(f, whole)
  BY DEF Cut
<1>. HIDE DEF whole, c
<1>2. CopyOf(p, c, f)
  BY <1>1, CopyOfFile DEF CopyOf
<1>. QED  BY <1>2 DEF c

LEMMA CopiesOfFiles ==
  ASSUME FileInv, NEW r \in Requests, NEW some \in SUBSET disk, NEW left \in SUBSET disk, NEW cut,
         some \cap left = {}, \A f \in some \cup left : f.slot = Slot(r)
  PROVE  LET new == Again(some, left, cut) IN
         /\ new \in SUBSET Genuine(platform) /\ \A c \in new : c.slot = Slot(r)
         /\ OnePerPath(new)
         /\ \A c \in new : \E f \in some \cup left : CopyOf(platform, c, f)
         /\ new = {} <=> some \cup left = {}
<1>. DEFINE new == Again(some, left, cut)
<1>1. \A f \in some \cup left : f \in Genuine(platform)
  BY DEF FileInv
<1>2. \A f \in some : CopyOf(platform, Kept(f, cut), f)
  BY <1>1, KeptCopy
<1>3. \A f \in left : CopyOf(platform, Cut(f), f)
  BY <1>1, CutCopy
<1>4. ASSUME NEW c \in new
      PROVE  \E f \in some \cup left :
               /\ CopyOf(platform, c, f)
               /\ f \in some => c = Kept(f, cut)
               /\ f \in left => c = Cut(f)
  <2>1. CASE \E f \in some : c = Kept(f, cut)
    BY <1>2, <2>1
  <2>2. CASE \E f \in left : c = Cut(f)
    BY <1>3, <2>2
  <2>. QED  BY <2>1, <2>2 DEF Again
<1>5. ASSUME NEW c \in new, NEW d \in new, SamePath(c, d) PROVE c = d
  <2>1. PICK f \in some \cup left : 
           CopyOf(platform, c, f) /\ (f \in some => c = Kept(f, cut)) /\ (f \in left => c = Cut(f))
    BY <1>4
  <2>2. PICK g \in some \cup left : 
           CopyOf(platform, d, g) /\ (g \in some => d = Kept(g, cut)) /\ (g \in left => d = Cut(g))
    BY <1>4
  <2>3. f.edits = g.edits
    <3>1. f.edits \in Nat /\ g.edits \in Nat /\ c.edits = f.edits + 1 /\ d.edits = g.edits + 1
      BY <2>1, <2>2 DEF CopyOf
    <3>2. c.edits = d.edits
      BY <1>5 DEF SamePath
    <3>. QED  BY <3>1, <3>2
  <2>4. SamePath(f, g)
    BY <1>5, <2>1, <2>2, <2>3 DEF SamePath, CopyOf
  <2>5. f = g
    BY <2>4 DEF FileInv, OnePerPath
  <2>. QED  BY <2>1, <2>2, <2>5
<1>6. OnePerPath(new)
  BY <1>5 DEF OnePerPath
<1>7. new \in SUBSET Genuine(platform) /\ \A c \in new : c.slot = Slot(r)
  BY <1>4 DEF CopyOf
<1>8. \A c \in new : \E f \in some \cup left : CopyOf(platform, c, f)
  BY <1>4
<1>9. new = {} <=> some \cup left = {}
  BY DEF Again
<1>. QED  BY <1>6, <1>7, <1>8, <1>9

\* The disk and the result after that.
WroteAgain(r, some, new) ==
  /\ disk' = (disk \ (OnDisk(new) \cup some)) \cup new
  /\ old' = IF platform = "instagram" \/ new = {} THEN old ELSE old \ {Slot(r)}
Replaced(r, some, cut) ==
  {f \in request[r].files : ~\E g \in some : SamePath(f, g)} \cup {Kept(f, cut) : f \in some}

LEMMA EditedEffect ==
  ASSUME FileInv, NEW r \in Requests, request[r].pc = "edit", platform \in EditedOn, platform' = platform,
         NEW some \in SUBSET OnDisk(request[r].files), NEW left \in SUBSET OnDisk(request[r].files),
         some \cap left = {}, NEW cut, NEW hurt, hurt = {} => cut = {},
         WroteAgain(r, some, Again(some, left, cut)), NEW found, found = Replaced(r, some, cut),
         Set(r, [request[r] EXCEPT !.pc = "check", !.broken = @ \/ (hurt # {} /\ request[r].alone),
                                   !.files = found])
  PROVE  Effect(r)
<1>. DEFINE l == request[r].link
            mine == Mine(l, disk)
            files == request[r].files
            new == Again(some, left, cut)
            broken == request[r].broken \/ (hurt # {} /\ request[r].alone)
            rec == [request[r] EXCEPT !.pc = "check", !.broken = broken, !.files = found]
<1>0. /\ WroteAgain(r, some, new)
      /\ found = {f \in files : ~\E g \in some : SamePath(f, g)} \cup {Kept(f, cut) : f \in some}
  BY DEF Replaced
<1>1. /\ request[r] \in Calls(platform) /\ l \in LinksOf[platform]
      /\ files \in SUBSET Genuine(platform) /\ \A f \in files : f.slot = Slot(r)
      /\ ReachOf(platform, l) = {Slot(r)} /\ Slot(r) \in SlotsUnder[Slot(r)]
      /\ platform \notin ByPrefix
  BY InHand DEF ReachOf, EditedOn, ByPrefix, Slot, InService
<1>2. /\ some \in SUBSET disk /\ left \in SUBSET disk
      /\ \A f \in some \cup left : f.slot = Slot(r) /\ f \in Genuine(platform)
  BY <1>1 DEF OnDisk, SamePath, FileInv
<1>3. /\ new \in SUBSET Genuine(platform) /\ \A f \in new : f.slot = Slot(r)
      /\ OnePerPath(new)
      /\ \A c \in new : \E f \in some \cup left : CopyOf(platform, c, f)
      /\ new = {} <=> some \cup left = {}
  BY <1>2, CopiesOfFiles
<1>4. Rewrites(r, some, new)
  <2>1. ASSUME Slot(r) \in old' PROVE \E f \in disk' : f.slot = Slot(r)
    <3>1. CASE new = {}
      <4>1. disk' = disk /\ old' = old
        BY <1>0, <1>3, <3>1 DEF OnDisk, WroteAgain
      <4>. QED  BY <2>1, <4>1 DEF FileInv
    <3>2. CASE new # {}
      BY <1>0, <1>3, <3>2 DEF WroteAgain
    <3>. QED  BY <3>1, <3>2
  <2>2. old' \subseteq old /\ disk' = (disk \ (OnDisk(new) \cup some)) \cup new
    BY <1>0 DEF WroteAgain
  <2>. HIDE DEF new
  <2>. QED  BY <1>2, <1>3, <2>1, <2>2 DEF Rewrites
<1>5. DiskEffect(r)
  BY <1>1, <1>4, Rewritten
<1>6. {Kept(f, cut) : f \in some} \subseteq new
  BY DEF Again
<1>7. found \in SUBSET Genuine(platform) /\ (\A f \in found : f.slot = Slot(r))
  BY <1>0, <1>1, <1>3, <1>6
<1>8. broken \in BOOLEAN
  BY <1>1 DEF Calls
<1>9. /\ Set(r, rec) /\ rec \in Calls(platform) /\ rec.link = l /\ rec.alone = request[r].alone
      /\ rec.files = found /\ rec.pc = "check" /\ (rec.broken <=> broken)
  <2>. HIDE DEF broken
  <2>1. /\ rec \in Calls(platform) /\ rec.link = l /\ rec.alone = request[r].alone
        /\ rec.files = found /\ rec.pc = "check" /\ rec.broken = broken
    BY <1>1, <1>7, <1>8 DEF Calls, InLoop
  <2>2. Set(r, rec)
    BY DEF broken
  <2>. QED  BY <2>1, <2>2
<1>10. ASSUME Quiet(r) PROVE Undisturbed(platform, rec, disk', old')
  <2>1. /\ Slot(r) \notin old' /\ \A f \in mine : f.slot = Slot(r)
        /\ files \in SUBSET mine /\ files # {}
        /\ \A f, g \in files : f.base = g.base => f = g
        /\ ~request[r].broken => Complete(files)
    BY <1>1, <1>4, <1>10 DEF Quiet, Undisturbed, Slot, Rewrites
  <2>2. OnDisk(files) = files /\ files \in SUBSET disk
    BY <2>1, OwnFiles DEF Mine
  <2>3. some \subseteq files /\ left \subseteq files
    BY <2>2
  <2>4. found = (files \ some) \cup {Kept(f, cut) : f \in some}
    <3>1. ASSUME NEW f \in files
          PROVE  f \in some <=> \E g \in some : SamePath(f, g)
      BY <2>2, <2>3 DEF SamePath, FileInv, OnePerPath
    <3>. QED  BY <1>0, <3>1
  <2>5. \A f \in some : CopyOf(platform, Kept(f, cut), f)
    BY <1>2, KeptCopy
  <2>6. ASSUME NEW f \in files PROVE f \notin OnDisk(new)
    <3>1. ASSUME NEW c \in new, SamePath(f, c) PROVE FALSE
      <4>1. PICK g \in some \cup left : CopyOf(platform, c, g)
        BY <1>3
      <4>2. g = f
        BY <2>1, <2>3, <3>1, <4>1 DEF CopyOf, SamePath
      <4>3. c.edits = g.edits + 1 /\ g.edits \in Nat /\ f.edits = c.edits
        BY <3>1, <4>1 DEF CopyOf, SamePath
      <4>. QED  BY <4>2, <4>3
    <3>2. ASSUME NEW c \in new, SamePath(c, f) PROVE FALSE
      <4>1. SamePath(f, c)
        BY <3>2 DEF SamePath
      <4>. QED  BY <3>1, <4>1
    <3>. QED  BY <3>2 DEF OnDisk
  <2>7. found \subseteq disk'
    BY <1>0, <1>6, <2>2, <2>4, <2>6 DEF WroteAgain
  <2>8. found \subseteq Mine(l, disk') /\ \A f \in Mine(l, disk') : f.slot = Slot(r)
    <3>1. \A f \in disk' : f \in disk \/ f.slot = Slot(r)
      BY <1>0, <1>3 DEF WroteAgain
    <3>. QED  BY <1>1, <1>7, <2>1, <2>7, <3>1 DEF Mine, Slot
  <2>9. found # {}
    BY <2>1, <2>4
  <2>10. ASSUME NEW f \in found, NEW g \in found, f.base = g.base PROVE f = g
    <3>1. PICK x \in files : IF x \in some THEN f = Kept(x, cut) ELSE f = x
      BY <2>3, <2>4
    <3>2. PICK y \in files : IF y \in some THEN g = Kept(y, cut) ELSE g = y
      BY <2>3, <2>4
    <3>3. x.base = f.base /\ y.base = g.base
      BY <2>5, <3>1, <3>2 DEF CopyOf
    <3>4. x = y
      BY <2>1, <2>10, <3>3
    <3>. QED  BY <3>1, <3>2, <3>4
  <2>11. ASSUME ~broken PROVE Complete(found)
    <3>1. Complete(files) /\ cut = {}
      BY <1>10, <2>1, <2>11 DEF Quiet
    <3>2. ASSUME NEW f \in found
          PROVE  \E x \in files : 
                   (IF x \in some THEN f = Kept(x, cut) ELSE f = x) /\ f.base = x.base /\ f.whole
      <4>1. PICK x \in files : IF x \in some THEN f = Kept(x, cut) ELSE f = x
        BY <2>3, <2>4
      <4>2. f.base = x.base /\ x.whole
        BY <2>5, <3>1, <4>1 DEF CopyOf, Complete
      <4>3. CASE x \in some
        BY <1>2, <3>1, <4>1, <4>2, <4>3, KeptCopy
      <4>. QED  BY <4>1, <4>2, <4>3
    <3>3. ASSUME NEW f \in found, NEW g \in found
          PROVE  f = g \/ {f.base, g.base} \subseteq Pieces
      <4>1. PICK x \in files : (IF x \in some THEN f = Kept(x, cut) ELSE f = x) /\ f.base = x.base
        BY <3>2
      <4>2. PICK y \in files : (IF y \in some THEN g = Kept(y, cut) ELSE g = y) /\ g.base = y.base
        BY <3>2
      <4>. QED  BY <3>1, <4>1, <4>2 DEF Complete
    <3>. QED  BY <3>2, <3>3 DEF Complete
  <2>. HIDE DEF rec, broken, mine, new, files
  <2>. QED  BY <1>9, <2>1, <2>8, <2>9, <2>10, <2>11 DEF Undisturbed, InThread, Slot
<1>11. \A f \in rec.files : f.slot \in ReachOf(platform, request[r].link)
  BY <1>1, <1>7, <1>9
<1>12. request[r].pc \in InService /\ rec.pc \in InService
  BY <1>9 DEF InService
<1>. HIDE DEF rec, broken, mine, new, files
<1>. QED  BY <1>5, <1>9, <1>10, <1>11, <1>12, Onward

LEMMA EditEffect ==
  ASSUME FileInv, NEW r \in Requests, Edit(r)
  PROVE  Effect(r)
<1>1. request[r].pc = "edit" /\ platform' = platform
  BY DEF Edit, At
<1>2. /\ request[r] \in Calls(platform) /\ platform \in Platforms
      /\ \A f \in request[r].files : f.slot \in ReachOf(platform, request[r].link)
  BY <1>1, InHand DEF InService
<1>3. PICK some \in SUBSET Editable(r), hurt \in SUBSET Editable(r) :
        LET cut == IF platform = "instagram" THEN some \cap hurt ELSE {}
            left == IF platform = "tiktok" THEN hurt \ some ELSE {}
            new == Again(some, left, cut)
        IN
        /\ hurt = cut \cup left
        /\ WroteAgain(r, some, new)
        /\ Set(r, [request[r] EXCEPT !.pc = "check", !.broken = @ \/ (hurt # {} /\ request[r].alone),
                                     !.files = Replaced(r, some, cut)])
  BY DEF Edit, Again, Kept, Cut, WroteAgain, Replaced
<1>. DEFINE cut == IF platform = "instagram" THEN some \cap hurt ELSE {}
            left == IF platform = "tiktok" THEN hurt \ some ELSE {}
            found == Replaced(r, some, cut)
            new == Again(some, left, cut)
<1>4. Editable(r) \subseteq OnDisk(request[r].files) /\ (platform \notin EditedOn => Editable(r) = {})
  BY DEF Editable
<1>5. CASE platform \in EditedOn
  <2>1. /\ some \in SUBSET OnDisk(request[r].files) /\ left \in SUBSET OnDisk(request[r].files)
        /\ some \cap left = {} /\ (hurt = {} => cut = {})
    BY <1>4
  <2>2. /\ WroteAgain(r, some, Again(some, left, cut))
        /\ Set(r, [request[r] EXCEPT !.pc = "check", !.broken = @ \/ (hurt # {} /\ request[r].alone),
                                     !.files = found])
    BY <1>3
  <2>. HIDE DEF cut, left, found
  <2>3. found = Replaced(r, some, cut) => Effect(r)
    BY <1>1, <1>5, <2>1, <2>2, EditedEffect
  <2>. QED  BY <2>3 DEF found
<1>6. CASE platform \notin EditedOn
  <2>1. some = {} /\ hurt = {}
    BY <1>4, <1>6
  <2>2. left = {} /\ new = {} /\ found = request[r].files
    BY <2>1 DEF Again, Replaced
  <2>3. DiskUnchanged
    BY <1>3, <2>1, <2>2 DEF DiskUnchanged, OnDisk, WroteAgain
  <2>. DEFINE rec == [request[r] EXCEPT !.pc = "check", !.broken = @ \/ (hurt # {} /\ request[r].alone),
                                        !.files = found]
  <2>4. Set(r, rec)
    BY <1>3
  <2>5. /\ rec \in Calls(platform) /\ rec.link = request[r].link /\ rec.alone = request[r].alone
        /\ rec.files = request[r].files /\ rec.pc = "check" /\ (rec.broken <=> request[r].broken)
    BY <1>2, <2>1, <2>2 DEF Calls, InLoop
  <2>. HIDE DEF rec
  <2>6. ASSUME Quiet(r) PROVE Undisturbed(platform, rec, disk', old')
    BY <1>1, <2>3, <2>5, <2>6 DEF Quiet, Undisturbed, InThread, DiskUnchanged
  <2>7. DiskEffect(r)
    BY <1>1, <2>3, NothingWritten
  <2>8. request[r].pc \in InService /\ rec.pc \in InService
    BY <1>1, <2>5 DEF InService
  <2>. QED  BY <1>2, <2>4, <2>5, <2>6, <2>7, <2>8, Onward
<1>. QED  BY <1>5, <1>6

LEMMA CheckEffect ==
  ASSUME FileInv, NEW r \in Requests, Check(r)
  PROVE  Effect(r)
<1>. DEFINE l == request[r].link
            mine == Mine(l, disk)
            found == {f \in request[r].files : OnDisk({f}) # {}}
<1>1. request[r].pc = "check" /\ platform' = platform /\ DiskUnchanged
  BY DEF Check, At, DiskUnchanged
<1>2. /\ request[r] \in Calls(platform) /\ platform \in Platforms
      /\ request[r].files \in SUBSET Genuine(platform)
      /\ \A f \in request[r].files : f.slot \in ReachOf(platform, l)
      /\ ReachOf(platform, l) \subseteq SlotsUnder[Slot(r)]
  BY <1>1, InHand DEF InService
<1>3. DiskEffect(r) /\ request[r].pc \in InService
  BY <1>1, NothingWritten DEF InService
<1>4. CASE Checked(r) = {} /\ Fail(r)
  BY <1>3, <1>4, FailedInHand
<1>5. ASSUME NEW files \in Checked(r), Set(r, [request[r] EXCEPT !.pc = "result", !.files = files])
      PROVE  Effect(r)
  <2>1. \/ files = found
        \/ platform = "tiktok" /\ files = request[r].files
        \/ platform \in ByPrefix /\ found = {} /\ \E f \in Matching(Slot(r)) : files = {f}
    <3>1. \/ platform = "instagram" \/ platform = "pinterest" \/ platform = "tiktok"
          \/ platform = "vk" \/ platform = "generic"
      BY <1>2, PlatformsAssumption DEF PlatformNames
    <3>2. CASE platform = "instagram"
      BY <1>5, <3>2 DEF Checked
    <3>3. CASE platform = "pinterest"
      BY <1>5, <3>3 DEF Checked
    <3>4. CASE platform = "tiktok"
      BY <1>5, <3>4 DEF Checked
    <3>5. CASE platform \in ByPrefix
      <4>1. Checked(r) = IF found # {} THEN {found} ELSE {{f} : f \in Matching(Slot(r))}
        BY <3>5 DEF Checked, ByPrefix
      <4>. QED  BY <1>5, <3>5, <4>1
    <3>. QED  BY <3>1, <3>2, <3>3, <3>4, <3>5 DEF ByPrefix
  <2>2. files \in SUBSET Genuine(platform) /\ \A f \in files : f.slot \in ReachOf(platform, l)
    BY <1>2, <2>1 DEF Matching, FileInv, ReachOf, Slot
  <2>. DEFINE rec == [request[r] EXCEPT !.pc = "result", !.files = files]
  <2>3. /\ rec \in Calls(platform) /\ rec.link = l /\ rec.alone = request[r].alone
        /\ rec.files = files /\ rec.pc = "result" /\ (rec.broken <=> request[r].broken)
    BY <1>2, <2>2 DEF Calls, AtService
  <2>4. Set(r, rec)
    BY <1>5
  <2>. HIDE DEF rec
  <2>5. ASSUME Quiet(r)
        PROVE  /\ files \subseteq mine /\ files # {}
               /\ \A f, g \in files : f.base = g.base => f = g
               /\ ~request[r].broken => Complete(files)
    <3>1. /\ request[r].files # {}
          /\ \A f, g \in request[r].files : f.base = g.base => f = g
          /\ ~request[r].broken => Complete(request[r].files)
          /\ \/ request[r].files \subseteq mine
             \/ /\ platform \in ByPrefix
                /\ \A f \in request[r].files, g \in mine : f.base # g.base
                /\ ~request[r].broken => mine = {}
      BY <1>1, <2>5 DEF Quiet, Undisturbed
    <3>2. CASE request[r].files \subseteq mine
      <4>1. found = request[r].files
        BY <3>2 DEF OnDisk, Mine, SamePath
      <4>. QED  BY <2>1, <3>1, <3>2, <4>1
    <3>3. CASE /\ platform \in ByPrefix
               /\ \A f \in request[r].files, g \in mine : f.base # g.base
               /\ ~request[r].broken => mine = {}
      <4>1. found = {}
        <5>1. ASSUME NEW f \in request[r].files, NEW g \in disk, SamePath(f, g) PROVE FALSE
          <6>1. g \in mine
            BY <1>2, <5>1 DEF SamePath, Mine, Slot
          <6>. QED  BY <3>3, <5>1, <6>1 DEF SamePath
        <5>. QED  BY <5>1 DEF OnDisk
      <4>2. Checked(r) = {{f} : f \in Matching(Slot(r))}
        <5>1. Checked(r) = IF found # {} THEN {found} ELSE {{f} : f \in Matching(Slot(r))}
          BY <3>3 DEF Checked, ByPrefix
        <5>. QED  BY <4>1, <5>1
      <4>3. PICK f \in mine : files = {f}
        BY <1>5, <4>2 DEF Matching, Mine, Slot
      <4>4. request[r].broken
        BY <3>3, <4>3
      <4>. QED  BY <4>3, <4>4
    <3>. QED  BY <3>1, <3>2, <3>3
  <2>6. ASSUME Quiet(r) PROVE Undisturbed(platform, rec, disk', old')
    <3>1. /\ SlotOf[l] \notin old' /\ \A f \in Mine(l, disk') : f.slot = SlotOf[l]
          /\ mine = Mine(l, disk')
      BY <1>1, <2>6 DEF Quiet, Undisturbed, DiskUnchanged
    <3>2. rec.pc \notin InThread \cup {"html", "merge"}
      BY <2>3 DEF InThread
    <3>. QED  BY <2>3, <2>5, <2>6, <3>1, <3>2 DEF Undisturbed
  <2>7. rec.pc \in InService
    BY <2>3 DEF InService
  <2>. QED  BY <1>3, <2>2, <2>3, <2>4, <2>6, <2>7, Onward
<1>. QED  BY <1>4, <1>5 DEF Check

LEMMA SendEffect ==
  ASSUME FileInv, NEW r \in Requests, Send(r)
  PROVE  Effect(r)
<1>. DEFINE sent == OnDisk(request[r].files)
            rec == [NotAlone(r) EXCEPT !.pc = "sent", !.files = sent]
<1>1. request[r].pc = "result" /\ request[r].pc \in InService /\ platform' = platform /\ DiskUnchanged
  BY DEF Send, At, DiskUnchanged, InService
<1>2. DiskEffect(r)
  BY <1>1, NothingWritten
<1>3. CASE Set(r, rec)
  <2>1. sent \in SUBSET Genuine(platform) /\ \A f \in sent : f.slot \in ReachOf(platform, request[r].link)
    BY <1>1, InHand DEF OnDisk, SamePath, FileInv
  <2>2. request[r] \in Calls(platform)
    BY <1>1, InHand
  <2>. HIDE DEF sent
  <2>3. /\ rec \in Calls(platform) /\ rec.link = request[r].link /\ ~rec.alone
        /\ rec.files = sent /\ rec.pc = "sent"
    BY <2>1, <2>2 DEF Calls, AtService, NotAlone
  <2>. HIDE DEF rec
  <2>4. rec.pc \in InService
    BY <2>3 DEF InService
  <2>. QED  BY <1>1, <1>2, <1>3, <2>1, <2>3, <2>4, Onward
<1>4. CASE Fail(r)
  BY <1>1, <1>2, <1>4, FailedInHand
<1>. QED  BY <1>3, <1>4 DEF Send

LEMMA CleanupEffect ==
  ASSUME FileInv, NEW r \in Requests, Cleanup(r)
  PROVE  Effect(r)
<1>1. /\ request[r].pc \in InService /\ platform' = platform
      /\ disk' = disk \ OnDisk(request[r].files)
      /\ old' = {s \in old : \E f \in disk' : f.slot = s} /\ End(r, "done")
  BY DEF Cleanup, At, InService, Remove
<1>2. \A f \in disk \ disk' : f.slot \in ReachOf(platform, request[r].link)
  BY <1>1, InHand DEF OnDisk, SamePath
<1>3. DiskEffect(r)
  BY <1>1, <1>2 DEF DiskEffect, FileInv, OnePerPath
<1>. QED  BY <1>1, <1>3, InHand, Ended DEF Final

LEMMA TimeoutEffect ==
  ASSUME FileInv, NEW r \in Requests, Timeout(r)
  PROVE  Effect(r)
<1>1. platform' = platform
  BY DEF Timeout
<1>2. CASE Fail(r) /\ DiskUnchanged
  BY <1>1, <1>2, NothingWritten, Ended DEF Fail, Final, DiskUnchanged
<1>3. ASSUME At(r, "edit"), NEW f \in Editable(r), Put(Cut(f)), Fail(r)
      PROVE  Effect(r)
  <2>1. request[r].pc \in InService
    BY <1>3 DEF At, InService
  <2>2. f \in disk /\ f.slot = Slot(r) /\ f \in Genuine(platform)
    <3>1. platform \in EditedOn /\ f \in OnDisk(request[r].files)
      BY DEF Editable
    <3>. QED  BY <2>1, <3>1, InHand DEF EditedOn, ReachOf, ByPrefix, OnDisk, SamePath, FileInv, Slot
  <2>3. Cut(f) \in Genuine(platform) /\ Cut(f).slot = Slot(r)
    BY <2>2, CutCopy DEF CopyOf
  <2>4. PutAll({Cut(f)}) /\ OnePerPath({Cut(f)})
    BY <1>3 DEF Put, OnePerPath
  <2>5. Rewrites(r, {}, {Cut(f)})
    BY <1>1, <2>3, <2>4, PutRewrites
  <2>6. DiskEffect(r)
    BY <2>1, <2>5, InHand, Rewritten
  <2>. QED  BY <1>3, <2>1, <2>6, FailedInHand
<1>4. CASE /\ request[r].pc \in InThread /\ DiskUnchanged
           /\ Set(r, [NotAlone(r) EXCEPT !.cancelled = TRUE])
  <2>. DEFINE rec == [NotAlone(r) EXCEPT !.cancelled = TRUE]
  <2>1. Working(r) /\ request[r] \in Calls(platform)
    BY <1>4, InPlace DEF Places
  <2>2. /\ rec \in Calls(platform) /\ rec.link = request[r].link /\ ~rec.alone
        /\ rec.files = request[r].files /\ rec.pc = request[r].pc
    BY <2>1 DEF Calls, NotAlone
  <2>3. Set(r, rec)
    BY <1>4
  <2>. HIDE DEF rec
  <2>4. GoodCall(platform, rec)
    BY <2>2 DEF FileInv, GoodCall
  <2>5. DiskEffect(r)
    BY <1>1, <1>4, NothingWritten
  <2>. QED  BY <2>1, <2>2, <2>3, <2>4, <2>5 DEF Effect, CallEffect
<1>. QED  BY <1>2, <1>3, <1>4 DEF Timeout, Cut

-----------------------------------------------------------------------------
(* The steps that are not those of a call at work *)

LEMMA CallKeeps ==
  ASSUME Inv, NEW r \in Requests, Call(r)
  PROVE  Inv'
<1>1. PICK l \in LinksOf[platform] : Set(r, [request[r] EXCEPT !.pc = "wait", !.link = l])
  BY DEF Call
<1>. DEFINE rec == [request[r] EXCEPT !.pc = "wait", !.link = l]
<1>2. request[r].pc = "idle" /\ UNCHANGED <<platform, disk, old>>
  BY DEF Call, At
<1>3. request[r] \in Calls(platform) /\ request[r].files = {}
  BY <1>2 DEF Inv, FileInv, GoodCall, Final
<1>4. rec \in Calls(platform) /\ rec.link = l /\ rec.files = {} /\ rec.pc = "wait"
  BY <1>3 DEF Calls
<1>5. GoodCall(platform, rec)
  BY <1>4 DEF GoodCall, Final, InThread
<1>6. /\ request'[r] = rec /\ \A q \in Requests \ {r} : request'[q] = request[q]
      /\ request' = [q \in Requests |-> request'[q]]
  BY <1>1 DEF Set, Inv, FileInv
<1>7. FileInv'
  <2>1. \A q \in Requests : GoodCall(platform', request'[q])
    BY <1>2, <1>5, <1>6 DEF Inv, FileInv
  <2>. QED  BY <1>2, <1>6, <2>1 DEF Inv, FileInv, OnePerPath, SamePath
<1>8. \A q \in Requests : Working(q)' => q # r /\ Working(q)
  BY <1>4, <1>6 DEF Working
<1>9. AloneInv'
  <2>1. ASSUME NEW q \in Requests, Working(q)', request'[q].alone
        PROVE  Undisturbed(platform', request'[q], disk', old')
    BY <1>2, <1>6, <1>8, <2>1 DEF Inv, AloneInv
  <2>2. ASSUME NEW q \in Requests, Working(q)', request'[q].alone,
               NEW s \in Requests \ {q}, Working(s)'
        PROVE  ~Related(SlotOf[request'[s].link], SlotOf[request'[q].link])
    BY <1>6, <1>8, <2>2 DEF Inv, AloneInv, Slot
  <2>. QED  BY <2>1, <2>2 DEF AloneInv, Slot, Related
<1>. QED  BY <1>7, <1>9 DEF Inv

LEMMA EnterKeeps ==
  ASSUME Inv, NEW r \in Requests, Enter(r)
  PROVE  Inv'
<1>1. PICK pc \in FirstSteps :
        request' = [q \in Requests |->
          IF q # r THEN IF q \in Neighbours(r) THEN NotAlone(q) ELSE request[q]
          ELSE IF pc = "failed" THEN [Idle EXCEPT !.pc = pc]
          ELSE [request[r] EXCEPT !.pc = pc,
                  !.alone = Matching(Slot(r)) = {} /\ Neighbours(r) = {}]]
  BY DEF Enter
<1>2. request[r].pc = "wait" /\ UNCHANGED <<platform, disk, old>>
  BY DEF Enter, At
<1>3. /\ \A q \in Requests : request[q] \in Calls(platform) /\ GoodCall(platform, request[q])
      /\ request[r].link \in LinksOf[platform] /\ platform \in Platforms
  BY <1>2 DEF Inv, FileInv, GoodCall, Final
<1>4. request' = [q \in Requests |-> request'[q]]
  BY <1>1
<1>5. ASSUME NEW q \in Requests \ {r}
      PROVE  /\ request'[q].pc = request[q].pc /\ request'[q].link = request[q].link
             /\ request'[q].alone => request'[q] = request[q] /\ q \notin Neighbours(r)
             /\ GoodCall(platform, request'[q])
  <2>1. CASE q \in Neighbours(r)
    <3>1. request'[q] = NotAlone(q)
      BY <1>1, <2>1
    <3>2. /\ NotAlone(q) \in Calls(platform)
          /\ NotAlone(q).pc = request[q].pc /\ NotAlone(q).link = request[q].link
          /\ NotAlone(q).files = request[q].files /\ ~NotAlone(q).alone
      BY <1>3 DEF Calls, NotAlone
    <3>. QED  BY <1>3, <3>1, <3>2 DEF GoodCall
  <2>2. CASE q \notin Neighbours(r)
    BY <1>1, <1>3, <2>2
  <2>. QED  BY <2>1, <2>2
<1>6. /\ GoodCall(platform, request'[r])
      /\ Working(r)' => /\ request'[r].link = request[r].link
                        /\ request'[r].pc \in {"fetch", "story", "ytdlp"}
                        /\ request'[r].alone => Matching(Slot(r)) = {} /\ Neighbours(r) = {}
  <2>1. CASE pc = "failed"
    <3>1. request'[r] = [Idle EXCEPT !.pc = "failed"]
      BY <1>1, <2>1
    <3>2. "failed" \in Final
      BY DEF Final
    <3>3. request'[r] \in Calls(platform) /\ request'[r].pc = "failed" /\ request'[r].files = {}
      BY <3>1, <3>2, EndedCall
    <3>. QED  BY <3>3 DEF GoodCall, Final, Working, InThread
  <2>2. CASE pc # "failed"
    <3>1. request'[r] = [request[r] EXCEPT !.pc = pc,
                           !.alone = Matching(Slot(r)) = {} /\ Neighbours(r) = {}]
      BY <1>1, <2>2
    <3>2. pc \in {"fetch", "story", "ytdlp"} /\ pc \in ChainOf(platform)
      BY <1>1, <2>2 DEF FirstSteps, ChainOf
    <3>3. /\ request'[r] \in Calls(platform) /\ request'[r].pc = pc /\ request'[r].link = request[r].link
          /\ request'[r].files = request[r].files
          /\ request'[r].alone = (Matching(Slot(r)) = {} /\ Neighbours(r) = {})
      BY <1>3, <3>1, <3>2 DEF Calls, InThread
    <3>4. GoodCall(platform, request'[r])
      BY <1>2, <1>3, <3>2, <3>3 DEF GoodCall, Final
    <3>. QED  BY <3>2, <3>3, <3>4
  <2>. QED  BY <2>1, <2>2
<1>7. FileInv'
  <2>1. \A q \in Requests : GoodCall(platform', request'[q])
    BY <1>2, <1>5, <1>6
  <2>. QED  BY <1>2, <1>4, <2>1 DEF Inv, FileInv, OnePerPath, SamePath
<1>8. \A q \in Requests \ {r} : Working(q)' => Working(q)
  BY <1>5 DEF Working
<1>9. \A q \in Requests : Working(q)' => request'[q].link = request[q].link
  BY <1>5, <1>6
<1>10. ASSUME NEW q \in Requests, Working(q)', request'[q].alone
       PROVE  Undisturbed(platform', request'[q], disk', old')
  <2>1. CASE q = r
    <3>1. Matching(Slot(r)) = {} /\ request'[r].link = request[r].link
      BY <1>6, <1>10, <2>1
    <3>2. Mine(request'[r].link, disk) = {}
      BY <3>1 DEF Matching, Mine, Slot
    <3>3. SlotOf[request'[r].link] \notin old
      <4>1. \A s \in old : \E f \in disk : f.slot = s
        BY DEF Inv, FileInv
      <4>2. SlotOf[request'[r].link] \in SlotsUnder[SlotOf[request'[r].link]]
        BY <1>3, <3>1, ReachIsUnder
      <4>. QED  BY <3>2, <4>1, <4>2 DEF Mine
    <3>4. request'[r].pc \in {"fetch", "story", "ytdlp"}
      BY <1>6, <1>10, <2>1
    <3>. QED  BY <1>2, <2>1, <3>2, <3>3, <3>4 DEF Undisturbed
  <2>2. CASE q # r
    <3>1. request'[q] = request[q] /\ Working(q)
      BY <1>5, <1>8, <1>10, <2>2
    <3>2. Undisturbed(platform, request[q], disk, old)
      BY <1>10, <3>1 DEF Inv, AloneInv
    <3>. QED  BY <1>2, <3>1, <3>2
  <2>. QED  BY <2>1, <2>2
<1>11. ASSUME NEW q \in Requests, Working(q)', request'[q].alone,
              NEW s \in Requests \ {q}, Working(s)'
       PROVE  ~Related(SlotOf[request'[s].link], SlotOf[request'[q].link])
  <2>1. CASE q = r
    <3>1. Working(s) /\ s \notin Neighbours(r)
      BY <1>6, <1>8, <1>11, <2>1
    <3>. QED  BY <1>9, <1>11, <2>1, <3>1 DEF Neighbours, Related, Slot
  <2>2. CASE s = r
    <3>1. Working(q) /\ q \notin Neighbours(r)
      BY <1>5, <1>8, <1>11, <2>2
    <3>. QED  BY <1>9, <1>11, <2>2, <3>1 DEF Neighbours, Related, Slot
  <2>3. CASE q # r /\ s # r
    <3>1. Working(q) /\ Working(s) /\ request[q].alone
      BY <1>5, <1>8, <1>11, <2>3
    <3>. QED  BY <1>9, <1>11, <3>1 DEF Inv, AloneInv, Slot
  <2>. QED  BY <2>1, <2>2, <2>3
<1>12. AloneInv'
  BY <1>10, <1>11 DEF AloneInv, Slot, Related
<1>. QED  BY <1>7, <1>12 DEF Inv

LEMMA HourPassesKeeps ==
  ASSUME Inv, NEW s \in Slots, HourPasses(s)
  PROVE  Inv'
<1>1. /\ UNCHANGED <<platform, request, disk>> /\ old' = old \cup {s}
      /\ \E f \in disk : f.slot = s
      /\ \A r \in Requests : Working(r) => Slot(r) # s
  BY DEF HourPasses, InSlot
<1>2. FileInv'
  BY <1>1 DEF Inv, FileInv, OnePerPath, SamePath
<1>3. \A r \in Requests : Working(r)' = Working(r) /\ Slot(r)' = Slot(r)
  BY <1>1 DEF Working, Slot
<1>4. ASSUME NEW r \in Requests, Working(r), request[r].alone
      PROVE  Undisturbed(platform', request'[r], disk', old')
  <2>1. Undisturbed(platform, request[r], disk, old) /\ Slot(r) # s
    BY <1>1, <1>4 DEF Inv, AloneInv
  <2>. QED  BY <1>1, <2>1 DEF Undisturbed, Slot
<1>5. AloneInv'
  BY <1>1, <1>3, <1>4 DEF Inv, AloneInv, Related
<1>. QED  BY <1>2, <1>5 DEF Inv

LEMMA CleanupTempFilesKeeps ==
  ASSUME Inv, NEW s \in Slots, CleanupTempFiles(s)
  PROVE  Inv'
<1>1. /\ UNCHANGED <<platform, request>> /\ s \in old
      /\ disk' = disk \ {f \in disk : f.slot = s} /\ old' = old \ {s}
  BY DEF CleanupTempFiles, InSlot
<1>2. FileInv'
  <2>1. \A t \in old' : \E f \in disk' : f.slot = t
    BY <1>1 DEF Inv, FileInv
  <2>. QED  BY <1>1, <2>1 DEF Inv, FileInv, OnePerPath, SamePath
<1>3. \A r \in Requests : Working(r)' = Working(r) /\ Slot(r)' = Slot(r)
  BY <1>1 DEF Working, Slot
<1>4. ASSUME NEW r \in Requests, Working(r), request[r].alone
      PROVE  Undisturbed(platform', request'[r], disk', old')
  <2>1. Undisturbed(platform, request[r], disk, old)
    BY <1>4 DEF Inv, AloneInv
  <2>2. Mine(request[r].link, disk') = Mine(request[r].link, disk)
    BY <1>1, <2>1 DEF Undisturbed, Mine
  <2>. QED  BY <1>1, <2>1, <2>2, SameMine
<1>5. AloneInv'
  BY <1>1, <1>3, <1>4 DEF Inv, AloneInv, Related
<1>. QED  BY <1>2, <1>5 DEF Inv

-----------------------------------------------------------------------------
LEMMA InitInv == Init => Inv
<1>. SUFFICES ASSUME Init PROVE Inv
  OBVIOUS
<1>1. \A r \in Requests : request[r] = Idle
  BY DEF Init
<1>2. Idle \in Calls(platform) /\ Idle.pc = "idle" /\ Idle.files = {}
  BY DEF Idle, Calls, Final
<1>3. \A r \in Requests : GoodCall(platform, request[r])
  BY <1>1, <1>2 DEF GoodCall, Final, InThread
<1>4. FileInv
  BY <1>3 DEF Init, FileInv, OnePerPath
<1>5. AloneInv
  BY <1>1, <1>2 DEF AloneInv, Working, Final
<1>. QED  BY <1>4, <1>5 DEF Inv

LEMMA NextKeeps == Inv /\ [Next]_vars => Inv'
<1>. SUFFICES ASSUME Inv, [Next]_vars PROVE Inv'
  OBVIOUS
<1>1. ASSUME NEW r \in Requests, Thread(r) PROVE Inv'
  <2>1. FileInv
    BY DEF Inv
  <2>2. Effect(r)
    BY <1>1, <2>1, FetchPostEffect, SidecarEffect, YtDlpInstagramEffect, FromUrlEffect,
       LoaderEffect, MergeEffect, StoryEffect, YtDlpTikTokEffect, YtDlpSingleEffect,
       YtDlpPinterestEffect, FromPageEffect, BoardEffect DEF Thread
  <2>. QED  BY <2>2, EffectKeeps
<1>2. ASSUME NEW r \in Requests, Html(r) \/ Edit(r) \/ Check(r) \/ Send(r) \/ Cleanup(r) \/ Timeout(r)
      PROVE  Inv'
  <2>1. FileInv
    BY DEF Inv
  <2>2. Effect(r)
    BY <1>2, <2>1, HtmlEffect, EditEffect, CheckEffect, SendEffect, CleanupEffect, TimeoutEffect
  <2>. QED  BY <2>2, EffectKeeps
<1>3. ASSUME NEW r \in Requests, Call(r) PROVE Inv'
  BY <1>3, CallKeeps
<1>4. ASSUME NEW r \in Requests, Enter(r) PROVE Inv'
  BY <1>4, EnterKeeps
<1>5. ASSUME NEW s \in Slots, HourPasses(s) PROVE Inv'
  BY <1>5, HourPassesKeeps
<1>6. ASSUME NEW s \in Slots, CleanupTempFiles(s) PROVE Inv'
  BY <1>6, CleanupTempFilesKeeps
<1>7. CASE UNCHANGED vars
  BY <1>7 DEF vars, Inv, FileInv, AloneInv, Working, Slot, OnePerPath, SamePath
<1>. QED  BY <1>1, <1>2, <1>3, <1>4, <1>5, <1>6, <1>7 DEF Next, Coroutine

\* The two invariants hold: every file on disk and in the hands of a call is
\* one that some download of its link wrote, and a call that had its names to
\* itself finds there its own files and nothing else.
THEOREM DownloadsInvariant == Spec => []Inv
BY InitInv, NextKeeps, PTL DEF Spec

\* A call whose names no other media shares sends the media of its link.
LEMMA InvOwnMedia == Inv => OwnMedia
<1>. SUFFICES ASSUME Inv, NEW r \in Requests, At(r, "sent"), WellNamed(r),
                     NEW f \in request[r].files
              PROVE  f.of = Media(r)
  BY DEF OwnMedia
<1>1. f \in Genuine(platform) /\ f.slot \in ReachOf(platform, request[r].link)
  BY InHand DEF Inv, At, InService
<1>2. PICK l \in LinksOf[platform] : f.slot = SlotOf[l] /\ f.of = ShowsOf[l]
  BY <1>1 DEF Genuine
<1>3. ShowsOf[l] = Media(r)
  BY <1>1, <1>2 DEF WellNamed, ReachOf, ByPrefix, Slot
<1>. QED  BY <1>2, <1>3

LEMMA InvAlone == Inv => AloneIsComplete
<1>. SUFFICES ASSUME Inv, NEW r \in Requests, At(r, "result"), request[r].alone
              PROVE  /\ request[r].files # {}
                     /\ request[r].files \subseteq disk
                     /\ \A f, g \in request[r].files : f.base = g.base => f = g
                     /\ ~request[r].broken => Complete(request[r].files)
  BY DEF AloneIsComplete, Complete
<1>1. Working(r) /\ request[r].pc = "result"
  BY DEF At, Working, Final
<1>. QED  BY <1>1 DEF Inv, AloneInv, Undisturbed, Mine

\* What is sent for a link is the media of that link when no other media has
\* its names, for every downloader, whatever other calls, time-outs, leftovers
\* and the hourly cleanup do to the shared directory.
THEOREM OwnMediaSent == Spec => []OwnMedia
BY DownloadsInvariant, InvOwnMedia, PTL

\* A download that had its names to itself hands over files that are there, at
\* least one, and none of them beside a copy of itself, whatever its strategies
\* left when they failed; if none of its steps has broken off inside a file, they
\* are whole and nothing is handed over twice.
THEOREM AloneComplete == Spec => []AloneIsComplete
BY DownloadsInvariant, InvAlone, PTL
=============================================================================
