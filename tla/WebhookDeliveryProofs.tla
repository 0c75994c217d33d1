------------------------ MODULE WebhookDeliveryProofs ------------------------
(* What the Redis key guarantees, for every number of processes, posts and     *)
(* updates, every clock and every life of the key.                             *)
EXTENDS WebhookDelivery, TLAPS

\* The key of an update outlives every acquisition by what is left of dedup_ttl.
\* Needed for ApartInTime: SET NX succeeds only once the key expired.
KeyCovers ==
  \A u \in Updates : \A k \in Acquirers(u) :
    /\ handler[<<u, k>>].start <= now
    /\ handler[<<u, k>>].start + DedupTTL <= key[u]

\* Every variable keeps its type and no key lives longer than dedup_ttl: the first
\* half of the inductive invariant.
THEOREM DeliveryTypeCorrect == Spec => []TypeOK
<1>1. Init => TypeOK
  BY DeliveryAssumption DEF Init, TypeOK, NoPost, Handler
<1>2. TypeOK /\ [Next]_vars => TypeOK'
  <2> SUFFICES ASSUME TypeOK, [Next]_vars PROVE TypeOK'
    OBVIOUS
  <2> USE DeliveryAssumption
  <2>1. ASSUME NEW u \in Updates, NEW w \in Processes, Post(u, w) PROVE TypeOK'
    <3>1. posts[u].count \in 0..MaxPosts
      BY DEF TypeOK
    <3>2. posts[u].count + 1 \in 0..MaxPosts
      BY <2>1, <3>1 DEF Post
    <3>3. [count |-> posts[u].count + 1, last |-> now] \in [count : 0..MaxPosts, last : Nat]
      BY <3>2 DEF TypeOK
    <3>4. posts' \in [Updates -> [count : 0..MaxPosts, last : Nat]]
      BY <2>1, <3>3 DEF Post, TypeOK
    <3>5. [pc |-> "request", process |-> w, start |-> 0] \in Handler
      BY DEF Handler, Points
    <3>6. handler' \in [Posts -> Handler \cup {NoPost}]
      BY <2>1, <3>5 DEF Post, TypeOK
    <3> QED BY <2>1, <3>4, <3>6 DEF Post, TypeOK
  <2>2. ASSUME NEW p \in Posts, NEW pc \in Points, Goto(p, pc), handler[p].pc # "none"
        PROVE handler' \in [Posts -> Handler \cup {NoPost}]
    <3>1. handler[p] \in Handler
      BY <2>2 DEF TypeOK, NoPost
    <3>2. [handler[p] EXCEPT !.pc = pc] \in Handler
      BY <3>1 DEF Handler
    <3> QED BY <2>2, <3>2 DEF Goto, TypeOK
  <2>3. ASSUME NEW p \in Posts, StartProcessing(p), handler[p].pc # "none"
        PROVE handler' \in [Posts -> Handler \cup {NoPost}]
    <3>1. handler[p] \in Handler
      BY <2>3 DEF TypeOK, NoPost
    <3>2. [handler[p] EXCEPT !.pc = "processing", !.start = now] \in Handler
      BY <3>1 DEF Handler, Points, TypeOK
    <3> QED BY <2>3, <3>2 DEF StartProcessing, TypeOK
  <2>4. ASSUME NEW p \in Posts, Step(p) PROVE TypeOK'
    <3>0. p[1] \in Updates
      BY DEF Posts
    <3>1. CASE Dropped(p) \/ RequestFails(p) \/ Accepted(p) \/ Duplicate(p) \/ Processed(p)
      <4>1. handler' \in [Posts -> Handler \cup {NoPost}]
        BY <2>2, <3>1 DEF Dropped, RequestFails, Accepted, Duplicate, Processed, At, Points
      <4> QED BY <3>0, <3>1, <4>1
            DEF Dropped, RequestFails, Accepted, Duplicate, Processed, Answer, TypeOK
    <3>2. CASE ProcessedAnyway(p)
      <4>1. handler' \in [Posts -> Handler \cup {NoPost}]
        BY <2>2, <3>2 DEF ProcessedAnyway, At, Points
      <4> QED BY <3>0, <3>2, <4>1 DEF ProcessedAnyway, TypeOK
    <3>3. CASE Acquired(p)
      <4>1. handler' \in [Posts -> Handler \cup {NoPost}]
        BY <2>3, <3>3 DEF Acquired, At
      <4> QED BY <3>0, <3>3, <4>1 DEF Acquired, TypeOK
    <3> QED BY <2>4, <3>1, <3>2, <3>3 DEF Step
  <2>5. ASSUME NEW w \in Processes, Crash(w) PROVE TypeOK'
    <3>1. ASSUME NEW p \in Posts PROVE handler'[p] \in Handler \cup {NoPost}
      <4>1. handler[p] \in Handler \cup {NoPost}
        BY DEF TypeOK
      <4>2. CASE handler[p].pc \in {"request", "dedup", "processing"}
        <5>1. handler[p] \in Handler
          BY <4>1, <4>2 DEF NoPost
        <5>2. Dies(p) \in Handler
          BY <5>1 DEF Dies, Handler, Points
        <5> QED BY <2>5, <4>1, <5>2 DEF Crash
      <4>3. CASE handler[p].pc \notin {"request", "dedup", "processing"}
        BY <2>5, <4>1, <4>3 DEF Crash
      <4> QED BY <4>2, <4>3
    <3>2. handler' = [p \in Posts |-> handler'[p]]
      BY <2>5 DEF Crash
    <3> QED BY <2>5, <3>1, <3>2 DEF Crash, TypeOK
  <2>6. CASE Tick
    BY <2>6 DEF Tick, TypeOK
  <2>7. CASE UNCHANGED vars
    BY <2>7 DEF vars, TypeOK
  <2> QED BY <2>1, <2>4, <2>5, <2>6, <2>7 DEF Next
<1> QED BY <1>1, <1>2, PTL DEF Spec

\* The key covers the acquisitions, and two of them are therefore dedup_ttl apart:
\* the second half of the inductive invariant.
IInv == KeyCovers /\ ApartInTime

\* A step that acquires no key, and shortens the life of none, keeps both.
LEMMA NothingAcquired ==
  ASSUME IInv, TypeOK, TypeOK', now <= now',
         \A u \in Updates : key[u] <= key'[u],
         \A u \in Updates : Acquirers(u)' \subseteq Acquirers(u),
         \A u \in Updates : \A k \in Acquirers(u)' :
           handler'[<<u, k>>].start = handler[<<u, k>>].start
  PROVE  IInv'
<1> USE DeliveryAssumption
<1>1. ASSUME NEW u \in Updates, NEW k \in Acquirers(u)
      PROVE  handler[<<u, k>>].start \in Nat
  <2>1. <<u, k>> \in Posts /\ handler[<<u, k>>].pc # "none"
    BY DEF Acquirers, Posts
  <2>2. handler[<<u, k>>] \in Handler
    BY <2>1 DEF TypeOK, NoPost
  <2> QED BY <2>2 DEF Handler
<1>2. KeyCovers'
  <2> SUFFICES ASSUME NEW u \in Updates, NEW k \in Acquirers(u)'
               PROVE  /\ handler'[<<u, k>>].start <= now'
                      /\ handler'[<<u, k>>].start + DedupTTL <= key'[u]
    BY DEF KeyCovers
  <2>1. k \in Acquirers(u) /\ handler'[<<u, k>>].start = handler[<<u, k>>].start
    OBVIOUS
  <2>2. /\ handler[<<u, k>>].start <= now
        /\ handler[<<u, k>>].start + DedupTTL <= key[u]
    BY <2>1 DEF IInv, KeyCovers
  <2>3. /\ handler[<<u, k>>].start \in Nat /\ now \in Nat /\ now' \in Nat
        /\ key[u] \in Nat /\ key'[u] \in Nat
    BY <1>1, <2>1 DEF TypeOK
  <2> QED BY <2>1, <2>2, <2>3
<1>3. ApartInTime'
  BY DEF IInv, ApartInTime
<1> QED BY <1>2, <1>3 DEF IInv

\* No two posts of an update acquire its key within dedup_ttl, for any number of
\* processes and posts, whatever Redis calls fail, answers get lost and processes
\* die (SET NX EX in webhook.py, _process_with_dedup).
THEOREM DedupKeepsApart == Spec => []ApartInTime
<1> USE DeliveryAssumption
<1>1. Init => IInv
  BY DEF Init, IInv, KeyCovers, ApartInTime, Acquirers, Posts, NoPost
<1>2. TypeOK /\ TypeOK' /\ IInv /\ [Next]_vars => IInv'
  <2> SUFFICES ASSUME TypeOK, TypeOK', IInv, [Next]_vars PROVE IInv'
    OBVIOUS
  <2>0. /\ now \in Nat \ {0} /\ now' \in Nat \ {0}
        /\ \A u \in Updates : key[u] \in Nat /\ key'[u] \in Nat
    BY DEF TypeOK
  <2>1. ASSUME NEW u \in Updates, NEW w \in Processes, Post(u, w) PROVE IInv'
    <3>1. \A v \in Updates, k \in 1..MaxPosts :
            \/ handler'[<<v, k>>] = handler[<<v, k>>]
            \/ handler'[<<v, k>>].start = 0
      BY <2>1 DEF Post, TypeOK, Posts
    <3> QED BY <2>0, <2>1, <3>1, NothingAcquired DEF Post, Acquirers
  <2>2. ASSUME NEW p \in Posts, Step(p) PROVE IInv'
    <3>1. CASE Dropped(p) \/ RequestFails(p) \/ Accepted(p) \/ Duplicate(p) \/ Processed(p)
      <4>1. \E pc \in Points : Goto(p, pc)
        BY <3>1 DEF Dropped, RequestFails, Accepted, Duplicate, Processed, Points
      <4>2. handler[p].pc # "none"
        BY <3>1 DEF Dropped, RequestFails, Accepted, Duplicate, Processed, At
      <4>3. \A q \in Posts :
              /\ handler[q].pc = "none" => handler'[q].pc = "none"
              /\ handler[q].pc # "none" => handler'[q].start = handler[q].start
        BY <4>1, <4>2 DEF Goto, TypeOK, Handler, NoPost
      <4>4. UNCHANGED <<now, key>>
        BY <3>1 DEF Dropped, RequestFails, Accepted, Duplicate, Processed
      <4> QED BY <2>0, <4>3, <4>4, NothingAcquired DEF Acquirers, Posts
    <3>2. CASE ProcessedAnyway(p)
      <4>1. handler[p].pc = "dedup"
        BY <3>2 DEF ProcessedAnyway, At
      <4>2. \A q \in Posts :
              /\ handler[q].pc = "none" => handler'[q].pc = "none"
              /\ handler[q].pc # "none" => handler'[q].start = handler[q].start
        BY <3>2, <4>1 DEF ProcessedAnyway, Goto, TypeOK, Handler, NoPost
      <4>3. p[1] \in Updates
        BY DEF Posts
      <4>4. now' = now /\ \A u \in Updates : key[u] <= key'[u]
        BY <2>0, <3>2, <4>3 DEF ProcessedAnyway, KeyIsSet, TypeOK
      <4> QED BY <2>0, <4>2, <4>4, NothingAcquired DEF Acquirers, Posts
    <3>3. CASE Acquired(p)
      <4> DEFINE u == p[1]
                 k == p[2]
      <4>1. u \in Updates /\ k \in 1..MaxPosts /\ p = <<u, k>>
        BY DEF Posts
      <4>2. \A q \in Posts : q # p => handler'[q] = handler[q]
        BY <3>3 DEF Acquired, StartProcessing, TypeOK
      <4>3. handler'[p].start = now
        <5>1. handler[p] \in Handler
          BY <3>3 DEF Acquired, At, TypeOK, NoPost
        <5> QED BY <3>3, <5>1 DEF Acquired, StartProcessing, TypeOK, Handler
      <4>4. \A v \in Updates : \A j \in Acquirers(v)' :
              <<v, j>> = p \/ (<<v, j>> # p /\ j \in Acquirers(v))
        BY <4>2 DEF Acquirers, Posts
      <4>5. \A v \in Updates : \A j \in Acquirers(v) : handler[<<v, j>>].start \in Nat
        BY DEF Acquirers, Posts, TypeOK, Handler, NoPost
      <4>6. \A j \in Acquirers(u) : handler[<<u, j>>].start + DedupTTL <= now
        BY <2>0, <3>3, <4>1, <4>5 DEF Acquired, KeyIsSet, IInv, KeyCovers, TypeOK
      <4>7. KeyCovers'
        <5> SUFFICES ASSUME NEW v \in Updates, NEW j \in Acquirers(v)'
                     PROVE  /\ handler'[<<v, j>>].start <= now'
                            /\ handler'[<<v, j>>].start + DedupTTL <= key'[v]
          BY DEF KeyCovers
        <5>1. CASE <<v, j>> = p
          BY <2>0, <3>3, <4>1, <4>3, <5>1, SMTT(30) DEF Acquired, TypeOK
        <5>2. CASE <<v, j>> # p
          <6>1. j \in Acquirers(v) /\ handler'[<<v, j>>] = handler[<<v, j>>]
            BY <4>2, <4>4, <5>2 DEF Acquirers, Posts
          <6>2. key[v] <= key'[v] \/ v = u
            BY <3>3, <4>1 DEF Acquired, TypeOK
          <6> QED BY <2>0, <3>3, <4>1, <4>5, <4>6, <6>1, <6>2
                DEF Acquired, IInv, KeyCovers, TypeOK
        <5> QED BY <5>1, <5>2
      <4>8. ApartInTime'
        <5> SUFFICES ASSUME NEW v \in Updates, NEW i \in Acquirers(v)', NEW j \in Acquirers(v)',
                            i # j
                     PROVE  \/ handler'[<<v, i>>].start + DedupTTL <= handler'[<<v, j>>].start
                            \/ handler'[<<v, j>>].start + DedupTTL <= handler'[<<v, i>>].start
          BY DEF ApartInTime
        <5>0. <<v, i>> \in Posts /\ <<v, j>> \in Posts /\ <<v, i>> # <<v, j>>
          BY DEF Acquirers, Posts
        <5>1. CASE <<v, i>> = p
          BY <4>1, <4>2, <4>3, <4>4, <4>6, <5>0, <5>1
        <5>2. CASE <<v, j>> = p
          BY <4>1, <4>2, <4>3, <4>4, <4>6, <5>0, <5>2
        <5>3. CASE <<v, i>> # p /\ <<v, j>> # p
          BY <3>3, <4>2, <4>4, <5>0, <5>3 DEF IInv, ApartInTime
        <5> QED BY <5>1, <5>2, <5>3
      <4> QED BY <4>7, <4>8 DEF IInv
    <3> QED BY <2>2, <3>1, <3>2, <3>3 DEF Step
  <2>3. ASSUME NEW w \in Processes, Crash(w) PROVE IInv'
    <3>1. \A p \in Posts :
            /\ handler[p].pc = "none" => handler'[p].pc = "none"
            /\ handler[p].pc # "none" => handler'[p].start = handler[p].start
      BY <2>3 DEF Crash, Dies, TypeOK, Handler, NoPost
    <3> QED BY <2>0, <2>3, <3>1, NothingAcquired DEF Crash, Acquirers, Posts
  <2>4. CASE Tick
    BY <2>0, <2>4, NothingAcquired DEF Tick, Acquirers
  <2>5. CASE UNCHANGED vars
    BY <2>0, <2>5, NothingAcquired DEF vars, Acquirers
  <2> QED BY <2>1, <2>2, <2>3, <2>4, <2>5 DEF Next
<1>3. IInv => ApartInTime
  BY DEF IInv
<1> QED BY <1>1, <1>2, <1>3, DeliveryTypeCorrect, PTL DEF Spec

-----------------------------------------------------------------------------
(* What a skipped post relies on *)

\* Posts that Telegram has not made have no handler, so none is overwritten.
Unposted ==
  \A u \in Updates : \A k \in 1..MaxPosts :
    posts[u].count < k => handler[<<u, k>>].pc = "none"

\* A key that was ever set was set by a handler that went on to process.
KeyWasTaken == \A u \in Updates : key[u] # 0 => Reached(u) # {}

SkipInv == Unposted /\ KeyWasTaken /\ SkippedIsCovered

\* Whoever reached process stays there, done or lost; a step that also sets no key
\* for another, and skips no post that is not covered, keeps the invariant.
LEMMA CoverKept ==
  ASSUME SkipInv, Unposted',
         \A u \in Updates : Reached(u) \subseteq Reached(u)',
         \A u \in Updates : key'[u] # 0 => key[u] # 0 \/ Reached(u)' # {},
         \A p \in Posts : At(p, "skipped")' => At(p, "skipped") \/ Reached(p[1]) # {}
  PROVE  SkipInv'
<1>1. KeyWasTaken'
  <2> SUFFICES ASSUME NEW u \in Updates, key'[u] # 0 PROVE Reached(u)' # {}
    BY DEF KeyWasTaken
  <2>1. CASE key[u] # 0
    <3>1. Reached(u) # {}
      BY <2>1 DEF SkipInv, KeyWasTaken
    <3> QED BY <3>1
  <2> QED BY <2>1
<1>2. SkippedIsCovered'
  <2> SUFFICES ASSUME NEW p \in Posts, At(p, "skipped")' PROVE Reached(p[1])' # {}
    BY DEF SkippedIsCovered
  <2>1. Reached(p[1]) # {}
    BY DEF SkipInv, SkippedIsCovered
  <2>2. p[1] \in Updates
    BY DEF Posts
  <2> QED BY <2>1, <2>2
<1> QED BY <1>1, <1>2 DEF SkipInv

\* One handler goes on: the others keep their places, and it does not go back.
LEMMA GoesOn ==
  ASSUME TypeOK, SkipInv, NEW p \in Posts, NEW pc \in Points,
         handler[p].pc # "none", posts' = posts,
         handler[p].pc \in {"processing", "done", "lost"} => pc \in {"processing", "done", "lost"},
         handler'[p].pc = pc,
         \A q \in Posts : q # p => handler'[q] = handler[q]
  PROVE  /\ Unposted'
         /\ \A u \in Updates : Reached(u) \subseteq Reached(u)'
         /\ pc \in {"processing", "done", "lost"} => Reached(p[1])' # {}
         /\ \A q \in Posts : At(q, "skipped")' => At(q, "skipped") \/ (q = p /\ pc = "skipped")
<1>1. Unposted'
  BY DEF SkipInv, Unposted, Posts
<1>2. \A u \in Updates : Reached(u) \subseteq Reached(u)'
  BY DEF Reached, Posts
<1>3. p[1] \in Updates /\ p[2] \in 1..MaxPosts /\ p = <<p[1], p[2]>>
  BY DEF Posts
<1>4. pc \in {"processing", "done", "lost"} => p[2] \in Reached(p[1])'
  BY <1>3 DEF Reached
<1>5. \A q \in Posts : At(q, "skipped")' => At(q, "skipped") \/ (q = p /\ pc = "skipped")
  BY DEF At
<1> QED BY <1>1, <1>2, <1>4, <1>5

\* Goto and StartProcessing move one handler.
LEMMA OneHandler ==
  ASSUME TypeOK, NEW p \in Posts, handler[p].pc # "none"
  PROVE  /\ \A pc \in Points : Goto(p, pc) =>
              handler'[p].pc = pc /\ \A q \in Posts : q # p => handler'[q] = handler[q]
         /\ StartProcessing(p) =>
              handler'[p].pc = "processing" /\ \A q \in Posts : q # p => handler'[q] = handler[q]
<1>1. handler[p] \in Handler
  BY DEF TypeOK, NoPost
<1> QED BY <1>1 DEF Goto, StartProcessing, TypeOK, Handler

\* "Better a duplicate than a lost message": no post is skipped on the strength of
\* a key that nobody processes the update for, whatever Redis calls fail, answers
\* get lost and processes die (webhook.py, _process_with_dedup).
THEOREM SkippedCovered == Spec => []SkippedIsCovered
<1> USE DeliveryAssumption
<1>1. Init => SkipInv
  BY DEF Init, SkipInv, Unposted, KeyWasTaken, SkippedIsCovered, At, Posts, NoPost
<1>2. TypeOK /\ SkipInv /\ [Next]_vars => SkipInv'
  <2> SUFFICES ASSUME TypeOK, SkipInv, [Next]_vars PROVE SkipInv'
    OBVIOUS
  <2>1. ASSUME NEW u \in Updates, NEW w \in Processes, Post(u, w) PROVE SkipInv'
    <3> DEFINE k == posts[u].count + 1
    <3>1. posts[u].count \in Nat /\ k \in 1..MaxPosts /\ <<u, k>> \in Posts
      BY <2>1 DEF Post, TypeOK, Posts
    <3>2. handler[<<u, k>>].pc = "none"
      BY <3>1 DEF SkipInv, Unposted
    <3>3. /\ handler'[<<u, k>>].pc = "request"
          /\ \A q \in Posts : q # <<u, k>> => handler'[q] = handler[q]
      BY <2>1, <3>1 DEF Post, TypeOK
    <3>4. posts'[u].count = k /\ \A v \in Updates : v # u => posts'[v] = posts[v]
      BY <2>1 DEF Post, TypeOK
    <3> HIDE DEF k
    <3>5. Unposted'
      <4> SUFFICES ASSUME NEW v \in Updates, NEW i \in 1..MaxPosts, posts'[v].count < i
                   PROVE  handler'[<<v, i>>].pc = "none"
        BY DEF Unposted
      <4>1. posts[v].count \in Nat /\ posts[v].count < i /\ <<v, i>> # <<u, k>>
        BY <3>1, <3>4 DEF TypeOK, k
      <4> QED BY <3>3, <4>1 DEF SkipInv, Unposted, Posts
    <3>6. \A v \in Updates : Reached(v) \subseteq Reached(v)'
      BY <3>2, <3>3 DEF Reached, Posts
    <3>7. \A q \in Posts : At(q, "skipped")' => At(q, "skipped")
      BY <3>3 DEF At
    <3>8. key' = key
      BY <2>1 DEF Post
    <3> QED BY <3>5, <3>6, <3>7, <3>8, CoverKept
  <2>2. ASSUME NEW p \in Posts, Step(p) PROVE SkipInv'
    <3>0. /\ p[1] \in Updates
          /\ handler[p].pc \in {"request", "dedup", "processing"}
          /\ posts' = posts
      BY <2>2 DEF Step, Posts, At, Dropped, RequestFails, Accepted, Acquired, Duplicate,
                  ProcessedAnyway, Processed
    <3>1. CASE Dropped(p) \/ RequestFails(p) \/ Accepted(p) \/ Processed(p)
      <4>1. PICK pc \in Points \ {"skipped"} :
              /\ Goto(p, pc)
              /\ handler[p].pc \in {"processing", "done", "lost"} => pc = "done"
        BY <3>1 DEF Dropped, RequestFails, Accepted, Processed, Points, At
      <4>2. handler'[p].pc = pc /\ \A q \in Posts : q # p => handler'[q] = handler[q]
        BY <3>0, <4>1, OneHandler
      <4>3. key' = key
        BY <3>1 DEF Dropped, RequestFails, Accepted, Processed
      <4>4. /\ Unposted'
            /\ \A u \in Updates : Reached(u) \subseteq Reached(u)'
            /\ \A q \in Posts : At(q, "skipped")' => At(q, "skipped")
        BY <3>0, <4>1, <4>2, GoesOn
      <4> QED BY <4>3, <4>4, CoverKept
    <3>2. CASE Duplicate(p)
      <4>1. handler'[p].pc = "skipped" /\ \A q \in Posts : q # p => handler'[q] = handler[q]
        BY <3>0, <3>2, OneHandler DEF Duplicate, Points
      <4>2. key' = key /\ key[p[1]] # 0 /\ handler[p].pc = "dedup"
        BY <3>0, <3>2 DEF Duplicate, KeyIsSet, TypeOK, At
      <4>3. Reached(p[1]) # {}
        BY <3>0, <4>2 DEF SkipInv, KeyWasTaken
      <4>4. /\ Unposted'
            /\ \A u \in Updates : Reached(u) \subseteq Reached(u)'
            /\ \A q \in Posts : At(q, "skipped")' => At(q, "skipped") \/ q = p
        <5>1. "skipped" \in Points
          BY DEF Points
        <5> QED BY <3>0, <4>1, <4>2, <5>1, GoesOn
      <4> QED BY <4>2, <4>3, <4>4, CoverKept
    <3>3. CASE Acquired(p) \/ ProcessedAnyway(p)
      <4>1. handler'[p].pc = "processing" /\ \A q \in Posts : q # p => handler'[q] = handler[q]
        BY <3>0, <3>3, OneHandler DEF Acquired, ProcessedAnyway, Points
      <4>2. \A u \in Updates : u # p[1] => key'[u] = key[u]
        BY <3>0, <3>3 DEF Acquired, ProcessedAnyway, TypeOK
      <4>3. /\ Unposted'
            /\ \A u \in Updates : Reached(u) \subseteq Reached(u)'
            /\ Reached(p[1])' # {}
            /\ \A q \in Posts : At(q, "skipped")' => At(q, "skipped")
        <5>1. "processing" \in Points
          BY DEF Points
        <5> QED BY <3>0, <4>1, <5>1, GoesOn
      <4>4. \A u \in Updates : key'[u] # 0 => key[u] # 0 \/ Reached(u)' # {}
        BY <4>2, <4>3
      <4> QED BY <4>3, <4>4, CoverKept
    <3> QED BY <2>2, <3>1, <3>2, <3>3 DEF Step
  <2>3. ASSUME NEW w \in Processes, Crash(w) PROVE SkipInv'
    <3>1. ASSUME NEW q \in Posts
          PROVE  \/ handler'[q] = handler[q]
                 \/ /\ handler[q].pc \in {"request", "dedup", "processing"}
                    /\ handler'[q].pc = IF handler[q].pc = "processing" THEN "lost" ELSE "dead"
      <4>1. handler[q] \in Handler \cup {NoPost}
        BY DEF TypeOK
      <4>2. CASE handler[q].pc \in {"request", "dedup", "processing"} /\ handler[q].process = w
        <5>1. handler[q] \in Handler /\ handler'[q] = Dies(q)
          BY <2>3, <4>1, <4>2 DEF Crash, NoPost
        <5> QED BY <4>2, <5>1 DEF Dies, Handler, At
      <4> QED BY <2>3, <4>2 DEF Crash
    <3>2. Unposted'
      BY <2>3, <3>1 DEF Crash, SkipInv, Unposted, Posts
    <3>3. \A u \in Updates : Reached(u) \subseteq Reached(u)'
      BY <3>1 DEF Reached, Posts
    <3>4. \A q \in Posts : At(q, "skipped")' => At(q, "skipped")
      BY <3>1 DEF At
    <3>5. key' = key
      BY <2>3 DEF Crash
    <3> QED BY <3>2, <3>3, <3>4, <3>5, CoverKept
  <2>4. CASE Tick \/ UNCHANGED vars
    BY <2>4 DEF Tick, vars, SkipInv, Unposted, KeyWasTaken, SkippedIsCovered, Reached, At
  <2> QED BY <2>1, <2>2, <2>3, <2>4 DEF Next
<1>3. SkipInv => SkippedIsCovered
  BY DEF SkipInv
<1> QED BY <1>1, <1>2, <1>3, DeliveryTypeCorrect, PTL DEF Spec
=============================================================================
