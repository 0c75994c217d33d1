----------------------- MODULE YouTubeDownloadsProofs -----------------------
(***************************************************************************)
(* Proofs about YouTubeDownloads, for every set of callers, every list of  *)
(* strategies and cookie modes without repetitions, every set of formats   *)
(* and every number of threads and permits.  PoolInv is inductive: a       *)
(* caller has one job of its own at most, the one it waits for, and what   *)
(* was tried and what is planned are all contexts, each once; without the  *)
(* first, an attempt could end for a call that is elsewhere in its plan.   *)
(* From it follow the order of the attempts and, by counting the threads,  *)
(* what a jam of the pool takes: an info job for every thread, of callers  *)
(* the semaphore does not count.                                           *)
(***************************************************************************)
EXTENDS YouTubeDownloads, FiniteSetTheorems, TLAPS

-----------------------------------------------------------------------------
(* Pairs of a client and a cookie mode                                     *)

\* Division with remainder: a place is a client and a cookie mode.
LEMMA DivMod ==
  ASSUME NEW n \in Nat, NEW m \in Nat \ {0}
  PROVE  n \div m \in Nat /\ n % m \in 0..(m - 1) /\ n = m * (n \div m) + (n % m)
<1> DEFINE q == n \div m
           r == n % m
<1>1. q \in Int /\ r \in 0..(m - 1) /\ n = m * q + r
  OBVIOUS
<1> HIDE DEF q, r
<1>2. q >= 0
  <2> SUFFICES ASSUME ~(q >= 0) PROVE FALSE
    OBVIOUS
  <2>1. -q - 1 \in Nat /\ q = -(1 + (-q - 1))
    BY <1>1
  <2>2. PICK d \in Nat : q = -(1 + d)
    BY <2>1
  <2>3. m * q = -m - m * d /\ m * d \in Nat
    BY <2>2
  <2> QED BY <1>1, <2>3
<1>3. q \in Nat /\ r \in 0..(m - 1) /\ n = m * q + r
  BY <1>1, <1>2
<1> QED BY <1>3 DEF q, r

\* A place below k * m is of one of the first k clients.
LEMMA QuotientBound ==
  ASSUME NEW n \in Nat, NEW m \in Nat \ {0}, NEW k \in Nat, n < k * m
  PROVE  n \div m < k
<1> DEFINE q == n \div m
<1>1. q \in Nat /\ m * q <= n
  BY DivMod
<1>2. SUFFICES ASSUME q >= k PROVE FALSE
  BY <1>1
<1> HIDE DEF q
<1>3. \E d \in Nat : q = k + d
  <2>1. q - k \in Nat /\ q = k + (q - k)
    BY <1>1, <1>2
  <2> QED BY <2>1
<1>4. PICK d \in Nat : q = k + d
  BY <1>3
<1>5. m * q = k * m + m * d /\ m * d \in Nat
  BY <1>4
<1> QED BY <1>1, <1>5

\* Only one place has this client and this cookie mode.
LEMMA QuotientUnique ==
  ASSUME NEW q \in Nat, NEW m \in Nat \ {0}, NEW r \in 0..(m - 1)
  PROVE  (m * q + r) \div m = q /\ (m * q + r) % m = r
<1> DEFINE n == m * q + r
           p == n \div m
           t == n % m
<1>1. n \in Nat
  OBVIOUS
<1>2. p \in Nat /\ t \in 0..(m - 1) /\ n = m * p + t
  BY <1>1, DivMod
<1> HIDE DEF p, t
<1>3. ~(p > q)
  <2> SUFFICES ASSUME p > q PROVE FALSE
    OBVIOUS
  <2>1. PICK d \in Nat : p = q + 1 + d
    <3>1. p - q - 1 \in Nat /\ p = q + 1 + (p - q - 1)
      BY <1>2
    <3> QED BY <3>1
  <2>2. m * p = m * q + m + m * d /\ m * d \in Nat
    BY <2>1
  <2> QED BY <1>2, <2>2
<1>4. ~(p < q)
  <2> SUFFICES ASSUME p < q PROVE FALSE
    OBVIOUS
  <2>1. PICK d \in Nat : q = p + 1 + d
    <3>1. q - p - 1 \in Nat /\ q = p + 1 + (q - p - 1)
      BY <1>2
    <3> QED BY <3>1
  <2>2. m * q = m * p + m + m * d /\ m * d \in Nat
    BY <2>1, <1>2
  <2> QED BY <1>2, <2>2
<1>5. p = q
  BY <1>2, <1>3, <1>4
<1>6. t = r
  BY <1>2, <1>5
<1> QED BY <1>5, <1>6 DEF p, t

\* Each client with each cookie mode, at a place of its own.
LEMMA PairsFacts ==
  ASSUME NEW T, NEW s \in Seq(T), IsInjective(s)
  PROVE  /\ Pairs(s) \in Seq(T \X BOOLEAN)
         /\ IsInjective(Pairs(s))
         /\ ToSet(Pairs(s)) = ToSet(s) \X ToSet(CookieModes)
<1> DEFINE m == Len(CookieModes)
           n == Len(s) * m
           Q(i) == ((i - 1) \div m) + 1
           R(i) == ((i - 1) % m) + 1
<1>1. m \in Nat \ {0} /\ Len(s) \in Nat /\ n \in Nat /\ CookieModes \in [1..m -> BOOLEAN]
  BY StrategiesAssumption
<1>2. \A i \in 1..n : Q(i) \in 1..Len(s) /\ R(i) \in 1..m /\ i - 1 = m * (Q(i) - 1) + (R(i) - 1)
  <2> TAKE i \in 1..n
  <2>1. i - 1 \in Nat /\ i - 1 < n
    BY <1>1
  <2> DEFINE q == (i - 1) \div m
             r == (i - 1) % m
  <2>2. q \in Nat /\ r \in 0..(m - 1) /\ i - 1 = m * q + r
    BY <1>1, <2>1, DivMod
  <2>3. q < Len(s)
    BY <1>1, <2>1, QuotientBound
  <2> HIDE DEF q, r, m, n
  <2>4. q + 1 \in 1..Len(s) /\ r + 1 \in 1..m /\ q + 1 - 1 = q /\ r + 1 - 1 = r
    BY <1>1, <2>2, <2>3
  <2> QED BY <2>2, <2>4 DEF q, r
<1> HIDE DEF m
<1>3. Pairs(s) = [i \in 1..n |-> <<s[Q(i)], CookieModes[R(i)]>>]
  BY DEF Pairs, m
<1> HIDE DEF Q, R, n
<1>4. \A i \in 1..n : s[Q(i)] \in T /\ CookieModes[R(i)] \in BOOLEAN
  BY <1>1, <1>2
<1>5. Pairs(s) \in Seq(T \X BOOLEAN) /\ DOMAIN Pairs(s) = 1..n
  BY <1>1, <1>3, <1>4
<1>6. IsInjective(Pairs(s))
  <2> SUFFICES ASSUME NEW i \in 1..n, NEW j \in 1..n, Pairs(s)[i] = Pairs(s)[j]
               PROVE  i = j
    BY <1>5 DEF IsInjective
  <2>1. s[Q(i)] = s[Q(j)] /\ CookieModes[R(i)] = CookieModes[R(j)]
    BY <1>3
  <2>2. Q(i) = Q(j)
    BY <2>1, <1>2 DEF IsInjective
  <2>3. R(i) = R(j)
    BY <2>1, <1>1, <1>2, StrategiesAssumption DEF IsInjective
  <2>4. i - 1 = j - 1
    BY <2>2, <2>3, <1>2
  <2> QED BY <2>4, <1>1
<1>7. ASSUME NEW p \in ToSet(Pairs(s)) PROVE p \in ToSet(s) \X ToSet(CookieModes)
  <2>1. PICK i \in 1..n : p = Pairs(s)[i]
    BY <1>5 DEF ToSet
  <2>2. s[Q(i)] \in ToSet(s)
    BY <1>2 DEF ToSet
  <2>3. CookieModes[R(i)] \in ToSet(CookieModes)
    BY <1>1, <1>2 DEF ToSet
  <2> QED BY <2>1, <2>2, <2>3, <1>3
<1>8. ASSUME NEW p \in ToSet(s) \X ToSet(CookieModes) PROVE p \in ToSet(Pairs(s))
  <2>1. PICK a \in 1..Len(s), b \in 1..m : p = <<s[a], CookieModes[b]>>
    BY <1>1 DEF ToSet
  <2> DEFINE i == m * (a - 1) + b
  <2>2. i \in 1..n
    <3>1. PICK d \in Nat : Len(s) = a + d
      <4>1. Len(s) - a \in Nat /\ Len(s) = a + (Len(s) - a)
        BY <1>1
      <4> QED BY <4>1
    <3>2. n = m * (a - 1) + m + m * d /\ m * d \in Nat /\ m * (a - 1) \in Nat
      BY <3>1, <1>1 DEF n
    <3> QED BY <3>2, <1>1
  <2>3. i - 1 = m * (a - 1) + (b - 1) /\ a - 1 \in Nat /\ b - 1 \in 0..(m - 1)
    BY <1>1
  <2>4. Q(i) = a /\ R(i) = b
    <3> DEFINE k == i - 1
               q == a - 1
               r == b - 1
    <3>1. k = m * q + r /\ q \in Nat /\ r \in 0..(m - 1)
      BY <2>3
    <3> HIDE DEF k, q, r
    <3>2. k \div m = q /\ k % m = r
      BY <1>1, <3>1, QuotientUnique
    <3>3. a = q + 1 /\ b = r + 1
      BY <1>1 DEF q, r
    <3> QED BY <3>2, <3>3 DEF Q, R, k
  <2> QED BY <2>1, <2>2, <2>4, <1>3, <1>5 DEF ToSet
<1> QED BY <1>5, <1>6, <1>7, <1>8

-----------------------------------------------------------------------------
(* Contexts and plans                                                      *)

Context == ToSet(Pairs(Clients)) \cup ToSet(Pairs(AudioClients))
Format == [quality : AllowedQualities \cup {0}, merge : BOOLEAN]

\* From a list without repetitions, RemoveFirst takes the element out for good.
LEMMA RemoveFirstFacts ==
  ASSUME NEW T, NEW s \in Seq(T), IsInjective(s), NEW e
  PROVE  /\ RemoveFirst(s, e) \in Seq(T)
         /\ IsInjective(RemoveFirst(s, e))
         /\ ToSet(RemoveFirst(s, e)) = ToSet(s) \ {e}
<1>1. CASE ~ \E i \in 1..Len(s) : s[i] = e
  <2>1. RemoveFirst(s, e) = s
    BY <1>1 DEF RemoveFirst
  <2>2. e \notin ToSet(s)
    BY <1>1 DEF ToSet
  <2> QED BY <2>1, <2>2
<1>2. CASE \E i \in 1..Len(s) : s[i] = e
  <2>1. PICK k \in 1..Len(s) : s[k] = e
    BY <1>2
  <2>2. {i \in 1..Len(s) : s[i] = e} = {k}
    BY <2>1 DEF IsInjective
  <2>3. Min({k}) = k
    BY <2>1 DEF Min
  <2>4. SelectInSeq(s, LAMBDA v : v = e) = k
    BY <2>2, <2>3 DEF SelectInSeq
  <2>5. RemoveFirst(s, e) = RemoveAt(s, k)
    BY <2>4, <1>2 DEF RemoveFirst
  <2> DEFINE r == RemoveAt(s, k)
  <2>6. /\ r \in Seq(T)
        /\ Len(r) = Len(s) - 1
        /\ \A i \in 1..Len(r) : r[i] = IF i < k THEN s[i] ELSE s[i + 1]
    <3> DEFINE u == SubSeq(s, 1, k - 1)
               v == SubSeq(s, k + 1, Len(s))
    <3>1. u \in Seq(T) /\ Len(u) = k - 1 /\ \A i \in 1..(k - 1) : u[i] = s[i]
      BY <2>1
    <3>2. v \in Seq(T) /\ Len(v) = Len(s) - k /\ \A i \in 1..(Len(s) - k) : v[i] = s[i + k]
      BY <2>1
    <3>3. r = u \o v
      BY DEF RemoveAt
    <3> HIDE DEF u, v, r
    <3>4. r \in Seq(T) /\ Len(r) = Len(s) - 1
      BY <3>1, <3>2, <3>3, <2>1
    <3>5. ASSUME NEW i \in 1..Len(r) PROVE r[i] = IF i < k THEN s[i] ELSE s[i + 1]
      <4>1. CASE i < k
        BY <3>1, <3>2, <3>3, <3>4, <4>1, <2>1
      <4>2. CASE i >= k
        <5>1. r[i] = v[i - (k - 1)] /\ i - (k - 1) \in 1..(Len(s) - k)
          BY <3>1, <3>2, <3>3, <3>4, <4>2, <2>1
        <5>2. v[i - (k - 1)] = s[(i - (k - 1)) + k]
          BY <5>1, <3>2
        <5>3. (i - (k - 1)) + k = i + 1 /\ ~(i < k)
          BY <4>2, <2>1
        <5> QED BY <5>1, <5>2, <5>3
      <4> QED BY <4>1, <4>2, <2>1, <3>4
    <3> QED BY <3>4, <3>5
  <2> HIDE DEF r
  <2>7. IsInjective(r)
    BY <2>1, <2>6 DEF IsInjective
  <2>8. ASSUME NEW x \in ToSet(r) PROVE x \in ToSet(s) \ {e}
    <3>1. PICK i \in 1..Len(r) : x = r[i]
      BY <2>6 DEF ToSet
    <3>2. PICK j \in 1..Len(s) : j # k /\ x = s[j]
      BY <3>1, <2>1, <2>6
    <3> QED BY <3>2, <2>1 DEF ToSet, IsInjective
  <2>9. ASSUME NEW x \in ToSet(s) \ {e} PROVE x \in ToSet(r)
    <3>1. PICK j \in 1..Len(s) : x = s[j] /\ j # k
      BY <2>1 DEF ToSet
    <3>2. CASE j < k
      BY <3>1, <3>2, <2>1, <2>6 DEF ToSet
    <3>3. CASE j > k
      <4>1. j - 1 \in 1..Len(r) /\ r[j - 1] = x
        BY <3>1, <3>3, <2>1, <2>6
      <4> QED BY <4>1, <2>6 DEF ToSet
    <3> QED BY <3>1, <3>2, <3>3, <2>1
  <2> QED BY <2>5, <2>6, <2>7, <2>8, <2>9 DEF r
<1> QED BY <1>1, <1>2

\* The contexts of a list of strategies, which has no repetitions.
LEMMA StrategiesTyped ==
  ASSUME NEW s \in {Clients, AudioClients}
  PROVE  /\ Pairs(s) \in Seq(ToSet(Pairs(s))) /\ IsInjective(Pairs(s))
         /\ ToSet(Pairs(s)) \subseteq Context
         /\ NoContext \notin ToSet(Pairs(s))
<1>1. s \in Seq(ToSet(s)) /\ IsInjective(s)
  BY StrategiesAssumption
<1>2. Pairs(s) \in Seq(ToSet(s) \X BOOLEAN) /\ IsInjective(Pairs(s))
  BY <1>1, PairsFacts
<1>3. Pairs(s) \in Seq(ToSet(Pairs(s)))
  BY <1>2 DEF ToSet
<1>4. NoContext \notin ToSet(Pairs(s))
  <2>1. \A a, b : <<a, b>> # NoContext
    BY DEF NoContext
  <2>2. \A x \in ToSet(Pairs(s)) : \E a, b : x = <<a, b>>
    BY <1>2 DEF ToSet
  <2> QED BY <2>1, <2>2
<1> QED BY <1>2, <1>3, <1>4 DEF Context

\* The plan begins with the preferred context, if there is one, and has every
\* context of the strategies once.
LEMMA PlanFacts ==
  ASSUME NEW s \in {Clients, AudioClients}, NEW p \in Context \cup {NoContext}
  PROVE  /\ AttemptPlan(s, p) \in Seq(Context)
         /\ IsInjective(AttemptPlan(s, p))
         /\ ToSet(Pairs(s)) \subseteq ToSet(AttemptPlan(s, p))
         /\ p # NoContext => AttemptPlan(s, p) # <<>> /\ Head(AttemptPlan(s, p)) = p
<1> DEFINE r == RemoveFirst(Pairs(s), p)
           a == AttemptPlan(s, p)
<1>1. r \in Seq(Context) /\ IsInjective(r) /\ ToSet(r) = ToSet(Pairs(s)) \ {p}
  <2>1. Pairs(s) \in Seq(Context) /\ IsInjective(Pairs(s))
    BY StrategiesTyped
  <2> QED BY <2>1, RemoveFirstFacts
<1>2. CASE p = NoContext
  <2>1. a = r
    BY <1>1, <1>2 DEF AttemptPlan
  <2> QED BY <1>1, <1>2, <2>1, StrategiesTyped
<1>3. CASE p # NoContext
  <2>1. a = <<p>> \o r
    BY <1>3 DEF AttemptPlan
  <2> HIDE DEF r, a
  <2>2. /\ a \in Seq(Context) /\ Len(a) = Len(r) + 1 /\ a[1] = p
        /\ \A i \in 2..Len(a) : a[i] = r[i - 1]
    BY <1>1, <1>3, <2>1
  <2>3. a # <<>> /\ Head(a) = p
    BY <2>2, <1>1
  <2>4. p \notin ToSet(r)
    BY <1>1
  <2>5. IsInjective(a)
    <3> SUFFICES ASSUME NEW i \in 1..Len(a), NEW j \in 1..Len(a), a[i] = a[j], i < j
                 PROVE  FALSE
      BY <2>2 DEF IsInjective
    <3>1. a[j] = r[j - 1] /\ j - 1 \in 1..Len(r)
      BY <2>2, <1>1
    <3>2. CASE i = 1
      BY <3>1, <3>2, <2>2, <2>4, <1>1 DEF ToSet
    <3>3. CASE i # 1
      <4>1. a[i] = r[i - 1] /\ i - 1 \in 1..Len(r)
        BY <3>3, <2>2, <1>1
      <4>2. r[i - 1] = r[j - 1]
        BY <4>1, <3>1
      <4>3. DOMAIN r = 1..Len(r)
        BY <1>1
      <4>4. i - 1 = j - 1
        BY <4>1, <4>2, <4>3, <3>1, <1>1 DEF IsInjective
      <4> QED BY <4>4
    <3> QED BY <3>2, <3>3
  <2>6. ASSUME NEW x \in ToSet(Pairs(s)) PROVE x \in ToSet(a)
    <3>1. CASE x = p
      BY <3>1, <2>2, <1>1 DEF ToSet
    <3>2. CASE x # p
      <4>1. PICK i \in 1..Len(r) : r[i] = x
        <5>1. x \in ToSet(r)
          BY <3>2, <1>1
        <5> QED BY <5>1, <1>1 DEF ToSet
      <4>2. i + 1 \in 1..Len(a) /\ a[i + 1] = x
        BY <4>1, <2>2, <1>1
      <4> QED BY <4>2, <2>2 DEF ToSet
    <3> QED BY <3>1, <3>2
  <2> QED BY <2>2, <2>3, <2>5, <2>6 DEF a
<1> QED BY <1>2, <1>3

-----------------------------------------------------------------------------
(* The invariant                                                           *)

Job == {Info(c) : c \in Callers}
  \cup {Probe(c, x) : c \in Callers, x \in ToSet(Pairs(Clients))}
  \cup {Attempt(c, x) : c \in Callers, x \in Context}

Answer == ToSet(Pairs(Clients)) \X SUBSET Format

Call == [pc : {"idle", "info", "wait", "start", "attempt", "done", "failed", "refused", "timeout"},
         ask : Asks \cup {None}, formats : SUBSET Format,
         preferred : ToSet(Pairs(Clients)) \cup {NoContext},
         plan : Seq(Context), tried : SUBSET Context]

TypeOK ==
  /\ caller \in [Callers -> Call]
  /\ queue \in Seq(Job \cup {Cancelled})
  /\ running \subseteq Job
  /\ IsFiniteSet(running) /\ Cardinality(running) <= Workers
  /\ probes \in [Callers -> SUBSET Answer]

\* The jobs a caller waits for, not the probes of its info job.
Own(job, c) == job.owner = c /\ job.kind \in {"info", "attempt"}

Jobs == ToSet(queue) \cup running
NoJob(c) == \A job \in Jobs : ~Own(job, c)

\* A caller has one job of its own at most, in the queue or in a thread.
OneJob(c) ==
  /\ \A i, j \in DOMAIN queue : Own(queue[i], c) /\ Own(queue[j], c) => i = j
  /\ \A i \in DOMAIN queue, job \in running : ~(Own(queue[i], c) /\ Own(job, c))
  /\ \A a, b \in running : Own(a, c) /\ Own(b, c) => a = b

\* It is the one the caller waits for, unless the caller is gone.
Fits(job, r) ==
  /\ job.kind = "info" => r.pc \in {"info", "timeout"}
  /\ job.kind = "attempt" =>
       \/ r.pc = "attempt" /\ r.plan # <<>> /\ Head(r.plan) = job.context
       \/ r.pc = "timeout"

JobsFit(c) == \A job \in Jobs : Own(job, c) => Fits(job, caller[c])

StrategiesOf(r) == IF r.ask = "audio" THEN AudioClients ELSE Clients

\* What was tried and what is planned are all contexts, the preferred one first.
Ready(r) ==
  /\ ToSet(Pairs(StrategiesOf(r))) \subseteq r.tried \cup ToSet(r.plan)
  /\ r.preferred # NoContext /\ r.tried = {} => r.plan # <<>> /\ Head(r.plan) = r.preferred

PlanFits(r) ==
  /\ IsInjective(r.plan)
  /\ r.tried \cap ToSet(r.plan) = {}
  /\ r.preferred # NoContext /\ r.tried # {} => r.preferred \in r.tried
  /\ r.pc \in {"idle", "wait", "info"} => r.plan = <<>> /\ r.preferred = NoContext
  /\ r.pc \in {"idle", "wait", "info", "start"} => r.tried = {}
  /\ r.pc \in {"start", "attempt", "failed"} => Ready(r)
  /\ r.pc = "failed" => r.plan = <<>>
  /\ r.pc = "timeout" => r.ask = None
  /\ r.pc = "wait" => r.ask \in Asks \ {"info"}
  /\ r.pc = "info" => r.ask \in Asks \ {"best"}

GoodCall(r) == r \in Call /\ PlanFits(r)

JobsInv == \A c \in Callers : OneJob(c) /\ JobsFit(c)

PoolInv ==
  /\ TypeOK
  /\ \A c \in Callers : PlanFits(caller[c])
  /\ JobsInv
  /\ NoOrphanProbes

-----------------------------------------------------------------------------
(* Values                                                                  *)

\* The formats offered have qualities of AllowedQualities or are audio.
LEMMA FormatsTyped ==
  ASSUME NEW raw \in RawFormats \cup {{}}
  PROVE  Formats(raw) \subseteq Format
<1>1. raw \subseteq Stream
  BY FormatsAssumption
<1>2. ASSUME NEW s \in Stream PROVE QualityOf(s) \in AllowedQualities \cup {0}
  <2> DEFINE under == {q \in AllowedQualities : q <= s.height}
  <2>1. CASE under = {}
    BY <2>1 DEF QualityOf
  <2>2. CASE under # {}
    <3>1. \E q \in under : \A p \in under : p <= q
      <4>1. s.height \in Nat
        BY DEF Stream
      <4> DEFINE h == s.height
      <4> HIDE DEF h
      <4>2. under = {q \in AllowedQualities : q <= h}
        BY DEF h
      <4> QED BY <4>1, <4>2, <2>2 DEF AllowedQualities, h
    <3>2. QualityOf(s) \in under
      BY <3>1, <2>2 DEF QualityOf
    <3> QED BY <3>2
  <2> QED BY <2>1, <2>2
<1>3. ASSUME NEW s \in raw PROVE [quality |-> QualityOf(s), merge |-> ~s.audio] \in Format
  <2>1. s.audio \in BOOLEAN /\ (~s.audio) \in BOOLEAN
    BY <1>1 DEF Stream
  <2> QED BY <1>1, <1>2, <2>1 DEF Format
<1>4. [quality |-> 0, merge |-> FALSE] \in Format
  BY DEF Format
<1> QED BY <1>3, <1>4 DEF Formats

\* What a job is made of.
LEMMA JobFields ==
  /\ \A job \in Job : job.owner \in Callers /\ job.kind \in {"info", "probe", "attempt"} /\ job # Cancelled
  /\ \A job \in Job : job.kind = "info" => job = Info(job.owner)
  /\ \A job \in Job : job.kind = "attempt" => job = Attempt(job.owner, job.context) /\ job.context \in Context
  /\ \A job \in Job : job.kind = "probe" => job = Probe(job.owner, job.context) /\ job.context \in ToSet(Pairs(Clients))
  /\ \A c \in Callers : Info(c) \in Job /\ Info(c).owner = c /\ Info(c).kind = "info"
  /\ \A c \in Callers, x \in Context :
       /\ Attempt(c, x) \in Job /\ Attempt(c, x).owner = c /\ Attempt(c, x).kind = "attempt"
       /\ Attempt(c, x).context = x
  /\ \A c \in Callers, x \in ToSet(Pairs(Clients)) :
       Probe(c, x) \in Job /\ Probe(c, x).owner = c /\ Probe(c, x).kind = "probe"
  /\ Cancelled.kind = "cancelled"
  /\ \A c : ~Own(Cancelled, c)
<1>1. \A c \in Callers : Info(c) \in Job /\ Info(c).owner = c /\ Info(c).kind = "info"
  BY DEF Job, Info
<1>2. \A c \in Callers, x \in Context :
        /\ Attempt(c, x) \in Job /\ Attempt(c, x).owner = c /\ Attempt(c, x).kind = "attempt"
        /\ Attempt(c, x).context = x
  <2>1. \A c \in Callers, x \in Context : Attempt(c, x) \in Job
    BY DEF Job
  <2> QED BY <2>1 DEF Attempt
<1>3. \A c \in Callers, x \in ToSet(Pairs(Clients)) :
        /\ Probe(c, x) \in Job /\ Probe(c, x).owner = c /\ Probe(c, x).kind = "probe"
        /\ Probe(c, x).context = x
  <2>1. \A c \in Callers, x \in ToSet(Pairs(Clients)) : Probe(c, x) \in Job
    BY DEF Job
  <2> QED BY <2>1 DEF Probe
<1>4. Cancelled.kind = "cancelled" /\ \A c : ~Own(Cancelled, c)
  BY DEF Cancelled, Own
<1>5. ASSUME NEW job \in Job
      PROVE  \/ \E c \in Callers : job = Info(c)
             \/ \E c \in Callers, x \in ToSet(Pairs(Clients)) : job = Probe(c, x)
             \/ \E c \in Callers, x \in Context : job = Attempt(c, x)
  BY DEF Job
<1>6. ASSUME NEW job \in Job
      PROVE  /\ job.owner \in Callers /\ job.kind \in {"info", "probe", "attempt"}
             /\ job.kind = "info" => job = Info(job.owner)
             /\ job.kind = "attempt" => job = Attempt(job.owner, job.context) /\ job.context \in Context
             /\ job.kind = "probe" =>
                  job = Probe(job.owner, job.context) /\ job.context \in ToSet(Pairs(Clients))
  BY <1>1, <1>2, <1>3, <1>5
<1>7. Cancelled \notin Job
  BY <1>4, <1>6
<1> QED BY <1>1, <1>2, <1>3, <1>4, <1>6, <1>7

-----------------------------------------------------------------------------
(* The operations on the queue                                             *)

\* A job that is submitted is the last of the queue.
LEMMA SubmitFacts ==
  ASSUME NEW S, queue \in Seq(S), NEW job \in S, Submit(<<job>>)
  PROVE  /\ queue' \in Seq(S)
         /\ Len(queue') = Len(queue) + 1
         /\ \A i \in 1..Len(queue) : queue'[i] = queue[i]
         /\ queue'[Len(queue) + 1] = job
         /\ ToSet(queue') = ToSet(queue) \cup {job}
<1>1. /\ queue' \in Seq(S) /\ Len(queue') = Len(queue) + 1
      /\ \A i \in 1..Len(queue) : queue'[i] = queue[i]
      /\ queue'[Len(queue) + 1] = job
  BY DEF Submit
<1>2. DOMAIN queue' = 1..(Len(queue) + 1) /\ DOMAIN queue = 1..Len(queue)
  BY <1>1
<1>3. ToSet(queue') = ToSet(queue) \cup {job}
  BY <1>1, <1>2 DEF ToSet
<1> QED BY <1>1, <1>3

\* A job that is cancelled leaves its place to the marker.
LEMMA CancelFacts ==
  ASSUME NEW S, queue \in Seq(S), Cancelled \in S, NEW jobs, Cancel(jobs)
  PROVE  /\ queue' \in Seq(S)
         /\ DOMAIN queue' = DOMAIN queue
         /\ \A i \in DOMAIN queue : queue'[i] = IF queue[i] \in jobs THEN Cancelled ELSE queue[i]
         /\ ToSet(queue') \subseteq (ToSet(queue) \ jobs) \cup {Cancelled}
<1>1. queue' = [i \in 1..Len(queue) |-> IF queue[i] \in jobs THEN Cancelled ELSE queue[i]]
  BY DEF Cancel
<1>2. queue' \in Seq(S) /\ DOMAIN queue' = DOMAIN queue
  BY <1>1
<1>3. \A i \in DOMAIN queue : queue'[i] = IF queue[i] \in jobs THEN Cancelled ELSE queue[i]
  BY DEF Cancel
<1>4. ToSet(queue') \subseteq (ToSet(queue) \ jobs) \cup {Cancelled}
  BY <1>2, <1>3 DEF ToSet
<1> QED BY <1>2, <1>3, <1>4

\* The queue moves up by one place; only probes come in behind.
LEMMA DispatchFacts ==
  ASSUME TypeOK, Dispatch
  PROVE  /\ queue' \in Seq(Job \cup {Cancelled})
         /\ Head(queue) = queue[1] /\ 1 \in DOMAIN queue
         /\ \A i \in DOMAIN queue' :
              \/ i + 1 \in DOMAIN queue /\ queue'[i] = queue[i + 1]
              \/ /\ Head(queue) \in Job /\ Head(queue).kind = "info"
                 /\ queue'[i] \in {Probe(Head(queue).owner, x) : x \in ToSet(Pairs(Clients))}
         /\ \A i \in DOMAIN queue : i = 1 \/ (i - 1 \in DOMAIN queue' /\ queue'[i - 1] = queue[i])
<1> DEFINE job == Head(queue)
           S == Job \cup {Cancelled}
           P == Pairs(Clients)
           new == IF job.kind # "info" THEN <<>> ELSE [i \in DOMAIN P |-> Probe(job.owner, P[i])]
           t == Tail(queue)
<1>1. queue \in Seq(S) /\ queue # <<>>
  BY DEF TypeOK, Dispatch
<1>2. job \in S /\ job = queue[1] /\ 1 \in DOMAIN queue /\ DOMAIN queue = 1..Len(queue) /\ Len(queue) \in Nat \ {0}
  BY <1>1
<1>3. job.kind = "info" => job \in Job
  BY <1>2, JobFields
<1>4. P \in Seq(ToSet(P))
  BY StrategiesTyped
<1> HIDE DEF P, S
<1>5. new \in Seq(S) /\ \A i \in DOMAIN new : job.kind = "info" /\ new[i] \in {Probe(job.owner, x) : x \in ToSet(P)}
  <2>1. CASE job.kind # "info"
    BY <2>1
  <2>2. CASE job.kind = "info"
    <3>1. new = [i \in 1..Len(P) |-> Probe(job.owner, P[i])] /\ Len(P) \in Nat
      BY <2>2, <1>4
    <3>2. \A i \in 1..Len(P) : P[i] \in ToSet(P) /\ Probe(job.owner, P[i]) \in S
      <4>1. \A i \in 1..Len(P) : P[i] \in ToSet(P)
        BY <1>4
      <4> QED BY <4>1, <2>2, <1>3, JobFields DEF S, P
    <3>3. new \in Seq(S)
      BY <3>1, <3>2
    <3> QED BY <3>1, <3>2, <3>3, <2>2
  <2> QED BY <2>1, <2>2
<1>6. t \in Seq(S) /\ Len(t) = Len(queue) - 1 /\ \A i \in 1..Len(t) : t[i] = queue[i + 1]
  BY <1>1
<1>7. queue' = t \o new
  BY DEF Dispatch, P
<1> HIDE DEF new, t, job
<1>8. /\ queue' \in Seq(S) /\ Len(queue') = Len(t) + Len(new)
      /\ \A i \in 1..Len(t) : queue'[i] = t[i]
      /\ \A i \in 1..Len(queue') : i > Len(t) => queue'[i] = new[i - Len(t)]
  BY <1>5, <1>6, <1>7
<1>9. DOMAIN queue' = 1..Len(queue') /\ DOMAIN new = 1..Len(new) /\ Len(new) \in Nat /\ Len(t) \in Nat
  BY <1>5, <1>6, <1>8
<1>10. ASSUME NEW i \in DOMAIN queue'
       PROVE  \/ i + 1 \in DOMAIN queue /\ queue'[i] = queue[i + 1]
              \/ job \in Job /\ job.kind = "info" /\ queue'[i] \in {Probe(job.owner, x) : x \in ToSet(P)}
  <2>1. CASE i <= Len(t)
    BY <2>1, <1>2, <1>6, <1>8, <1>9
  <2>2. CASE i > Len(t)
    <3>1. i - Len(t) \in DOMAIN new /\ queue'[i] = new[i - Len(t)]
      BY <2>2, <1>8, <1>9
    <3> QED BY <3>1, <1>3, <1>5
  <2> QED BY <2>1, <2>2, <1>9
<1>11. ASSUME NEW i \in DOMAIN queue
       PROVE  i = 1 \/ (i - 1 \in DOMAIN queue' /\ queue'[i - 1] = queue[i])
  <2> SUFFICES ASSUME i # 1 PROVE i - 1 \in DOMAIN queue' /\ queue'[i - 1] = queue[i]
    OBVIOUS
  <2>1. i - 1 \in 1..Len(t) /\ (i - 1) + 1 = i
    BY <1>2, <1>6
  <2>2. queue'[i - 1] = t[i - 1] /\ t[i - 1] = queue[i]
    BY <2>1, <1>6, <1>8
  <2>3. i - 1 \in DOMAIN queue'
    BY <2>1, <1>8, <1>9
  <2> QED BY <2>2, <2>3
<1> QED BY <1>2, <1>8, <1>10, <1>11 DEF job, S, P

-----------------------------------------------------------------------------
(* What the operations on the queue keep                                   *)

\* Jobs are in the queue or in a thread.
LEMMA JobTyped ==
  ASSUME TypeOK
  PROVE  /\ \A i \in DOMAIN queue : queue[i] \in Job \cup {Cancelled}
         /\ \A job \in Jobs : job \in Job \cup {Cancelled}
         /\ \A i \in DOMAIN queue : queue[i] \in Jobs
  BY DEF TypeOK, Jobs, ToSet

\* A caller that waits for nothing has no job.
LEMMA NoJobYet ==
  ASSUME JobsInv, NEW c \in Callers, caller[c].pc \notin {"info", "attempt", "timeout"}
  PROVE  NoJob(c)
  BY DEF JobsInv, JobsFit, NoJob, Fits, Own

\* Jobs that stay where they are, end or are cancelled.
LEMMA JobsStay ==
  ASSUME JobsInv, running' \subseteq running, DOMAIN queue' = DOMAIN queue,
         \A i \in DOMAIN queue : queue'[i] \in {queue[i], Cancelled},
         \A c \in Callers : \A job \in Jobs' :
           Own(job, c) /\ Fits(job, caller[c]) => Fits(job, caller'[c])
  PROVE  JobsInv'
<1>1. \A c : ~Own(Cancelled, c)
  BY JobFields
<1> SUFFICES ASSUME NEW c \in Callers PROVE OneJob(c)' /\ JobsFit(c)'
  BY DEF JobsInv
<1>2. OneJob(c) /\ JobsFit(c)
  BY DEF JobsInv
<1>3. \A i \in DOMAIN queue' : Own(queue'[i], c) => queue'[i] = queue[i]
  BY <1>1
<1>4. OneJob(c)'
  <2>1. \A i, j \in DOMAIN queue' : Own(queue'[i], c) /\ Own(queue'[j], c) => i = j
    BY <1>2, <1>3 DEF OneJob
  <2>2. \A i \in DOMAIN queue', job \in running' : ~(Own(queue'[i], c) /\ Own(job, c))
    BY <1>2, <1>3 DEF OneJob
  <2>3. \A a, b \in running' : Own(a, c) /\ Own(b, c) => a = b
    BY <1>2 DEF OneJob
  <2> QED BY <2>1, <2>2, <2>3 DEF OneJob, Own
<1>5. ASSUME NEW job \in Jobs', Own(job, c) PROVE Fits(job, caller'[c])
  <2>1. job \in Jobs
    BY <1>1, <1>5 DEF Jobs, ToSet
  <2> QED BY <2>1, <1>2, <1>5 DEF JobsFit
<1> QED BY <1>4, <1>5 DEF JobsFit, Fits, Own

\* A caller that has no job submits one.
LEMMA JobComes ==
  ASSUME TypeOK, JobsInv, NEW c \in Callers, NEW job \in Job, Own(job, c),
         Submit(<<job>>), running' \subseteq running,
         \A other \in ToSet(queue) \cup running' : ~Own(other, c),
         Fits(job, caller'[c]),
         \A d \in Callers \ {c} : caller'[d] = caller[d]
  PROVE  JobsInv'
<1> DEFINE n == Len(queue)
<1>1. /\ n \in Nat /\ DOMAIN queue = 1..n /\ DOMAIN queue' = 1..(n + 1)
      /\ \A i \in 1..n : queue'[i] = queue[i] /\ queue[i] \in ToSet(queue)
      /\ queue'[n + 1] = job /\ ToSet(queue') = ToSet(queue) \cup {job}
  <2>1. queue \in Seq(Job \cup {Cancelled})
    BY DEF TypeOK
  <2>2. /\ queue' \in Seq(Job \cup {Cancelled}) /\ Len(queue') = n + 1
        /\ \A i \in 1..n : queue'[i] = queue[i]
        /\ queue'[n + 1] = job /\ ToSet(queue') = ToSet(queue) \cup {job}
    BY <2>1, SubmitFacts
  <2>3. n \in Nat /\ DOMAIN queue = 1..n /\ DOMAIN queue' = 1..(n + 1)
    BY <2>1, <2>2
  <2>4. \A i \in 1..n : queue[i] \in ToSet(queue)
    BY <2>3 DEF ToSet
  <2> QED BY <2>2, <2>3, <2>4
<1> HIDE DEF n
<1>2. \A d : Own(job, d) => d = c
  BY DEF Own
<1> SUFFICES ASSUME NEW d \in Callers PROVE OneJob(d)' /\ JobsFit(d)'
  BY DEF JobsInv
<1>3. OneJob(d) /\ JobsFit(d)
  BY DEF JobsInv
<1>4. CASE d = c
  <2>1. \A i \in DOMAIN queue' : Own(queue'[i], c) => i = n + 1
    BY <1>1
  <2>2. \A other \in running' : ~Own(other, c)
    OBVIOUS
  <2>3. OneJob(c)'
    BY <2>1, <2>2 DEF OneJob, Own
  <2>4. \A other \in Jobs' : Own(other, c) => other = job
    BY <1>1 DEF Jobs
  <2> QED BY <2>3, <2>4, <1>4 DEF JobsFit, Fits, Own
<1>5. CASE d # c
  <2>1. \A i \in DOMAIN queue' : Own(queue'[i], d) => i \in DOMAIN queue /\ queue'[i] = queue[i]
    BY <1>1, <1>2, <1>5
  <2>2. OneJob(d)'
    <3>1. \A i, j \in DOMAIN queue' : Own(queue'[i], d) /\ Own(queue'[j], d) => i = j
      BY <1>3, <2>1 DEF OneJob
    <3>2. \A i \in DOMAIN queue', o \in running' : ~(Own(queue'[i], d) /\ Own(o, d))
      BY <1>3, <2>1 DEF OneJob
    <3>3. \A a, b \in running' : Own(a, d) /\ Own(b, d) => a = b
      BY <1>3 DEF OneJob
    <3> QED BY <3>1, <3>2, <3>3 DEF OneJob, Own
  <2>3. \A other \in Jobs' : Own(other, d) => other \in Jobs
    BY <1>1, <1>2, <1>5 DEF Jobs
  <2> QED BY <2>2, <2>3, <1>3, <1>5 DEF JobsFit, Fits, Own
<1> QED BY <1>4, <1>5

\* A job goes from the queue to a thread.
LEMMA JobStarts ==
  ASSUME TypeOK, JobsInv, Dispatch
  PROVE  JobsInv'
<1> DEFINE head == Head(queue)
<1>1. running' = running \cup ({head} \ {Cancelled}) /\ caller' = caller
  BY DEF Dispatch
<1>2. head = queue[1] /\ 1 \in DOMAIN queue
  BY DispatchFacts
<1>3. \A c \in Callers, i \in DOMAIN queue' :
        Own(queue'[i], c) => i + 1 \in DOMAIN queue /\ queue'[i] = queue[i + 1]
  <2> SUFFICES ASSUME NEW c \in Callers, NEW i \in DOMAIN queue', Own(queue'[i], c)
               PROVE  i + 1 \in DOMAIN queue /\ queue'[i] = queue[i + 1]
    OBVIOUS
  <2>1. CASE head \in Job /\ queue'[i] \in {Probe(head.owner, x) : x \in ToSet(Pairs(Clients))}
    <3>1. queue'[i].kind = "probe"
      BY <2>1, JobFields
    <3> QED BY <3>1 DEF Own
  <2> QED BY <2>1, DispatchFacts
<1>4. DOMAIN queue' \subseteq Nat \ {0} /\ DOMAIN queue \subseteq Nat \ {0}
  BY DispatchFacts DEF TypeOK
<1> HIDE DEF head
<1> SUFFICES ASSUME NEW c \in Callers PROVE OneJob(c)' /\ JobsFit(c)'
  BY DEF JobsInv
<1>5. OneJob(c) /\ JobsFit(c)
  BY DEF JobsInv
<1>6. \A i, j \in DOMAIN queue' : Own(queue'[i], c) /\ Own(queue'[j], c) => i = j
  <2> SUFFICES ASSUME NEW i \in DOMAIN queue', NEW j \in DOMAIN queue',
                      Own(queue'[i], c), Own(queue'[j], c)
               PROVE  i = j
    OBVIOUS
  <2>1. i + 1 = j + 1
    BY <1>3, <1>5 DEF OneJob
  <2> QED BY <2>1, <1>4
<1>7. \A i \in DOMAIN queue', job \in running' : ~(Own(queue'[i], c) /\ Own(job, c))
  <2> SUFFICES ASSUME NEW i \in DOMAIN queue', NEW job \in running',
                      Own(queue'[i], c), Own(job, c)
               PROVE  FALSE
    OBVIOUS
  <2>1. i + 1 \in DOMAIN queue /\ queue'[i] = queue[i + 1] /\ i + 1 # 1
    BY <1>3, <1>4
  <2>2. CASE job \in running
    BY <2>1, <2>2, <1>5 DEF OneJob
  <2>3. CASE job = head
    BY <2>1, <2>3, <1>2, <1>5 DEF OneJob
  <2> QED BY <2>2, <2>3, <1>1
<1>8. \A a, b \in running' : Own(a, c) /\ Own(b, c) => a = b
  BY <1>1, <1>2, <1>5 DEF OneJob
<1>9. OneJob(c)'
  BY <1>6, <1>7, <1>8 DEF OneJob, Own
<1>10. \A job \in Jobs' : Own(job, c) => job \in Jobs
  BY <1>1, <1>2, <1>3 DEF Jobs, ToSet
<1> QED BY <1>1, <1>5, <1>9, <1>10 DEF JobsFit, Fits, Own

\* No probe comes and no info job ends.
LEMMA ProbesStay ==
  ASSUME NoOrphanProbes,
         \A i \in DOMAIN queue' : queue'[i].kind = "probe" => queue'[i] \in ToSet(queue),
         \A c : Info(c) \in running => Info(c) \in running'
  PROVE  NoOrphanProbes'
<1> SUFFICES ASSUME NEW i \in DOMAIN queue', queue'[i].kind = "probe"
             PROVE  Info(queue'[i].owner) \in running'
  BY DEF NoOrphanProbes, Info
<1>1. PICK j \in DOMAIN queue : queue'[i] = queue[j]
  BY DEF ToSet
<1> QED BY <1>1 DEF NoOrphanProbes

-----------------------------------------------------------------------------
(* Calls and threads                                                       *)

\* The calls after one of them has changed.
LEMMA CallSet ==
  ASSUME PoolInv, NEW c \in Callers, NEW rec, GoodCall(rec), Set(c, rec)
  PROVE  /\ caller' \in [Callers -> Call]
         /\ \A d \in Callers : PlanFits(caller'[d])
         /\ caller'[c] = rec
         /\ \A d \in Callers \ {c} : caller'[d] = caller[d]
<1>1. caller \in [Callers -> Call] /\ \A d \in Callers : PlanFits(caller[d])
  BY DEF PoolInv, TypeOK
<1>2. /\ caller' \in [Callers -> Call] /\ caller'[c] = rec
      /\ \A d \in Callers \ {c} : caller'[d] = caller[d]
  BY <1>1 DEF GoodCall, Set
<1>3. ASSUME NEW d \in Callers PROVE PlanFits(caller'[d])
  BY <1>1, <1>2 DEF GoodCall
<1> QED BY <1>2, <1>3

\* A job that ends leaves its thread free.
LEMMA JobEnds ==
  ASSUME TypeOK, NEW job, EndJob(job)
  PROVE  /\ running' \subseteq running /\ running' \subseteq Job
         /\ IsFiniteSet(running') /\ Cardinality(running') <= Workers
<1>1. running' \subseteq running /\ running \subseteq Job /\ IsFiniteSet(running)
  BY DEF EndJob, TypeOK
<1>2. IsFiniteSet(running') /\ Cardinality(running') <= Cardinality(running)
  BY <1>1, FS_Subset
<1>3. Cardinality(running) \in Nat /\ Cardinality(running') \in Nat /\ Cardinality(running) <= Workers
  BY <1>1, <1>2, FS_CardinalityType DEF TypeOK
<1> QED BY <1>1, <1>2, <1>3, PoolAssumption

\* The threads take up nothing, and no info job ends.
ThreadsKeep ==
  /\ running' \subseteq running
  /\ IsFiniteSet(running') /\ Cardinality(running') <= Workers
  /\ \A c : Info(c) \in running => Info(c) \in running'

\* No thread takes or ends a job.
LEMMA ThreadsIdle ==
  ASSUME TypeOK, running' = running
  PROVE  ThreadsKeep
  BY DEF TypeOK, ThreadsKeep

\* A step of one caller, who submits nothing.
LEMMA CallKeeps ==
  ASSUME PoolInv, NEW c \in Callers, NEW rec, GoodCall(rec), Set(c, rec),
         queue' = queue, ThreadsKeep, probes' \in [Callers -> SUBSET Answer],
         \A job \in Jobs' : Own(job, c) /\ Fits(job, caller[c]) => Fits(job, rec)
  PROVE  PoolInv'
<1>1. TypeOK /\ JobsInv /\ NoOrphanProbes
  BY DEF PoolInv
<1>2. /\ caller' \in [Callers -> Call] /\ caller'[c] = rec
      /\ \A d \in Callers : PlanFits(caller'[d])
      /\ \A d \in Callers \ {c} : caller'[d] = caller[d]
  BY CallSet
<1>3. TypeOK'
  BY <1>1, <1>2 DEF TypeOK, ThreadsKeep
<1>4. JobsInv'
  <2>1. ASSUME NEW d \in Callers, NEW job \in Jobs', Own(job, d), Fits(job, caller[d])
        PROVE  Fits(job, caller'[d])
    BY <1>2, <2>1
  <2> QED BY <1>1, <2>1, JobsStay DEF ThreadsKeep
<1>5. NoOrphanProbes'
  BY <1>1, ProbesStay DEF ThreadsKeep, ToSet
<1> QED BY <1>2, <1>3, <1>4, <1>5 DEF PoolInv

\* A step of one caller, who submits a job and has no other.
LEMMA SubmitKeeps ==
  ASSUME PoolInv, NEW c \in Callers, NEW rec, GoodCall(rec), Set(c, rec),
         NEW job \in Job, Own(job, c), Fits(job, rec), Submit(<<job>>),
         \A other \in ToSet(queue) \cup running' : ~Own(other, c),
         ThreadsKeep, probes' = probes
  PROVE  PoolInv'
<1>1. TypeOK /\ JobsInv /\ NoOrphanProbes
  BY DEF PoolInv
<1>2. /\ caller' \in [Callers -> Call] /\ caller'[c] = rec
      /\ \A d \in Callers : PlanFits(caller'[d])
      /\ \A d \in Callers \ {c} : caller'[d] = caller[d]
  BY CallSet
<1>3. queue' \in Seq(Job \cup {Cancelled}) /\ ToSet(queue') = ToSet(queue) \cup {job}
  BY <1>1, SubmitFacts DEF TypeOK
<1>4. TypeOK'
  BY <1>1, <1>2, <1>3 DEF TypeOK, ThreadsKeep
<1>5. JobsInv'
  BY <1>1, <1>2, JobComes DEF ThreadsKeep
<1>6. NoOrphanProbes'
  <2>1. \A i \in DOMAIN queue' : queue'[i].kind = "probe" => queue'[i] \in ToSet(queue)
    BY <1>3 DEF ToSet, Own
  <2> QED BY <1>1, <2>1, ProbesStay DEF ThreadsKeep
<1> QED BY <1>2, <1>4, <1>5, <1>6 DEF PoolInv

\* What holds of the plan of a download between two attempts.
Between(r) ==
  /\ r \in Call /\ IsInjective(r.plan) /\ r.tried \cap ToSet(r.plan) = {}
  /\ r.preferred # NoContext /\ r.tried # {} => r.preferred \in r.tried
  /\ Ready(r)

\* Between two attempts a download can try, end or give up.
LEMMA BetweenGood ==
  ASSUME NEW r, Between(r)
  PROVE  /\ GoodCall([r EXCEPT !.pc = "attempt"]) /\ GoodCall([r EXCEPT !.pc = "done"])
         /\ r.plan = <<>> => GoodCall([r EXCEPT !.pc = "failed"])
<1>1. ASSUME NEW pc \in {"attempt", "done", "failed"}, pc = "failed" => r.plan = <<>>
      PROVE  GoodCall([r EXCEPT !.pc = pc])
  <2> DEFINE q == [r EXCEPT !.pc = pc]
  <2>1. /\ q \in Call /\ q.pc = pc /\ q.plan = r.plan /\ q.tried = r.tried
        /\ q.preferred = r.preferred /\ q.ask = r.ask
    BY DEF Between, Call
  <2> HIDE DEF q
  <2>2. Ready(q)
    BY <2>1 DEF Between, Ready, StrategiesOf
  <2>3. PlanFits(q)
    BY <1>1, <2>1, <2>2 DEF Between, PlanFits
  <2> QED BY <2>1, <2>3 DEF GoodCall, q
<1> QED BY <1>1

\* The next attempt, or the end, of a download that has no job.
LEMMA StartKeeps ==
  ASSUME PoolInv, NEW c \in Callers, NEW rec, Between(rec), StartAttempt(c, rec),
         \A job \in ToSet(queue) \cup running' : ~Own(job, c),
         ThreadsKeep, probes' = probes
  PROVE  PoolInv'
<1>1. rec \in Call
  BY DEF Between
<1>2. CASE rec.plan = <<>>
  <2> DEFINE q == [rec EXCEPT !.pc = "failed"]
  <2>1. Set(c, q) /\ queue' = queue
    BY <1>2 DEF StartAttempt
  <2>2. GoodCall(q)
    BY <1>2, BetweenGood
  <2>3. \A job \in Jobs' : ~Own(job, c)
    BY <2>1 DEF Jobs
  <2> HIDE DEF q
  <2>4. probes' \in [Callers -> SUBSET Answer]
    BY DEF PoolInv, TypeOK
  <2> QED BY <2>1, <2>2, <2>3, <2>4, CallKeeps
<1>3. CASE rec.plan # <<>>
  <2> DEFINE q == [rec EXCEPT !.pc = "attempt"]
             job == Attempt(c, Head(rec.plan))
  <2>1. Set(c, q) /\ Submit(<<job>>)
    BY <1>3 DEF StartAttempt
  <2>2. GoodCall(q)
    BY BetweenGood
  <2>3. Head(rec.plan) \in Context
    BY <1>1, <1>3 DEF Call
  <2>4. job \in Job /\ Own(job, c)
    BY <2>3, JobFields DEF Own
  <2>5. Fits(job, q)
    BY <1>1, <1>3, <2>3, JobFields DEF Fits, Call
  <2> HIDE DEF q, job
  <2> QED BY <2>1, <2>2, <2>4, <2>5, SubmitKeeps
<1> QED BY <1>2, <1>3

-----------------------------------------------------------------------------
(* One lemma for each action                                               *)

\* A call of a state that satisfies the invariant.
LEMMA CallGood ==
  ASSUME PoolInv, NEW c \in Callers
  PROVE  caller[c] \in Call /\ PlanFits(caller[c])
  BY DEF PoolInv, TypeOK

\* A call that goes to a thread of the pool with its info job, or to its line.
LEMMA AskGood ==
  ASSUME NEW r, GoodCall(r), r.pc \in {"idle", "wait"}, NEW ask \in Asks, NEW pc \in {"info", "wait"},
         pc = "info" => ask # "best", pc = "wait" => ask # "info"
  PROVE  GoodCall([r EXCEPT !.pc = pc, !.ask = ask])
<1> DEFINE q == [r EXCEPT !.pc = pc, !.ask = ask]
<1>1. /\ q \in Call /\ q.pc = pc /\ q.ask = ask /\ q.plan = r.plan /\ q.tried = r.tried
      /\ q.preferred = r.preferred
  BY DEF GoodCall, Call
<1> HIDE DEF q
<1>2. PlanFits(q)
  BY <1>1 DEF GoodCall, PlanFits
<1> QED BY <1>1, <1>2 DEF GoodCall, q

\* get_video_info submits its info job.
LEMMA InfoSubmitted ==
  ASSUME PoolInv, NEW c \in Callers, caller[c].pc \in {"idle", "wait"},
         NEW rec, GoodCall(rec), rec.pc = "info", Set(c, rec),
         Submit(<<Info(c)>>), UNCHANGED <<running, probes>>
  PROVE  PoolInv'
<1>1. Info(c) \in Job /\ Own(Info(c), c) /\ Fits(Info(c), rec)
  BY JobFields DEF Own, Fits
<1>2. NoJob(c)
  BY NoJobYet DEF PoolInv
<1>3. ThreadsKeep
  BY ThreadsIdle DEF PoolInv
<1> QED BY <1>1, <1>2, <1>3, SubmitKeeps DEF NoJob, Jobs

\* A call that has not begun, or was cancelled, has no plan.
LEMMA WaitingGood == Waiting \in Call /\ PlanFits(Waiting)
<1>1. Waiting \in Call
  <2>1. <<>> \in Seq(Context)
    OBVIOUS
  <2> QED BY <2>1 DEF Waiting, Call
<1>2. PlanFits(Waiting)
  <2>1. /\ Waiting.pc = "idle" /\ Waiting.plan = <<>> /\ Waiting.preferred = NoContext
        /\ Waiting.tried = {}
    BY DEF Waiting
  <2>2. IsInjective(Waiting.plan)
    BY <2>1 DEF IsInjective
  <2> QED BY <2>1, <2>2 DEF PlanFits
<1> QED BY <1>1, <1>2

\* Ask: a call begins.
LEMMA AskKeeps ==
  ASSUME PoolInv, NEW c \in Callers, Ask(c)
  PROVE  PoolInv'
<1> DEFINE r == caller[c]
<1>1. r.pc = "idle" /\ GoodCall(r)
  BY CallGood DEF Ask, At, GoodCall
<1>2. PICK ask \in Asks :
        IF ask = "info"
        THEN Set(c, [r EXCEPT !.pc = "info", !.ask = ask]) /\ Submit(<<Info(c)>>)
        ELSE Set(c, [r EXCEPT !.pc = "wait", !.ask = ask]) /\ UNCHANGED queue
  BY DEF Ask
<1>3. UNCHANGED <<running, probes>>
  BY DEF Ask
<1>4. CASE ask = "info"
  <2> DEFINE q == [r EXCEPT !.pc = "info", !.ask = ask]
  <2>1. GoodCall(q)
    BY <1>1, <1>4, AskGood
  <2>2. q.pc = "info"
    BY <1>1 DEF GoodCall, Call
  <2> HIDE DEF q
  <2>3. Set(c, q) /\ Submit(<<Info(c)>>)
    BY <1>2, <1>4 DEF q
  <2> QED BY <1>1, <1>3, <2>1, <2>2, <2>3, InfoSubmitted
<1>5. CASE ask # "info"
  <2> DEFINE q == [r EXCEPT !.pc = "wait", !.ask = ask]
  <2>1. GoodCall(q)
    BY <1>1, <1>5, AskGood
  <2> HIDE DEF q
  <2>2. Set(c, q) /\ UNCHANGED queue
    BY <1>2, <1>5 DEF q
  <2>3. NoJob(c) /\ Jobs' = Jobs
    BY <1>1, <1>3, <2>2, NoJobYet DEF PoolInv, Jobs
  <2>4. ThreadsKeep /\ probes' \in [Callers -> SUBSET Answer]
    BY <1>3, ThreadsIdle DEF PoolInv, TypeOK
  <2> QED BY <2>1, <2>2, <2>3, <2>4, CallKeeps DEF NoJob
<1> QED BY <1>4, <1>5

\* A plan that is made with the caller's own strategies is one to begin with.
LEMMA PlannedBetween ==
  ASSUME NEW r \in Call, r.tried = {}, r.plan = AttemptPlan(StrategiesOf(r), r.preferred)
  PROVE  Between(r)
<1>1. StrategiesOf(r) \in {Clients, AudioClients}
  BY DEF StrategiesOf
<1>2. r.preferred \in Context \cup {NoContext}
  BY DEF Call, Context
<1> QED BY <1>1, <1>2, PlanFacts DEF Between, Ready

\* Enter: a download is let in by the semaphore.
LEMMA EnterKeeps ==
  ASSUME PoolInv, NEW c \in Callers, Enter(c)
  PROVE  PoolInv'
<1> DEFINE r == caller[c]
<1>1. r.pc = "wait" /\ GoodCall(r) /\ r \in Call /\ UNCHANGED <<running, probes>>
  BY CallGood DEF Enter, At, GoodCall
<1>2. r.plan = <<>> /\ r.preferred = NoContext /\ r.tried = {}
  BY <1>1 DEF GoodCall, PlanFits
<1>3. CASE r.ask = "best"
  <2> DEFINE q == [r EXCEPT !.plan = AttemptPlan(Clients, NoContext)]
  <2>1. StartAttempt(c, q)
    BY <1>3 DEF Enter
  <2>2. AttemptPlan(Clients, NoContext) \in Seq(Context)
    BY PlanFacts
  <2>3. /\ q \in Call /\ q.tried = {} /\ q.preferred = NoContext /\ q.ask = "best"
        /\ q.plan = AttemptPlan(Clients, NoContext)
    BY <1>1, <1>2, <1>3, <2>2 DEF Call
  <2> HIDE DEF q
  <2>4. Between(q)
    BY <2>3, PlannedBetween DEF StrategiesOf
  <2>5. NoJob(c) /\ ThreadsKeep
    BY <1>1, NoJobYet, ThreadsIdle DEF PoolInv
  <2> QED BY <1>1, <2>1, <2>4, <2>5, StartKeeps DEF NoJob, Jobs
<1>4. CASE r.ask # "best"
  <2> DEFINE q == [r EXCEPT !.pc = "info"]
  <2>1. Set(c, q) /\ Submit(<<Info(c)>>)
    BY <1>4 DEF Enter, Goto
  <2>2. /\ q \in Call /\ q.pc = "info" /\ q.plan = r.plan /\ q.tried = r.tried
        /\ q.preferred = r.preferred
    BY <1>1 DEF Call
  <2> HIDE DEF q
  <2>3. GoodCall(q)
    <3>1. q.ask \in Asks \ {"best"}
      BY <1>1, <1>4 DEF GoodCall, PlanFits, Call, q
    <3> QED BY <1>1, <1>2, <2>2, <3>1 DEF GoodCall, PlanFits
  <2> QED BY <1>1, <2>1, <2>2, <2>3, InfoSubmitted
<1> QED BY <1>3, <1>4

\* Begin: the first attempt.
LEMMA BeginKeeps ==
  ASSUME PoolInv, NEW c \in Callers, Begin(c)
  PROVE  PoolInv'
<1>1. caller[c].pc = "start" /\ UNCHANGED <<running, probes>> /\ StartAttempt(c, caller[c])
  BY DEF Begin, At
<1>2. Between(caller[c])
  BY <1>1, CallGood DEF PlanFits, Between
<1>3. NoJob(c) /\ ThreadsKeep
  BY <1>1, NoJobYet, ThreadsIdle DEF PoolInv
<1> QED BY <1>1, <1>2, <1>3, StartKeeps DEF NoJob, Jobs

\* Dispatch: a thread takes a job.
LEMMA DispatchKeeps ==
  ASSUME PoolInv, Dispatch
  PROVE  PoolInv'
<1> DEFINE head == Head(queue)
<1>1. TypeOK /\ JobsInv /\ NoOrphanProbes
  BY DEF PoolInv
<1>2. running' = running \cup ({head} \ {Cancelled}) /\ UNCHANGED <<caller, probes>>
      /\ Cardinality(running) < Workers
  BY DEF Dispatch, FreeThread
<1>3. /\ queue' \in Seq(Job \cup {Cancelled}) /\ 1 \in DOMAIN queue /\ head = queue[1]
      /\ \A i \in DOMAIN queue' :
           \/ i + 1 \in DOMAIN queue /\ queue'[i] = queue[i + 1]
           \/ /\ head \in Job /\ head.kind = "info"
              /\ queue'[i] \in {Probe(head.owner, x) : x \in ToSet(Pairs(Clients))}
  BY <1>1, DispatchFacts
<1>4. head \in Job \cup {Cancelled}
  BY <1>1, <1>3, JobTyped
<1> HIDE DEF head
<1>5. TypeOK'
  <2>1. IsFiniteSet(running \cup {head}) /\ Cardinality(running \cup {head}) <= Cardinality(running) + 1
        /\ Cardinality(running) \in Nat
    <3>1. IsFiniteSet(running)
      BY <1>1 DEF TypeOK
    <3>2. Cardinality(running) \in Nat
      BY <3>1, FS_CardinalityType
    <3>3. IsFiniteSet(running \cup {head}) /\ Cardinality(running \cup {head}) =
            IF head \in running THEN Cardinality(running) ELSE Cardinality(running) + 1
      BY <3>1, FS_AddElement
    <3> QED BY <3>2, <3>3
  <2>2. IsFiniteSet(running') /\ Cardinality(running') <= Workers
    <3>1. CASE head = Cancelled
      <4>1. running' = running
        BY <1>2, <3>1
      <4> QED BY <4>1, <1>1 DEF TypeOK
    <3>2. CASE head # Cancelled
      <4>1. running' = running \cup {head}
        BY <1>2, <3>2
      <4>2. Cardinality(running') \in Nat
        BY <4>1, <2>1, FS_CardinalityType
      <4> QED BY <4>1, <4>2, <2>1, <1>2, PoolAssumption
    <3> QED BY <3>1, <3>2
  <2>3. running' \subseteq Job
    BY <1>1, <1>2, <1>4 DEF TypeOK
  <2> QED BY <1>1, <1>2, <1>3, <2>2, <2>3 DEF TypeOK
<1>6. JobsInv'
  BY <1>1, JobStarts
<1>7. NoOrphanProbes'
  <2> SUFFICES ASSUME NEW i \in DOMAIN queue', queue'[i].kind = "probe"
               PROVE  Info(queue'[i].owner) \in running'
    BY DEF NoOrphanProbes, Info
  <2>1. CASE i + 1 \in DOMAIN queue /\ queue'[i] = queue[i + 1]
    BY <1>1, <1>2, <2>1 DEF NoOrphanProbes
  <2>2. CASE head \in Job /\ head.kind = "info"
             /\ queue'[i] \in {Probe(head.owner, x) : x \in ToSet(Pairs(Clients))}
    <3>1. head = Info(head.owner) /\ head.owner \in Callers /\ head # Cancelled
      BY <2>2, JobFields
    <3>2. queue'[i].owner = head.owner
      BY <2>2, <3>1, JobFields
    <3> QED BY <3>1, <3>2, <1>2
  <2> QED BY <2>1, <2>2, <1>3
<1> QED BY <1>2, <1>5, <1>6, <1>7 DEF PoolInv

\* ProbeEnds: a probe answers.
LEMMA ProbeEndKeeps ==
  ASSUME PoolInv, NEW job \in running, ProbeEnds(job)
  PROVE  PoolInv'
<1>1. TypeOK /\ JobsInv /\ NoOrphanProbes /\ job \in Job
  BY DEF PoolInv, TypeOK
<1>2. job.kind = "probe" /\ EndJob(job) /\ UNCHANGED <<caller, queue>>
  BY DEF ProbeEnds
<1>3. job.owner \in Callers /\ job.context \in ToSet(Pairs(Clients))
  BY <1>1, <1>2, JobFields
<1>4. probes' \in [Callers -> SUBSET Answer]
  <2>1. PICK raw \in RawFormats \cup {{}} :
          probes' = IF Info(job.owner) \in running
                    THEN [probes EXCEPT ![job.owner] = @ \cup {<<job.context, Formats(raw)>>}]
                    ELSE probes
    BY DEF ProbeEnds
  <2>2. <<job.context, Formats(raw)>> \in Answer
    BY <1>3, FormatsTyped DEF Answer
  <2> QED BY <1>1, <1>3, <2>1, <2>2 DEF TypeOK
<1>5. ThreadsKeep
  <2>1. \A c : Info(c).kind # "probe"
    BY DEF Info
  <2> QED BY <1>1, <1>2, <2>1, JobEnds DEF ThreadsKeep, EndJob
<1>6. TypeOK'
  BY <1>1, <1>2, <1>4, <1>5 DEF TypeOK, ThreadsKeep
<1>7. JobsInv'
  BY <1>1, <1>2, <1>5, JobsStay DEF ThreadsKeep
<1>8. NoOrphanProbes'
  BY <1>1, <1>2, <1>5, ProbesStay DEF ThreadsKeep, ToSet
<1> QED BY <1>2, <1>6, <1>7, <1>8 DEF PoolInv

\* A list without repetitions is its head and, elsewhere, its tail.
LEMMA TailFacts ==
  ASSUME NEW S, NEW s \in Seq(S), s # <<>>, IsInjective(s)
  PROVE  /\ Tail(s) \in Seq(S) /\ IsInjective(Tail(s))
         /\ ToSet(s) = ToSet(Tail(s)) \cup {Head(s)} /\ Head(s) \notin ToSet(Tail(s))
<1> DEFINE t == Tail(s)
<1>1. /\ t \in Seq(S) /\ DOMAIN t = 1..(Len(s) - 1) /\ \A i \in DOMAIN t : t[i] = s[i + 1]
      /\ DOMAIN s = 1..Len(s) /\ Len(s) \in Nat \ {0} /\ Head(s) = s[1]
  OBVIOUS
<1> HIDE DEF t
<1>2. IsInjective(t)
  <2> SUFFICES ASSUME NEW i \in DOMAIN t, NEW j \in DOMAIN t, t[i] = t[j] PROVE i = j
    BY DEF IsInjective
  <2>1. i + 1 = j + 1
    BY <1>1 DEF IsInjective
  <2> QED BY <2>1, <1>1
<1>3. s[1] \notin ToSet(t)
  <2> SUFFICES ASSUME NEW i \in DOMAIN t, t[i] = s[1] PROVE FALSE
    BY DEF ToSet
  <2>1. i + 1 = 1
    BY <1>1 DEF IsInjective
  <2> QED BY <2>1, <1>1
<1>4. ASSUME NEW x \in ToSet(s) PROVE x \in ToSet(t) \cup {s[1]}
  <2>1. PICK i \in 1..Len(s) : x = s[i]
    BY <1>1 DEF ToSet
  <2>2. CASE i # 1
    <3>1. i - 1 \in DOMAIN t /\ t[i - 1] = x
      BY <1>1, <2>1, <2>2
    <3> QED BY <3>1 DEF ToSet
  <2> QED BY <2>1, <2>2
<1>5. ToSet(t) \subseteq ToSet(s) /\ s[1] \in ToSet(s)
  BY <1>1 DEF ToSet
<1> QED BY <1>1, <1>2, <1>3, <1>4, <1>5 DEF t

\* An attempt that did not succeed leaves the plan in order.
LEMMA TriedBetween ==
  ASSUME NEW r, GoodCall(r), r.pc = "attempt", r.plan # <<>>
  PROVE  Between([r EXCEPT !.plan = Tail(@), !.tried = @ \cup {Head(r.plan)}])
<1> DEFINE q == [r EXCEPT !.plan = Tail(@), !.tried = @ \cup {Head(r.plan)}]
<1>1. r \in Call /\ PlanFits(r) /\ Ready(r) /\ r.plan \in Seq(Context) /\ IsInjective(r.plan)
  BY DEF GoodCall, PlanFits, Call
<1>2. /\ Tail(r.plan) \in Seq(Context) /\ IsInjective(Tail(r.plan))
      /\ ToSet(r.plan) = ToSet(Tail(r.plan)) \cup {Head(r.plan)}
      /\ Head(r.plan) \notin ToSet(Tail(r.plan)) /\ Head(r.plan) \in Context
  BY <1>1, TailFacts
<1>3. /\ q \in Call /\ q.plan = Tail(r.plan) /\ q.tried = r.tried \cup {Head(r.plan)}
      /\ q.preferred = r.preferred /\ q.ask = r.ask
  BY <1>1, <1>2 DEF Call
<1> HIDE DEF q
<1>4. q.tried \cap ToSet(q.plan) = {}
  BY <1>1, <1>2, <1>3 DEF PlanFits
<1>5. q.preferred # NoContext => q.preferred \in q.tried
  BY <1>1, <1>3 DEF PlanFits, Ready
<1>6. Ready(q)
  BY <1>1, <1>2, <1>3 DEF Ready, StrategiesOf
<1> QED BY <1>2, <1>3, <1>4, <1>5, <1>6 DEF Between, q

\* AttemptEnds: an attempt succeeds or fails.
LEMMA AttemptEndKeeps ==
  ASSUME PoolInv, NEW job \in running, AttemptEnds(job)
  PROVE  PoolInv'
<1> DEFINE c == job.owner
           r == caller[c]
           q == [r EXCEPT !.plan = Tail(@), !.tried = @ \cup {job.context}]
<1>1. TypeOK /\ JobsInv /\ NoOrphanProbes /\ job \in Job
  BY DEF PoolInv, TypeOK
<1>2. job.kind = "attempt" /\ EndJob(job) /\ UNCHANGED probes
  BY DEF AttemptEnds
<1>3. c \in Callers /\ Own(job, c)
  BY <1>1, <1>2, JobFields DEF Own
<1>4. ThreadsKeep
  <2>1. \A d : Info(d).kind # "attempt"
    BY DEF Info
  <2> QED BY <1>1, <1>2, <2>1, JobEnds DEF ThreadsKeep, EndJob
<1>5. r.pc = "attempt" =>
        \/ Set(c, [q EXCEPT !.pc = "done"]) /\ UNCHANGED queue
        \/ StartAttempt(c, q)
  BY DEF AttemptEnds, At
<1>6. \A other \in ToSet(queue) \cup running' : ~Own(other, c)
  <2>1. OneJob(c)
    BY <1>1, <1>3 DEF JobsInv
  <2>2. \A other \in running' : other # job /\ other \in running
    BY <1>2 DEF EndJob
  <2> QED BY <1>3, <2>1, <2>2 DEF OneJob, ToSet
<1>7. r.pc = "attempt" => r.plan # <<>> /\ Head(r.plan) = job.context
  BY <1>1, <1>2, <1>3 DEF JobsInv, JobsFit, Fits, Jobs
<1>8. GoodCall(r)
  BY <1>3, CallGood DEF GoodCall
<1>9. probes' \in [Callers -> SUBSET Answer]
  BY <1>1, <1>2 DEF TypeOK
<1>10. CASE r.pc = "attempt"
  <2>1. Between(q)
    <3>1. q = [r EXCEPT !.plan = Tail(@), !.tried = @ \cup {Head(r.plan)}]
      BY <1>7, <1>10
    <3> QED BY <3>1, <1>7, <1>8, <1>10, TriedBetween
  <2>2. GoodCall([q EXCEPT !.pc = "done"])
    BY <2>1, BetweenGood
  <2> HIDE DEF q, c
  <2>3. CASE Set(c, [q EXCEPT !.pc = "done"]) /\ UNCHANGED queue
    <3>1. \A other \in Jobs' : ~Own(other, c)
      BY <2>3, <1>6 DEF Jobs
    <3> QED BY <1>3, <1>4, <1>9, <2>2, <2>3, <3>1, CallKeeps
  <2>4. CASE StartAttempt(c, q)
    BY <1>2, <1>3, <1>4, <1>6, <2>1, <2>4, StartKeeps
  <2> QED BY <1>5, <1>10, <2>3, <2>4
<1>11. CASE r.pc # "attempt"
  <2>1. UNCHANGED <<caller, queue>>
    BY <1>11 DEF AttemptEnds, At
  <2>2. TypeOK'
    BY <1>1, <1>4, <1>9, <2>1 DEF TypeOK, ThreadsKeep
  <2>3. JobsInv'
    BY <1>1, <1>4, <2>1, JobsStay DEF ThreadsKeep
  <2>4. NoOrphanProbes'
    BY <1>1, <1>4, <2>1, ProbesStay DEF ThreadsKeep, ToSet
  <2> QED BY <2>1, <2>2, <2>3, <2>4 DEF PoolInv
<1> QED BY <1>10, <1>11

\* Timeout: the processor cancels a download.
LEMMA TimeoutKeeps ==
  ASSUME PoolInv, NEW c \in Callers, Timeout(c)
  PROVE  PoolInv'
<1> DEFINE q == [Waiting EXCEPT !.pc = "timeout"]
           own == {j \in ToSet(queue) : j.owner = c /\ j.kind # "probe"}
<1>1. TypeOK /\ JobsInv /\ NoOrphanProbes
  BY DEF PoolInv
<1>2. Set(c, q) /\ Cancel(own) /\ UNCHANGED <<running, probes>>
  BY DEF Timeout
<1>3. GoodCall(q)
  <2>1. /\ q.pc = "timeout" /\ q.ask = None /\ q.formats = {} /\ q.preferred = NoContext
        /\ q.plan = <<>> /\ q.tried = {}
    BY DEF Waiting
  <2>2. q \in Call
    BY WaitingGood DEF Call
  <2> HIDE DEF q
  <2>3. IsInjective(q.plan)
    BY <2>1 DEF IsInjective
  <2> QED BY <2>1, <2>2, <2>3 DEF GoodCall, PlanFits
<1>4. q.pc = "timeout"
  BY DEF Waiting
<1> HIDE DEF q, own
<1>5. /\ caller' \in [Callers -> Call] /\ caller'[c] = q
      /\ \A d \in Callers : PlanFits(caller'[d])
      /\ \A d \in Callers \ {c} : caller'[d] = caller[d]
  BY <1>2, <1>3, CallSet
<1>6. /\ queue' \in Seq(Job \cup {Cancelled}) /\ DOMAIN queue' = DOMAIN queue
      /\ \A i \in DOMAIN queue : queue'[i] \in {queue[i], Cancelled}
      /\ ToSet(queue') \subseteq ToSet(queue) \cup {Cancelled}
  BY <1>1, <1>2, CancelFacts DEF TypeOK
<1>7. TypeOK'
  BY <1>1, <1>2, <1>5, <1>6 DEF TypeOK
<1>8. JobsInv'
  <2>1. ASSUME NEW d \in Callers, NEW job \in Jobs', Own(job, d), Fits(job, caller[d])
        PROVE  Fits(job, caller'[d])
    BY <1>4, <1>5, <2>1 DEF Fits
  <2> QED BY <1>1, <1>2, <1>6, <2>1, JobsStay
<1>9. NoOrphanProbes'
  <2>1. \A i \in DOMAIN queue' : queue'[i].kind = "probe" => queue'[i] \in ToSet(queue)
    BY <1>6, JobFields DEF ToSet
  <2> QED BY <1>1, <1>2, <2>1, ProbesStay
<1> QED BY <1>5, <1>7, <1>8, <1>9 DEF PoolInv

\* What the caller makes of an answer.
LEMMA AnswerUsed ==
  ASSUME NEW r, GoodCall(r), r.pc \in {"info", "timeout"},
         NEW p \in ToSet(Pairs(Clients)) \cup {NoContext}, NEW f \in SUBSET Format
  PROVE  LET q == [r EXCEPT !.preferred = p, !.formats = f]
             planned == [q EXCEPT !.plan = AttemptPlan(StrategiesOf(r), p)]
         IN r.ask \in Asks =>
              /\ GoodCall([q EXCEPT !.pc = "done"]) /\ GoodCall([q EXCEPT !.pc = "refused"])
              /\ GoodCall([planned EXCEPT !.pc = "start"])
<1> DEFINE q == [r EXCEPT !.preferred = p, !.formats = f]
           a == AttemptPlan(StrategiesOf(r), p)
           planned == [q EXCEPT !.plan = a]
<1> SUFFICES ASSUME r.ask \in Asks
             PROVE  /\ GoodCall([q EXCEPT !.pc = "done"]) /\ GoodCall([q EXCEPT !.pc = "refused"])
                    /\ GoodCall([planned EXCEPT !.pc = "start"])
  OBVIOUS
<1>1. r \in Call /\ PlanFits(r)
  BY DEF GoodCall
<1>2. r.pc = "info"
  BY <1>1 DEF PlanFits, Asks, None
<1>3. r.plan = <<>> /\ r.tried = {} /\ IsInjective(r.plan)
  BY <1>1, <1>2 DEF PlanFits
<1>4. ASSUME NEW pc \in {"done", "refused"}
      PROVE  GoodCall([q EXCEPT !.pc = pc])
  <2> DEFINE z == [q EXCEPT !.pc = pc]
  <2>1. z \in Call /\ z.pc = pc /\ z.plan = r.plan /\ z.tried = r.tried
    BY <1>1 DEF Call
  <2> HIDE DEF z
  <2>2. PlanFits(z)
    BY <1>3, <2>1 DEF PlanFits
  <2> QED BY <2>1, <2>2 DEF GoodCall, z
<1>5. GoodCall([planned EXCEPT !.pc = "start"])
  <2> DEFINE z == [planned EXCEPT !.pc = "start"]
  <2>1. StrategiesOf(r) \in {Clients, AudioClients} /\ p \in Context \cup {NoContext}
    BY DEF StrategiesOf, Context
  <2>2. a \in Seq(Context)
    BY <2>1, PlanFacts
  <2> HIDE DEF a
  <2>3. /\ z \in Call /\ z.pc = "start" /\ z.plan = a /\ z.tried = {}
        /\ z.preferred = p /\ z.ask = r.ask
    BY <1>1, <1>3, <2>2 DEF Call
  <2> HIDE DEF z
  <2>4. Between(z)
    BY <2>3, PlannedBetween DEF StrategiesOf, a
  <2>5. PlanFits(z)
    BY <2>3, <2>4 DEF Between, PlanFits
  <2> QED BY <2>3, <2>5 DEF GoodCall, z
<1> HIDE DEF q, planned
<1> QED BY <1>4, <1>5

\* Whatever the info job returns, the call goes on with it in order.
LEMMA InfoReturnsSets ==
  ASSUME PoolInv, NEW c \in Callers, caller[c].pc \in {"info", "timeout"},
         NEW answer \in (ToSet(Pairs(Clients)) \cup {NoContext}) \X SUBSET Format,
         UseInfo(c, answer)
  PROVE  \E rec : GoodCall(rec) /\ Set(c, rec)
<1> DEFINE r == caller[c]
           q == [r EXCEPT !.preferred = answer[1], !.formats = answer[2]]
           a == AttemptPlan(StrategiesOf(r), answer[1])
           planned == [q EXCEPT !.plan = a]
<1>1. GoodCall(r) /\ r \in Call
  BY CallGood DEF GoodCall
<1>2. r.ask \in Asks =>
        /\ GoodCall([q EXCEPT !.pc = "done"]) /\ GoodCall([q EXCEPT !.pc = "refused"])
        /\ GoodCall([planned EXCEPT !.pc = "start"])
  BY <1>1, AnswerUsed
<1>3. r.ask = "info" => Set(c, [q EXCEPT !.pc = "done"])
  BY DEF UseInfo
<1>4. r.ask = "audio" => Set(c, [planned EXCEPT !.pc = "start"])
  BY DEF UseInfo, StrategiesOf
<1>5. r.ask = "video" => Set(c, [planned EXCEPT !.pc = "start"]) \/ Set(c, [q EXCEPT !.pc = "refused"])
  BY DEF UseInfo, StrategiesOf
<1>6. r.ask \notin {"info", "audio", "video"} => caller' = caller
  BY DEF UseInfo
<1> HIDE DEF q, planned
<1>7. r.ask \notin {"info", "audio", "video"} => Set(c, r)
  <2>1. caller = [caller EXCEPT ![c] = caller[c]]
    BY DEF PoolInv, TypeOK
  <2> QED BY <1>6, <2>1 DEF Set
<1> QED BY <1>1, <1>2, <1>3, <1>4, <1>5, <1>7 DEF Asks

\* A way out of _get_info_sync.
LEMMA InfoReturnsKeeps ==
  ASSUME PoolInv, NEW c \in Callers, Info(c) \in running,
         NEW answer \in (ToSet(Pairs(Clients)) \cup {NoContext}) \X SUBSET Format,
         InfoReturns(c, answer)
  PROVE  PoolInv'
<1> DEFINE mine == {j \in ToSet(queue) : j.owner = c /\ j.kind = "probe"}
<1>1. TypeOK /\ JobsInv /\ NoOrphanProbes
  BY DEF PoolInv
<1>2. /\ EndJob(Info(c)) /\ Cancel(mine)
      /\ probes' = [probes EXCEPT ![c] = {}] /\ UseInfo(c, answer)
  BY DEF InfoReturns
<1>3. Own(Info(c), c) /\ Info(c) \in Jobs /\ Info(c).kind = "info"
  BY JobFields DEF Own, Jobs
<1>4. caller[c].pc \in {"info", "timeout"}
  BY <1>1, <1>3 DEF JobsInv, JobsFit, Fits
<1>5. PICK rec : GoodCall(rec) /\ Set(c, rec)
  BY <1>2, <1>4, InfoReturnsSets
<1>6. /\ caller' \in [Callers -> Call] /\ caller'[c] = rec
      /\ \A d \in Callers : PlanFits(caller'[d])
      /\ \A d \in Callers \ {c} : caller'[d] = caller[d]
  BY <1>5, CallSet
<1> HIDE DEF mine
<1>7. /\ queue' \in Seq(Job \cup {Cancelled}) /\ DOMAIN queue' = DOMAIN queue
      /\ \A i \in DOMAIN queue : queue'[i] \in {queue[i], Cancelled}
      /\ ToSet(queue') \subseteq (ToSet(queue) \ mine) \cup {Cancelled}
  BY <1>1, <1>2, CancelFacts DEF TypeOK
<1>8. /\ running' = running \ {Info(c)} /\ running' \subseteq Job
      /\ IsFiniteSet(running') /\ Cardinality(running') <= Workers
  BY <1>1, <1>2, JobEnds DEF EndJob
<1>9. TypeOK'
  <2>1. probes' \in [Callers -> SUBSET Answer]
    BY <1>1, <1>2 DEF TypeOK
  <2> QED BY <1>6, <1>7, <1>8, <2>1 DEF TypeOK
<1>10. \A job \in Jobs' : ~Own(job, c)
  <2>1. OneJob(c)
    BY <1>1 DEF JobsInv
  <2>2. \A job \in ToSet(queue) : ~Own(job, c)
    BY <1>3, <2>1 DEF OneJob, ToSet
  <2>3. \A job \in running' : ~Own(job, c)
    BY <1>3, <1>8, <2>1 DEF OneJob
  <2>4. ~Own(Cancelled, c)
    BY JobFields
  <2> QED BY <1>7, <2>2, <2>3, <2>4 DEF Jobs
<1>11. JobsInv'
  <2>1. ASSUME NEW d \in Callers, NEW job \in Jobs', Own(job, d), Fits(job, caller[d])
        PROVE  Fits(job, caller'[d])
    BY <1>6, <1>10, <2>1
  <2> QED BY <1>1, <1>7, <1>8, <2>1, JobsStay
<1>12. NoOrphanProbes'
  <2> SUFFICES ASSUME NEW i \in DOMAIN queue', queue'[i].kind = "probe"
               PROVE  Info(queue'[i].owner) \in running'
    BY DEF NoOrphanProbes, Info
  <2>1. queue'[i] \in ToSet(queue) \ mine
    <3>1. queue'[i] \in ToSet(queue')
      BY DEF ToSet
    <3>2. queue'[i] # Cancelled
      BY JobFields
    <3> QED BY <1>7, <3>1, <3>2
  <2>2. queue'[i].owner # c
    BY <2>1 DEF mine
  <2>3. Info(queue'[i].owner) \in running
    BY <1>1, <2>1 DEF NoOrphanProbes, ToSet
  <2>4. Info(queue'[i].owner) # Info(c)
    BY <2>2 DEF Info
  <2> QED BY <1>8, <2>3, <2>4
<1> QED BY <1>6, <1>9, <1>11, <1>12 DEF PoolInv

\* What the probes have answered.
LEMMA AnswersTyped ==
  ASSUME TypeOK, NEW c \in Callers
  PROVE  /\ probes[c] \subseteq (ToSet(Pairs(Clients)) \cup {NoContext}) \X SUBSET Format
         /\ BestAnswers(c) \subseteq (ToSet(Pairs(Clients)) \cup {NoContext}) \X SUBSET Format
<1>1. probes[c] \subseteq (ToSet(Pairs(Clients)) \cup {NoContext}) \X SUBSET Format
  BY DEF TypeOK, Answer
<1>2. <<NoContext, {}>> \in (ToSet(Pairs(Clients)) \cup {NoContext}) \X SUBSET Format
  OBVIOUS
<1> QED BY <1>1, <1>2 DEF BestAnswers

\* The info job returns in one of its three ways.
LEMMA ProberKeeps ==
  ASSUME PoolInv, NEW c \in Callers, Prober(c) \/ ProbingTimesOut(c)
  PROVE  PoolInv'
<1>1. TypeOK
  BY DEF PoolInv
<1>2. PICK answer \in probes[c] \cup BestAnswers(c) : Info(c) \in running /\ InfoReturns(c, answer)
  BY DEF Prober, ProbingTimesOut, GotHD, AllProbed
<1> QED BY <1>1, <1>2, AnswersTyped, InfoReturnsKeeps

-----------------------------------------------------------------------------
(* The theorems                                                            *)

\* Nothing has been asked for: the invariant holds.
LEMMA PoolInvInit == Init => PoolInv
<1> SUFFICES ASSUME Init PROVE PoolInv
  OBVIOUS
<1>1. /\ caller = [c \in Callers |-> Waiting] /\ queue = <<>> /\ running = {}
      /\ probes = [c \in Callers |-> {}]
  BY DEF Init
<1>2. IsFiniteSet({}) /\ Cardinality({}) = 0
  BY FS_EmptySet
<1>3. TypeOK
  BY <1>1, <1>2, WaitingGood, PoolAssumption DEF TypeOK
<1>4. \A c \in Callers : PlanFits(caller[c])
  BY <1>1, WaitingGood
<1>5. JobsInv
  BY <1>1 DEF JobsInv, OneJob, JobsFit, Jobs, ToSet
<1>6. NoOrphanProbes
  BY <1>1 DEF NoOrphanProbes
<1> QED BY <1>3, <1>4, <1>5, <1>6 DEF PoolInv

\* Every step keeps the invariant.
LEMMA PoolInvNext == PoolInv /\ [Next]_vars => PoolInv'
<1> SUFFICES ASSUME PoolInv, [Next]_vars PROVE PoolInv'
  OBVIOUS
<1>1. CASE Dispatch
  BY <1>1, DispatchKeeps
<1>2. ASSUME NEW c \in Callers, Ask(c) PROVE PoolInv'
  BY <1>2, AskKeeps
<1>3. ASSUME NEW c \in Callers, Enter(c) PROVE PoolInv'
  BY <1>3, EnterKeeps
<1>4. ASSUME NEW c \in Callers, Begin(c) PROVE PoolInv'
  BY <1>4, BeginKeeps
<1>5. ASSUME NEW c \in Callers, Prober(c) \/ ProbingTimesOut(c) PROVE PoolInv'
  BY <1>5, ProberKeeps
<1>6. ASSUME NEW c \in Callers, Ends(c) PROVE PoolInv'
  BY <1>6, ProbeEndKeeps, AttemptEndKeeps DEF Ends
<1>7. ASSUME NEW c \in Callers, Timeout(c) PROVE PoolInv'
  BY <1>7, TimeoutKeeps
<1>8. CASE UNCHANGED vars
  <2>1. /\ caller' = caller /\ queue' = queue /\ running' = running /\ probes' = probes
    BY <1>8 DEF vars
  <2>2. TypeOK' /\ \A c \in Callers : PlanFits(caller'[c])
    BY <2>1 DEF PoolInv, TypeOK
  <2>3. JobsInv'
    BY <2>1, JobsStay DEF PoolInv
  <2>4. NoOrphanProbes'
    BY <2>1, ProbesStay DEF PoolInv, ToSet
  <2> QED BY <2>1, <2>2, <2>3, <2>4 DEF PoolInv
<1> QED BY <1>1, <1>2, <1>3, <1>4, <1>5, <1>6, <1>7, <1>8 DEF Next

\* The calls, the executor and the answers keep their types; no more jobs run than
\* there are threads.
THEOREM PoolTypeCorrect == Spec => []TypeOK
<1>1. PoolInv => TypeOK
  BY DEF PoolInv
<1> QED BY <1>1, PoolInvInit, PoolInvNext, PTL DEF Spec

\* Whichever way _get_info_sync ends, no probe of it is left for the pool to run.
THEOREM ProbesHaveInfoJob == Spec => []NoOrphanProbes
<1>1. PoolInv => NoOrphanProbes
  BY DEF PoolInv
<1> QED BY <1>1, PoolInvInit, PoolInvNext, PTL DEF Spec

\* A sequence without repetition has as many members as entries.
LEMMA DistinctCardinality ==
  ASSUME NEW S, NEW s \in Seq(S), IsInjective(s)
  PROVE  Cardinality(ToSet(s)) = Len(s)
<1>1. s \in [1..Len(s) -> ToSet(s)] /\ Len(s) \in Nat /\ DOMAIN s = 1..Len(s)
  BY DEF ToSet
<1>2. s \in Bijection(1..Len(s), ToSet(s))
  BY <1>1 DEF IsInjective, Bijection, Injection, Surjection, ToSet
<1>3. IsFiniteSet(1..Len(s)) /\ Cardinality(1..Len(s)) = Len(s)
  <2>1. 1 \in Int /\ Len(s) \in Int
    BY <1>1
  <2>2. /\ IsFiniteSet(1..Len(s))
        /\ Cardinality(1..Len(s)) = IF 1 > Len(s) THEN 0 ELSE Len(s) - 1 + 1
    BY <2>1, FS_Interval
  <2> QED BY <1>1, <2>2
<1>4. ExistsBijection(1..Len(s), ToSet(s))
  BY <1>2 DEF ExistsBijection
<1> QED BY <1>3, <1>4, FS_Bijection

\* A download that has failed has a plan that is used up.
LEMMA PoolInvGivesUp == PoolInv => GivesUpAfterAll
<1> SUFFICES ASSUME PoolInv, NEW c \in Callers
             PROVE  LET done == caller[c].tried
                        plan == caller[c].plan
                    IN /\ done \cap ToSet(plan) = {} /\ Cardinality(ToSet(plan)) = Len(plan)
                       /\ done # {} /\ caller[c].preferred # NoContext => caller[c].preferred \in done
                       /\ At(c, "failed") =>
                            ToSet(Pairs(IF caller[c].ask = "audio" THEN AudioClients ELSE Clients)) \subseteq done
  BY DEF GivesUpAfterAll
<1> DEFINE r == caller[c]
<1>1. PlanFits(r) /\ r.plan \in Seq(Context)
  BY CallGood DEF Call
<1>2. Cardinality(ToSet(r.plan)) = Len(r.plan)
  BY <1>1, DistinctCardinality DEF PlanFits
<1>3. r.pc = "failed" => ToSet(Pairs(StrategiesOf(r))) \subseteq r.tried
  BY <1>1 DEF PlanFits, Ready, ToSet
<1> QED BY <1>1, <1>2, <1>3 DEF PlanFits, At, StrategiesOf

\* A download that gives up has tried every client with every cookie mode, once,
\* and first the context that answered the probe.
THEOREM AllTriedBeforeFailing == Spec => []GivesUpAfterAll
BY PoolInvInit, PoolInvNext, PoolInvGivesUp, PTL DEF Spec

-----------------------------------------------------------------------------
(* The pool and the semaphore                                              *)

\* async with self.semaphore around a download: between its entry and its end, a
\* time-out included, no more downloads are inside than it has permits.
PermitsRespected == Cardinality(Holding) <= Permits

\* A jam takes an info job of its own for every thread.
LEMMA JamIsProbing ==
  ASSUME TypeOK, IsFiniteSet(Callers), ~PoolNotJammed
  PROVE  Workers <= Cardinality(Probing)
<1> DEFINE f == [c \in Probing |-> Info(c)]
<1>1. \A job \in running : job.kind = "info" /\ job \in Job
  BY DEF PoolNotJammed, TypeOK
<1>2. IsFiniteSet(Probing)
  BY FS_Subset DEF Probing
<1>3. f \in Surjection(Probing, running)
  <2>1. f \in [Probing -> running]
    BY DEF Probing
  <2>2. \A job \in running : \E c \in Probing : f[c] = job
    BY <1>1, JobFields DEF Probing
  <2> QED BY <2>1, <2>2 DEF Surjection
<1>4. Cardinality(running) <= Cardinality(Probing)
  BY <1>2, <1>3, FS_Surjection
<1>5. Cardinality(running) \in Nat /\ Cardinality(Probing) \in Nat
  BY <1>2, FS_CardinalityType DEF TypeOK
<1>6. Cardinality(running) >= Workers
  BY <1>5, PoolAssumption DEF PoolNotJammed, FreeThread
<1> QED BY <1>4, <1>5, <1>6, PoolAssumption

\* Whether a call is inside the semaphore.
Inside(r) == r.ask \in Asks \ {"info"} /\ r.pc \in {"info", "start", "attempt"}

\* A step of one call that does not take it into the semaphore.
LEMMA StepInside ==
  ASSUME TypeOK, NEW c \in Callers, NEW rec, Set(c, rec), Inside(rec) => Inside(caller[c])
  PROVE  Holding' \subseteq Holding
<1>1. caller' = [caller EXCEPT ![c] = rec] /\ caller \in [Callers -> Call]
  BY DEF Set, TypeOK
<1> QED BY <1>1 DEF Holding, Inside

\* Only Enter takes a permit.
LEMMA HoldingShrinks ==
  ASSUME PoolInv, [Next]_vars, ~ \E c \in Callers : Enter(c)
  PROVE  Holding' \subseteq Holding
<1>1. TypeOK /\ JobsInv
  BY DEF PoolInv
<1>2. CASE caller' = caller
  BY <1>2 DEF Holding
<1>3. ASSUME NEW c \in Callers, NEW rec, StartAttempt(c, rec), caller[c].pc \in {"start", "attempt"},
             rec \in Call, rec.ask = caller[c].ask
      PROVE  Holding' \subseteq Holding
  <2>1. PICK pc \in {"failed", "attempt"} : Set(c, [rec EXCEPT !.pc = pc])
    BY <1>3 DEF StartAttempt
  <2>2. [rec EXCEPT !.pc = pc].ask = rec.ask
    BY <1>3 DEF Call
  <2> QED BY <1>1, <1>3, <2>1, <2>2, StepInside DEF Inside
<1>4. ASSUME NEW c \in Callers, Ask(c) PROVE Holding' \subseteq Holding
  <2>1. caller[c] \in Call
    BY CallGood
  <2>2. PICK ask \in Asks, pc \in {"info", "wait"} :
          /\ Set(c, [caller[c] EXCEPT !.pc = pc, !.ask = ask]) /\ (pc = "info" => ask = "info")
    BY <1>4 DEF Ask
  <2> DEFINE q == [caller[c] EXCEPT !.pc = pc, !.ask = ask]
  <2>3. q.pc = pc /\ q.ask = ask
    BY <2>1 DEF Call
  <2> HIDE DEF q
  <2>4. ~Inside(q)
    BY <2>2, <2>3 DEF Inside
  <2> QED BY <1>1, <2>2, <2>4, StepInside DEF q
<1>5. ASSUME NEW c \in Callers, Begin(c) PROVE Holding' \subseteq Holding
  BY <1>3, <1>5, CallGood DEF Begin, At
<1>6. ASSUME NEW c \in Callers, Timeout(c) PROVE Holding' \subseteq Holding
  <2>1. Set(c, [Waiting EXCEPT !.pc = "timeout"])
    BY <1>6 DEF Timeout
  <2>2. ~Inside([Waiting EXCEPT !.pc = "timeout"])
    BY DEF Inside, Waiting, Asks, None
  <2> QED BY <1>1, <2>1, <2>2, StepInside
<1>7. ASSUME NEW c \in Callers, Ends(c) PROVE Holding' \subseteq Holding
  <2>1. PICK job \in running : job.owner = c /\ (ProbeEnds(job) \/ AttemptEnds(job))
    BY <1>7 DEF Ends
  <2>2. CASE ProbeEnds(job)
    BY <1>2, <2>2 DEF ProbeEnds
  <2>3. CASE AttemptEnds(job)
    <3> DEFINE r == caller[c]
               q == [r EXCEPT !.plan = Tail(@), !.tried = @ \cup {job.context}]
    <3>1. CASE r.pc # "attempt"
      BY <1>2, <2>1, <2>3, <3>1 DEF AttemptEnds, At
    <3>2. CASE r.pc = "attempt"
      <4>1. Set(c, [q EXCEPT !.pc = "done"]) \/ StartAttempt(c, q)
        BY <2>1, <2>3, <3>2 DEF AttemptEnds, At
      <4>2. r \in Call /\ GoodCall(r)
        BY CallGood DEF GoodCall
      <4>3. r.plan # <<>> /\ Head(r.plan) = job.context
        BY <1>1, <2>1, <2>3, <3>2 DEF AttemptEnds, JobsInv, JobsFit, Fits, Own, Jobs
      <4>4. q \in Call /\ q.ask = r.ask
        <5>1. q = [r EXCEPT !.plan = Tail(@), !.tried = @ \cup {Head(r.plan)}]
          BY <4>3
        <5>2. q \in Call
          BY <5>1, <3>2, <4>2, <4>3, TriedBetween DEF Between
        <5> QED BY <4>2, <5>2 DEF Call
      <4> HIDE DEF q
      <4>5. [q EXCEPT !.pc = "done"].pc = "done"
        BY <4>4 DEF Call
      <4>6. ~Inside([q EXCEPT !.pc = "done"])
        BY <4>5 DEF Inside
      <4> QED BY <1>1, <1>3, <3>2, <4>1, <4>4, <4>6, StepInside
    <3> QED BY <3>1, <3>2
  <2> QED BY <2>1, <2>2, <2>3
<1>8. ASSUME NEW c \in Callers, Prober(c) \/ ProbingTimesOut(c) PROVE Holding' \subseteq Holding
  <2>1. PICK answer \in probes[c] \cup BestAnswers(c) : Info(c) \in running /\ UseInfo(c, answer)
    BY <1>8 DEF Prober, ProbingTimesOut, GotHD, AllProbed, InfoReturns
  <2> DEFINE r == caller[c]
             q == [r EXCEPT !.preferred = answer[1], !.formats = answer[2]]
             a == AttemptPlan(StrategiesOf(r), answer[1])
             planned == [q EXCEPT !.plan = a]
  <2>2. r.pc \in {"info", "timeout"}
    <3>1. Own(Info(c), c) /\ Info(c).kind = "info" /\ Info(c) \in Jobs
      BY <2>1, JobFields DEF Own, Jobs
    <3> QED BY <1>1, <3>1 DEF JobsInv, JobsFit, Fits
  <2>3. r \in Call /\ (r.pc = "timeout" => r.ask = None)
    BY CallGood DEF PlanFits
  <2>4. /\ r.ask = "info" => Set(c, [q EXCEPT !.pc = "done"])
        /\ r.ask = "audio" => Set(c, [planned EXCEPT !.pc = "start"])
        /\ r.ask = "video" =>
             Set(c, [planned EXCEPT !.pc = "start"]) \/ Set(c, [q EXCEPT !.pc = "refused"])
        /\ r.ask \notin {"info", "audio", "video"} => caller' = caller
    BY <2>1 DEF UseInfo, StrategiesOf
  <2>5. /\ [q EXCEPT !.pc = "done"].pc = "done" /\ [q EXCEPT !.pc = "refused"].pc = "refused"
        /\ [planned EXCEPT !.pc = "start"].ask = r.ask
    BY <2>3 DEF Call
  <2> HIDE DEF q, planned
  <2>6. ~Inside([q EXCEPT !.pc = "done"]) /\ ~Inside([q EXCEPT !.pc = "refused"])
    BY <2>5 DEF Inside
  <2>7. Inside([planned EXCEPT !.pc = "start"]) => Inside(r)
    BY <2>2, <2>3, <2>5 DEF Inside, Asks, None
  <2> QED BY <1>1, <1>2, <2>4, <2>6, <2>7, StepInside
<1>9. CASE Dispatch \/ UNCHANGED vars
  BY <1>2, <1>9 DEF Dispatch, vars
<1> QED BY <1>4, <1>5, <1>6, <1>7, <1>8, <1>9 DEF Next

\* The downloads between the semaphore and their end are never more than its permits.
THEOREM SemaphoreHolds ==
  ASSUME IsFiniteSet(Callers)
  PROVE  Spec => []PermitsRespected
<1> USE DEF PermitsRespected
<1>1. IsFiniteSet(Holding) /\ IsFiniteSet(Holding')
  BY FS_Subset DEF Holding
<1>2. Cardinality(Holding) \in Nat /\ Cardinality(Holding') \in Nat
  BY <1>1, FS_CardinalityType
<1>3. Init => PermitsRespected
  <2> SUFFICES ASSUME Init PROVE PermitsRespected
    OBVIOUS
  <2>1. Holding = {}
    BY DEF Init, Holding, Waiting
  <2> QED BY <2>1, FS_EmptySet, PoolAssumption
<1>4. PermitsRespected /\ PoolInv /\ [Next]_vars => PermitsRespected'
  <2> SUFFICES ASSUME PermitsRespected, PoolInv, [Next]_vars
               PROVE  Cardinality(Holding') <= Permits
    OBVIOUS
  <2>1. CASE ~ \E c \in Callers : Enter(c)
    <3>1. Cardinality(Holding') <= Cardinality(Holding)
      BY <1>1, <2>1, HoldingShrinks, FS_Subset
    <3> QED BY <1>2, <3>1, PoolAssumption
  <2>2. ASSUME NEW c \in Callers, Enter(c) PROVE Cardinality(Holding') <= Permits
    <3>1. Cardinality(Holding) < Permits
      BY <2>2 DEF Enter
    <3>2. \A d \in Callers \ {c} : caller'[d] = caller[d]
      BY <2>2 DEF Enter, StartAttempt, Goto, Set, PoolInv, TypeOK
    <3>3. Holding' \subseteq Holding \cup {c}
      BY <3>2 DEF Holding
    <3>4. IsFiniteSet(Holding \cup {c}) /\ Cardinality(Holding \cup {c}) =
            IF c \in Holding THEN Cardinality(Holding) ELSE Cardinality(Holding) + 1
      BY <1>1, FS_AddElement
    <3>5. Cardinality(Holding') <= Cardinality(Holding \cup {c})
      BY <3>3, <3>4, FS_Subset
    <3> QED BY <1>2, <3>1, <3>4, <3>5, PoolAssumption
  <2> QED BY <2>1, <2>2
<1>5. Spec => []PoolInv
  BY PoolInvInit, PoolInvNext, PTL DEF Spec
<1> QED BY <1>3, <1>4, <1>5, PTL DEF Spec

\* A jam takes as many callers outside the semaphore as there are threads beyond
\* its permits: eight of them with max_workers=16 and Semaphore(8).
THEOREM DownloadsAloneNeverJam ==
  ASSUME IsFiniteSet(Callers)
  PROVE  Spec => []JamNeedsOutsiders
<1>1. PoolInv /\ PermitsRespected => JamNeedsOutsiders
  <2> SUFFICES ASSUME PoolInv, PermitsRespected, ~PoolNotJammed
               PROVE  ~(Permits + Cardinality(Outsiders) < Workers)
    BY DEF JamNeedsOutsiders
  <2>1. Workers <= Cardinality(Probing)
    BY JamIsProbing DEF PoolInv
  <2>2. IsFiniteSet(Probing) /\ IsFiniteSet(Holding) /\ IsFiniteSet(Outsiders)
    <3>1. Probing \subseteq Callers /\ Holding \subseteq Callers /\ Outsiders \subseteq Callers
      BY DEF Probing, Holding, Outsiders
    <3> QED BY <3>1, FS_Subset
  <2>3. IsFiniteSet(Holding \cup Outsiders) /\ Cardinality(Holding \cup Outsiders) =
          Cardinality(Holding) + Cardinality(Outsiders) - Cardinality(Holding \cap Outsiders)
    BY <2>2, FS_Union
  <2>4. Cardinality(Holding \cap Outsiders) = 0
    <3>1. Holding \cap Outsiders = {}
      BY DEF Outsiders
    <3> QED BY <3>1, FS_EmptySet
  <2>5. Cardinality(Probing) <= Cardinality(Holding \cup Outsiders)
    <3>1. Probing \subseteq Holding \cup Outsiders
      BY DEF Outsiders
    <3> QED BY <2>3, <3>1, FS_Subset
  <2>6. /\ Cardinality(Probing) \in Nat /\ Cardinality(Holding) \in Nat
        /\ Cardinality(Outsiders) \in Nat
    BY <2>2, FS_CardinalityType
  <2>7. Cardinality(Holding) <= Permits
    BY DEF PermitsRespected
  <2> QED BY <2>1, <2>3, <2>4, <2>5, <2>6, <2>7, PoolAssumption
<1>2. Spec => []PoolInv
  BY PoolInvInit, PoolInvNext, PTL DEF Spec
<1> QED BY <1>1, <1>2, SemaphoreHolds, PTL

-----------------------------------------------------------------------------
(* Who waits for the pool has a job there                                  *)

\* await run_in_executor: whoever waits for _get_info_sync or for an attempt has its
\* job in the queue or in a thread, whatever the others cancel.
NobodyForgotten ==
  \A c \in Callers : caller[c].pc \in {"info", "attempt"} => \E job \in Jobs : Own(job, c)

\* A step that takes no job of a waiting caller away.
LEMMA JobsRemain ==
  ASSUME NobodyForgotten,
         \A c \in Callers : caller'[c].pc \in {"info", "attempt"} =>
           \/ \E job \in Jobs' : Own(job, c)
           \/ /\ caller[c].pc \in {"info", "attempt"}
              /\ \A job \in Jobs : Own(job, c) => job \in Jobs'
  PROVE  NobodyForgotten'
<1> SUFFICES ASSUME NEW c \in Callers, caller'[c].pc \in {"info", "attempt"}
             PROVE  \E job \in Jobs' : Own(job, c)
  BY DEF NobodyForgotten, Own
<1> QED BY DEF NobodyForgotten

\* A download goes on to its next attempt, or ends.
LEMMA StartRemains ==
  ASSUME TypeOK, NobodyForgotten, NEW c \in Callers, NEW rec \in Call, StartAttempt(c, rec),
         \A job \in running : job \in running' \/ Own(job, c)
  PROVE  NobodyForgotten'
<1>1. CASE rec.plan = <<>>
  <2>1. Set(c, [rec EXCEPT !.pc = "failed"]) /\ queue' = queue
    BY <1>1 DEF StartAttempt
  <2>2. caller'[c].pc = "failed" /\ \A d \in Callers \ {c} : caller'[d] = caller[d]
    BY <2>1 DEF Set, TypeOK, Call
  <2>3. \A d \in Callers \ {c} : \A job \in Jobs : Own(job, d) => job \in Jobs'
    BY <2>1 DEF Jobs, Own
  <2> QED BY <2>2, <2>3, JobsRemain
<1>2. CASE rec.plan # <<>>
  <2> DEFINE job == Attempt(c, Head(rec.plan))
  <2>1. Set(c, [rec EXCEPT !.pc = "attempt"]) /\ Submit(<<job>>)
    BY <1>2 DEF StartAttempt
  <2>2. \A d \in Callers \ {c} : caller'[d] = caller[d]
    BY <2>1 DEF Set, TypeOK
  <2>3. Head(rec.plan) \in Context
    BY <1>2 DEF Call
  <2>4. job \in Job /\ Own(job, c)
    BY <2>3, JobFields DEF Own
  <2> HIDE DEF job
  <2>5. ToSet(queue') = ToSet(queue) \cup {job}
    BY <2>1, <2>4, SubmitFacts DEF TypeOK
  <2>6. job \in Jobs'
    BY <2>5 DEF Jobs
  <2>7. \A d \in Callers \ {c} : \A other \in Jobs : Own(other, d) => other \in Jobs'
    BY <2>5 DEF Jobs, Own
  <2> QED BY <2>2, <2>4, <2>6, <2>7, JobsRemain
<1> QED BY <1>1, <1>2

\* A caller that begins to wait for an info job has submitted it.
LEMMA InfoRemains ==
  ASSUME TypeOK, NobodyForgotten, NEW c \in Callers, NEW rec, Set(c, rec),
         Submit(<<Info(c)>>), running' = running
  PROVE  NobodyForgotten'
<1>1. Info(c) \in Job /\ Own(Info(c), c)
  BY JobFields DEF Own
<1>2. ToSet(queue') = ToSet(queue) \cup {Info(c)}
  BY <1>1, SubmitFacts DEF TypeOK
<1>3. \A d \in Callers \ {c} : caller'[d] = caller[d]
  BY DEF Set, TypeOK
<1>4. Info(c) \in Jobs' /\ Jobs \subseteq Jobs'
  BY <1>2 DEF Jobs
<1> QED BY <1>1, <1>3, <1>4, JobsRemain

\* The job taken from the queue is in the thread.
LEMMA DispatchRemains ==
  ASSUME PoolInv, NobodyForgotten, Dispatch
  PROVE  NobodyForgotten'
<1>1. TypeOK
  BY DEF PoolInv
<1>2. running' = running \cup ({Head(queue)} \ {Cancelled}) /\ caller' = caller
  BY DEF Dispatch
<1>3. /\ Head(queue) = queue[1]
      /\ \A i \in DOMAIN queue : i = 1 \/ (i - 1 \in DOMAIN queue' /\ queue'[i - 1] = queue[i])
  BY <1>1, DispatchFacts
<1>4. ASSUME NEW c \in Callers, NEW job \in Jobs, Own(job, c) PROVE job \in Jobs'
  <2>1. CASE job \in running
    BY <1>2, <2>1 DEF Jobs
  <2>2. CASE job \in ToSet(queue)
    <3>1. PICK i \in DOMAIN queue : job = queue[i]
      BY <2>2 DEF ToSet
    <3>2. CASE i = 1
      <4>1. job # Cancelled
        BY <1>4, JobFields
      <4> QED BY <1>2, <1>3, <3>1, <3>2, <4>1 DEF Jobs
    <3>3. CASE i # 1
      <4>1. job \in ToSet(queue')
        BY <1>3, <3>1, <3>3 DEF ToSet
      <4> QED BY <4>1 DEF Jobs
    <3> QED BY <3>2, <3>3
  <2> QED BY <2>1, <2>2 DEF Jobs
<1> QED BY <1>2, <1>4, JobsRemain

\* An attempt that ends is followed by another, or nobody waits for it.
LEMMA EndsRemain ==
  ASSUME PoolInv, NobodyForgotten, NEW c \in Callers, Ends(c)
  PROVE  NobodyForgotten'
<1>1. TypeOK /\ JobsInv
  BY DEF PoolInv
<1>2. PICK job \in running : job.owner = c /\ (ProbeEnds(job) \/ AttemptEnds(job))
  BY DEF Ends
<1>3. running' = running \ {job}
  BY <1>2 DEF ProbeEnds, AttemptEnds, EndJob
<1>4. CASE ProbeEnds(job)
  <2>1. job.kind = "probe" /\ UNCHANGED <<caller, queue>>
    BY <1>4 DEF ProbeEnds
  <2>2. \A d \in Callers : \A other \in Jobs : Own(other, d) => other \in Jobs'
    BY <1>3, <2>1 DEF Jobs, Own
  <2> QED BY <2>1, <2>2, JobsRemain
<1>5. CASE AttemptEnds(job)
  <2> DEFINE r == caller[c]
             q == [r EXCEPT !.plan = Tail(@), !.tried = @ \cup {job.context}]
  <2>1. job.kind = "attempt" /\ Own(job, c)
    BY <1>2, <1>5 DEF AttemptEnds, Own
  <2>2. GoodCall(r) /\ r \in Call
    BY CallGood DEF GoodCall
  <2>3. \A other \in running : other \in running' \/ Own(other, c)
    BY <1>3, <2>1
  <2>4. r.pc \in {"attempt", "timeout"}
    BY <1>1, <1>2, <2>1 DEF JobsInv, JobsFit, Fits, Jobs
  <2>5. CASE r.pc = "attempt"
    <3>1. (Set(c, [q EXCEPT !.pc = "done"]) /\ queue' = queue) \/ StartAttempt(c, q)
      BY <1>2, <1>5, <2>5 DEF AttemptEnds, At
    <3>2. r.plan # <<>> /\ Head(r.plan) = job.context
      BY <1>1, <1>2, <2>1, <2>5 DEF JobsInv, JobsFit, Fits, Jobs
    <3>3. q \in Call
      <4>1. q = [r EXCEPT !.plan = Tail(@), !.tried = @ \cup {Head(r.plan)}]
        BY <3>2
      <4> QED BY <4>1, <2>2, <2>5, <3>2, TriedBetween DEF Between
    <3> HIDE DEF q
    <3>4. CASE Set(c, [q EXCEPT !.pc = "done"]) /\ queue' = queue
      <4>1. caller'[c].pc = "done" /\ \A d \in Callers \ {c} : caller'[d] = caller[d]
        BY <1>1, <3>3, <3>4 DEF Set, TypeOK, Call
      <4>2. \A d \in Callers \ {c} : \A other \in Jobs : Own(other, d) => other \in Jobs'
        BY <2>3, <3>4 DEF Jobs, Own
      <4> QED BY <4>1, <4>2, JobsRemain
    <3>5. CASE StartAttempt(c, q)
      BY <1>1, <2>3, <3>3, <3>5, StartRemains
    <3> QED BY <3>1, <3>4, <3>5
  <2>6. CASE r.pc = "timeout"
    <3>1. UNCHANGED <<caller, queue>>
      BY <1>2, <1>5, <2>6 DEF AttemptEnds, At
    <3>2. \A d \in Callers \ {c} : \A other \in Jobs : Own(other, d) => other \in Jobs'
      BY <2>3, <3>1 DEF Jobs, Own
    <3> QED BY <2>6, <3>1, <3>2, JobsRemain
  <2> QED BY <2>4, <2>5, <2>6
<1> QED BY <1>2, <1>4, <1>5

\* What Cancel does not name stays.
LEMMA CancelRemains ==
  ASSUME NEW jobs, Cancel(jobs)
  PROVE  \A job \in ToSet(queue) : job \in jobs \/ job \in ToSet(queue')
<1> SUFFICES ASSUME NEW i \in DOMAIN queue, queue[i] \notin jobs PROVE queue[i] \in ToSet(queue')
  BY DEF ToSet
<1>1. DOMAIN queue' = DOMAIN queue /\ queue'[i] = queue[i]
  BY DEF Cancel
<1> QED BY <1>1 DEF ToSet

\* An info job that returns has answered its caller.
LEMMA ProberRemains ==
  ASSUME PoolInv, NobodyForgotten, NEW c \in Callers, Prober(c) \/ ProbingTimesOut(c)
  PROVE  NobodyForgotten'
<1>1. TypeOK /\ JobsInv
  BY DEF PoolInv
<1>2. PICK answer \in probes[c] \cup BestAnswers(c) : Info(c) \in running /\ InfoReturns(c, answer)
  BY DEF Prober, ProbingTimesOut, GotHD, AllProbed
<1>3. running' = running \ {Info(c)}
  BY <1>2 DEF InfoReturns, EndJob
<1>4. \A d \in Callers \ {c} : \A job \in Jobs : Own(job, d) => job \in Jobs'
  <2>1. \A job \in ToSet(queue) :
          (job.owner = c /\ job.kind = "probe") \/ job \in ToSet(queue')
    BY <1>2, CancelRemains DEF InfoReturns
  <2>2. Info(c).owner = c
    BY DEF Info
  <2> QED BY <1>3, <2>1, <2>2 DEF Jobs, Own
<1> DEFINE r == caller[c]
           q == [r EXCEPT !.preferred = answer[1], !.formats = answer[2]]
           a == AttemptPlan(StrategiesOf(r), answer[1])
           planned == [q EXCEPT !.plan = a]
<1>5. r.pc \in {"info", "timeout"}
  <2>1. Own(Info(c), c) /\ Info(c).kind = "info" /\ Info(c) \in Jobs
    BY <1>2, JobFields DEF Own, Jobs
  <2> QED BY <1>1, <2>1 DEF JobsInv, JobsFit, Fits
<1>6. r \in Call /\ (r.pc = "info" => r.ask \in Asks \ {"best"}) /\ (r.pc = "timeout" => r.ask = None)
  BY CallGood DEF PlanFits
<1>7. /\ r.ask = "info" => Set(c, [q EXCEPT !.pc = "done"])
      /\ r.ask = "audio" => Set(c, [planned EXCEPT !.pc = "start"])
      /\ r.ask = "video" => Set(c, [planned EXCEPT !.pc = "start"]) \/ Set(c, [q EXCEPT !.pc = "refused"])
      /\ r.ask \notin {"info", "audio", "video"} => caller' = caller
  BY <1>2 DEF InfoReturns, UseInfo, StrategiesOf
<1>8. /\ [q EXCEPT !.pc = "done"].pc = "done" /\ [q EXCEPT !.pc = "refused"].pc = "refused"
      /\ [planned EXCEPT !.pc = "start"].pc = "start"
  BY <1>6 DEF Call
<1> HIDE DEF q, planned
<1>9. \/ \E rec : Set(c, rec) /\ rec.pc \in {"done", "start", "refused"}
      \/ caller' = caller /\ r.pc = "timeout"
  BY <1>5, <1>6, <1>7, <1>8 DEF Asks, None
<1>10. /\ caller'[c].pc \in {"done", "start", "refused", "timeout"}
       /\ \A d \in Callers \ {c} : caller'[d] = caller[d]
  BY <1>1, <1>9 DEF Set, TypeOK
<1> QED BY <1>4, <1>10, JobsRemain

\* A caller that is cancelled waits no longer; the jobs of the others stay.
LEMMA TimeoutRemains ==
  ASSUME PoolInv, NobodyForgotten, NEW c \in Callers, Timeout(c)
  PROVE  NobodyForgotten'
<1>1. TypeOK
  BY DEF PoolInv
<1>2. caller'[c].pc = "timeout" /\ \A d \in Callers \ {c} : caller'[d] = caller[d]
  BY <1>1 DEF Timeout, Set, TypeOK, Waiting
<1>3. \A job \in ToSet(queue) : job.owner = c \/ job \in ToSet(queue')
  BY CancelRemains DEF Timeout
<1>4. running' = running
  BY DEF Timeout
<1>5. \A d \in Callers \ {c} : \A job \in Jobs : Own(job, d) => job \in Jobs'
  BY <1>3, <1>4 DEF Jobs, Own
<1> QED BY <1>2, <1>5, JobsRemain

\* A caller that waits for an answer or for its attempt has a job in the pool,
\* in a thread or in the queue: none is lost.
THEOREM WaitingHaveJobs == Spec => []NobodyForgotten
<1>1. Init => NobodyForgotten
  BY DEF Init, NobodyForgotten, Waiting
<1>2. NobodyForgotten /\ PoolInv /\ [Next]_vars => NobodyForgotten'
  <2> SUFFICES ASSUME NobodyForgotten, PoolInv, [Next]_vars PROVE NobodyForgotten'
    OBVIOUS
  <2>1. TypeOK
    BY DEF PoolInv
  <2>2. CASE Dispatch
    BY <2>2, DispatchRemains
  <2>3. ASSUME NEW c \in Callers, Ask(c) PROVE NobodyForgotten'
    <3>1. PICK ask \in Asks :
            \/ Set(c, [caller[c] EXCEPT !.pc = "info", !.ask = ask]) /\ Submit(<<Info(c)>>)
            \/ Set(c, [caller[c] EXCEPT !.pc = "wait", !.ask = ask]) /\ UNCHANGED queue
      BY <2>3 DEF Ask
    <3>2. running' = running
      BY <2>3 DEF Ask
    <3>3. CASE Set(c, [caller[c] EXCEPT !.pc = "info", !.ask = ask]) /\ Submit(<<Info(c)>>)
      BY <2>1, <3>2, <3>3, InfoRemains
    <3>4. CASE Set(c, [caller[c] EXCEPT !.pc = "wait", !.ask = ask]) /\ UNCHANGED queue
      <4>1. caller'[c].pc = "wait" /\ \A d \in Callers \ {c} : caller'[d] = caller[d]
        BY <2>1, <3>4 DEF Set, TypeOK, Call
      <4>2. Jobs' = Jobs
        BY <3>2, <3>4 DEF Jobs
      <4> QED BY <4>1, <4>2, JobsRemain
    <3> QED BY <3>1, <3>3, <3>4
  <2>4. ASSUME NEW c \in Callers, Enter(c) PROVE NobodyForgotten'
    <3>1. running' = running
      BY <2>4 DEF Enter
    <3>2. CASE caller[c].ask = "best"
      <4> DEFINE q == [caller[c] EXCEPT !.plan = AttemptPlan(Clients, NoContext)]
      <4>1. StartAttempt(c, q)
        BY <2>4, <3>2 DEF Enter
      <4>2. AttemptPlan(Clients, NoContext) \in Seq(Context)
        BY PlanFacts
      <4>3. q \in Call
        BY <4>2, CallGood DEF Call
      <4> HIDE DEF q
      <4> QED BY <2>1, <3>1, <4>1, <4>3, StartRemains
    <3>3. CASE caller[c].ask # "best"
      <4>1. Set(c, [caller[c] EXCEPT !.pc = "info"]) /\ Submit(<<Info(c)>>)
        BY <2>4, <3>3 DEF Enter, Goto
      <4> QED BY <2>1, <3>1, <4>1, InfoRemains
    <3> QED BY <3>2, <3>3
  <2>5. ASSUME NEW c \in Callers, Begin(c) PROVE NobodyForgotten'
    BY <2>1, <2>5, CallGood, StartRemains DEF Begin
  <2>6. ASSUME NEW c \in Callers, Prober(c) \/ ProbingTimesOut(c) PROVE NobodyForgotten'
    BY <2>6, ProberRemains
  <2>7. ASSUME NEW c \in Callers, Ends(c) PROVE NobodyForgotten'
    BY <2>7, EndsRemain
  <2>8. ASSUME NEW c \in Callers, Timeout(c) PROVE NobodyForgotten'
    BY <2>8, TimeoutRemains
  <2>9. CASE UNCHANGED vars
    BY <2>9, JobsRemain DEF vars, Jobs
  <2> QED BY <2>2, <2>3, <2>4, <2>5, <2>6, <2>7, <2>8, <2>9 DEF Next
<1>3. Spec => []PoolInv
  BY PoolInvInit, PoolInvNext, PTL DEF Spec
<1> QED BY <1>1, <1>2, <1>3, PTL DEF Spec

=============================================================================
