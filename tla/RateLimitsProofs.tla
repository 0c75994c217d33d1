-------------------------- MODULE RateLimitsProofs --------------------------
(***************************************************************************)
(* Proofs about RateLimits, for every set of callers and processes, all    *)
(* limits and all periods.  The types are inductive with the order of the  *)
(* calls: the old ones come first, so Tick drops just these.  What a       *)
(* window admits follows from a count that also holds when a removal has   *)
(* taken the entry of an admitted call: of the calls still logged.  And a  *)
(* counter nobody has raced for is exact because whoever acts on it has    *)
(* seen its present value.                                                 *)
(***************************************************************************)
EXTENDS RateLimits, FiniteSetTheorems, TLAPS

InOrder == \A i, j \in DOMAIN calls : i <= j => calls[j].age <= calls[i].age

TypeInv == TypeOK /\ InOrder

\* The calls Redis has admitted whose entries are still there.
Granted == {i \in Admitted("redis") : calls[i].logged}

WindowInv ==
  /\ Cardinality(Granted) <= MaxLimit
  /\ limiter = "advanced" => \A p \in Processes : Cardinality(Admitted(p)) <= MaxLimit

-----------------------------------------------------------------------------
(* Places *)

LEMMA PlacesFinite ==
  ASSUME NEW n \in Nat, NEW S \in SUBSET (1..n)
  PROVE  IsFiniteSet(S) /\ Cardinality(S) \in Nat /\ Cardinality(S) <= n
<1>1. IsFiniteSet(1..n) /\ Cardinality(1..n) = n
  BY FS_Interval
<1>2. IsFiniteSet(S) /\ Cardinality(S) <= n
  BY <1>1, FS_Subset
<1>. QED  BY <1>2, FS_CardinalityType

\* Places that leave none out before them are the first ones.
LEMMA FirstPlaces ==
  ASSUME NEW n \in Nat, NEW S \in SUBSET (1..n), \A j \in S : \A i \in 1..j : i \in S
  PROVE  S = 1..Cardinality(S) /\ Cardinality(S) \in 0..n
<1>. DEFINE m == Cardinality(S)
<1>1. IsFiniteSet(S) /\ m \in Nat /\ m <= n
  BY PlacesFinite
<1>2. ASSUME NEW j \in S PROVE j \in 1..m
  <2>1. j \in Nat /\ 1 <= j
    OBVIOUS
  <2>2. IsFiniteSet(1..j) /\ Cardinality(1..j) = j
    BY <2>1, FS_Interval
  <2>3. Cardinality(1..j) <= m
    BY <1>1, FS_Subset
  <2>. QED  BY <1>1, <2>1, <2>2, <2>3
<1>3. IsFiniteSet(1..m) /\ Cardinality(1..m) = m
  BY <1>1, FS_Interval
<1>4. S \in SUBSET (1..m)
  BY <1>2
<1>5. S = 1..m
  BY <1>3, <1>4, FS_Subset
<1>. QED  BY <1>1, <1>5

\* Places that move forward by old do not become more, nor less if all are there.
LEMMA MovedPlaces ==
  ASSUME NEW n \in Nat, NEW old \in Nat, NEW A \in SUBSET (1..n), NEW B \in SUBSET (1..n),
         \A i \in A : old + i \in B
  PROVE  Cardinality(A) <= Cardinality(B)
<1>. DEFINE f == [i \in A |-> old + i]
<1>1. IsFiniteSet(B)
  BY PlacesFinite
<1>2. f \in Injection(A, B)
  BY DEF Injection, IsInjective
<1>. QED  BY <1>1, <1>2, FS_Injection

LEMMA AllMoved ==
  ASSUME NEW n \in Nat, NEW old \in Nat, NEW A \in SUBSET (1..n)
  PROVE  Cardinality({old + i : i \in A}) = Cardinality(A)
<1>. DEFINE B == {old + i : i \in A}
            f == [i \in A |-> old + i]
<1>1. IsFiniteSet(A)
  BY PlacesFinite
<1>2. f \in Surjection(A, B)
  BY DEF Surjection
<1>3. f \in Injection(A, B)
  BY DEF Injection, IsInjective
<1>. QED  BY <1>1, <1>2, <1>3, FS_Surjection

\* One place more at the end.
LEMMA NextPlace ==
  ASSUME NEW n \in Nat, NEW S \in SUBSET (1..n)
  PROVE  Cardinality(S \cup {n + 1}) = Cardinality(S) + 1
<1>1. IsFiniteSet(S) /\ n + 1 \notin S
  BY PlacesFinite
<1>. QED  BY <1>1, FS_AddElement

-----------------------------------------------------------------------------
(* What the operations do to the calls *)

LEMMA CallType ==
  ASSUME NEW c \in Callers, NEW via \in {"redis", "counter"} \cup Processes, NEW admitted \in BOOLEAN
  PROVE  Call(c, via, admitted) \in Calls
BY LimitsAssumption DEF Call, Calls

LEMMA CallsAt ==
  ASSUME TypeInv
  PROVE  /\ calls \in Seq(Calls) /\ Len(calls) \in Nat /\ DOMAIN calls = 1..Len(calls)
         /\ \A i \in 1..Len(calls) : calls[i] \in Calls
BY DEF TypeInv, TypeOK

\* A call is appended.
LEMMA Appended ==
  ASSUME TypeInv, NEW e \in Calls, e.age = 0, calls' = Append(calls, e)
  PROVE  /\ calls' \in Seq(Calls) /\ Len(calls') = Len(calls) + 1
         /\ DOMAIN calls' = 1..Len(calls) + 1
         /\ \A i \in 1..Len(calls) : calls'[i] = calls[i]
         /\ calls'[Len(calls) + 1] = e
         /\ InOrder'
<1>1. /\ calls \in Seq(Calls) /\ Len(calls) \in Nat /\ DOMAIN calls = 1..Len(calls)
      /\ \A i \in 1..Len(calls) : calls[i] \in Calls
  BY CallsAt
<1>2. /\ calls' \in Seq(Calls) /\ Len(calls') = Len(calls) + 1
      /\ DOMAIN calls' = 1..Len(calls) + 1
      /\ \A i \in 1..Len(calls) : calls'[i] = calls[i]
      /\ calls'[Len(calls) + 1] = e
  BY <1>1
<1>3. InOrder'
  <2>. SUFFICES ASSUME NEW i \in DOMAIN calls', NEW j \in DOMAIN calls', i <= j
                PROVE  calls'[j].age <= calls'[i].age
    BY DEF InOrder
  <2>1. \A k \in 1..Len(calls) : calls[k].age \in 0..Window - 1
    BY <1>1 DEF Calls
  <2>2. CASE j = Len(calls) + 1
    <3>1. calls'[j].age = 0
      BY <1>2, <2>2
    <3>2. calls'[i].age \in Nat
      BY <1>1, <1>2, <2>1
    <3>. QED  BY <3>1, <3>2
  <2>3. CASE j # Len(calls) + 1
    <3>1. i \in 1..Len(calls) /\ j \in 1..Len(calls)
      BY <1>1, <1>2, <2>3
    <3>. QED  BY <1>1, <1>2, <3>1 DEF TypeInv, InOrder
  <2>. QED  BY <2>2, <2>3
<1>. QED  BY <1>2, <1>3

\* A removal takes entries out of the log.
Unlogged ==
  /\ DOMAIN calls' = DOMAIN calls
  /\ calls' \in Seq(Calls) /\ Len(calls') = Len(calls)
  /\ \A i \in DOMAIN calls :
       /\ calls'[i].age = calls[i].age /\ calls'[i].via = calls[i].via
       /\ calls'[i].admitted = calls[i].admitted
       /\ calls'[i].logged => calls[i].logged

LEMMA Removed ==
  ASSUME TypeInv, NEW c \in Callers, Remove(c)
  PROVE  Unlogged /\ InOrder'
<1>1. /\ calls \in Seq(Calls) /\ Len(calls) \in Nat /\ DOMAIN calls = 1..Len(calls)
      /\ \A i \in 1..Len(calls) : calls[i] \in Calls
  BY CallsAt
<1>2. PICK last : calls' = [i \in DOMAIN calls |->
            IF i \in Own(c)..last
            THEN [calls[i] EXCEPT !.logged = FALSE, !.by = @ \ {c}] ELSE calls[i]]
  BY DEF Remove
<1>3. ASSUME NEW e \in Calls
      PROVE  LET r == [e EXCEPT !.logged = FALSE, !.by = @ \ {c}]
             IN  r \in Calls /\ r.age = e.age /\ r.via = e.via /\ r.admitted = e.admitted /\ ~r.logged
  BY DEF Calls
<1>4. ASSUME NEW i \in DOMAIN calls
      PROVE  /\ calls'[i] \in Calls
             /\ calls'[i].age = calls[i].age /\ calls'[i].via = calls[i].via
             /\ calls'[i].admitted = calls[i].admitted
             /\ calls'[i].logged => calls[i].logged
  <2>1. calls'[i] = calls[i] \/ calls'[i] = [calls[i] EXCEPT !.logged = FALSE, !.by = @ \ {c}]
    BY <1>2
  <2>2. calls[i] \in Calls
    BY <1>1
  <2>. QED  BY <1>3, <2>1, <2>2
<1>5. DOMAIN calls' = 1..Len(calls) /\ calls' = [i \in 1..Len(calls) |-> calls'[i]]
  BY <1>1, <1>2
<1>6. calls' \in [1..Len(calls) -> Calls]
  BY <1>1, <1>4, <1>5
<1>7. calls' \in Seq(Calls) /\ Len(calls') = Len(calls)
  BY <1>1, <1>6
<1>8. InOrder'
  BY <1>1, <1>4, <1>5 DEF TypeInv, InOrder
<1>. QED  BY <1>1, <1>4, <1>5, <1>7, <1>8 DEF Unlogged

\* A tick drops the calls that were made a window ago, which are the first ones,
\* and the others grow older.
Aged(old) ==
  /\ old \in 0..Len(calls)
  /\ \A i \in DOMAIN calls : i <= old <=> calls[i].age + 1 >= Window
  /\ calls' \in Seq(Calls) /\ Len(calls') = Len(calls) - old
  /\ DOMAIN calls' = 1..Len(calls) - old
  /\ \A i \in DOMAIN calls' :
       /\ old + i \in DOMAIN calls /\ calls'[i].age = calls[old + i].age + 1
       /\ calls'[i].via = calls[old + i].via /\ calls'[i].admitted = calls[old + i].admitted
       /\ calls'[i].logged = calls[old + i].logged

LEMMA TickAges ==
  ASSUME TypeInv, Tick
  PROVE  InOrder' /\ \E old \in Nat : Aged(old)
<1>. DEFINE S == {i \in DOMAIN calls : calls[i].age + 1 >= Window}
            old == Cardinality(S)
<1>1. /\ calls \in Seq(Calls) /\ Len(calls) \in Nat /\ DOMAIN calls = 1..Len(calls)
      /\ \A i \in 1..Len(calls) : calls[i] \in Calls
  BY CallsAt
<1>2. Window \in Nat \ {0}
  BY LimitsAssumption
<1>3. \A i \in DOMAIN calls : calls[i].age \in 0..Window - 1
  BY <1>1 DEF Calls
<1>4. \A j \in S : \A i \in 1..j : i \in S
  <2>. SUFFICES ASSUME NEW j \in S, NEW i \in 1..j PROVE i \in S
    OBVIOUS
  <2>1. j \in DOMAIN calls /\ i \in DOMAIN calls /\ i <= j
    BY <1>1
  <2>2. calls[j].age <= calls[i].age
    BY <2>1 DEF TypeInv, InOrder
  <2>3. calls[j].age \in 0..Window - 1 /\ calls[i].age \in 0..Window - 1
    BY <1>3, <2>1
  <2>. QED  BY <1>2, <2>1, <2>2, <2>3
<1>5. S = 1..old /\ old \in 0..Len(calls)
  BY <1>1, <1>4, FirstPlaces
<1>6. calls' = [i \in 1..Len(calls) - old |-> [calls[old + i] EXCEPT !.age = @ + 1]]
  BY DEF Tick
<1>7. \A i \in DOMAIN calls : i <= old <=> calls[i].age + 1 >= Window
  BY <1>1, <1>5
<1>. HIDE DEF S, old
<1>8. ASSUME NEW e \in Calls, ~(e.age + 1 >= Window)
      PROVE  LET r == [e EXCEPT !.age = @ + 1]
             IN  /\ r \in Calls /\ r.age = e.age + 1 /\ r.via = e.via
                 /\ r.admitted = e.admitted /\ r.logged = e.logged
  <2>1. e.age + 1 \in 0..Window - 1
    BY <1>2, <1>8 DEF Calls
  <2>. QED  BY <2>1 DEF Calls
<1>9. ASSUME NEW i \in 1..Len(calls) - old
      PROVE  /\ old + i \in DOMAIN calls /\ calls'[i] \in Calls
             /\ calls'[i].age = calls[old + i].age + 1
             /\ calls'[i].via = calls[old + i].via /\ calls'[i].admitted = calls[old + i].admitted
             /\ calls'[i].logged = calls[old + i].logged
  <2>1. old + i \in 1..Len(calls) /\ ~(old + i <= old)
    BY <1>1, <1>5
  <2>2. calls[old + i] \in Calls /\ ~(calls[old + i].age + 1 >= Window)
    BY <1>1, <1>7, <2>1
  <2>3. calls'[i] = [calls[old + i] EXCEPT !.age = @ + 1]
    BY <1>6
  <2>. QED  BY <1>1, <1>8, <2>1, <2>2, <2>3
<1>10. Len(calls) - old \in Nat /\ calls' \in [1..Len(calls) - old -> Calls]
  <2>1. Len(calls) - old \in Nat
    BY <1>1, <1>5
  <2>2. DOMAIN calls' = 1..Len(calls) - old /\ calls' = [i \in 1..Len(calls) - old |-> calls'[i]]
    BY <1>6
  <2>. QED  BY <1>9, <2>1, <2>2
<1>11. /\ calls' \in Seq(Calls) /\ Len(calls') = Len(calls) - old
       /\ DOMAIN calls' = 1..Len(calls) - old
  BY <1>10
<1>12. InOrder'
  <2>. SUFFICES ASSUME NEW i \in DOMAIN calls', NEW j \in DOMAIN calls', i <= j
                PROVE  calls'[j].age <= calls'[i].age
    BY DEF InOrder
  <2>1. old + i \in DOMAIN calls /\ old + j \in DOMAIN calls /\ old + i <= old + j
    BY <1>5, <1>9, <1>11
  <2>2. calls[old + j].age <= calls[old + i].age
    BY <2>1 DEF TypeInv, InOrder
  <2>3. calls[old + j].age \in 0..Window - 1 /\ calls[old + i].age \in 0..Window - 1
    BY <1>3, <2>1
  <2>4. calls'[i].age = calls[old + i].age + 1 /\ calls'[j].age = calls[old + j].age + 1
    BY <1>9, <1>11
  <2>. QED  BY <1>2, <2>2, <2>3, <2>4
<1>13. Aged(old)
  BY <1>1, <1>5, <1>7, <1>9, <1>11 DEF Aged
<1>. QED  BY <1>5, <1>12, <1>13
-----------------------------------------------------------------------------
(* Types *)

CallerStates == [pc : {"idle", "remove", "set", "incr"} \cup InDownload, seen : 0..MaxCount]
Windows == [count : 0..MaxLimit, age : 0..Window]
Records == [violations : 0..5, age : 0..Forget + 1, banned : BOOLEAN, ban : 0..LongBan]
Keys == [count : 0..MaxCount, ttl : 0..Forever]

\* A record says of itself whether it has led to a ban.
Consistent(record) == record \in Records /\ (record.banned <=> record.violations >= 3)

LEMMA Numbers ==
  /\ MaxLimit \in Nat \ {0} /\ Window \in Nat \ {0} /\ TempBan \in Nat \ {0} /\ LongBan \in Nat \ {0}
  /\ Forget \in Nat \ {0} /\ SweepEvery \in Nat \ {0} /\ MaxCalls \in Nat \ {0}
  /\ MaxCount \in Nat \ {0} /\ TempBan <= LongBan
  /\ Loads \subseteq 1..MaxLimit /\ Limits \subseteq 1..MaxLimit
  /\ \A c \in Callers : ProcessOf[c] \in Processes
  /\ "redis" \notin Processes /\ "counter" \notin Processes
BY LimitsAssumption DEF Limits, Processes

LEMMA AfterConsistent ==
  ASSUME NEW record, Consistent(record)
  PROVE  /\ Consistent(After(record))
         /\ After(record).violations < record.violations => record.age > Forget
<1>1. CASE record.violations = 0 \/ record.age > Forget
  <2>1. After(record) = [violations |-> 1, age |-> 0, banned |-> FALSE, ban |-> 0]
    BY <1>1 DEF After, NoRecord
  <2>2. record.violations \in 0..5
    BY DEF Consistent, Records
  <2>. QED  BY <1>1, <2>1, <2>2, Numbers DEF Consistent, Records
<1>2. CASE ~(record.violations = 0 \/ record.age > Forget)
  <2>. DEFINE n == IF record.violations = 5 THEN 5 ELSE record.violations + 1
              ban == CASE n < 3 -> 0 [] n \in {3, 4} -> TempBan [] OTHER -> LongBan
  <2>1. record.violations \in 0..5
    BY DEF Consistent, Records
  <2>2. n \in 1..5 /\ n >= record.violations
    BY <1>2, <2>1
  <2>3. After(record) = [violations |-> n, age |-> 0, banned |-> n >= 3, ban |-> ban]
    BY <1>2 DEF After
  <2>4. ban \in 0..LongBan
    <3>1. CASE n < 3
      BY <3>1, Numbers
    <3>2. CASE n \in {3, 4}
      BY <3>2, Numbers
    <3>3. CASE n = 5
      BY <3>3, Numbers
    <3>. QED  BY <2>2, <3>1, <3>2, <3>3
  <2>. HIDE DEF n, ban
  <2>5. (n >= 3) \in BOOLEAN
    OBVIOUS
  <2>6. After(record) \in Records
    BY <2>2, <2>3, <2>4, <2>5, Numbers DEF Records
  <2>7. After(record).violations = n
    BY <2>3
  <2>8. After(record).banned = (n >= 3)
    BY <2>3
  <2>9. After(record).banned <=> After(record).violations >= 3
    BY <2>7, <2>8
  <2>10. Consistent(After(record))
    BY <2>6, <2>9 DEF Consistent
  <2>11. ~(After(record).violations < record.violations)
    BY <2>1, <2>2, <2>7
  <2>. QED  BY <2>10, <2>11
<1>. QED  BY <1>1, <1>2

\* The sweep drops no record with violations: a ban takes three of them.
LEMMA SweepKeeps ==
  ASSUME NEW record, Consistent(record)
  PROVE  RecordLeft(record) = record
<1>1. record.violations \in 0..5
  BY DEF Consistent, Records
<1>2. ~(record.banned /\ record.violations < 3)
  BY <1>1 DEF Consistent
<1>. QED  BY <1>2 DEF RecordLeft

LEMMA TickConsistent ==
  ASSUME NEW record, Consistent(record)
  PROVE  LET new == IF record.violations = 0 THEN NoRecord
                    ELSE [record EXCEPT !.ban = Down(@), !.age = IF @ > Forget THEN @ ELSE @ + 1]
         IN  Consistent(new) /\ new.violations = record.violations
<1>1. CASE record.violations = 0
  BY <1>1, Numbers DEF Consistent, Records, NoRecord
<1>2. CASE record.violations # 0
  <2>. DEFINE new == [record EXCEPT !.ban = Down(@), !.age = IF @ > Forget THEN @ ELSE @ + 1]
  <2>1. Down(record.ban) \in 0..LongBan
    BY Numbers DEF Down, Consistent, Records
  <2>2. (IF record.age > Forget THEN record.age ELSE record.age + 1) \in 0..Forget + 1
    BY Numbers DEF Consistent, Records
  <2>3. new \in Records /\ new.violations = record.violations /\ new.banned = record.banned
    BY <2>1, <2>2 DEF Consistent, Records
  <2>. QED  BY <1>2, <2>3 DEF Consistent
<1>. QED  BY <1>1, <1>2

LEMMA TypesApart ==
  TypeOK <=> /\ limiter \in Limiters
             /\ caller \in [Callers -> CallerStates]
             /\ calls \in Seq(Calls) /\ Len(calls) <= MaxCalls
             /\ local \in [Processes -> Windows]
             /\ penalty \in [Processes -> Records]
             /\ \A p \in Processes : Consistent(penalty[p])
             /\ sweep \in [Processes -> 0..SweepEvery]
             /\ counter \in Keys
             /\ raced \in BOOLEAN
BY DEF TypeOK, CallerStates, Windows, Records, Keys, Consistent

LEMMA InitTypes ==
  ASSUME Init
  PROVE  TypeInv
<1>1. <<>> \in Seq(Calls) /\ Len(<<>>) = 0 /\ DOMAIN <<>> = {}
  OBVIOUS
<1>2. NoRecord \in Records /\ Consistent(NoRecord) /\ NoWindow \in Windows /\ Idle \in CallerStates
      /\ NoKey \in Keys
  BY Numbers DEF NoRecord, NoWindow, Idle, NoKey, Records, Consistent, Windows, CallerStates, Keys, Forever
<1>3. caller \in [Callers -> CallerStates]
  BY <1>2 DEF Init
<1>4. local \in [Processes -> Windows] /\ penalty \in [Processes -> Records]
      /\ sweep \in [Processes -> 0..SweepEvery] /\ (\A p \in Processes : Consistent(penalty[p]))
  BY <1>2, Numbers DEF Init
<1>5. TypeOK
  <2>1. calls \in Seq(Calls) /\ Len(calls) <= MaxCalls
    BY <1>1, Numbers DEF Init
  <2>2. limiter \in Limiters /\ counter \in Keys /\ raced \in BOOLEAN
    BY <1>2 DEF Init
  <2>. QED  BY <1>3, <1>4, <2>1, <2>2, TypesApart
<1>. QED  BY <1>1, <1>5 DEF Init, TypeInv, InOrder

\* A caller moves on, or a call comes back.
LEMMA CallerMoves ==
  ASSUME TypeInv, NEW c \in Callers
  PROVE  /\ Return(c) => caller' \in [Callers -> CallerStates]
         /\ \A pc \in {"remove", "set", "incr"} \cup InDownload, n \in 0..MaxCount :
              Goto(c, pc, n) => caller' \in [Callers -> CallerStates]
<1>1. caller \in [Callers -> CallerStates]
  BY TypesApart DEF TypeInv
<1>2. Idle \in CallerStates
  BY Numbers DEF Idle, CallerStates
<1>3. ASSUME NEW pc \in {"remove", "set", "incr"} \cup InDownload, NEW n \in 0..MaxCount
      PROVE  [pc |-> pc, seen |-> n] \in CallerStates
  BY DEF CallerStates
<1>. QED  BY <1>1, <1>2, <1>3 DEF Return, Goto

LEMMA RefuseTypes ==
  ASSUME TypeInv, NEW c \in Callers, Refuse(c)
  PROVE  /\ caller' \in [Callers -> CallerStates] /\ penalty' \in [Processes -> Records]
         /\ \A p \in Processes :
              /\ Consistent(penalty'[p])
              /\ penalty'[p].violations < penalty[p].violations => penalty[p].age > Forget
<1>1. caller' \in [Callers -> CallerStates]
  BY CallerMoves DEF Refuse
<1>2. penalty \in [Processes -> Records] /\ (\A p \in Processes : Consistent(penalty[p]))
      /\ ProcessOf[c] \in Processes
  BY TypesApart, Numbers DEF TypeInv
<1>3. \A p \in Processes : ~(penalty[p].violations < penalty[p].violations)
  BY <1>2 DEF Records
<1>4. ASSUME NEW p \in Processes
      PROVE  penalty'[p] = penalty[p] \/ penalty'[p] = After(penalty[p])
  BY <1>2 DEF Refuse
<1>5. \A p \in Processes :
        /\ Consistent(penalty'[p])
        /\ penalty'[p].violations < penalty[p].violations => penalty[p].age > Forget
  BY <1>2, <1>3, <1>4, AfterConsistent
<1>6. penalty' = [p \in Processes |-> penalty'[p]]
  BY <1>2 DEF Refuse
<1>7. \A p \in Processes : penalty'[p] \in Records
  BY <1>5 DEF Consistent
<1>8. penalty' \in [Processes -> Records]
  BY <1>6, <1>7
<1>. QED  BY <1>1, <1>5, <1>8

LEMMA TypesApartNext ==
  ASSUME limiter' \in Limiters, caller' \in [Callers -> CallerStates],
         calls' \in Seq(Calls), Len(calls') <= MaxCalls,
         local' \in [Processes -> Windows], penalty' \in [Processes -> Records],
         \A p \in Processes : Consistent(penalty'[p]), sweep' \in [Processes -> 0..SweepEvery],
         counter' \in Keys, raced' \in BOOLEAN
  PROVE  TypeOK'
BY DEF TypeOK, CallerStates, Windows, Records, Keys, Consistent

\* No record loses violations, unless it is old.
NoneForgotten ==
  \A p \in Processes : penalty'[p].violations < penalty[p].violations => penalty[p].age > Forget

LEMMA SamePenalties ==
  ASSUME TypeInv, penalty' = penalty
  PROVE  /\ penalty' \in [Processes -> Records] /\ NoneForgotten
         /\ \A p \in Processes : Consistent(penalty'[p])
<1>1. penalty \in [Processes -> Records] /\ (\A p \in Processes : Consistent(penalty[p]))
  BY TypesApart DEF TypeInv
<1>2. \A p \in Processes : ~(penalty[p].violations < penalty[p].violations)
  BY <1>1 DEF Records
<1>. QED  BY <1>1, <1>2 DEF NoneForgotten

\* The calls stay as they are, or one is appended to less than MaxCalls.
LEMMA CallsTyped ==
  ASSUME TypeInv,
         \/ calls' = calls
         \/ Len(calls) < MaxCalls /\ \E e \in Calls : e.age = 0 /\ calls' = Append(calls, e)
  PROVE  calls' \in Seq(Calls) /\ Len(calls') <= MaxCalls /\ InOrder'
<1>1. CASE calls' = calls
  BY <1>1, TypesApart DEF TypeInv, InOrder
<1>2. CASE Len(calls) < MaxCalls /\ \E e \in Calls : e.age = 0 /\ calls' = Append(calls, e)
  <2>1. calls' \in Seq(Calls) /\ Len(calls') = Len(calls) + 1 /\ InOrder'
    BY <1>2, Appended
  <2>2. Len(calls) < MaxCalls
    BY <1>2
  <2>3. Len(calls) + 1 <= MaxCalls
    BY <2>2, CallsAt, Numbers
  <2>. QED  BY <2>1, <2>3
<1>. QED  BY <1>1, <1>2

LEMMA CheckTypes ==
  ASSUME TypeInv, NEW c \in Callers, Check(c)
  PROVE  TypeInv' /\ NoneForgotten
<1>1. PICK limit \in Limits : /\ calls' = Append(calls, Call(c, "redis", Room(limit)))
                              /\ IF Room(limit) THEN Return(c) ELSE Goto(c, "remove", 0)
  BY DEF Check
<1>2. Room(limit) \in BOOLEAN
  BY DEF Room
<1>3. Call(c, "redis", Room(limit)) \in Calls /\ Call(c, "redis", Room(limit)).age = 0
  BY <1>2, CallType DEF Call
<1>4. calls' \in Seq(Calls) /\ Len(calls') <= MaxCalls /\ InOrder'
  BY <1>1, <1>3, CallsTyped DEF Check, Asks
<1>5. caller' \in [Callers -> CallerStates]
  BY <1>1, CallerMoves, Numbers
<1>6. UNCHANGED <<limiter, local, penalty, sweep, counter, raced>>
  BY DEF Check
<1>. QED  BY <1>4, <1>5, <1>6, SamePenalties, TypesApart, TypesApartNext DEF TypeInv

LEMMA RemoveTypes ==
  ASSUME TypeInv, NEW c \in Callers, Remove(c)
  PROVE  TypeInv' /\ NoneForgotten
<1>1. calls' \in Seq(Calls) /\ Len(calls') <= MaxCalls /\ InOrder'
  BY Removed, TypesApart DEF Unlogged, TypeInv
<1>2. UNCHANGED <<limiter, local, sweep, counter, raced>> /\ Refuse(c)
  BY DEF Remove
<1>. QED  BY <1>1, <1>2, RefuseTypes, TypesApart, TypesApartNext DEF TypeInv, NoneForgotten

\* The fixed window counts no further than the largest limit.
LEMMA LocalTypes ==
  ASSUME TypeInv, NEW p \in Processes, NEW limit \in Limits, limiter = "basic", LocalRoom(p, limit)
  PROVE  [local EXCEPT ![p] = LocalAfter(@)] \in [Processes -> Windows]
<1>1. local \in [Processes -> Windows] /\ local[p].count \in 0..MaxLimit /\ local[p].age \in 0..Window
  BY TypesApart DEF TypeInv, Windows
<1>2. limit = MaxLimit
  BY DEF Limits
<1>3. LocalAfter(local[p]) \in Windows
  <2>1. CASE local[p].count = 0 \/ local[p].age >= Window
    BY <2>1, Numbers DEF LocalAfter, Windows
  <2>2. CASE ~(local[p].count = 0 \/ local[p].age >= Window)
    <3>1. local[p].count + 1 \in 0..MaxLimit
      BY <1>1, <1>2, <2>2, Numbers DEF LocalRoom
    <3>. QED  BY <1>1, <2>2, <3>1 DEF LocalAfter, Windows
  <2>. QED  BY <2>1, <2>2
<1>. QED  BY <1>1, <1>3

LEMMA CheckLocalTypes ==
  ASSUME TypeInv, NEW c \in Callers, CheckLocal(c)
  PROVE  TypeInv' /\ NoneForgotten
<1>. DEFINE p == ProcessOf[c]
<1>1. p \in Processes /\ Len(calls) < MaxCalls
  BY Numbers DEF CheckLocal, Asks
<1>2. UNCHANGED <<limiter, sweep, counter, raced>>
  BY DEF CheckLocal
<1>3. ASSUME NEW limit \in Limits, LocalRoom(p, limit), calls' = Append(calls, Call(c, p, TRUE)),
             local' = IF limiter = "basic" THEN [local EXCEPT ![p] = LocalAfter(@)] ELSE local,
             Return(c), UNCHANGED penalty
      PROVE  TypeInv' /\ NoneForgotten
  <2>1. Call(c, p, TRUE) \in Calls /\ Call(c, p, TRUE).age = 0
    BY <1>1, CallType DEF Call
  <2>2. calls' \in Seq(Calls) /\ Len(calls') <= MaxCalls /\ InOrder'
    BY <1>1, <1>3, <2>1, CallsTyped
  <2>3. local' \in [Processes -> Windows]
    BY <1>1, <1>3, LocalTypes, TypesApart DEF TypeInv
  <2>4. caller' \in [Callers -> CallerStates]
    BY <1>3, CallerMoves
  <2>. QED  BY <1>2, <1>3, <2>2, <2>3, <2>4, SamePenalties, TypesApart, TypesApartNext DEF TypeInv
<1>4. ASSUME Refuse(c), UNCHANGED <<calls, local>>
      PROVE  TypeInv' /\ NoneForgotten
  <2>1. calls' \in Seq(Calls) /\ Len(calls') <= MaxCalls /\ InOrder'
    BY <1>4, CallsTyped
  <2>. QED  BY <1>2, <1>4, <2>1, RefuseTypes, TypesApart, TypesApartNext DEF TypeInv, NoneForgotten
<1>. QED  BY <1>3, <1>4 DEF CheckLocal

LEMMA SweepTypes ==
  ASSUME TypeInv, NEW p \in Processes, Sweep(p)
  PROVE  TypeInv' /\ NoneForgotten
<1>1. local \in [Processes -> Windows] /\ penalty \in [Processes -> Records]
      /\ sweep \in [Processes -> 0..SweepEvery] /\ Consistent(penalty[p])
  BY TypesApart DEF TypeInv
<1>2. sweep' \in [Processes -> 0..SweepEvery]
  BY <1>1, Numbers DEF Sweep
<1>3. local' \in [Processes -> Windows]
  <2>1. WindowLeft(local[p]) \in Windows
    BY <1>1, Numbers DEF WindowLeft, NoWindow, Windows
  <2>. QED  BY <1>1, <2>1 DEF Sweep
<1>4. penalty' = penalty
  BY <1>1, SweepKeeps DEF Sweep
<1>5. UNCHANGED <<limiter, caller, calls, counter, raced>>
  BY DEF Sweep
<1>6. calls' \in Seq(Calls) /\ Len(calls') <= MaxCalls /\ InOrder'
  BY <1>5, CallsTyped
<1>. QED  BY <1>2, <1>3, <1>4, <1>5, <1>6, SamePenalties, TypesApart, TypesApartNext DEF TypeInv

LEMMA CounterNumbers ==
  ASSUME TypeInv, NEW c \in Callers
  PROVE  /\ counter.count \in 0..MaxCount /\ counter.ttl \in 0..Forever
         /\ caller[c].seen \in 0..MaxCount
         /\ \A n \in 0..MaxCount : [count |-> n, ttl |-> Window] \in Keys
BY TypesApart, Numbers DEF TypeInv, Keys, CallerStates, Forever

LEMMA CountersTypes ==
  ASSUME TypeInv, NEW c \in Callers,
         \/ ReadCounter(c) \/ CountCall(c)
         \/ StartDownload(c) \/ ExpireActive(c) \/ ReadActive(c) \/ WriteActive(c) \/ LeaveActive(c)
  PROVE  TypeInv' /\ NoneForgotten
<1>1. UNCHANGED <<limiter, local, penalty, sweep>>
  BY DEF ReadCounter, CountCall, StartDownload, ExpireActive, ReadActive, WriteActive, LeaveActive
<1>2. calls' \in Seq(Calls) /\ Len(calls') <= MaxCalls /\ InOrder'
  <2>1. CASE CountCall(c)
    <3>1. Call(c, "counter", TRUE) \in Calls /\ Call(c, "counter", TRUE).age = 0
      BY CallType DEF Call
    <3>. QED  BY <2>1, <3>1, CallsTyped DEF CountCall
  <2>2. CASE ~CountCall(c)
    BY <2>2, CallsTyped DEF ReadCounter, StartDownload, ExpireActive, ReadActive, WriteActive, LeaveActive
  <2>. QED  BY <2>1, <2>2
<1>3. caller' \in [Callers -> CallerStates]
  <2>1. counter.count \in 0..MaxCount /\ 0 \in 0..MaxCount /\ 1 \in 0..MaxCount
    BY CounterNumbers, Numbers
  <2>2. CASE Return(c)
    BY <2>2, CallerMoves
  <2>3. CASE ~Return(c)
    <3>1. PICK pc \in {"remove", "set", "incr"} \cup InDownload, n \in 0..MaxCount :
            Goto(c, pc, n)
      BY <2>1, <2>3 DEF ReadCounter, CountCall, StartDownload, ExpireActive, ReadActive, WriteActive, LeaveActive, InDownload
    <3>. QED  BY <3>1, CallerMoves
  <2>. QED  BY <2>2, <2>3
<1>4. counter' \in Keys
  <2>1. counter \in Keys
    BY TypesApart DEF TypeInv
  <2>2. CASE ReadCounter(c) \/ ReadActive(c) \/ LeaveActive(c)
    BY <2>1, <2>2 DEF ReadCounter, ReadActive, LeaveActive
  <2>3. CASE CountCall(c)
    <3>1. counter.count + 1 \in 0..MaxCount /\ 1 \in 0..MaxCount
      BY <2>3, CounterNumbers, Numbers DEF CountCall
    <3>2. (IF Missing THEN Forever ELSE counter.ttl) \in 0..Forever
      BY CounterNumbers, Numbers DEF Forever
    <3>3. [count |-> counter.count + 1, ttl |-> IF Missing THEN Forever ELSE counter.ttl] \in Keys
      BY <3>1, <3>2 DEF Keys
    <3>. QED  BY <2>3, <3>1, <3>3, CounterNumbers DEF CountCall, SetKey, Increment
  <2>4. CASE StartDownload(c)
    <3>1. counter.count + 1 \in 0..MaxCount
      BY <2>4, CounterNumbers, Numbers DEF StartDownload
    <3>2. (IF Missing THEN Forever ELSE counter.ttl) \in 0..Forever
      BY CounterNumbers, Numbers DEF Forever
    <3>3. [count |-> counter.count + 1, ttl |-> IF Missing THEN Forever ELSE counter.ttl] \in Keys
      BY <3>1, <3>2 DEF Keys
    <3>. QED  BY <2>1, <2>4, <3>3 DEF StartDownload, Increment
  <2>6. CASE ExpireActive(c)
    <3>1. [counter EXCEPT !.ttl = Window] \in Keys
      BY <2>1, Numbers DEF Keys, Forever
    <3>. QED  BY <2>1, <2>6, <3>1 DEF ExpireActive
  <2>5. CASE WriteActive(c)
    <3>1. (IF caller[c].seen = 0 THEN 0 ELSE caller[c].seen - 1) \in 0..MaxCount
      BY CounterNumbers, Numbers
    <3>. QED  BY <2>5, <3>1, CounterNumbers DEF WriteActive, SetKey
  <2>. QED  BY <2>2, <2>3, <2>4, <2>5, <2>6
<1>5. raced' \in BOOLEAN
  <2>1. raced \in BOOLEAN
    BY TypesApart DEF TypeInv
  <2>. QED  BY <2>1 DEF ReadCounter, CountCall, StartDownload, ExpireActive, ReadActive, WriteActive, LeaveActive, Overtaken
<1>. QED  BY <1>1, <1>2, <1>3, <1>4, <1>5, SamePenalties, TypesApart, TypesApartNext DEF TypeInv

\* A key without a time to live stays, another one has a tick less or is gone.
LEMMA KeyAges ==
  ASSUME TypeInv, Tick
  PROVE  \/ counter.ttl = Forever /\ counter' = counter
         \/ counter.ttl \in {0, 1} /\ counter' = NoKey
         \/ counter.ttl \notin {0, 1, Forever} /\ counter' = [counter EXCEPT !.ttl = @ - 1]
<1>1. counter' = CASE counter.ttl = Forever -> counter
                   [] counter.ttl \in {0, 1} -> NoKey
                   [] OTHER -> [counter EXCEPT !.ttl = @ - 1]
  BY DEF Tick
<1>2. Forever \notin {0, 1}
  BY Numbers DEF Forever
<1>. QED  BY <1>1, <1>2

LEMMA TickTypes ==
  ASSUME TypeInv, Tick
  PROVE  TypeInv' /\ NoneForgotten
<1>1. /\ local \in [Processes -> Windows] /\ penalty \in [Processes -> Records]
      /\ sweep \in [Processes -> 0..SweepEvery] /\ (\A p \in Processes : Consistent(penalty[p]))
      /\ counter \in Keys /\ raced \in BOOLEAN /\ Len(calls) <= MaxCalls
  BY TypesApart DEF TypeInv
<1>2. calls' \in Seq(Calls) /\ Len(calls') <= MaxCalls /\ InOrder'
  <2>1. PICK old \in Nat : Aged(old)
    BY TickAges
  <2>2. old \in 0..Len(calls) /\ Len(calls') = Len(calls) - old /\ calls' \in Seq(Calls)
    BY <2>1 DEF Aged
  <2>. QED  BY <1>1, <2>2, TickAges, CallsAt, Numbers
<1>3. local' \in [Processes -> Windows]
  <2>1. ASSUME NEW w \in Windows
        PROVE  (IF w.count = 0 \/ w.age = Window THEN w ELSE [w EXCEPT !.age = @ + 1]) \in Windows
    BY Numbers DEF Windows
  <2>. QED  BY <1>1, <2>1 DEF Tick
<1>4. \A p \in Processes : Consistent(penalty'[p]) /\ penalty'[p].violations = penalty[p].violations
  <2>. SUFFICES ASSUME NEW p \in Processes
                PROVE  Consistent(penalty'[p]) /\ penalty'[p].violations = penalty[p].violations
    OBVIOUS
  <2>. DEFINE record == penalty[p]
  <2>1. penalty'[p] = IF record.violations = 0 THEN NoRecord
                      ELSE [record EXCEPT !.ban = Down(@), !.age = IF @ > Forget THEN @ ELSE @ + 1]
    BY DEF Tick
  <2>2. Consistent(record)
    BY <1>1
  <2>. QED  BY <2>1, <2>2, TickConsistent
<1>5. penalty' \in [Processes -> Records] /\ NoneForgotten
  <2>1. penalty' = [p \in Processes |-> penalty'[p]]
    BY DEF Tick
  <2>2. \A p \in Processes : penalty'[p] \in Records
    BY <1>4 DEF Consistent
  <2>3. \A p \in Processes : ~(penalty'[p].violations < penalty[p].violations)
    <3>1. \A p \in Processes : penalty[p].violations \in 0..5
      BY <1>1 DEF Records
    <3>. QED  BY <1>4, <3>1
  <2>4. penalty' \in [Processes -> Records]
    BY <2>1, <2>2
  <2>. QED  BY <2>3, <2>4 DEF NoneForgotten
<1>6. sweep' \in [Processes -> 0..SweepEvery]
  <2>1. \A p \in Processes : sweep[p] > 0
    BY DEF Tick
  <2>2. \A p \in Processes : sweep[p] - 1 \in 0..SweepEvery
    BY <1>1, <2>1, Numbers
  <2>3. sweep' = IF limiter \in {"advanced", "basic"} THEN [p \in Processes |-> sweep[p] - 1] ELSE sweep
    BY DEF Tick
  <2>. QED  BY <1>1, <2>2, <2>3
<1>7. counter' \in Keys
  <2>1. counter.count \in 0..MaxCount /\ counter.ttl \in 0..Forever
    BY <1>1 DEF Keys
  <2>2. NoKey \in Keys
    BY Numbers DEF NoKey, Keys, Forever
  <2>3. counter.ttl \notin {0, 1} => [counter EXCEPT !.ttl = @ - 1] \in Keys
    BY <1>1, <2>1, Numbers DEF Keys, Forever
  <2>. QED  BY <1>1, <2>2, <2>3, KeyAges
<1>8. raced' \in BOOLEAN /\ limiter' = limiter /\ caller' = caller
  BY <1>1 DEF Tick
<1>. QED  BY <1>2, <1>3, <1>4, <1>5, <1>6, <1>7, <1>8, TypesApart, TypesApartNext DEF TypeInv

LEMMA TypeStep ==
  ASSUME TypeInv, [Next]_vars
  PROVE  TypeInv' /\ NoneForgotten
<1>1. CASE UNCHANGED vars
  <2>1. TypeInv'
    BY <1>1 DEF vars, TypeInv, TypeOK, InOrder, At
  <2>. QED  BY <1>1, <2>1, SamePenalties DEF vars
<1>2. CASE \E c \in Callers : Step(c)
  BY <1>2, CheckTypes, RemoveTypes, CheckLocalTypes, CountersTypes DEF Step
<1>3. CASE \E p \in Processes : Sweep(p)
  BY <1>3, SweepTypes
<1>4. CASE Tick
  BY <1>4, TickTypes
<1>. QED  BY <1>1, <1>2, <1>3, <1>4 DEF Next

-----------------------------------------------------------------------------
(* What a window admits *)

LEMMA CountsFinite ==
  ASSUME TypeInv
  PROVE  /\ Granted \in SUBSET (1..Len(calls)) /\ Cardinality(Granted) \in Nat
         /\ Log \in SUBSET (1..Len(calls)) /\ Cardinality(Log) \in Nat
         /\ Cardinality(Granted) <= Cardinality(Log)
         /\ \A via : Admitted(via) \in SUBSET (1..Len(calls)) /\ Cardinality(Admitted(via)) \in Nat
<1>1. Len(calls) \in Nat /\ DOMAIN calls = 1..Len(calls)
  BY CallsAt
<1>2. /\ Granted \in SUBSET (1..Len(calls)) /\ Log \in SUBSET (1..Len(calls))
      /\ Granted \in SUBSET Log /\ \A via : Admitted(via) \in SUBSET (1..Len(calls))
  BY <1>1 DEF Granted, Log, Admitted
<1>3. \A S \in SUBSET (1..Len(calls)) : IsFiniteSet(S) /\ Cardinality(S) \in Nat
  BY <1>1, PlacesFinite
<1>4. Cardinality(Granted) <= Cardinality(Log)
  BY <1>2, <1>3, FS_Subset
<1>. QED  BY <1>2, <1>3, <1>4

\* A call appended is one more at most where it counts.
LEMMA AdmittedAppended ==
  ASSUME TypeInv, NEW e \in Calls, e.age = 0, calls' = Append(calls, e)
  PROVE  /\ Granted' = IF e.admitted /\ e.via = "redis" /\ e.logged
                       THEN Granted \cup {Len(calls) + 1} ELSE Granted
         /\ \A via : Admitted(via)' = IF e.admitted /\ e.via = via
                                      THEN Admitted(via) \cup {Len(calls) + 1} ELSE Admitted(via)
<1>1. /\ DOMAIN calls' = 1..Len(calls) + 1 /\ calls'[Len(calls) + 1] = e
      /\ \A i \in 1..Len(calls) : calls'[i] = calls[i]
  BY Appended
<1>2. Len(calls) \in Nat /\ DOMAIN calls = 1..Len(calls)
  BY CallsAt
<1>3. 1..Len(calls) + 1 = 1..Len(calls) \cup {Len(calls) + 1} /\ Len(calls) + 1 \notin 1..Len(calls)
  BY <1>2
<1>. QED  BY <1>1, <1>2, <1>3 DEF Granted, Admitted

LEMMA CheckWindow ==
  ASSUME TypeInv, WindowInv, NEW c \in Callers, Check(c)
  PROVE  WindowInv'
<1>1. PICK limit \in Limits : calls' = Append(calls, Call(c, "redis", Room(limit)))
  BY DEF Check
<1>. DEFINE e == Call(c, "redis", Room(limit))
<1>2. e \in Calls /\ e.age = 0 /\ e.via = "redis" /\ (e.admitted <=> Room(limit))
  <2>1. Room(limit) \in BOOLEAN
    BY DEF Room
  <2>2. e \in Calls
    BY <2>1, CallType
  <2>. QED  BY <2>1, <2>2 DEF Call
<1>. HIDE DEF e
<1>3. limiter' = limiter
  BY DEF Check
<1>4. Cardinality(Granted') <= MaxLimit
  <2>1. CASE Room(limit)
    <3>1. Cardinality(Granted) + 1 <= MaxLimit
      BY <2>1, CountsFinite, Numbers DEF Room
    <3>2. Cardinality(Granted \cup {Len(calls) + 1}) = Cardinality(Granted) + 1
      BY CallsAt, CountsFinite, NextPlace
    <3>3. Granted' = Granted \cup {Len(calls) + 1} \/ Granted' = Granted
      BY <1>1, <1>2, AdmittedAppended DEF e
    <3>. QED  BY <3>1, <3>2, <3>3 DEF WindowInv
  <2>2. CASE ~Room(limit)
    <3>1. Granted' = Granted
      BY <1>1, <1>2, <2>2, AdmittedAppended DEF e
    <3>. QED  BY <3>1 DEF WindowInv
  <2>. QED  BY <2>1, <2>2
<1>5. \A p \in Processes : Admitted(p)' = Admitted(p)
  BY <1>1, <1>2, Numbers, AdmittedAppended DEF e
<1>. QED  BY <1>3, <1>4, <1>5 DEF WindowInv

LEMMA CheckLocalWindow ==
  ASSUME TypeInv, WindowInv, NEW c \in Callers, CheckLocal(c)
  PROVE  WindowInv'
<1>. DEFINE p == ProcessOf[c]
            e == Call(c, p, TRUE)
<1>1. limiter' = limiter
  BY DEF CheckLocal
<1>2. CASE calls' = calls
  BY <1>1, <1>2 DEF WindowInv, Granted, Admitted
<1>3. ASSUME NEW limit \in Limits, LocalRoom(p, limit), calls' = Append(calls, e)
      PROVE  WindowInv'
  <2>1. p \in Processes /\ p # "redis"
    BY Numbers
  <2>2. e \in Calls /\ e.age = 0 /\ e.via = p /\ e.admitted
    BY <2>1, CallType DEF Call
  <2>. HIDE DEF e
  <2>3. Granted' = Granted
    BY <1>3, <2>1, <2>2, AdmittedAppended
  <2>4. ASSUME NEW q \in Processes, limiter = "advanced"
        PROVE  Cardinality(Admitted(q)') <= MaxLimit
    <3>1. CASE q # p
      <4>1. Admitted(q)' = Admitted(q)
        BY <1>3, <2>2, <3>1, AdmittedAppended
      <4>. QED  BY <2>4, <4>1 DEF WindowInv
    <3>2. CASE q = p
      <4>1. Admitted(p)' = Admitted(p) \cup {Len(calls) + 1}
        BY <1>3, <2>2, AdmittedAppended
      <4>2. Cardinality(Admitted(p)) + 1 <= MaxLimit
        <5>1. Cardinality(Admitted(p)) < limit
          BY <1>3, <2>4 DEF LocalRoom
        <5>. QED  BY <5>1, CountsFinite, Numbers
      <4>3. Cardinality(Admitted(p) \cup {Len(calls) + 1}) = Cardinality(Admitted(p)) + 1
        BY CallsAt, CountsFinite, NextPlace
      <4>. QED  BY <3>2, <4>1, <4>2, <4>3
    <3>. QED  BY <3>1, <3>2
  <2>. QED  BY <1>1, <2>3, <2>4 DEF WindowInv
<1>. QED  BY <1>2, <1>3 DEF CheckLocal

LEMMA CountCallWindow ==
  ASSUME TypeInv, WindowInv, NEW c \in Callers, CountCall(c)
  PROVE  WindowInv'
<1>. DEFINE e == Call(c, "counter", TRUE)
<1>1. e \in Calls /\ e.age = 0 /\ e.via = "counter" /\ calls' = Append(calls, e) /\ limiter' = limiter
  BY CallType DEF Call, CountCall
<1>. HIDE DEF e
<1>2. Granted' = Granted /\ \A p \in Processes : Admitted(p)' = Admitted(p)
  BY <1>1, Numbers, AdmittedAppended
<1>. QED  BY <1>1, <1>2 DEF WindowInv

\* A removal may take from Granted, and leaves the others alone.
LEMMA RemoveWindow ==
  ASSUME TypeInv, WindowInv, NEW c \in Callers, Remove(c)
  PROVE  WindowInv'
<1>1. Unlogged /\ limiter' = limiter
  BY Removed DEF Remove
<1>2. Granted' \in SUBSET Granted
  BY <1>1 DEF Unlogged, Granted, Admitted
<1>3. \A via : Admitted(via)' = Admitted(via)
  BY <1>1 DEF Unlogged, Admitted
<1>4. IsFiniteSet(Granted)
  BY CallsAt, CountsFinite, PlacesFinite
<1>5. Cardinality(Granted') <= Cardinality(Granted) /\ Cardinality(Granted') \in Nat
  BY <1>2, <1>4, FS_Subset, FS_CardinalityType
<1>. QED  BY <1>1, <1>3, <1>5, CountsFinite, Numbers DEF WindowInv

LEMMA TickWindow ==
  ASSUME TypeInv, WindowInv, Tick
  PROVE  WindowInv'
<1>1. PICK old \in Nat : Aged(old)
  BY TickAges
<1>2. Len(calls) \in Nat /\ DOMAIN calls = 1..Len(calls)
  BY CallsAt
<1>3. DOMAIN calls' \in SUBSET (1..Len(calls))
  BY <1>1, <1>2 DEF Aged
<1>4. /\ Granted' \in SUBSET (1..Len(calls)) /\ \A i \in Granted' : old + i \in Granted
  BY <1>1, <1>3 DEF Aged, Granted, Admitted
<1>5. \A via : /\ Admitted(via)' \in SUBSET (1..Len(calls))
               /\ \A i \in Admitted(via)' : old + i \in Admitted(via)
  BY <1>1, <1>3 DEF Aged, Admitted
<1>6. Cardinality(Granted') <= Cardinality(Granted) /\ Cardinality(Granted') \in Nat
  BY <1>2, <1>4, CountsFinite, MovedPlaces, PlacesFinite
<1>7. \A via : /\ Cardinality(Admitted(via)') <= Cardinality(Admitted(via))
               /\ Cardinality(Admitted(via)') \in Nat
  BY <1>2, <1>5, CountsFinite, MovedPlaces, PlacesFinite
<1>8. limiter' = limiter
  BY DEF Tick
<1>9. Cardinality(Granted') <= MaxLimit
  BY <1>6, CountsFinite, Numbers DEF WindowInv
<1>10. ASSUME NEW p \in Processes, limiter = "advanced" PROVE Cardinality(Admitted(p)') <= MaxLimit
  BY <1>7, <1>10, CountsFinite, Numbers DEF WindowInv
<1>. QED  BY <1>8, <1>9, <1>10 DEF WindowInv

LEMMA WindowStep ==
  ASSUME TypeInv, WindowInv, [Next]_vars
  PROVE  WindowInv'
<1>1. CASE UNCHANGED <<calls, limiter>>
  BY <1>1 DEF WindowInv, Granted, Admitted
<1>2. CASE \E c \in Callers : Step(c)
  BY <1>1, <1>2, CheckWindow, RemoveWindow, CheckLocalWindow, CountCallWindow
     DEF Step, ReadCounter, StartDownload, ExpireActive, ReadActive, WriteActive, LeaveActive
<1>3. CASE (\E p \in Processes : Sweep(p)) \/ UNCHANGED vars
  BY <1>1, <1>3 DEF Sweep, vars
<1>4. CASE Tick
  BY <1>4, TickWindow
<1>. QED  BY <1>2, <1>3, <1>4 DEF Next

-----------------------------------------------------------------------------
(* The counters *)

\* Where a caller may be with each limiter, and what it has read there.
PcInv ==
  \A c \in Callers :
    /\ At(c, "remove") => limiter \in {"advanced", "basic"}
    /\ At(c, "set") \/ At(c, "incr") => limiter = "counter"
    /\ caller[c].pc \in InDownload => limiter = "active"
    /\ At(c, "set") => caller[c].seen = 0
    /\ At(c, "incr") => caller[c].seen \in 1..MaxLimit - 1

\* Whether check_rate_limit finds a value says whether there is a key.
KeyInv ==
  /\ Missing => counter.count = 0
  /\ limiter = "counter" /\ ~Missing => counter.count >= 1

\* The calls admitted since the key was set, and the downloads running.
Since(ttl) == {i \in DOMAIN calls : calls[i].via = "counter" /\ calls[i].age <= Window - ttl}
Running == {c \in Callers : ~At(c, "idle")}

ExactInv ==
  ~raced =>
    /\ limiter = "counter" =>
         /\ counter.ttl <= Window
         /\ counter.count <= MaxLimit
         /\ Missing => \A i \in DOMAIN calls : calls[i].via = "counter" => calls[i].age # 0
         /\ ~Missing => counter.count = Cardinality(Since(counter.ttl))
    /\ limiter = "active" => counter.count = Cardinality(Running)

CounterInv == PcInv /\ KeyInv /\ ExactInv

LEMMA CounterFacts ==
  ASSUME TypeInv
  PROVE  /\ caller \in [Callers -> CallerStates]
         /\ counter \in Keys /\ counter.count \in Nat /\ counter.ttl \in Nat /\ raced \in BOOLEAN
         /\ Len(calls) \in Nat /\ DOMAIN calls = 1..Len(calls)
         /\ \A i \in DOMAIN calls : calls[i].age \in 0..Window - 1
         /\ \A ttl : Since(ttl) \in SUBSET (1..Len(calls)) /\ Cardinality(Since(ttl)) \in Nat
         /\ IsFiniteSet(Running) /\ Cardinality(Running) \in Nat
         /\ NoKey = [count |-> 0, ttl |-> 0] /\ MaxLimit \in Nat \ {0} /\ Window \in Nat \ {0}
<1>1. /\ caller \in [Callers -> CallerStates] /\ counter \in Keys /\ raced \in BOOLEAN
  BY TypesApart DEF TypeInv
<1>2. counter.count \in Nat /\ counter.ttl \in Nat
  BY <1>1, Numbers DEF Keys, Forever
<1>3. Len(calls) \in Nat /\ DOMAIN calls = 1..Len(calls) /\ \A i \in 1..Len(calls) : calls[i] \in Calls
  BY CallsAt
<1>4. \A i \in DOMAIN calls : calls[i].age \in 0..Window - 1
  BY <1>3 DEF Calls
<1>5. \A ttl : Since(ttl) \in SUBSET (1..Len(calls))
  BY <1>3 DEF Since
<1>6. \A ttl : Cardinality(Since(ttl)) \in Nat
  BY <1>3, <1>5, PlacesFinite
<1>7. IsFiniteSet(Running) /\ Cardinality(Running) \in Nat
  <2>1. Running \in SUBSET Callers
    BY DEF Running
  <2>. QED  BY <2>1, LimitsAssumption, FS_Subset, FS_CardinalityType
<1>. QED  BY <1>1, <1>2, <1>3, <1>4, <1>5, <1>6, <1>7, Numbers DEF NoKey

\* Where a caller goes, the others stay.
LEMMA Moves ==
  ASSUME TypeInv, NEW c \in Callers
  PROVE  /\ Return(c) => \A d \in Callers : caller'[d] = IF d = c THEN Idle ELSE caller[d]
         /\ \A pc, n : Goto(c, pc, n) =>
              \A d \in Callers : caller'[d] = IF d = c THEN [pc |-> pc, seen |-> n] ELSE caller[d]
BY CounterFacts DEF Return, Goto

LEMMA ReturnPc ==
  ASSUME TypeInv, PcInv, NEW c \in Callers, Return(c), limiter' = limiter
  PROVE  PcInv' /\ Running' = Running \ {c}
<1>1. \A d \in Callers : caller'[d] = IF d = c THEN Idle ELSE caller[d]
  BY Moves
<1>2. Idle.pc = "idle"
  BY DEF Idle
<1>. QED  BY <1>1, <1>2 DEF PcInv, At, Running, InDownload

LEMMA GotoPc ==
  ASSUME TypeInv, PcInv, NEW c \in Callers, NEW pc, NEW n, Goto(c, pc, n), limiter' = limiter,
         \/ pc = "remove" /\ limiter \in {"advanced", "basic"}
         \/ pc = "set" /\ limiter = "counter" /\ n = 0
         \/ pc = "incr" /\ limiter = "counter" /\ n \in 1..MaxLimit - 1
         \/ pc \in InDownload /\ limiter = "active"
  PROVE  PcInv' /\ Running' = Running \cup {c}
<1>1. \A d \in Callers : caller'[d] = IF d = c THEN [pc |-> pc, seen |-> n] ELSE caller[d]
  BY Moves
<1>2. [pc |-> pc, seen |-> n].pc = pc /\ [pc |-> pc, seen |-> n].seen = n
  OBVIOUS
<1>3. PcInv'
  BY <1>1, <1>2 DEF PcInv, At, InDownload
<1>4. Running' = Running \cup {c}
  BY <1>1, <1>2 DEF Running, At, InDownload
<1>. QED  BY <1>3, <1>4

\* With the sliding limiters there is nothing to count.
LEMMA SlidingCounter ==
  ASSUME TypeInv, CounterInv, NEW c \in Callers, Check(c) \/ Remove(c) \/ CheckLocal(c)
  PROVE  CounterInv'
<1>1. limiter \in {"advanced", "basic"}
  BY DEF CounterInv, PcInv, Check, Remove, CheckLocal, Asks
<1>2. limiter' = limiter /\ counter' = counter /\ raced' = raced
  BY DEF Check, Remove, CheckLocal
<1>3. Return(c) \/ Goto(c, "remove", 0)
  BY DEF Check, Remove, CheckLocal, Refuse
<1>4. PcInv'
  BY <1>1, <1>2, <1>3, ReturnPc, GotoPc DEF CounterInv
<1>5. KeyInv' /\ ExactInv'
  BY <1>1, <1>2 DEF CounterInv, KeyInv, ExactInv, Missing
<1>. QED  BY <1>4, <1>5 DEF CounterInv

LEMMA ReadCounterStep ==
  ASSUME TypeInv, CounterInv, NEW c \in Callers, ReadCounter(c)
  PROVE  CounterInv'
<1>1. limiter = "counter" /\ UNCHANGED <<limiter, calls, counter, raced>>
  BY DEF ReadCounter
<1>2. Goto(c, IF Missing THEN "set" ELSE "incr", counter.count)
  BY DEF ReadCounter
<1>3. PcInv'
  <2>1. CASE Missing
    BY <1>1, <1>2, <2>1, GotoPc DEF CounterInv, KeyInv
  <2>2. CASE ~Missing
    <3>1. counter.count \in 1..MaxLimit - 1
      BY <1>1, <2>2, CounterFacts DEF CounterInv, KeyInv, ReadCounter
    <3>. QED  BY <1>1, <1>2, <2>2, <3>1, GotoPc DEF CounterInv
  <2>. QED  BY <2>1, <2>2
<1>4. KeyInv' /\ ExactInv'
  BY <1>1 DEF CounterInv, KeyInv, ExactInv, Missing, Since
<1>. QED  BY <1>3, <1>4 DEF CounterInv

LEMMA CountCallStep ==
  ASSUME TypeInv, CounterInv, NEW c \in Callers, CountCall(c)
  PROVE  CounterInv'
<1>. DEFINE e == Call(c, "counter", TRUE)
<1>1. /\ limiter = "counter" /\ limiter' = limiter /\ Return(c)
      /\ raced' = Overtaken(c) /\ calls' = Append(calls, e)
  BY DEF CounterInv, PcInv, CountCall
<1>2. e \in Calls /\ e.age = 0 /\ e.via = "counter"
  BY CallType DEF Call
<1>. HIDE DEF e
<1>3. PcInv'
  BY <1>1, ReturnPc DEF CounterInv
<1>4. /\ DOMAIN calls' = 1..Len(calls) + 1 /\ calls'[Len(calls) + 1] = e
      /\ \A i \in 1..Len(calls) : calls'[i] = calls[i]
  BY <1>1, <1>2, Appended
<1>5. CASE At(c, "set")
  <2>1. counter' = [count |-> 1, ttl |-> Window]
    BY <1>5 DEF CountCall, SetKey
  <2>2. counter'.count = 1 /\ counter'.ttl = Window
    BY <2>1
  <2>3. KeyInv'
    BY <2>2, CounterFacts DEF KeyInv, Missing
  <2>4. ASSUME ~raced' PROVE Cardinality(Since(Window)') = 1
    <3>1. ~raced /\ counter.count = 0
      BY <1>1, <1>5, <2>4 DEF Overtaken, CounterInv, PcInv
    <3>2. Missing
      BY <1>1, <3>1 DEF CounterInv, KeyInv
    <3>3. \A i \in DOMAIN calls : calls[i].via = "counter" => ~(calls[i].age <= 0)
      BY <1>1, <3>1, <3>2, CounterFacts DEF CounterInv, ExactInv
    <3>4. Window - Window = 0 /\ Window' = Window
      BY CounterFacts
    <3>5. Since(Window)' = {Len(calls) + 1}
      BY <1>2, <1>4, <3>3, <3>4, CounterFacts DEF Since
    <3>. QED  BY <3>5, FS_Singleton
  <2>5. ExactInv'
    BY <1>1, <2>2, <2>4, CounterFacts DEF ExactInv, Missing
  <2>. QED  BY <1>3, <2>3, <2>5 DEF CounterInv
<1>6. CASE ~At(c, "set")
  <2>1. At(c, "incr")
    BY <1>6 DEF CountCall
  <2>2. counter' = [count |-> counter.count + 1, ttl |-> IF Missing THEN Forever ELSE counter.ttl]
    BY <1>6 DEF CountCall, Increment
  <2>3. counter'.count = counter.count + 1 /\ counter'.ttl = IF Missing THEN Forever ELSE counter.ttl
    BY <2>2
  <2>4. KeyInv'
    BY <2>3, CounterFacts DEF KeyInv, Missing, Forever
  <2>5. ASSUME ~raced'
        PROVE  /\ counter'.ttl = counter.ttl /\ counter.ttl <= Window /\ counter'.ttl # 0
               /\ counter'.count <= MaxLimit
               /\ counter'.count = Cardinality(Since(counter.ttl)')
    <3>1. ~raced /\ counter.count \in 1..MaxLimit - 1
      BY <1>1, <2>1, <2>5 DEF Overtaken, CounterInv, PcInv
    <3>2. ~Missing
      BY <3>1, CounterFacts DEF CounterInv, KeyInv
    <3>3. counter.ttl <= Window /\ counter.count = Cardinality(Since(counter.ttl))
      BY <1>1, <3>1, <3>2 DEF CounterInv, ExactInv
    <3>4. 0 <= Window - counter.ttl
      BY <3>3, CounterFacts
    <3>5. {i \in DOMAIN calls' : calls'[i].via = "counter" /\ calls'[i].age <= Window - counter.ttl}
            = Since(counter.ttl) \cup {Len(calls) + 1}
      BY <1>2, <1>4, <3>4, CounterFacts DEF Since
    <3>6. Cardinality(Since(counter.ttl) \cup {Len(calls) + 1}) = counter.count + 1
      <4>1. Len(calls) \in Nat /\ Since(counter.ttl) \in SUBSET (1..Len(calls))
        BY CounterFacts
      <4>. QED  BY <3>3, <4>1, NextPlace
    <3>7. counter'.ttl = counter.ttl /\ counter'.ttl # 0
      BY <2>3, <3>2 DEF Missing
    <3>8. Since(counter.ttl)' = Since(counter.ttl) \cup {Len(calls) + 1}
      BY <3>5, <3>7 DEF Since
    <3>9. counter'.count = counter.count + 1 /\ counter'.count <= MaxLimit
      BY <2>3, <3>1, CounterFacts
    <3>. QED  BY <3>3, <3>6, <3>7, <3>8, <3>9
  <2>6. ExactInv'
    BY <1>1, <2>5 DEF ExactInv, Missing, Since
  <2>. QED  BY <1>3, <2>4, <2>6 DEF CounterInv
<1>. QED  BY <1>5, <1>6

LEMMA StartDownloadStep ==
  ASSUME TypeInv, CounterInv, NEW c \in Callers, StartDownload(c)
  PROVE  CounterInv'
<1>1. limiter = "active" /\ limiter' = limiter /\ c \notin Running
  BY DEF StartDownload, Running
<1>2. Goto(c, "expire", 0) \/ Goto(c, "downloading", 0)
  BY DEF StartDownload
<1>3. PcInv' /\ Running' = Running \cup {c}
  BY <1>1, <1>2, GotoPc DEF CounterInv, InDownload
<1>4. CASE Increment /\ raced' = raced
  <2>1. counter'.count = counter.count + 1 /\ counter'.ttl = IF Missing THEN Forever ELSE counter.ttl
    BY <1>4 DEF Increment
  <2>2. Cardinality(Running \cup {c}) = Cardinality(Running) + 1
    BY <1>1, CounterFacts, FS_AddElement
  <2>3. KeyInv'
    BY <1>1, <2>1, CounterFacts DEF KeyInv, Missing, Forever
  <2>4. ExactInv'
    BY <1>1, <1>3, <1>4, <2>1, <2>2, CounterFacts DEF ExactInv, CounterInv
  <2>. QED  BY <1>3, <2>3, <2>4 DEF CounterInv
<1>5. CASE counter' = counter /\ raced' = TRUE
  BY <1>1, <1>3, <1>5 DEF CounterInv, KeyInv, ExactInv, Missing
<1>. QED  BY <1>4, <1>5 DEF StartDownload

LEMMA ExpireActiveStep ==
  ASSUME TypeInv, CounterInv, NEW c \in Callers, ExpireActive(c)
  PROVE  CounterInv'
<1>1. limiter = "active" /\ limiter' = limiter /\ raced' = raced /\ c \in Running
  BY DEF CounterInv, PcInv, ExpireActive, Running, At, InDownload
<1>2. PcInv' /\ Running' = Running \cup {c}
  BY <1>1, GotoPc DEF CounterInv, ExpireActive, InDownload
<1>3. Running' = Running
  BY <1>1, <1>2
<1>4. /\ counter'.count = counter.count
      /\ counter'.ttl = counter.ttl \/ (~Missing /\ counter'.ttl = Window)
  <2>1. CASE counter' = counter
    BY <2>1
  <2>2. CASE counter' = [counter EXCEPT !.ttl = Window] /\ ~Missing
    BY <2>2, CounterFacts DEF Keys
  <2>. QED  BY <2>1, <2>2 DEF ExpireActive
<1>5. KeyInv'
  BY <1>1, <1>4, CounterFacts DEF CounterInv, KeyInv, Missing
<1>. QED  BY <1>1, <1>2, <1>3, <1>4, <1>5 DEF CounterInv, ExactInv

LEMMA ReadActiveStep ==
  ASSUME TypeInv, CounterInv, NEW c \in Callers, ReadActive(c)
  PROVE  CounterInv'
<1>1. limiter = "active" /\ UNCHANGED <<limiter, calls, counter, raced>> /\ c \in Running
  BY DEF CounterInv, PcInv, ReadActive, Running, At, InDownload
<1>2. PcInv' /\ Running' = Running \cup {c}
  BY <1>1, GotoPc DEF CounterInv, ReadActive, InDownload
<1>3. Running' = Running
  BY <1>1, <1>2
<1>. QED  BY <1>1, <1>2, <1>3 DEF CounterInv, KeyInv, ExactInv, Missing

LEMMA WriteActiveStep ==
  ASSUME TypeInv, CounterInv, NEW c \in Callers, WriteActive(c)
  PROVE  CounterInv'
<1>1. /\ limiter = "active" /\ limiter' = limiter /\ c \in Running /\ Return(c)
      /\ raced' = Overtaken(c)
  BY DEF CounterInv, PcInv, WriteActive, Running, At, InDownload
<1>2. PcInv' /\ Running' = Running \ {c}
  BY <1>1, ReturnPc DEF CounterInv
<1>3. /\ counter'.count = IF caller[c].seen = 0 THEN 0 ELSE caller[c].seen - 1
      /\ counter'.ttl = Window
  BY DEF WriteActive, SetKey
<1>4. KeyInv'
  BY <1>1, <1>3, CounterFacts DEF KeyInv, Missing
<1>5. ASSUME ~raced' PROVE counter'.count = Cardinality(Running')
  <2>1. ~raced /\ caller[c].seen = counter.count
    BY <1>1, <1>5 DEF Overtaken
  <2>2. counter.count = Cardinality(Running)
    BY <1>1, <2>1 DEF CounterInv, ExactInv
  <2>3. Cardinality(Running \ {c}) = Cardinality(Running) - 1
    BY <1>1, CounterFacts, FS_RemoveElement
  <2>4. Cardinality(Running) # 0
    BY <1>1, CounterFacts, FS_EmptySet
  <2>. QED  BY <1>2, <1>3, <2>1, <2>2, <2>3, <2>4, CounterFacts
<1>6. ExactInv'
  BY <1>1, <1>3, <1>5, CounterFacts DEF ExactInv
<1>. QED  BY <1>2, <1>4, <1>6 DEF CounterInv

LEMMA LeaveActiveStep ==
  ASSUME TypeInv, CounterInv, NEW c \in Callers, LeaveActive(c)
  PROVE  CounterInv'
<1>1. UNCHANGED <<limiter, counter>> /\ raced' /\ Return(c)
  BY DEF LeaveActive
<1>2. PcInv'
  BY <1>1, ReturnPc DEF CounterInv
<1>. QED  BY <1>1, <1>2 DEF CounterInv, KeyInv, ExactInv, Missing

\* Time passes: the key and the calls it counts grow old together.
LEMMA CounterTick ==
  ASSUME TypeInv, CounterInv, Tick
  PROVE  CounterInv'
<1>1. limiter' = limiter /\ caller' = caller
      /\ raced' = (raced \/ (counter.ttl = 1 /\ \E c \in Callers : caller[c].pc \in InDownload))
  BY DEF Tick
<1>2. PcInv' /\ Running' = Running
  BY <1>1 DEF CounterInv, PcInv, At, Running
<1>3. PICK old \in Nat : Aged(old)
  BY TickAges
<1>4. /\ old \in 0..Len(calls) /\ DOMAIN calls' = 1..Len(calls) - old
      /\ \A i \in DOMAIN calls : i <= old <=> calls[i].age + 1 >= Window
      /\ \A i \in DOMAIN calls' : /\ old + i \in DOMAIN calls /\ calls'[i].age = calls[old + i].age + 1
                                  /\ calls'[i].via = calls[old + i].via
  BY <1>3 DEF Aged
<1>5. CASE counter.ttl = Forever /\ counter' = counter
  <2>1. KeyInv'
    BY <1>1, <1>5 DEF CounterInv, KeyInv, Missing
  <2>2. limiter = "counter" => raced'
    <3>1. ~(Forever <= Window)
      BY CounterFacts DEF Forever
    <3>. QED  BY <1>1, <1>5, <3>1 DEF CounterInv, ExactInv
  <2>3. ExactInv'
    BY <1>1, <1>2, <1>5, <2>2 DEF CounterInv, ExactInv
  <2>. QED  BY <1>2, <2>1, <2>3 DEF CounterInv
<1>6. CASE counter.ttl \in {0, 1} /\ counter' = NoKey
  <2>1. counter'.count = 0 /\ counter'.ttl = 0
    BY <1>6, CounterFacts
  <2>2. KeyInv'
    BY <2>1 DEF KeyInv, Missing
  <2>3. ASSUME NEW i \in DOMAIN calls' PROVE calls'[i].age # 0
    <3>1. old + i \in DOMAIN calls /\ calls'[i].age = calls[old + i].age + 1
      BY <1>4
    <3>2. calls[old + i].age \in 0..Window - 1
      BY <3>1, CounterFacts
    <3>. QED  BY <3>1, <3>2
  <2>4. ASSUME ~raced', limiter = "active" PROVE Cardinality(Running) = 0
    <3>1. CASE counter.ttl = 0
      BY <1>1, <2>4, <3>1 DEF CounterInv, KeyInv, ExactInv, Missing
    <3>2. CASE counter.ttl = 1
      <4>1. \A c \in Callers : caller[c].pc \notin InDownload
        BY <1>1, <2>4, <3>2
      <4>2. \A c \in Callers : ~At(c, "remove") /\ ~At(c, "set") /\ ~At(c, "incr")
        BY <2>4 DEF CounterInv, PcInv
      <4>3. \A c \in Callers :
              caller[c].pc \in {"idle", "remove", "set", "incr"} \cup InDownload
        BY CounterFacts DEF CallerStates
      <4>4. Running = {}
        BY <4>1, <4>2, <4>3 DEF Running, At
      <4>. QED  BY <4>4, FS_EmptySet
    <3>. QED  BY <1>6, <3>1, <3>2
  <2>5. ExactInv'
    BY <1>1, <1>2, <2>1, <2>3, <2>4, CounterFacts DEF ExactInv, Missing
  <2>. QED  BY <1>2, <2>2, <2>5 DEF CounterInv
<1>7. CASE counter.ttl \notin {0, 1, Forever} /\ counter' = [counter EXCEPT !.ttl = @ - 1]
  <2>1. counter'.count = counter.count /\ counter'.ttl = counter.ttl - 1
    BY <1>7, CounterFacts DEF Keys
  <2>2. counter.ttl >= 2 /\ counter'.ttl # 0
    BY <1>7, <2>1, CounterFacts
  <2>3. KeyInv'
    BY <1>1, <2>1, <2>2 DEF CounterInv, KeyInv, Missing
  <2>4. ASSUME ~raced', limiter = "counter"
        PROVE  counter'.count <= MaxLimit /\ counter'.count = Cardinality(Since(counter.ttl)')
    <3>. DEFINE A == {i \in DOMAIN calls' : calls'[i].via = "counter"
                                            /\ calls'[i].age <= Window - counter'.ttl}
                B == Since(counter.ttl)
    <3>1. ~raced /\ counter.count <= MaxLimit /\ counter.count = Cardinality(B)
      BY <1>1, <2>2, <2>4, CounterFacts DEF CounterInv, ExactInv, Missing
    <3>2. Window - counter'.ttl = (Window - counter.ttl) + 1
      BY <2>1, CounterFacts
    <3>3. \A i \in DOMAIN calls' : i \in A <=> old + i \in B
      <4>. SUFFICES ASSUME NEW i \in DOMAIN calls' PROVE i \in A <=> old + i \in B
        OBVIOUS
      <4>1. /\ old + i \in DOMAIN calls /\ calls'[i].age = calls[old + i].age + 1
            /\ calls'[i].via = calls[old + i].via
        BY <1>4
      <4>2. calls[old + i].age + 1 <= (Window - counter.ttl) + 1
              <=> calls[old + i].age <= Window - counter.ttl
        <5>1. calls[old + i].age \in 0..Window - 1
          BY <4>1, CounterFacts
        <5>2. counter.ttl \in Nat /\ Window \in Nat
          BY CounterFacts
        <5>. QED  BY <5>1, <5>2
      <4>. QED  BY <3>2, <4>1, <4>2 DEF Since
    <3>4. \A j \in B : j - old \in DOMAIN calls' /\ old + (j - old) = j
      <4>. SUFFICES ASSUME NEW j \in B
                    PROVE  j - old \in DOMAIN calls' /\ old + (j - old) = j
        OBVIOUS
      <4>1. j \in DOMAIN calls /\ calls[j].age <= Window - counter.ttl
        BY DEF Since
      <4>2. ~(calls[j].age + 1 >= Window)
        BY <2>2, <4>1, CounterFacts
      <4>3. ~(j <= old)
        BY <1>4, <4>1, <4>2
      <4>4. j \in 1..Len(calls) /\ Len(calls) \in Nat
        BY <4>1, CallsAt
      <4>5. j - old \in 1..Len(calls) - old /\ old + (j - old) = j
        BY <4>3, <4>4
      <4>. QED  BY <1>4, <4>5
    <3>5. A \in SUBSET (1..Len(calls)) /\ B \in SUBSET (1..Len(calls))
      BY <1>4, CounterFacts
    <3>6. \A i \in A : old + i \in B
      BY <3>3
    <3>9. \A j \in B : j - old \in A
      BY <3>3, <3>4
    <3>7. Since(counter.ttl)' = A
      BY DEF Since
    <3>. HIDE DEF A, B
    <3>8. Cardinality(A) = Cardinality(B)
      <4>1. Len(calls) \in Nat
        BY CallsAt
      <4>2. B = {old + i : i \in A}
        BY <3>4, <3>6, <3>9
      <4>. QED  BY <3>5, <4>1, <4>2, AllMoved
    <3>. QED  BY <2>1, <3>1, <3>7, <3>8
  <2>5. ExactInv'
    <3>1. ASSUME ~raced', limiter = "counter" PROVE counter'.ttl <= Window
      BY <1>1, <2>1, <3>1, CounterFacts DEF CounterInv, ExactInv
    <3>2. ASSUME ~raced', limiter = "active" PROVE counter'.count = Cardinality(Running)
      BY <1>1, <2>1, <3>2 DEF CounterInv, ExactInv
    <3>. QED  BY <1>1, <1>2, <2>2, <2>4, <3>1, <3>2 DEF ExactInv, Missing
  <2>. QED  BY <1>2, <2>3, <2>5 DEF CounterInv
<1>. QED  BY <1>5, <1>6, <1>7, KeyAges

LEMMA CounterStep ==
  ASSUME TypeInv, CounterInv, [Next]_vars
  PROVE  CounterInv'
<1>1. CASE UNCHANGED <<limiter, caller, calls, counter, raced>>
  BY <1>1 DEF CounterInv, PcInv, KeyInv, ExactInv, Missing, Since, Running, At
<1>2. CASE \E c \in Callers : Step(c)
  BY <1>2, SlidingCounter, ReadCounterStep, CountCallStep, StartDownloadStep, ExpireActiveStep,
     ReadActiveStep, WriteActiveStep, LeaveActiveStep DEF Step
<1>3. CASE (\E p \in Processes : Sweep(p)) \/ UNCHANGED vars
  BY <1>1, <1>3 DEF Sweep, vars
<1>4. CASE Tick
  BY <1>4, CounterTick
<1>. QED  BY <1>2, <1>3, <1>4 DEF Next

-----------------------------------------------------------------------------
(* The theorems *)

LimitsInv == TypeInv /\ WindowInv /\ CounterInv

\* All of the invariant holds at the start.
LEMMA LimitsInit ==
  ASSUME Init
  PROVE  LimitsInv
<1>1. TypeInv
  BY InitTypes
<1>2. calls = <<>> /\ DOMAIN calls = {} /\ counter = NoKey /\ ~raced
      /\ \A c \in Callers : caller[c].pc = "idle"
  BY DEF Init, Idle
<1>3. Cardinality({}) = 0
  BY FS_EmptySet
<1>4. WindowInv
  <2>1. Granted = {} /\ \A via : Admitted(via) = {}
    BY <1>2 DEF Granted, Admitted
  <2>. QED  BY <1>3, <2>1, Numbers DEF WindowInv
<1>5. CounterInv
  <2>1. counter.count = 0 /\ counter.ttl = 0
    BY <1>1, <1>2, CounterFacts
  <2>2. Running = {}
    BY <1>2 DEF Running, At
  <2>3. PcInv /\ KeyInv
    BY <1>2, <2>1 DEF PcInv, KeyInv, At, Missing, InDownload
  <2>4. ExactInv
    BY <1>2, <1>3, <2>1, <2>2, Numbers DEF ExactInv, Missing
  <2>. QED  BY <2>3, <2>4 DEF CounterInv
<1>. QED  BY <1>1, <1>4, <1>5 DEF LimitsInv

THEOREM LimitsInvariant == Spec => []LimitsInv
<1>1. Init => LimitsInv
  BY LimitsInit
<1>2. LimitsInv /\ [Next]_vars => LimitsInv'
  BY TypeStep, WindowStep, CounterStep DEF LimitsInv
<1>. QED  BY <1>1, <1>2, PTL DEF Spec

\* The callers, the calls, the windows in memory, the penalties and the counters of
\* all limiters are what their code takes them for, whatever fails.
THEOREM LimitsTypeCorrect == Spec => []TypeOK
<1>1. LimitsInv => TypeOK
  BY DEF LimitsInv, TypeInv
<1>. QED  BY <1>1, LimitsInvariant, PTL

\* Neither Redis nor the memory of the advanced limiter admits more than the largest
\* limit over a window, for any number of callers, unless a removal took the entry of
\* an admitted call.
THEOREM WindowsRespected == Spec => []WindowRespected
<1>1. LimitsInv => WindowRespected
  <2>. SUFFICES ASSUME LimitsInv PROVE WindowRespected
    OBVIOUS
  <2>1. (\A i \in DOMAIN calls : calls[i].admitted /\ calls[i].via = "redis" => calls[i].logged)
          => Admitted("redis") = Granted
    BY DEF Admitted, Granted
  <2>. QED  BY <2>1 DEF LimitsInv, WindowInv, WindowRespected
<1>. QED  BY <1>1, LimitsInvariant, PTL

\* While no caller acts on a counter that has changed since it was read, the counter of
\* check_rate_limit expires and counts the calls since it was set, and stats:dl:active
\* the downloads that run.
THEOREM CountersAreExact == Spec => []CountersExact
<1>1. LimitsInv => CountersExact
  <2>. SUFFICES ASSUME LimitsInv, ~raced PROVE CountersExact
    BY DEF CountersExact
  <2>1. limiter = "counter" => counter.ttl # Forever
    BY CounterFacts DEF LimitsInv, CounterInv, ExactInv, Forever
  <2>. QED  BY <2>1 DEF LimitsInv, CounterInv, ExactInv, CountersExact, Since, Running
<1>. QED  BY <1>1, LimitsInvariant, PTL

\* Only a violation much later forgets violations: neither the sweep nor the end of a
\* ban does, of any process.
THEOREM PenaltiesAreKept == Spec => PenaltiesKept
<1>1. LimitsInv /\ [Next]_vars =>
        [\A p \in Processes :
           penalty'[p].violations < penalty[p].violations => penalty[p].age > Forget]_vars
  BY TypeStep DEF LimitsInv, NoneForgotten
<1>. QED  BY <1>1, LimitsInvariant, PTL DEF Spec, PenaltiesKept
=============================================================================
