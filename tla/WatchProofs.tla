----------------------------- MODULE WatchProofs ----------------------------
(***************************************************************************)
(* Proofs about what watches the cells, for any delays, clocks that step   *)
(* back and crashes: the aggregates the telemetry leaves in the registry   *)
(* lose no record, the volumes its detector sums over rings of dated slots *)
(* are those that were fed, and the monitor acts on what it read.          *)
(***************************************************************************)
EXTENDS Telemetry, Supervision, FiniteSetTheorems, TLAPS

\* A leaf goes to Zenon first and, if that does not find it soon, to the SMT solver.
USE ZenonT(2), SMTT(30)

-----------------------------------------------------------------------------
(***************************************************************************)
(* The aggregates.  A record is refused with an alarm, waits in the window *)
(* in progress, or is in one leaf: where it is, is told by three places    *)
(* that a sealing changes together.                                        *)
(***************************************************************************)
Lost(r, C, R, A) == r \in A /\ r \notin R /\ \A c \in C : r \notin c.recs
Pending(r, C, R, A) == r \notin A /\ r \in R /\ \A c \in C : r \notin c.recs
InOneLeaf(r, C, R, A) ==
  /\ r \notin A /\ r \notin R
  /\ \E c \in C : r \in c.recs /\ \A d \in C : r \in d.recs => d = c

Accounted(r, C, R, A) == Lost(r, C, R, A) \/ Pending(r, C, R, A) \/ InOneLeaf(r, C, R, A)

\* n records fed, the leaves C, the records R of the window in progress and the
\* records A refused with an alarm.
AggState(n, C, R, A) ==
  /\ n \in Nat
  /\ \A r \in 1..n : Accounted(r, C, R, A)
  /\ \A r : r \in A \/ r \in R \/ (\E c \in C : r \in c.recs) => r \in 1..n

AggInv == AggState(fed, committed, agg.recs, alarmed)

\* A new record waits, or is refused: it was nowhere before.
LEMMA NewRecord ==
  ASSUME NEW n, NEW C, NEW R, NEW A, AggState(n, C, R, A)
  PROVE  AggState(n + 1, C, R \cup {n + 1}, A) /\ AggState(n + 1, C, R, A \cup {n + 1})
<1>1. n + 1 \in Nat /\ n + 1 \notin 1..n /\ 1..(n + 1) = 1..n \cup {n + 1}
  BY SMTT(30) DEF AggState
<1>2. n + 1 \notin A /\ n + 1 \notin R /\ \A c \in C : n + 1 \notin c.recs
  BY <1>1 DEF AggState
<1>3. \A r \in 1..n : Accounted(r, C, R \cup {n + 1}, A) /\ Accounted(r, C, R, A \cup {n + 1})
  BY <1>1 DEF AggState, Accounted, Lost, Pending, InOneLeaf
<1>4. Pending(n + 1, C, R \cup {n + 1}, A) /\ Lost(n + 1, C, R, A \cup {n + 1})
  BY <1>2 DEF Lost, Pending
<1>5. \A r : \/ r \in A \cup {n + 1} \/ r \in R \cup {n + 1} \/ (\E c \in C : r \in c.recs)
             => r \in 1..(n + 1)
  BY <1>1 DEF AggState
<1> QED BY <1>1, <1>3, <1>4, <1>5, Zenon DEF AggState, Accounted

\* A sealing moves what waits into one leaf; the leaves beside it are empty.
LEMMA SealedRecords ==
  ASSUME NEW n, NEW C, NEW R, NEW A, AggState(n, C, R, A),
         NEW D, NEW s \in D, s.recs = R, \A d \in D : d # s => d.recs = {}
  PROVE  AggState(n, C \cup D, {}, A)
<1>1. ASSUME NEW r \in 1..n PROVE Accounted(r, C \cup D, {}, A)
  <2>1. CASE Lost(r, C, R, A)
    BY <2>1 DEF Lost, Accounted
  <2>2. CASE Pending(r, C, R, A)
    BY <2>2, SMTT(30) DEF Pending, InOneLeaf, Accounted
  <2>3. CASE InOneLeaf(r, C, R, A)
    BY <2>3 DEF InOneLeaf, Accounted
  <2> QED BY <2>1, <2>2, <2>3 DEF AggState, Accounted
<1>2. \A r : \/ r \in A \/ r \in {} \/ (\E c \in C \cup D : r \in c.recs) => r \in 1..n
  BY DEF AggState
<1> QED BY <1>1, <1>2, Zenon DEF AggState

\* SealWindows, for what the records see of it.
LEMMA SealEffect ==
  ASSUME AggInv, NEW first \in Int, NEW upto \in Int, upto >= first, SealWindows(first, upto)
  PROVE  AggState(fed, committed', IF upto > first THEN {} ELSE agg.recs, alarmed)
<1> DEFINE D == {buildAggregate(first, w) : w \in first..(upto - 1)}
<1>1. committed' = committed \cup D
  BY DEF SealWindows
<1>2. CASE upto > first
  <2> DEFINE s == buildAggregate(first, first)
  <2>1. s \in D /\ s.recs = agg.recs
    BY <1>2 DEF buildAggregate
  <2>2. \A d \in D : d # s => d.recs = {}
    BY DEF buildAggregate
  <2> HIDE DEF D, s
  <2>3. AggState(fed, committed \cup D, {}, alarmed)
    BY <2>1, <2>2, SealedRecords DEF AggInv
  <2> QED BY <1>1, <1>2, <2>3
<1>3. CASE ~(upto > first)
  <2>1. D = {}
    BY <1>3
  <2> QED BY <1>1, <1>3, <2>1, Zenon DEF AggInv
<1> QED BY <1>2, <1>3

Clocks == minute \in Nat /\ agg.cur \in Int /\ agg.cur >= -1

TelInv == AggInv /\ Clocks

\* Feed takes the record or refuses it, after the windows it seals first.
LEMMA FeedStep ==
  ASSUME TelInv, NEW r, r = fed + 1, fed' = fed + 1, AggregatorFeed(r), minute' = minute
  PROVE  TelInv'
<1>1. CASE /\ agg.cur = -1 \/ minute <= agg.cur
           /\ agg' = [cur |-> IF agg.cur = -1 THEN minute ELSE agg.cur, recs |-> agg.recs \cup {r}]
           /\ UNCHANGED <<committed, alarmed>>
  <2>1. AggState(fed', committed', agg'.recs, alarmed')
    BY <1>1, NewRecord, Zenon DEF TelInv, AggInv
  <2>2. Clocks'
    BY <1>1 DEF TelInv, Clocks
  <2> QED BY <2>1, <2>2 DEF TelInv, AggInv
<1>2. ASSUME agg.cur # -1, minute > agg.cur, NEW upto \in agg.cur..minute,
             SealWindows(agg.cur, upto),
             agg' = [cur |-> upto,
                     recs |-> KeptRecords(upto) \cup (IF upto = minute THEN {r} ELSE {})],
             alarmed' = IF upto = minute THEN alarmed ELSE alarmed \cup {r}
      PROVE  TelInv'
  <2>1. AggState(fed, committed', KeptRecords(upto), alarmed)
    BY <1>2, SealEffect DEF TelInv, Clocks, KeptRecords
  <2>2. /\ AggState(fed + 1, committed', KeptRecords(upto) \cup {r}, alarmed)
        /\ AggState(fed + 1, committed', KeptRecords(upto), alarmed \cup {r})
    BY <2>1, NewRecord
  <2>3. agg'.recs = KeptRecords(upto) \cup (IF upto = minute THEN {r} ELSE {}) /\ agg'.cur = upto
    BY <1>2
  <2>4. KeptRecords(upto) \cup {} = KeptRecords(upto)
    OBVIOUS
  <2>5. AggInv'
    BY <1>2, <2>2, <2>3, <2>4 DEF AggInv
  <2>6. Clocks'
    BY <1>2, <2>3 DEF TelInv, Clocks
  <2> QED BY <2>5, <2>6 DEF TelInv
<1> QED BY <1>1, <1>2 DEF AggregatorFeed

\* Every step of the pipeline keeps it: the detector's have no part in it.
LEMMA TelNextInv == ASSUME TelInv, [TelNext]_telVars PROVE TelInv'
<1>1. CASE FanOutFeed
  <2>1. fed' = fed + 1 /\ minute' = minute /\ AggregatorFeed(fed')
    BY <1>1 DEF FanOutFeed
  <2> QED BY <2>1, FeedStep
<1>2. CASE AggregatorTick
  <2>1. PICK upto \in agg.cur..minute :
          SealWindows(agg.cur, upto) /\ agg' = [cur |-> upto, recs |-> KeptRecords(upto)]
    BY <1>2 DEF AggregatorTick
  <2>2. UNCHANGED <<minute, fed, alarmed>>
    BY <1>2 DEF AggregatorTick
  <2>3. AggState(fed, committed', KeptRecords(upto), alarmed)
    BY <2>1, SealEffect DEF TelInv, Clocks, KeptRecords
  <2>4. agg'.recs = KeptRecords(upto) /\ agg'.cur = upto
    BY <2>1
  <2> QED BY <2>2, <2>3, <2>4 DEF TelInv, AggInv, Clocks
<1>3. CASE PipelineClose
  <2> DEFINE cur == IF agg.cur = -1 THEN minute ELSE agg.cur
  <2>1. UNCHANGED <<minute, fed, alarmed>> /\ cur \in Int /\ cur >= -1
    BY <1>3, SMTT(30) DEF PipelineClose, TelInv, Clocks
  <2>2. CASE SealWindows(cur, cur + 1) /\ agg' = [cur |-> cur + 1, recs |-> {}]
    <3> HIDE DEF cur
    <3>1. AggState(fed, committed', {}, alarmed)
      BY <2>1, <2>2, SealEffect DEF TelInv
    <3>2. agg'.recs = {} /\ agg'.cur = cur + 1
      BY <2>2
    <3> QED BY <2>1, <3>1, <3>2 DEF TelInv, AggInv, Clocks
  <2>3. CASE agg' = [agg EXCEPT !.cur = cur] /\ committed' = committed
    <3> HIDE DEF cur
    <3>1. agg'.recs = agg.recs /\ (agg'.cur = cur \/ agg'.cur = agg.cur)
      BY <2>3
    <3> QED BY <2>1, <2>3, <3>1 DEF TelInv, AggInv, Clocks
  <2> QED BY <1>3, <2>2, <2>3 DEF PipelineClose
<1>4. CASE PurgeExpired
  BY <1>4 DEF PurgeExpired, TelInv, AggInv, Clocks
<1>5. CASE MinutePasses
  BY <1>5 DEF MinutePasses, aggVars, TelInv, AggInv, Clocks
<1>6. CASE ClockStepsBack
  BY <1>6 DEF ClockStepsBack, aggVars, TelInv, AggInv, Clocks
<1>7. CASE UNCHANGED telVars
  BY <1>7 DEF telVars, aggVars, TelInv, AggInv, Clocks
<1> QED BY <1>1, <1>2, <1>3, <1>4, <1>5, <1>6, <1>7 DEF TelNext

\* No record leaves the aggregates silently (Aggregator.Feed, tickLocked, Seal):
\* for any number of records, any clock that steps back, any leaf that fails and
\* any number of retries, each record fed waits, is in exactly one leaf, or was
\* refused with an alarm.
THEOREM NoRecordLost == TelSpec => []CommittedOnce
<1>1. TelInit => TelInv
  BY DEF TelInit, NewAggregator, TelInv, AggInv, AggState, Clocks
<1>2. TelInv => CommittedOnce
  <2> SUFFICES ASSUME TelInv, NEW r \in 1..fed
               PROVE  IF r \in alarmed THEN HeldBy(r) = {}
                      ELSE \E place \in HeldBy(r) : HeldBy(r) = {place}
    BY DEF CommittedOnce
  <2>1. CASE Lost(r, committed, agg.recs, alarmed)
    BY <2>1 DEF Lost, HeldBy
  <2>2. CASE Pending(r, committed, agg.recs, alarmed)
    <3>1. HeldBy(r) = {agg} /\ r \notin alarmed
      BY <2>2 DEF Pending, HeldBy
    <3> QED BY <3>1
  <2>3. CASE InOneLeaf(r, committed, agg.recs, alarmed)
    <3>1. PICK c \in committed : r \in c.recs /\ \A d \in committed : r \in d.recs => d = c
      BY <2>3 DEF InOneLeaf
    <3>2. HeldBy(r) = {c} /\ r \notin alarmed
      BY <2>3, <3>1 DEF InOneLeaf, HeldBy
    <3> QED BY <3>2
  <2> QED BY <2>1, <2>2, <2>3 DEF TelInv, AggInv, AggState, Accounted
<1> QED BY <1>1, <1>2, TelNextInv, PTL DEF TelSpec

-----------------------------------------------------------------------------
(***************************************************************************)
(* The rings.  The sums are exact at every minute from the watermark on    *)
(* because a slot that is written again held a minute (an hour) that has   *)
(* left every window to come.                                              *)
(***************************************************************************)

LEMMA TotalOfOne ==
  ASSUME NEW f, NEW x, f[x] \in Nat
  PROVE  IsFiniteSet({x} \X (1..f[x])) /\ Cardinality({x} \X (1..f[x])) = f[x]
<1>1. IsFiniteSet({x}) /\ Cardinality({x}) = 1
  BY FS_Singleton, Zenon
<1>2. IsFiniteSet(1..f[x]) /\ Cardinality(1..f[x]) = f[x]
  BY FS_Interval, SMTT(30)
<1>3. /\ IsFiniteSet({x} \X (1..f[x]))
      /\ Cardinality({x} \X (1..f[x])) = Cardinality({x}) * Cardinality(1..f[x])
  BY <1>1, <1>2, FS_Product, Zenon
<1> QED BY <1>1, <1>2, <1>3, SMTT(30)

LEMMA TotalIsFinite ==
  ASSUME NEW f, NEW S, IsFiniteSet(S), \A x \in S : f[x] \in Nat
  PROVE  IsFiniteSet(Units(f, S)) /\ Total(f, S) \in Nat
<1> DEFINE g == [x \in S |-> {x} \X (1..f[x])]
           T == {{x} \X (1..f[x]) : x \in S}
<1>1. g \in Surjection(S, T)
  BY Zenon DEF Surjection
<1>2. IsFiniteSet(T)
  BY <1>1, FS_Surjection, Zenon
<1>3. \A U \in T : IsFiniteSet(U)
  BY TotalOfOne, Zenon
<1>4. IsFiniteSet(UNION T)
  BY <1>2, <1>3, FS_UNION, Zenon
<1> QED BY <1>4, FS_CardinalityType, Zenon DEF Units, Total

\* One member apart.
LEMMA TotalWithout ==
  ASSUME NEW f, NEW S, IsFiniteSet(S), \A x \in S : f[x] \in Nat, NEW x \in S
  PROVE  Total(f, S) = Total(f, S \ {x}) + f[x]
<1> DEFINE A == Units(f, S \ {x})
           B == {x} \X (1..f[x])
<1>1. Units(f, S) = A \cup B
  BY SMTT(30) DEF Units
<1>2. A \cap B = {}
  BY DEF Units
<1>3. IsFiniteSet(S \ {x}) /\ IsFiniteSet(A) /\ Total(f, S \ {x}) \in Nat
  <2>1. IsFiniteSet(S \ {x})
    BY FS_Difference, Zenon
  <2> QED BY <2>1, TotalIsFinite, Zenon
<1>4. f[x] \in Nat /\ IsFiniteSet(B) /\ Cardinality(B) = f[x]
  BY TotalOfOne, Zenon
<1> HIDE DEF A, B
<1>5. Cardinality(A \cup B) = Cardinality(A) + Cardinality(B) - Cardinality({})
  BY <1>2, <1>3, <1>4, FS_Union, SMTT(30)
<1>6. Total(f, S \ {x}) = Cardinality(A) /\ Cardinality({}) = 0
  BY FS_EmptySet, Zenon DEF Total, A
<1> QED BY <1>1, <1>3, <1>4, <1>5, <1>6, SMTT(30) DEF Total

LEMMA TotalDependsOn ==
  ASSUME NEW f, NEW g, NEW S, \A x \in S : f[x] = g[x]
  PROVE  Total(f, S) = Total(g, S)
<1>1. Units(f, S) = Units(g, S)
  BY DEF Units
<1> QED BY <1>1 DEF Total

\* What one member adds to a sum.
Part(f, S, x) == IF x \in S THEN f[x] ELSE 0

\* Two sums that differ in one member only.
OneApart(f, S, g, T, x) ==
  /\ IsFiniteSet(S) /\ \A y \in S : f[y] \in Nat
  /\ IsFiniteSet(T) /\ \A y \in T : g[y] \in Nat
  /\ S \ {x} = T \ {x} /\ \A y \in S \ {x} : f[y] = g[y]

ApartBy(f, S, g, T, x) ==
  /\ Total(f, S) \in Nat /\ Total(g, T) \in Nat
  /\ Part(f, S, x) \in Nat /\ Part(g, T, x) \in Nat
  /\ Total(g, T) + Part(f, S, x) = Total(f, S) + Part(g, T, x)

LEMMA TotalStep ==
  ASSUME NEW f, NEW S, NEW g, NEW T, NEW x, OneApart(f, S, g, T, x)
  PROVE  ApartBy(f, S, g, T, x)
<1> USE DEF OneApart
<1>1. Total(f, S \ {x}) = Total(g, T \ {x})
  <2>1. Total(f, S \ {x}) = Total(g, S \ {x})
    BY TotalDependsOn, ZenonT(30)
  <2> QED BY <2>1, Zenon
<1>2. /\ Total(f, S) \in Nat /\ Total(g, T) \in Nat /\ Part(f, S, x) \in Nat
      /\ Part(g, T, x) \in Nat
  BY TotalIsFinite, Zenon, SMTT(10) DEF Part
<1>3. Total(f, S \ {x}) \in Nat
  <2>1. IsFiniteSet(S \ {x})
    BY FS_Difference, Zenon
  <2> QED BY <2>1, TotalIsFinite, Zenon
<1>4. Total(f, S) = Total(f, S \ {x}) + Part(f, S, x)
  <2>1. CASE x \in S
    BY <2>1, TotalWithout, Zenon DEF Part
  <2>2. CASE x \notin S
    <3>1. S \ {x} = S
      BY <2>2
    <3>2. Part(f, S, x) = 0
      BY <2>2, Zenon DEF Part
    <3>3. Total(f, S \ {x}) = Total(f, S)
      BY <3>1, Zenon
    <3> QED BY <1>2, <3>2, <3>3, SMTT(30)
  <2> QED BY <2>1, <2>2
<1>5. Total(g, T) = Total(g, T \ {x}) + Part(g, T, x)
  <2>1. CASE x \in T
    BY <2>1, TotalWithout, Zenon DEF Part
  <2>2. CASE x \notin T
    <3>1. T \ {x} = T
      BY <2>2
    <3>2. Part(g, T, x) = 0
      BY <2>2, Zenon DEF Part
    <3>3. Total(g, T \ {x}) = Total(g, T)
      BY <3>1, Zenon
    <3> QED BY <1>2, <3>2, <3>3, SMTT(30)
  <2> QED BY <2>1, <2>2
<1> HIDE DEF OneApart
<1> QED BY <1>1, <1>2, <1>3, <1>4, <1>5, SMTT(30) DEF ApartBy

LEMMA TotalOfZeroes ==
  ASSUME NEW f, NEW S, \A x \in S : f[x] = 0
  PROVE  Total(f, S) = 0
<1>1. Units(f, S) = {}
  BY SMTT(30) DEF Units
<1> QED BY <1>1, FS_EmptySet DEF Total
LEMMA DivMod ==
  ASSUME NEW a \in Int, NEW k \in Nat \ {0}
  PROVE  a \div k \in Int /\ a % k \in 0..(k - 1) /\ a % k = a - k * (a \div k)
BY SMTT(30)

\* What lies between two multiples of k.
LEMMA Multiples ==
  ASSUME NEW k \in Nat \ {0}, NEW a \in Int, NEW b \in Int, a < b
  PROVE  k * a + k <= k * b
<1>1. b - a - 1 \in Nat
  BY SMTT(30)
<1>2. \A x \in Nat : k * x >= 0
  BY SMTT(30)
<1>3. k * (b - a - 1) >= 0
  BY <1>1, <1>2
<1>4. k * (b - a - 1) = k * b - k * a - k
  BY SMTT(30)
<1> QED BY <1>3, <1>4, SMTT(30)

\* Two minutes of one slot are a turn of the ring apart.
LEMMA ModApart ==
  ASSUME NEW k \in Nat \ {0}, NEW a \in Int, NEW b \in Int, a % k = b % k, a < b
  PROVE  a + k <= b
<1> DEFINE qa == a \div k
           qb == b \div k
<1>1. qa \in Int /\ qb \in Int /\ a % k = a - k * qa /\ b % k = b - k * qb /\ a % k \in Int
  BY DivMod
<1>2. \A x \in Int, y \in Int : x < y => k * x + k <= k * y
  BY Multiples
<1> HIDE DEF qa, qb
<1>3. CASE qa < qb
  BY <1>1, <1>2, <1>3, SMTT(30)
<1>4. CASE qb < qa
  BY <1>1, <1>2, <1>4, SMTT(30)
<1> QED BY <1>1, <1>3, <1>4, SMTT(30)

\* The hours n hours of minutes may reach.
LEMMA DivGrows ==
  ASSUME NEW k \in Nat \ {0}, NEW n \in Int, NEW a \in Int, NEW b \in Int, b <= a + k * n
  PROVE  b \div k <= a \div k + n
<1> DEFINE qa == a \div k
           qb == b \div k
<1>1. /\ qa \in Int /\ qb \in Int /\ a % k = a - k * qa /\ b % k = b - k * qb
      /\ a % k \in 0..(k - 1) /\ b % k \in 0..(k - 1)
  BY DivMod
<1> HIDE DEF qa, qb
<1>2. CASE qa + n < qb
  <2>1. k * (qa + n) + k <= k * qb
    BY <1>1, <1>2, Multiples
  <2>2. k * (qa + n) = k * qa + k * n
    BY <1>1, SMTT(30)
  <2> QED BY <1>1, <2>1, <2>2, SMTT(30)
<1> QED BY <1>1, <1>2, SMTT(30) DEF qa, qb

\* The fields of a profile the sums are made of.
IsProfile(p) ==
  /\ {"slotMin", "ring24", "slotHour", "ring7", "curHour", "curHourBytes"} \subseteq DOMAIN p
  /\ p.slotMin \in [Slots -> Int] /\ p.ring24 \in [Slots -> Nat]
  /\ p.slotHour \in [HourSlots -> Int] /\ p.ring7 \in [HourSlots -> Nat]
  /\ p.curHour \in Int /\ p.curHourBytes \in Nat

Window24(t) == {m \in Minutes : m \in (t - Ring + 1)..t}
Window7(t) == {m \in Minutes : HourOf(m) \in (HourOf(t) - HourRing + 1)..HourOf(t)}

\* A slot in use holds a minute (an hour) up to the watermark that falls in it.
\* No hour held is a turn of the ring ahead of the hour in progress, which may
\* have stepped back.
MinutesDated(p, w) ==
  \A s \in Slots :
     \/ p.slotMin[s] = -1 /\ p.ring24[s] = 0
     \/ p.slotMin[s] \in 0..w /\ p.slotMin[s] % Ring = s

HoursDated(p, w) ==
  /\ p.curHour \in -1..HourOf(w)
  /\ p.curHour = -1 => p.curHourBytes = 0
  /\ \A s \in HourSlots :
        \/ p.slotHour[s] = -1 /\ p.ring7[s] = 0
        \/ /\ p.slotHour[s] \in 0..HourOf(w) /\ p.slotHour[s] % HourRing = s
           /\ p.slotHour[s] < p.curHour + HourRing

MinutesExact(p, tr, w) == \A t \in w..MaxMinute : Sum24At(p, t) = Total(tr, Window24(t))
HoursExact(p, tr, w) == \A t \in w..MaxMinute : Sum7At(p, t) = Total(tr, Window7(t))

LEMMA Lengths ==
  /\ Ring \in Nat \ {0} /\ HourLen \in Nat \ {0} /\ HourRing \in Nat \ {0}
  /\ MaxMinute \in Nat /\ Sizes \subseteq Nat
BY TelemetryAssumption

LEMMA Hours ==
  ASSUME NEW a \in Int, NEW b \in Int
  PROVE  /\ HourOf(a) \in Int
         /\ a >= 0 => HourOf(a) >= 0
         /\ a <= b => HourOf(a) <= HourOf(b)
         /\ b < a + Ring => HourOf(b) < HourOf(a) + HourRing
<1>1. HourLen \in Nat \ {0} /\ Ring \in Nat \ {0} /\ HourRing \in Nat \ {0}
  BY Lengths
<1>2. HourOf(a) \in Int /\ HourOf(b) \in Int
  BY <1>1, DivMod, Zenon DEF HourOf
<1>3. \A x \in Int, y \in Int, n \in Int : y <= x + HourLen * n => HourOf(y) <= HourOf(x) + n
  BY <1>1, DivGrows, Zenon DEF HourOf
<1>4. ASSUME a <= b PROVE HourOf(a) <= HourOf(b)
  <2>1. a <= b + HourLen * 0
    BY <1>1, <1>4, SMTT(30)
  <2>2. HourOf(a) <= HourOf(b) + 0
    BY <1>3, <2>1, SMTT(30)
  <2> QED BY <1>2, <2>2, SMTT(30)
<1>5. ASSUME b < a + Ring PROVE HourOf(b) < HourOf(a) + HourRing
  <2>1. HourLen * HourRing >= Ring + HourLen
    BY TelemetryAssumption
  <2>2. HourLen * (HourRing - 1) = HourLen * HourRing - HourLen /\ HourLen * HourRing \in Int
    BY <1>1, SMTT(30)
  <2>3. b <= a + HourLen * (HourRing - 1)
    BY <1>1, <1>5, <2>1, <2>2, SMTT(30)
  <2>4. HourRing - 1 \in Int
    BY <1>1, SMTT(30)
  <2>5. HourOf(b) <= HourOf(a) + (HourRing - 1)
    BY <1>3, <2>3, <2>4
  <2> QED BY <1>1, <1>2, <2>5, SMTT(30)
<1>6. ASSUME a >= 0 PROVE HourOf(a) >= 0
  BY <1>1, <1>6, SMTT(30) DEF HourOf
<1> QED BY <1>2, <1>4, <1>5, <1>6

\* Minutes, slots and hours are finite.
LEMMA FiniteRings ==
  ASSUME NEW S, S \subseteq Minutes \/ S \subseteq Slots \/ S \subseteq HourSlots
  PROVE  IsFiniteSet(S)
<1>1. 0 \in Int /\ MaxMinute \in Int /\ Ring - 1 \in Int /\ HourRing - 1 \in Int
  BY Lengths, SMTT(30)
<1>2. IsFiniteSet(Minutes) /\ IsFiniteSet(Slots) /\ IsFiniteSet(HourSlots)
  BY <1>1, FS_Interval, Zenon DEF Minutes, Slots, HourSlots
<1> QED BY <1>2, FS_Subset, Zenon

\* The volumes g are the volumes tr and the bytes of a record of minute m.
MoreAt(g, tr, m, bytes) ==
  /\ m \in Minutes /\ bytes \in Nat
  /\ tr \in [Minutes -> Nat] /\ g \in [Minutes -> Nat]
  /\ g[m] = tr[m] + bytes /\ \A y \in Minutes \ {m} : g[y] = tr[y]

MoreOver(S, g, tr, m, bytes) ==
  /\ Total(tr, S) \in Nat
  /\ m \in S => Total(g, S) = Total(tr, S) + bytes
  /\ m \notin S => Total(g, S) = Total(tr, S)

LEMMA TruthAdds ==
  ASSUME NEW g, NEW tr, NEW m, NEW bytes, MoreAt(g, tr, m, bytes), NEW S \in SUBSET Minutes
  PROVE  MoreOver(S, g, tr, m, bytes)
<1>1. IsFiniteSet(S)
  BY FiniteRings
<1>2. /\ \A y \in S : tr[y] \in Nat
      /\ \A y \in S : g[y] \in Nat
      /\ \A y \in S \ {m} : tr[y] = g[y]
      /\ g[m] = tr[m] + bytes /\ tr[m] \in Nat /\ bytes \in Nat
  BY SMTT(30) DEF MoreAt
<1>3. /\ Total(tr, S) \in Nat /\ Total(g, S) \in Nat
      /\ Total(g, S) + Part(tr, S, m) = Total(tr, S) + Part(g, S, m)
  <2>1. OneApart(tr, S, g, S, m)
    BY <1>1, <1>2, Zenon DEF OneApart
  <2>2. ApartBy(tr, S, g, S, m)
    BY ONLY <2>1, TotalStep, ZenonT(20)
  <2> QED BY <2>2, Zenon DEF ApartBy
<1>4. /\ m \in S => Total(g, S) = Total(tr, S) + bytes
      /\ m \notin S => Total(g, S) = Total(tr, S)
  BY <1>2, <1>3, SMTT(30) DEF Part
<1> QED BY <1>3, <1>4 DEF MoreOver

\* The bytes of minute m are in the ring of q, beside what p held of it.
Written(p, q, m, bytes) ==
  LET s == m % Ring
  IN  /\ q.slotMin[s] = m
      /\ q.ring24[s] = (IF p.slotMin[s] = m THEN p.ring24[s] ELSE 0) + bytes
      /\ \A y \in Slots \ {s} : q.slotMin[y] = p.slotMin[y] /\ q.ring24[y] = p.ring24[y]

\* The record is of another hour than the one in progress.
Turns(p, m) == p.curHour >= 0 /\ HourOf(m) # p.curHour

\* commitHour and the types it keeps.
LEMMA CommitWrites ==
  ASSUME NEW p, IsProfile(p), NEW q, q = commitHour(p)
  PROVE  /\ IsProfile(q) /\ q.curHour = p.curHour /\ q.curHourBytes = 0
         /\ q.slotMin = p.slotMin /\ q.ring24 = p.ring24
         /\ q.slotHour = [p.slotHour EXCEPT ![p.curHour % HourRing] = p.curHour]
         /\ q.ring7 =
              [p.ring7 EXCEPT ![p.curHour % HourRing] =
                 (IF p.slotHour[p.curHour % HourRing] = p.curHour
                    THEN p.ring7[p.curHour % HourRing] ELSE 0) + p.curHourBytes]
<1>1. p.curHour % HourRing \in HourSlots
  BY Lengths, SMTT(30) DEF HourSlots, IsProfile
<1>2. /\ q.curHour = p.curHour /\ q.curHourBytes = 0
      /\ q.slotHour = [p.slotHour EXCEPT ![p.curHour % HourRing] = p.curHour]
      /\ q.ring7 =
           [p.ring7 EXCEPT ![p.curHour % HourRing] =
              (IF p.slotHour[p.curHour % HourRing] = p.curHour
                 THEN p.ring7[p.curHour % HourRing] ELSE 0) + p.curHourBytes]
  BY SMTT(30) DEF commitHour, IsProfile
<1>3. /\ q.slotHour \in [HourSlots -> Int] /\ q.ring7 \in [HourSlots -> Nat]
  BY <1>1, <1>2, SMTT(30) DEF IsProfile
<1>4. q.slotMin = p.slotMin /\ q.ring24 = p.ring24 /\ DOMAIN q = DOMAIN p
  BY SMTT(30) DEF commitHour, IsProfile
<1>5. IsProfile(q)
  BY <1>2, <1>3, <1>4, SMTT(30) DEF IsProfile
<1> QED BY <1>2, <1>4, <1>5, Zenon

\* The hour in progress of p is in the ring of q.
Poured(p, q) ==
  LET k == p.curHour % HourRing
  IN  /\ q.slotHour[k] = p.curHour
      /\ q.ring7[k] = (IF p.slotHour[k] = p.curHour THEN p.ring7[k] ELSE 0) + p.curHourBytes
      /\ \A y \in HourSlots \ {k} : q.slotHour[y] = p.slotHour[y] /\ q.ring7[y] = p.ring7[y]

\* What add writes.
Added(p, q, m, bytes) ==
  /\ m \in Nat /\ bytes \in Nat /\ IsProfile(q) /\ Written(p, q, m, bytes)
  /\ q.curHour = HourOf(m)
  /\ Turns(p, m) => q.curHourBytes = bytes /\ Poured(p, q)
  /\ ~Turns(p, m) =>
       /\ q.curHourBytes = p.curHourBytes + bytes
       /\ q.slotHour = p.slotHour /\ q.ring7 = p.ring7

LEMMA AddWrites ==
  ASSUME NEW p, IsProfile(p), NEW m \in Nat, NEW bytes \in Nat, NEW q, q = add(p, m, bytes)
  PROVE  Added(p, q, m, bytes)
<1> DEFINE s == m % Ring
           stale == IF p.slotMin[s] # m /\ p.slotMin[s] >= 0 THEN p.ring24[s] ELSE 0
           held == IF p.slotMin[s] = m THEN p.ring24[s] ELSE 0
           r == [p EXCEPT !.slotMin[s] = m, !.ring24[s] = held + bytes,
                          !.sum24 = (@ - stale + bytes) % Word]
           c == IF Turns(r, m) THEN commitHour(r) ELSE r
<1>1. q = [c EXCEPT !.curHour = HourOf(m), !.curHourBytes = @ + bytes]
  BY Zenon DEF add, Turns
<1>2. s \in Slots
  BY Lengths, SMTT(30) DEF Slots
<1>3. HourOf(m) \in Int
  BY Hours, SMTT(30)
<1>4. /\ IsProfile(r) /\ Written(p, r, m, bytes)
      /\ r.slotHour = p.slotHour /\ r.ring7 = p.ring7
      /\ r.curHour = p.curHour /\ r.curHourBytes = p.curHourBytes
  <2> DEFINE sm == [p.slotMin EXCEPT ![s] = m]
             rg == [p.ring24 EXCEPT ![s] = held + bytes]
  <2>1. sm \in [Slots -> Int] /\ rg \in [Slots -> Nat]
    BY <1>2, SMTT(30) DEF IsProfile
  <2>2. /\ r.slotMin = sm /\ r.ring24 = rg /\ r.slotHour = p.slotHour /\ r.ring7 = p.ring7
        /\ r.curHour = p.curHour /\ r.curHourBytes = p.curHourBytes /\ DOMAIN r = DOMAIN p
    BY SMTT(30) DEF IsProfile
  <2> HIDE DEF r
  <2>3. Written(p, r, m, bytes)
    BY <1>2, <2>2, SMTT(30) DEF Written, IsProfile
  <2> HIDE DEF sm, rg
  <2> QED BY <2>1, <2>2, <2>3, SMTT(30) DEF IsProfile
<1> HIDE DEF r, s, stale, held
<1>5. CASE Turns(p, m)
  <2>1. c = commitHour(r)
    BY <1>4, <1>5 DEF Turns
  <2> HIDE DEF c
  <2>2. /\ IsProfile(c) /\ c.curHourBytes = 0
        /\ c.slotMin = r.slotMin /\ c.ring24 = r.ring24
        /\ c.slotHour = [p.slotHour EXCEPT ![p.curHour % HourRing] = p.curHour]
        /\ c.ring7 =
             [p.ring7 EXCEPT ![p.curHour % HourRing] =
                (IF p.slotHour[p.curHour % HourRing] = p.curHour
                   THEN p.ring7[p.curHour % HourRing] ELSE 0) + p.curHourBytes]
    BY <1>4, <2>1, CommitWrites, SMTT(30)
  <2>3. /\ IsProfile(q) /\ q.curHour = HourOf(m) /\ q.curHourBytes = bytes
        /\ q.slotMin = c.slotMin /\ q.ring24 = c.ring24
        /\ q.slotHour = c.slotHour /\ q.ring7 = c.ring7
    BY <1>1, <1>3, <2>2, SMTT(30) DEF IsProfile
  <2>4. p.curHour % HourRing \in HourSlots
    BY Lengths, SMTT(30) DEF HourSlots, IsProfile
  <2>5. Poured(p, q)
    BY <2>2, <2>3, <2>4, SMTT(30) DEF Poured, IsProfile
  <2>6. Written(p, q, m, bytes)
    <3>1. q.slotMin = r.slotMin /\ q.ring24 = r.ring24
      BY <2>2, <2>3, Zenon
    <3> QED BY <1>4, <3>1, Zenon DEF Written
  <2> QED BY <1>5, <2>3, <2>5, <2>6, Zenon DEF Added
<1>6. CASE ~Turns(p, m)
  <2>1. c = r
    BY <1>4, <1>6 DEF Turns
  <2> HIDE DEF c
  <2>2. /\ IsProfile(q) /\ q.curHour = HourOf(m) /\ q.curHourBytes = r.curHourBytes + bytes
        /\ q.slotMin = r.slotMin /\ q.ring24 = r.ring24
        /\ q.slotHour = r.slotHour /\ q.ring7 = r.ring7
    BY <1>1, <1>3, <1>4, <2>1, SMTT(30) DEF IsProfile
  <2>3. Written(p, q, m, bytes)
    BY <1>4, <2>2, Zenon DEF Written
  <2> QED BY <1>4, <1>6, <2>2, <2>3, Zenon DEF Added
<1> QED BY <1>5, <1>6

\* A minute the written slot held before is in no window from w on, once the
\* record's own is not late for w.
LEMMA MinuteReplaced ==
  ASSUME NEW p, IsProfile(p), NEW w \in Minutes, NEW m \in 0..w, m > w - Ring,
         MinutesDated(p, w), NEW t \in w..MaxMinute
  PROVE  LET s == m % Ring
         IN  p.slotMin[s] # m /\ p.slotMin[s] \in (t - Ring + 1)..t => p.ring24[s] = 0
<1> DEFINE s == m % Ring
           n == p.slotMin[s]
<1>1. s \in Slots /\ n \in Int /\ t \in Int /\ w \in Nat /\ m \in Nat
  BY Lengths, SMTT(30) DEF Slots, IsProfile, Minutes
<1>2. SUFFICES ASSUME n # m, n \in (t - Ring + 1)..t, n \in 0..w, n % Ring = s PROVE FALSE
  BY <1>1, Zenon DEF MinutesDated
<1>3. \A a \in Int, b \in Int : a % Ring = b % Ring /\ a < b => a + Ring <= b
  BY Lengths, ModApart, Zenon
<1>4. n % Ring = m % Ring
  BY <1>2
<1> HIDE DEF n, s
<1>5. n + Ring <= m \/ m + Ring <= n
  BY <1>1, <1>2, <1>3, <1>4, SMTT(30)
<1> QED BY <1>1, <1>2, <1>5, Lengths, SMTT(30)

\* The ring of minutes after add.
LEMMA AddMinutes ==
  ASSUME NEW p, IsProfile(p), NEW w \in Minutes, NEW m \in 0..w, m > w - Ring,
         NEW bytes, NEW tr, MinutesDated(p, w), MinutesExact(p, tr, w),
         NEW q, Added(p, q, m, bytes), NEW g, MoreAt(g, tr, m, bytes)
  PROVE  MinutesDated(q, w) /\ MinutesExact(q, g, w)
<1> DEFINE x == m % Ring
           held == IF p.slotMin[x] = m THEN p.ring24[x] ELSE 0
<1>1. x \in Slots /\ m \in Nat /\ m \in Minutes /\ w \in Nat
  BY Lengths, SMTT(30) DEF Slots, Minutes
<1>2. Written(p, q, m, bytes) /\ bytes \in Nat
  BY DEF Added
<1>3. /\ p.slotMin \in [Slots -> Int] /\ p.ring24 \in [Slots -> Nat] /\ held \in Nat
      /\ q.slotMin[x] = m /\ q.ring24[x] = held + bytes
      /\ \A y \in Slots \ {x} : q.slotMin[y] = p.slotMin[y] /\ q.ring24[y] = p.ring24[y]
  BY <1>1, <1>2 DEF IsProfile, Written
<1>4. MinutesDated(q, w)
  BY <1>1, <1>3, SMTT(30) DEF MinutesDated
<1>5. ASSUME NEW t \in w..MaxMinute
      PROVE  Sum24At(q, t) = Total(g, Window24(t))
  <2> DEFINE W == (t - Ring + 1)..t
             S == {s \in Slots : p.slotMin[s] \in W}
             T == {s \in Slots : q.slotMin[s] \in W}
  <2>1. p.slotMin[x] # m /\ p.slotMin[x] \in W => p.ring24[x] = 0
    BY MinuteReplaced
  <2>2. Sum24At(p, t) = Total(p.ring24, S) /\ Sum24At(q, t) = Total(q.ring24, T)
    BY DEF Sum24At
  <2>3. Sum24At(p, t) = Total(tr, Window24(t))
    BY DEF MinutesExact
  <2>4. m \in Window24(t) <=> m \in W
    BY <1>1 DEF Window24
  <2>5. /\ Total(tr, Window24(t)) \in Nat
        /\ m \in Window24(t) => Total(g, Window24(t)) = Total(tr, Window24(t)) + bytes
        /\ m \notin Window24(t) => Total(g, Window24(t)) = Total(tr, Window24(t))
    <3>1. Window24(t) \in SUBSET Minutes
      BY DEF Window24
    <3>2. MoreOver(Window24(t), g, tr, m, bytes)
      BY <3>1, TruthAdds
    <3> QED BY <3>2, Zenon DEF MoreOver
  <2> HIDE DEF W
  <2>6. OneApart(p.ring24, S, q.ring24, T, x)
    <3>1. IsFiniteSet(S) /\ IsFiniteSet(T)
      BY FiniteRings, Zenon
    <3>2. S \ {x} = T \ {x}
      BY <1>3, Zenon
    <3>3. \A y \in Slots : p.ring24[y] \in Nat /\ q.ring24[y] \in Nat
      <4>1. p.ring24 \in [Slots -> Nat] /\ q.ring24 \in [Slots -> Nat]
        BY DEF Added, IsProfile
      <4> QED BY ONLY <4>1, SMTT(30)
    <3>4. \A y \in Slots \ {x} : p.ring24[y] = q.ring24[y]
      BY <1>3, Zenon
    <3> QED BY <3>1, <3>2, <3>3, <3>4, Zenon DEF OneApart
  <2>7. /\ x \in S <=> p.slotMin[x] \in W
        /\ x \in T <=> m \in W
        /\ q.ring24[x] = held + bytes
    BY <1>1, <1>3, Zenon
  <2> HIDE DEF S, T
  <2>8. /\ Total(p.ring24, S) \in Nat /\ Total(q.ring24, T) \in Nat
        /\ Total(q.ring24, T) + Part(p.ring24, S, x) = Total(p.ring24, S) + Part(q.ring24, T, x)
    <3>1. ApartBy(p.ring24, S, q.ring24, T, x)
      BY ONLY <2>6, TotalStep, ZenonT(20)
    <3> QED BY <3>1, Zenon DEF ApartBy
  <2>9. Part(q.ring24, T, x) = Part(p.ring24, S, x) + (IF m \in W THEN bytes ELSE 0)
        /\ Part(p.ring24, S, x) \in Nat
    BY <1>1, <1>2, <1>3, <2>1, <2>7, SMTT(30) DEF Part
  <2> QED BY <1>2, <2>2, <2>3, <2>4, <2>5, <2>8, <2>9, SMTT(30)
<1> QED BY <1>4, <1>5 DEF MinutesExact

\* An hour the written slot held before is in no window from w on that the
\* hour in progress is not in, nor in one it is in.
LEMMA HourReplaced ==
  ASSUME NEW p, IsProfile(p), NEW w \in Minutes, HoursDated(p, w), p.curHour >= 0,
         NEW t \in w..MaxMinute
  PROVE  LET k == p.curHour % HourRing
         IN  p.slotHour[k] # p.curHour
               /\ p.slotHour[k] \in (HourOf(t) - HourRing + 1)..HourOf(t) => p.ring7[k] = 0
<1> DEFINE k == p.curHour % HourRing
           n == p.slotHour[k]
           h == p.curHour
<1>1. k \in HourSlots /\ n \in Int /\ h \in Nat /\ t \in Int /\ w \in Int /\ w <= t
  BY Lengths, SMTT(30) DEF HourSlots, IsProfile, Minutes
<1>2. HourOf(w) \in Int /\ HourOf(t) \in Int /\ HourOf(w) <= HourOf(t)
  BY <1>1, Hours
<1>3. SUFFICES ASSUME n # h, n \in (HourOf(t) - HourRing + 1)..HourOf(t), n % HourRing = k,
                      n < h + HourRing
               PROVE  FALSE
  BY <1>1, Zenon DEF HoursDated
<1>4. h <= HourOf(w)
  BY <1>1, <1>2, SMTT(30) DEF HoursDated
<1>5. \A a \in Int, b \in Int : a % HourRing = b % HourRing /\ a < b => a + HourRing <= b
  BY Lengths, ModApart, Zenon
<1>6. n % HourRing = h % HourRing /\ h \in Int
  BY <1>1, <1>3
<1> HIDE DEF n, h, k
<1>7. n + HourRing <= h \/ h + HourRing <= n
  BY <1>1, <1>3, <1>5, <1>6, SMTT(30)
<1> QED BY <1>1, <1>2, <1>3, <1>4, <1>7, Lengths, SMTT(30)

\* The dates of the ring of hours after add.
LEMMA AddHoursDated ==
  ASSUME NEW p, IsProfile(p), NEW w \in Minutes, NEW m \in 0..w, m > w - Ring,
         NEW bytes, HoursDated(p, w), NEW q, Added(p, q, m, bytes)
  PROVE  HoursDated(q, w)
<1> DEFINE k == p.curHour % HourRing
<1>1. /\ m \in Nat /\ w \in Int /\ HourOf(m) \in Nat /\ HourOf(w) \in Int /\ HourOf(m) <= HourOf(w)
      /\ HourOf(w) < HourOf(m) + HourRing /\ HourRing \in Nat
  <2>1. m \in Int /\ w \in Int /\ m >= 0 /\ m <= w /\ w < m + Ring
    BY Lengths, SMTT(30) DEF Minutes
  <2> QED BY <2>1, Hours, Lengths, SMTT(30)
<1>2. /\ q.curHour = HourOf(m)
      /\ ~Turns(p, m) => q.slotHour = p.slotHour /\ q.ring7 = p.ring7
      /\ Turns(p, m) => Poured(p, q)
  BY Zenon DEF Added
<1>3. ASSUME NEW s \in HourSlots
      PROVE  \/ q.slotHour[s] = -1 /\ q.ring7[s] = 0
             \/ /\ q.slotHour[s] \in 0..HourOf(w) /\ q.slotHour[s] % HourRing = s
                /\ q.slotHour[s] < q.curHour + HourRing
  <2>1. \/ p.slotHour[s] = -1 /\ p.ring7[s] = 0
        \/ p.slotHour[s] \in 0..HourOf(w) /\ p.slotHour[s] % HourRing = s
    BY DEF HoursDated
  <2>2. \A n \in 0..HourOf(w) : n < q.curHour + HourRing
    BY <1>1, <1>2, SMTT(30)
  <2>3. CASE ~Turns(p, m)
    <3>1. q.slotHour = p.slotHour /\ q.ring7 = p.ring7
      BY <1>2, <2>3
    <3> QED BY <2>1, <2>2, <3>1, Zenon
  <2>4. CASE Turns(p, m)
    <3>2. CASE s = k
      <4>1. q.slotHour[s] = p.curHour /\ p.curHour \in 0..HourOf(w)
        BY <1>1, <1>2, <2>4, <3>2, SMTT(30) DEF IsProfile, HoursDated, Turns, Poured
      <4> QED BY <2>2, <3>2, <4>1, Zenon
    <3>3. CASE s # k
      <4>1. q.slotHour[s] = p.slotHour[s] /\ q.ring7[s] = p.ring7[s]
        BY <1>2, <2>4, <3>3 DEF Poured
      <4> QED BY <2>1, <2>2, <4>1, Zenon
    <3> QED BY <3>2, <3>3
  <2> QED BY <2>3, <2>4
<1>4. q.curHour \in -1..HourOf(w) /\ q.curHour # -1
  BY <1>1, <1>2, SMTT(30)
<1> QED BY <1>3, <1>4, Zenon DEF HoursDated

\* What the ring of hours and the hour in progress sum to after add.
LEMMA AddHoursSum ==
  ASSUME NEW p, IsProfile(p), NEW w \in Minutes, NEW m \in 0..w, NEW bytes,
         HoursDated(p, w), NEW q, Added(p, q, m, bytes), NEW t \in w..MaxMinute
  PROVE  LET H == (HourOf(t) - HourRing + 1)..HourOf(t)
         IN  /\ Sum7At(p, t) \in Nat
             /\ HourOf(m) \in H => Sum7At(q, t) = Sum7At(p, t) + bytes
             /\ HourOf(m) \notin H => Sum7At(q, t) = Sum7At(p, t)
<1> DEFINE H == (HourOf(t) - HourRing + 1)..HourOf(t)
           S == {s \in HourSlots : p.slotHour[s] \in H}
           T == {s \in HourSlots : q.slotHour[s] \in H}
           k == p.curHour % HourRing
           now == IF p.curHour >= 0 /\ p.curHour \in H THEN p.curHourBytes ELSE 0
<1>1. m \in Nat /\ HourOf(m) \in Nat
  <2>1. m \in Int /\ m >= 0 /\ m \in Nat
    BY SMTT(30) DEF Minutes
  <2> QED BY <2>1, Hours, SMTT(30)
<1>2. /\ IsProfile(q) /\ q.curHour = HourOf(m) /\ bytes \in Nat
      /\ Turns(p, m) => q.curHourBytes = bytes /\ Poured(p, q)
      /\ ~Turns(p, m) =>
           /\ q.curHourBytes = p.curHourBytes + bytes
           /\ q.slotHour = p.slotHour /\ q.ring7 = p.ring7
  BY Zenon DEF Added
<1>3. /\ Sum7At(p, t) = Total(p.ring7, S) + now
      /\ Sum7At(q, t) = Total(q.ring7, T)
           + IF q.curHour >= 0 /\ q.curHour \in H THEN q.curHourBytes ELSE 0
  BY Zenon DEF Sum7At
<1>4. IsFiniteSet(S) /\ IsFiniteSet(T)
  BY FiniteRings, Zenon
<1>5. /\ \A y \in S : p.ring7[y] \in Nat
      /\ \A y \in T : q.ring7[y] \in Nat
  BY <1>2 DEF IsProfile
<1>6. Total(p.ring7, S) \in Nat /\ Total(q.ring7, T) \in Nat
  BY <1>4, <1>5, TotalIsFinite, Zenon
<1>7. p.curHour \in Int /\ p.curHourBytes \in Nat /\ now \in Nat
  BY DEF IsProfile
<1>8. CASE ~Turns(p, m)
  <2>1. S = T /\ q.ring7 = p.ring7
    BY <1>2, <1>8
  <2>2. p.curHour < 0 => p.curHourBytes = 0
    BY <1>7, SMTT(30) DEF HoursDated
  <2> HIDE DEF S, T, H
  <2> QED BY <1>1, <1>2, <1>3, <1>6, <1>7, <1>8, <2>1, <2>2, SMTT(30) DEF Turns, H
<1>9. CASE Turns(p, m)
  <2>1. k \in HourSlots
    BY Lengths, <1>7, SMTT(30) DEF HourSlots
  <2>2. S \ {k} = T \ {k}
    BY <1>2, <1>9, Zenon DEF Poured
  <2>3. \A y \in S \ {k} : p.ring7[y] = q.ring7[y]
    BY <1>2, <1>9, Zenon DEF Poured
  <2>4. /\ k \in S <=> p.slotHour[k] \in H
        /\ k \in T <=> p.curHour \in H
        /\ q.ring7[k] = (IF p.slotHour[k] = p.curHour THEN p.ring7[k] ELSE 0) + p.curHourBytes
        /\ p.ring7[k] \in Nat
    BY <1>2, <1>9, <2>1 DEF Poured, IsProfile
  <2>5. p.slotHour[k] # p.curHour /\ p.slotHour[k] \in H => p.ring7[k] = 0
    BY <1>7, <1>9, HourReplaced DEF Turns
  <2>6. OneApart(p.ring7, S, q.ring7, T, k)
    BY <1>4, <1>5, <2>2, <2>3, Zenon DEF OneApart
  <2> HIDE DEF S, T, H, k
  <2>7. Total(q.ring7, T) + Part(p.ring7, S, k) = Total(p.ring7, S) + Part(q.ring7, T, k)
    <3>1. ApartBy(p.ring7, S, q.ring7, T, k)
      BY ONLY <2>6, TotalStep, ZenonT(20)
    <3> QED BY <3>1, Zenon DEF ApartBy
  <2>8. Part(q.ring7, T, k) = Part(p.ring7, S, k) + now /\ Part(p.ring7, S, k) \in Nat
    BY <1>7, <1>9, <2>4, <2>5, SMTT(30) DEF Part, Turns
  <2> HIDE DEF now
  <2>9. Total(q.ring7, T) = Sum7At(p, t) /\ Sum7At(p, t) \in Nat
    BY <1>3, <1>6, <1>7, <2>7, <2>8, SMTT(30)
  <2> QED BY <1>1, <1>2, <1>3, <1>9, <2>9, SMTT(30) DEF H
<1> QED BY <1>8, <1>9

\* The ring of hours after add.
LEMMA AddHours ==
  ASSUME NEW p, IsProfile(p), NEW w \in Minutes, NEW m \in 0..w, NEW bytes,
         NEW tr, HoursDated(p, w), HoursExact(p, tr, w),
         NEW q, Added(p, q, m, bytes), NEW g, MoreAt(g, tr, m, bytes)
  PROVE  HoursExact(q, g, w)
<1> SUFFICES ASSUME NEW t \in w..MaxMinute PROVE Sum7At(q, t) = Total(g, Window7(t))
  BY DEF HoursExact
<1> DEFINE H == (HourOf(t) - HourRing + 1)..HourOf(t)
<1>1. m \in Minutes
  BY Lengths, SMTT(30) DEF Minutes
<1>2. m \in Window7(t) <=> HourOf(m) \in H
  BY <1>1 DEF Window7
<1>3. /\ Total(tr, Window7(t)) \in Nat
      /\ m \in Window7(t) => Total(g, Window7(t)) = Total(tr, Window7(t)) + bytes
      /\ m \notin Window7(t) => Total(g, Window7(t)) = Total(tr, Window7(t))
  <2>1. Window7(t) \in SUBSET Minutes
    BY DEF Window7
  <2>2. MoreOver(Window7(t), g, tr, m, bytes)
    BY <2>1, TruthAdds
  <2> QED BY <2>2, Zenon DEF MoreOver
<1>4. /\ HourOf(m) \in H => Sum7At(q, t) = Sum7At(p, t) + bytes
      /\ HourOf(m) \notin H => Sum7At(q, t) = Sum7At(p, t)
  BY AddHoursSum, SMTT(30)
<1>5. Sum7At(p, t) = Total(tr, Window7(t))
  BY DEF HoursExact
<1> QED BY <1>2, <1>3, <1>4, <1>5, Zenon

-----------------------------------------------------------------------------
(* The detector. *)

\* A profile of a destination that was fed tr, at watermark w.
ExactProfile(p, tr, w) ==
  /\ IsProfile(p) /\ MinutesDated(p, w) /\ HoursDated(p, w)
  /\ MinutesExact(p, tr, w) /\ HoursExact(p, tr, w)

\* The profiles f are exact for the volumes u; a destination that is not
\* tracked has none.
ExactProfiles(f, u, w) ==
  /\ DOMAIN f \subseteq Dsts /\ u \in [Dsts -> [Minutes -> Nat]]
  /\ \A d \in DOMAIN f : ExactProfile(f[d], u[d], w)
  /\ \A d \in Dsts \ DOMAIN f : u[d] = [m \in Minutes |-> 0]

RingsInv ==
  /\ minute \in Minutes /\ watermark \in -1..MaxMinute
  /\ DOMAIN profiles # {} => watermark >= 0
  /\ ExactProfiles(profiles, truth, watermark)

\* The watermark only moves away from what the rings hold.
LEMMA WatermarkMoves ==
  ASSUME NEW p, NEW tr, NEW w \in Minutes, NEW v \in Minutes, w <= v, ExactProfile(p, tr, w)
  PROVE  ExactProfile(p, tr, v)
<1>1. w \in Int /\ v \in Int /\ HourOf(w) \in Int /\ HourOf(v) \in Int /\ HourOf(w) <= HourOf(v)
  <2>1. w \in Int /\ v \in Int
    BY SMTT(30) DEF Minutes
  <2> QED BY <2>1, Hours
<1>2. IsProfile(p)
  BY DEF ExactProfile
<1>3. \A n \in Int : /\ n \in 0..w => n \in 0..v
                     /\ n \in 0..HourOf(w) => n \in 0..HourOf(v)
                     /\ n \in -1..HourOf(w) => n \in -1..HourOf(v)
  BY <1>1, SMTT(30)
<1>4. MinutesDated(p, v)
  BY <1>2, <1>3 DEF ExactProfile, MinutesDated, IsProfile
<1>5. HoursDated(p, v)
  BY <1>2, <1>3 DEF ExactProfile, HoursDated, IsProfile
<1>6. \A t \in v..MaxMinute : t \in w..MaxMinute
  BY <1>1, Lengths, SMTT(30)
<1>7. MinutesExact(p, tr, v) /\ HoursExact(p, tr, v)
  BY <1>6, Zenon DEF ExactProfile, MinutesExact, HoursExact
<1> QED BY <1>2, <1>4, <1>5, <1>7 DEF ExactProfile

\* A record that is not late.
LEMMA AddExact ==
  ASSUME NEW p, NEW w \in Minutes, NEW m \in 0..w, m > w - Ring, NEW bytes \in Nat,
         NEW tr \in [Minutes -> Nat], ExactProfile(p, tr, w)
  PROVE  ExactProfile(add(p, m, bytes), [tr EXCEPT ![m] = @ + bytes], w)
<1> DEFINE q == add(p, m, bytes)
           g == [tr EXCEPT ![m] = @ + bytes]
<1>1. m \in Nat
  BY SMTT(30) DEF Minutes
<1>2. /\ IsProfile(p) /\ MinutesDated(p, w) /\ HoursDated(p, w)
      /\ MinutesExact(p, tr, w) /\ HoursExact(p, tr, w)
  BY DEF ExactProfile
<1>3. Added(p, q, m, bytes)
  BY <1>1, <1>2, AddWrites, Zenon
<1>4. MoreAt(g, tr, m, bytes)
  <2>1. m \in Minutes
    BY Lengths, SMTT(30) DEF Minutes
  <2> QED BY <2>1, SMTT(30) DEF MoreAt
<1> HIDE DEF q, g
<1>5. MinutesDated(q, w) /\ MinutesExact(q, g, w)
  BY <1>2, <1>3, <1>4, AddMinutes, Zenon
<1>6. HoursDated(q, w)
  BY <1>2, <1>3, AddHoursDated, Zenon
<1>7. HoursExact(q, g, w)
  BY <1>2, <1>3, <1>4, AddHours, Zenon
<1>8. ExactProfile(q, g, w)
  BY <1>3, <1>5, <1>6, <1>7, Zenon DEF ExactProfile, Added
<1> QED BY <1>8 DEF q, g

\* A destination seen for the first time.
LEMMA NewExact ==
  ASSUME NEW w \in Minutes
  PROVE  ExactProfile(newEntityProfile, [m \in Minutes |-> 0], w)
<1> DEFINE p == newEntityProfile
           z == [m \in Minutes |-> 0]
<1>1. /\ IsProfile(p) /\ p.curHour = -1 /\ p.curHourBytes = 0
      /\ \A s \in Slots : p.slotMin[s] = -1 /\ p.ring24[s] = 0
      /\ \A s \in HourSlots : p.slotHour[s] = -1 /\ p.ring7[s] = 0
  BY SMTT(30) DEF newEntityProfile, IsProfile
<1> HIDE DEF p
<1>2. w \in Int /\ w >= 0 /\ HourOf(w) \in Int /\ HourOf(w) >= 0
  <2>1. w \in Int /\ w >= 0
    BY SMTT(30) DEF Minutes
  <2> QED BY <2>1, Hours
<1>3. MinutesDated(p, w)
  BY <1>1, Zenon DEF MinutesDated
<1>4. HoursDated(p, w)
  <2>1. -1 \in -1..HourOf(w)
    BY <1>2, SMTT(30)
  <2> QED BY <1>1, <2>1, Zenon DEF HoursDated
<1>5. ASSUME NEW t \in w..MaxMinute
      PROVE  /\ Sum24At(p, t) = Total(z, Window24(t))
             /\ Sum7At(p, t) = Total(z, Window7(t))
  <2>1. Total(z, Window24(t)) = 0 /\ Total(z, Window7(t)) = 0
    <3>1. \A m \in Window24(t) \cup Window7(t) : z[m] = 0
      BY DEF Window24, Window7
    <3> QED BY <3>1, TotalOfZeroes, Zenon
  <2>2. Sum24At(p, t) = 0
    BY <1>1, TotalOfZeroes, Zenon DEF Sum24At
  <2>3. Total(p.ring7, {s \in HourSlots :
                p.slotHour[s] \in (HourOf(t) - HourRing + 1)..HourOf(t)}) = 0
    BY <1>1, TotalOfZeroes, Zenon
  <2>4. Sum7At(p, t) = 0
    BY <1>1, <2>3, SMTT(30) DEF Sum7At
  <2> QED BY <2>1, <2>2, <2>4, Zenon
<1> QED BY <1>1, <1>3, <1>4, <1>5, Zenon DEF ExactProfile, MinutesExact, HoursExact, p

\* sealLocked writes no ring.
LEMMA SealedExact ==
  ASSUME NEW p, NEW tr, NEW w, ExactProfile(p, tr, w),
         NEW t, NEW ema, NEW other, NEW wrote, NEW q, q = Sealed(p, t, ema, other, wrote)
  PROVE  ExactProfile(q, tr, w)
<1>1. /\ DOMAIN q = DOMAIN p /\ q.slotMin = p.slotMin /\ q.ring24 = p.ring24
      /\ q.slotHour = p.slotHour /\ q.ring7 = p.ring7
      /\ q.curHour = p.curHour /\ q.curHourBytes = p.curHourBytes
  <2>1. CASE Dormant(p)
    BY <2>1, SMTT(30) DEF Sealed, ExactProfile, IsProfile
  <2>2. CASE ~Dormant(p)
    BY <2>2, SMTT(30) DEF Sealed, evaluate, ExactProfile, IsProfile
  <2> QED BY <2>1, <2>2
<1>2. /\ \A u : Sum24At(q, u) = Sum24At(p, u)
      /\ \A u : Sum7At(q, u) = Sum7At(p, u)
  BY <1>1, Zenon DEF Sum24At, Sum7At
<1>3. IsProfile(q) /\ MinutesDated(q, w) /\ HoursDated(q, w)
  BY <1>1, Zenon DEF ExactProfile, IsProfile, MinutesDated, HoursDated
<1> QED BY <1>2, <1>3, Zenon DEF ExactProfile, MinutesExact, HoursExact

LEMMA SealExact ==
  ASSUME NEW w, \A d \in DOMAIN profiles : ExactProfile(profiles[d], truth[d], w),
         NEW t, NEW other, NEW unwritten, NEW f \in SealProfiles(t, other, unwritten)
  PROVE  /\ DOMAIN f = DOMAIN profiles
         /\ \A d \in DOMAIN f : ExactProfile(f[d], truth[d], w)
<1>1. DOMAIN f = DOMAIN profiles
  BY Zenon DEF SealProfiles
<1>2. ASSUME NEW d \in DOMAIN f PROVE ExactProfile(f[d], truth[d], w)
  <2>1. PICK ema \in advanceEMA(profiles[d], t) :
             f[d] = Sealed(profiles[d], t, ema, other, d \notin unwritten)
    BY <1>1, Zenon DEF SealProfiles
  <2> QED BY <1>1, <2>1, SealedExact
<1> QED BY <1>1, <1>2

MoreTruth(d, m, bytes) == [truth EXCEPT ![d][m] = @ + bytes]

\* Track, once the profiles are those of the new watermark.
LEMMA TrackExact ==
  ASSUME NEW w \in Minutes, NEW m \in 0..w, m > w - Ring, NEW bytes \in Nat, NEW d \in Dsts,
         NEW f, ExactProfiles(f, truth, w),
         NEW g, g = Track(f, d, m, bytes),
         NEW u, d \in DOMAIN g => u = MoreTruth(d, m, bytes), d \notin DOMAIN g => u = truth
  PROVE  ExactProfiles(g, u, w)
<1> USE DEF ExactProfiles
<1> DEFINE more == [truth[d] EXCEPT ![m] = @ + bytes]
<1>1. m \in Minutes
  BY Lengths, SMTT(30) DEF Minutes
<1>2. truth[d] \in [Minutes -> Nat] /\ more \in [Minutes -> Nat]
  BY <1>1, SMTT(30)
<1>3. ASSUME NEW p, ExactProfile(p, truth[d], w) PROVE ExactProfile(add(p, m, bytes), more, w)
  BY <1>2, <1>3, AddExact
<1>4. d \in DOMAIN g => u = [truth EXCEPT ![d] = more]
  BY Zenon DEF MoreTruth
<1> HIDE DEF more
<1>5. d \in DOMAIN g => /\ u \in [Dsts -> [Minutes -> Nat]] /\ u[d] = more
                        /\ \A e \in Dsts \ {d} : u[e] = truth[e]
  <2>1. DOMAIN truth = Dsts /\ \A e \in Dsts : truth[e] \in [Minutes -> Nat]
    BY Zenon
  <2>2. ASSUME NEW v, v = [truth EXCEPT ![d] = more]
        PROVE  /\ v \in [Dsts -> [Minutes -> Nat]] /\ v[d] = more
               /\ \A e \in Dsts \ {d} : v[e] = truth[e]
    BY ONLY <1>2, <2>1, <2>2, d \in Dsts, truth \in [Dsts -> [Minutes -> Nat]], ZenonT(10), SMTT(30)
  <2> QED BY <1>4, <2>2, Zenon
<1>6. CASE d \in DOMAIN f
  <2>1. /\ DOMAIN g = DOMAIN f /\ g[d] = add(f[d], m, bytes)
        /\ \A e \in DOMAIN f \ {d} : g[e] = f[e]
    BY <1>6, Zenon DEF Track
  <2>2. ExactProfile(g[d], u[d], w)
    <3>1. ExactProfile(f[d], truth[d], w)
      BY <1>6, Zenon
    <3>2. ExactProfile(add(f[d], m, bytes), more, w)
      BY <1>3, <3>1
    <3> QED BY <1>5, <1>6, <2>1, <3>2, Zenon
  <2>3. \A e \in DOMAIN g \ {d} : ExactProfile(g[e], u[e], w)
    BY <1>5, <1>6, <2>1, Zenon
  <2>4. \A e \in Dsts \ DOMAIN g : u[e] = truth[e]
    BY <1>5, <1>6, <2>1, Zenon
  <2> QED BY <1>5, <1>6, <2>1, <2>2, <2>3, <2>4, Zenon
<1>7. CASE d \notin DOMAIN f /\ g = f
  BY <1>7, Zenon
<1>8. CASE d \notin DOMAIN f /\ g # f
  <2>1. g = [e \in DOMAIN f \cup {d} |-> IF e = d THEN add(newEntityProfile, m, bytes) ELSE f[e]]
    BY <1>8, Zenon DEF Track
  <2>2. /\ DOMAIN g = DOMAIN f \cup {d} /\ g[d] = add(newEntityProfile, m, bytes)
        /\ \A e \in DOMAIN f : g[e] = f[e]
    BY <1>8, <2>1, Zenon
  <2>3. ExactProfile(g[d], more, w)
    BY <1>3, <1>8, <2>2, NewExact, SMTT(30)
  <2> QED BY <1>5, <1>8, <2>2, <2>3, Zenon
<1> QED BY <1>6, <1>7, <1>8

\* Detector.Feed.
LEMMA DetectorFeedExact ==
  ASSUME RingsInv, NEW d \in Dsts, NEW bytes \in Nat, DetectorFeed(d, minute, bytes),
         minute' = minute
  PROVE  RingsInv'
<1> DEFINE mark == IF watermark > minute THEN watermark ELSE minute
           taken == minute > mark - Ring
<1>1. PICK other \in WOther, unwritten \in SUBSET DOMAIN profiles :
        \E f \in IF watermark >= 0 /\ minute > watermark
                   THEN SealProfiles(minute - 1, other, unwritten) ELSE {profiles} :
          /\ watermark' = mark
          /\ profiles' = IF taken THEN Track(f, d, minute, bytes) ELSE f
          /\ truth' = IF taken /\ d \in DOMAIN profiles'
                        THEN [truth EXCEPT ![d][minute] = @ + bytes] ELSE truth
  BY Zenon DEF DetectorFeed
<1>2. PICK f \in IF watermark >= 0 /\ minute > watermark
                   THEN SealProfiles(minute - 1, other, unwritten) ELSE {profiles} :
          /\ watermark' = mark
          /\ profiles' = IF taken THEN Track(f, d, minute, bytes) ELSE f
          /\ truth' = IF taken /\ d \in DOMAIN profiles'
                        THEN [truth EXCEPT ![d][minute] = @ + bytes] ELSE truth
  BY <1>1, Zenon
<1>3. /\ mark \in Minutes /\ minute \in 0..mark /\ watermark <= mark
      /\ mark \in -1..MaxMinute /\ mark >= 0
      /\ DOMAIN profiles # {} => watermark \in Minutes
  BY Lengths, SMTT(30) DEF RingsInv, Minutes
<1>4. /\ DOMAIN f = DOMAIN profiles
      /\ \A e \in DOMAIN f : ExactProfile(f[e], truth[e], watermark)
  <2>1. \A e \in DOMAIN profiles : ExactProfile(profiles[e], truth[e], watermark)
    BY DEF RingsInv, ExactProfiles
  <2>2. CASE f = profiles
    BY <2>1, <2>2
  <2>3. CASE f \in SealProfiles(minute - 1, other, unwritten)
    BY <2>1, <2>3, SealExact
  <2> QED BY <1>2, <2>2, <2>3
<1> HIDE DEF mark
<1>5. \A e \in DOMAIN f : ExactProfile(f[e], truth[e], mark)
  BY <1>3, <1>4, WatermarkMoves, Zenon
<1>6. ExactProfiles(f, truth, mark)
  BY <1>4, <1>5, Zenon DEF RingsInv, ExactProfiles
<1>7. ExactProfiles(profiles', truth', mark)
  <2>1. CASE taken
    <3>1. /\ profiles' = Track(f, d, minute, bytes)
          /\ d \in DOMAIN profiles' => truth' = MoreTruth(d, minute, bytes)
          /\ d \notin DOMAIN profiles' => truth' = truth
      BY <1>2, <2>1, Zenon DEF MoreTruth
    <3>2. mark \in Minutes /\ minute \in 0..mark /\ minute > mark - Ring
      BY <1>3, <2>1, Zenon
    <3>3. d \in Dsts /\ bytes \in Nat
      BY Zenon
    <3> QED BY ONLY <1>6, <3>1, <3>2, <3>3, TrackExact, ZenonT(20), SMTT(30)
  <2>2. CASE ~taken
    <3>1. profiles' = f /\ truth' = truth
      BY <1>2, <2>2, Zenon
    <3> QED BY <1>6, <3>1, Zenon
  <2> QED BY <2>1, <2>2
<1>8. watermark' = mark /\ minute' \in Minutes
  BY <1>2 DEF RingsInv
<1> QED BY <1>3, <1>7, <1>8 DEF RingsInv

LEMMA RingsNextInv == ASSUME RingsInv, [TelNext]_telVars PROVE RingsInv'
<1>1. CASE FanOutFeed
  <2>1. PICK d \in Dsts, bytes \in Sizes : DetectorFeed(d, minute, bytes)
    BY <1>1, Zenon DEF FanOutFeed
  <2>2. bytes \in Nat /\ minute' = minute
    BY <1>1, Lengths, Zenon DEF FanOutFeed
  <2> QED BY <2>1, <2>2, DetectorFeedExact
<1>2. CASE PipelineClose
  <2>1. minute' = minute /\ watermark' = watermark /\ truth' = truth
    BY <1>2, Zenon DEF PipelineClose
  <2>2. /\ DOMAIN profiles' = DOMAIN profiles
        /\ \A d \in DOMAIN profiles' : ExactProfile(profiles'[d], truth[d], watermark)
    <3>1. CASE profiles' = profiles
      BY <3>1 DEF RingsInv, ExactProfiles
    <3>2. CASE \E other \in WOther, unwritten \in SUBSET DOMAIN profiles :
                  profiles' \in SealProfiles(watermark, other, unwritten)
      BY <3>2, SealExact DEF RingsInv, ExactProfiles
    <3> QED BY <1>2, <3>1, <3>2, Zenon DEF PipelineClose
  <2> QED BY <2>1, <2>2 DEF RingsInv, ExactProfiles
<1>3. CASE UNCHANGED <<detVars, minute>>
  BY <1>3 DEF detVars, RingsInv
<1>4. CASE UNCHANGED detVars /\ minute' \in Minutes
  BY <1>4 DEF detVars, RingsInv
<1>5. CASE AggregatorTick \/ PurgeExpired \/ UNCHANGED telVars
  BY <1>3, <1>5, Zenon DEF AggregatorTick, PurgeExpired, telVars
<1>6. CASE MinutePasses \/ ClockStepsBack
  <2>1. minute' \in Minutes
    BY <1>6, Lengths, SMTT(30) DEF MinutePasses, ClockStepsBack, RingsInv, Minutes
  <2> QED BY <1>4, <1>6, <2>1, Zenon DEF MinutePasses, ClockStepsBack
<1> QED BY <1>1, <1>2, <1>5, <1>6 DEF TelNext

\* RingsExact, for rings of any length, any destinations, silences and clocks
\* that step back, as long as the ring of hours outlasts the one of minutes by
\* an hour: what a scan of the rings sums is what was fed over each window
\* (entityProfile.add, commitHour, Detector.Feed, evaluate).
THEOREM RingsAreExact == TelSpec => []RingsExact
<1>1. TelInit => RingsInv
  <2> SUFFICES ASSUME TelInit PROVE RingsInv
    OBVIOUS
  <2>1. minute \in Minutes /\ watermark \in -1..MaxMinute
    BY Lengths, SMTT(30) DEF TelInit, NewDetector, Minutes
  <2>2. DOMAIN profiles = {} /\ truth = [d \in Dsts |-> [m \in Minutes |-> 0]]
    BY Zenon DEF TelInit, NewDetector
  <2> QED BY <2>1, <2>2 DEF RingsInv, ExactProfiles
<1>2. RingsInv => RingsExact
  BY Zenon DEF RingsInv, ExactProfiles, ExactProfile, MinutesExact, HoursExact, RingsExact, Truth24, Truth7,
               Window24, Window7
<1> QED BY <1>1, <1>2, RingsNextInv, PTL DEF TelSpec

-----------------------------------------------------------------------------
(***************************************************************************)
(* The monitor compares ages it noted at different instants.  SupInv says  *)
(* how they are related while time passes between its reads: what it knows *)
(* of a cell is no older than what the master chain held at its last       *)
(* successful read, and a cell under checkFall was warned about unless the *)
(* pass has stalled since the check of its anchors.                        *)
(***************************************************************************)
SupTypes ==
  /\ anchored \in [WCells -> Nat] /\ lastAnchor \in [WCells -> Nat]
  /\ DOMAIN handled = WCells /\ DOMAIN warned = WCells
  /\ masterRead \in Nat /\ checked \in Nat

ReadBounds ==
  running => \A c \in WCells : anchored[c] <= masterRead \/ lastAnchor[c] <= anchored[c]

WarnedOrStalled ==
  \A i \in DOMAIN WatchedCells :
    pass = <<i, "fall">> =>
      warned[WatchedCells[i]] \/ lastAnchor[WatchedCells[i]] <= MaxAnchorLag + checked

SupInv == SupTypes /\ ReadBounds /\ WarnedOrStalled

\* What the assumption on the delays gives.
LEMMA Delays == MaxAnchorLag \in Nat /\ FallDelay \in Nat /\ MaxAnchorLag < FallDelay
BY SupervisionAssumption

\* The pass visits cells of the cluster only.
LEMMA CellOf == ASSUME NEW i \in DOMAIN WatchedCells PROVE WatchedCells[i] \in WCells
BY DEF WCells, Range

\* Ages grow with the clock, in the same order.
LEMMA OlderOrder ==
  ASSUME NEW a \in Nat, NEW b \in Nat, a <= b
  PROVE  Older(a) \in Nat /\ Older(a) <= Older(b)
BY Delays DEF Older, Oldest

\* A monitor starts with nothing read and no episode.
LEMMA SupInitInv == SupInit => SupInv
BY Delays, CellOf, SMTT(30) DEF SupInit, SupInv, SupTypes, ReadBounds, WarnedOrStalled, Idle

\* Every step of the monitor, of the chain and of the clock keeps it.
LEMMA SupNextInv == SupInv /\ [SupNext]_supVars => SupInv'
<1> SUFFICES ASSUME SupInv, [SupNext]_supVars PROVE SupInv'
  OBVIOUS
<1> USE Delays, CellOf
    DEF SupInv, SupTypes, ReadBounds, WarnedOrStalled, world, monitorMemory, traces
<1>1. ASSUME NEW c \in WCells, CellWrites(c) \/ CellDies(c) PROVE SupInv'
  BY <1>1, SMTT(30) DEF CellWrites, CellDies
<1>2. ASSUME NEW c \in WCells, CellAnchors(c) \/ CellReturns(c) PROVE SupInv'
  BY <1>2, SMTT(30) DEF CellAnchors, CellReturns
<1>3. ASSUME NEW x \in Chains, NEW how, ReadingFails(x, how) PROVE SupInv'
  BY <1>3 DEF ReadingFails
<1>4. ASSUME NEW x \in Chains, ReadingWorks(x) PROVE SupInv'
  BY <1>4 DEF ReadingWorks
<1>5. CASE TimePasses
  <2>1. SupTypes'
    BY <1>5, OlderOrder, SMTT(30) DEF TimePasses
  <2>2. ReadBounds'
    BY <1>5, OlderOrder DEF TimePasses
  <2>3. WarnedOrStalled'
    BY <1>5 DEF TimePasses, Older, Oldest
  <2> QED
    BY <2>1, <2>2, <2>3
<1>6. ASSUME NEW leaf \in BOOLEAN, BeginPass(leaf) PROVE SupInv'
  BY <1>6 DEF BeginPass, ObserveAnchors, Idle
<1>7. ASSUME NEW i \in DOMAIN WatchedCells, NEW bad \in BOOLEAN, NEW leaf \in BOOLEAN,
             WatchCell(i, bad, leaf)
      PROVE  SupInv'
  BY <1>7 DEF WatchCell, AfterAlarms, Stale, Idle
<1>8. ASSUME NEW i \in DOMAIN WatchedCells, NEW leaf \in BOOLEAN, Confirm(i, leaf)
      PROVE  SupInv'
  BY <1>8 DEF Confirm, Next1, Idle
<1>9. ASSUME NEW i \in DOMAIN WatchedCells, NoFall(i) PROVE SupInv'
  BY <1>9 DEF NoFall, Next1, Idle
<1>10. CASE MonitorCrashes
  <2>1. /\ running' = FALSE /\ pass' = Idle /\ lastAnchor' = [c \in WCells |-> Never]
        /\ DOMAIN handled' = WCells /\ DOMAIN warned' = WCells
        /\ UNCHANGED anchored /\ masterRead' \in Nat /\ checked' \in Nat /\ Never \in Nat
    BY <1>10 DEF MonitorCrashes, Never, Oldest
  <2> QED
    BY <2>1 DEF Idle
<1>11. CASE NewMonitor
  BY <1>11, SMTT(30) DEF NewMonitor, ObserveAnchors
<1>12. CASE UNCHANGED supVars
  BY <1>12 DEF supVars
<1> QED
  BY <1>1, <1>2, <1>3, <1>4, <1>5, <1>6, <1>7, <1>8, <1>9, <1>10, <1>11, <1>12, Zenon
     DEF SupNext, CheckOnce, RefuseFailover, TriggerFailover

\* Confirm alone opens an episode, on the cell whose fall it has just checked.
LEMMA ActStep ==
  ASSUME SupInv, [SupNext]_supVars, NEW c \in WCells, ActsOn(c)
  PROVE  \E i \in DOMAIN WatchedCells :
           WatchedCells[i] = c /\ running /\ pass = <<i, "fall">> /\ lastAnchor[c] > FallDelay
<1> USE CellOf DEF SupInv, SupTypes, ActsOn
<1>1. ASSUME NEW i \in DOMAIN WatchedCells, NEW leaf \in BOOLEAN, Confirm(i, leaf)
      PROVE  \E j \in DOMAIN WatchedCells :
               WatchedCells[j] = c /\ running /\ pass = <<j, "fall">> /\ lastAnchor[c] > FallDelay
  <2>1. WatchedCells[i] = c
    BY <1>1 DEF Confirm
  <2> QED
    BY <1>1, <2>1, Delays, SMTT(30) DEF Confirm, AtFall, EpisodeOpens, Fallen, Anchors
<1>2. ASSUME NEW i \in DOMAIN WatchedCells, NoFall(i) PROVE FALSE
  BY <1>2, Zenon DEF NoFall
<1>3. ASSUME NEW d \in WCells,
             CellWrites(d) \/ CellAnchors(d) \/ CellDies(d) \/ CellReturns(d)
      PROVE  FALSE
  BY <1>3 DEF CellWrites, CellAnchors, CellDies, CellReturns, monitorMemory
<1>4. ASSUME NEW x \in Chains, NEW how, ReadingFails(x, how) \/ ReadingWorks(x) PROVE FALSE
  BY <1>4 DEF ReadingFails, ReadingWorks, monitorMemory
<1>5. CASE TimePasses \/ MonitorCrashes \/ NewMonitor \/ UNCHANGED supVars
  BY <1>5 DEF TimePasses, MonitorCrashes, NewMonitor, supVars, monitorMemory
<1>6. ASSUME NEW leaf \in BOOLEAN, BeginPass(leaf) PROVE FALSE
  BY <1>6 DEF BeginPass
<1>7. ASSUME NEW i \in DOMAIN WatchedCells, NEW bad \in BOOLEAN, NEW leaf \in BOOLEAN,
             WatchCell(i, bad, leaf)
      PROVE  FALSE
  BY <1>7 DEF WatchCell
<1> QED
  BY <1>1, <1>2, <1>3, <1>4, <1>5, <1>6, <1>7, ZenonT(30)
     DEF SupNext, CheckOnce, RefuseFailover, TriggerFailover

\* The monitor acts on a cell only on what its last successful read of the
\* master chain justifies, for any cells, delays and faults (checkFall).
THEOREM ActsOnItsReading == SupSpec => ActsOnWhatItRead
<1>1. SupInv /\ [SupNext]_supVars =>
        \A c \in WCells : ActsOn(c) => anchored[c] > FallDelay \/ anchored[c] <= masterRead
  BY ActStep, Delays, SMTT(30) DEF SupInv, SupTypes, ReadBounds
<1> QED
  BY SupInitInv, SupNextInv, <1>1, PTL DEF SupSpec, ActsOnWhatItRead

\* An anchor alarm precedes every failover, unless the pass stalled for the
\* difference of the two delays between its two checks (CheckOnce, checkFall).
THEOREM FailoverIsAnnounced == SupSpec => WarnedBeforeFailover
<1>1. SupInv /\ [SupNext]_supVars =>
        \A c \in WCells : Triggers(c) => warned[c] \/ checked >= FallDelay - MaxAnchorLag
  BY ActStep, Delays, SMTT(30) DEF SupInv, SupTypes, WarnedOrStalled, Triggers
<1> QED
  BY SupInitInv, SupNextInv, <1>1, PTL DEF SupSpec, WarnedBeforeFailover
=============================================================================
