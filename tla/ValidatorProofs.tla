-------------------------- MODULE ValidatorProofs --------------------------
(***************************************************************************)
(* Proofs about the PEP's path to an access: the latch that gates it and   *)
(* recovers by itself (OPALatch), for every threshold and factor, and the  *)
(* validator with its cache, for any number of handlers, tokens and slots. *)
(***************************************************************************)
EXTENDS Validator, OPALatch, FiniteSetTheorems, TLAPS

\* A leaf goes to Zenon first and, if that does not find it soon, to the SMT solver.
USE ZenonT(2), SMTT(30)

-----------------------------------------------------------------------------
(* The latch: an automatic clear is earned. *)

\* A clear asks for a multiple of Probes, hence for no less than Probes.
LEMMA FactorOnlyAdds ==
  ASSUME NEW p \in Nat, NEW f \in Nat \ {0} PROVE p * f \in Nat /\ p * f >= p
OBVIOUS

AutoState == [pc : {"idle", "probe", "apply"}, names : SUBSET Conds, healthy : BOOLEAN,
              engaged : BOOLEAN, streak : Nat, factor : Nat \ {0}]

\* The streak of the recovery never runs ahead of the healthy probes in a row,
\* neither between two ticks nor between a probe and the end of its tick.
StreakIsReal ==
  /\ auto.pc # "apply" => AtMost(auto.streak, Probes) <= good
  /\ auto.pc = "apply" /\ auto.healthy => AtMost(auto.streak + 1, Probes) <= good

LatchInv == auto \in AutoState /\ good \in 0..Probes /\ StreakIsReal

\* The inductive invariant rests on the recovery's own variables.
LEMMA LatchUnchanged == LatchInv /\ UNCHANGED <<auto, good>> => LatchInv'
BY Zenon DEF LatchInv, StreakIsReal

FreshAuto == [pc |-> "idle", names |-> {}, healthy |-> FALSE, engaged |-> FALSE,
              streak |-> 0, factor |-> 1]

\* A process that starts has an idle recovery and an empty streak (Start).
LEMMA LatchFresh == auto = FreshAuto /\ good = 0 => LatchInv
<1> SUFFICES ASSUME auto = FreshAuto, good = 0 PROVE LatchInv
  OBVIOUS
<1> USE DEF FreshAuto
<1>1. auto \in AutoState
  BY DEF AutoState
<1>2. good \in 0..Probes
  BY LatchAssumption
<1>3. StreakIsReal
  BY LatchAssumption DEF StreakIsReal, AtMost
<1> QED BY <1>1, <1>2, <1>3 DEF LatchInv

\* A tick that starts keeps the streak, or drops it to zero.
LEMMA TickStartStep == LatchInv /\ TickStart => LatchInv'
<1> SUFFICES ASSUME LatchInv, TickStart PROVE LatchInv'
  OBVIOUS
<1>1. /\ auto \in AutoState /\ good \in 0..Probes /\ auto.pc = "idle"
      /\ auto.streak \in Nat /\ auto.factor \in Nat \ {0} /\ Probes \in Nat
      /\ AtMost(auto.streak, Probes) <= good
  BY LatchAssumption DEF LatchInv, StreakIsReal, AutoState, TickStart
<1>2. PICK names : names = {c \in latched : Liftable(c)}
  OBVIOUS
<1>3. names \in SUBSET Conds
  BY <1>2 DEF Liftable, Candidates, Conds
<1>4. Factor \in Nat \ {0}
  BY <1>1, LatchAssumption DEF Factor, AtMost
<1>5. \/ auto' = [auto EXCEPT !.engaged = FALSE, !.streak = 0] /\ good' = 0
      \/ auto' = [auto EXCEPT !.pc = "probe", !.names = names] /\ good' = good
      \/ /\ auto' = [auto EXCEPT !.pc = "probe", !.names = names, !.engaged = TRUE,
                                 !.streak = 0, !.factor = Factor]
         /\ good' = 0
  BY <1>2 DEF TickStart
<1>6. /\ auto' \in AutoState /\ auto'.pc # "apply"
      /\ <<auto'.streak, good'>> \in {<<0, 0>>, <<auto.streak, good>>}
  <2> 0 \in Nat
    OBVIOUS
  <2>1. CASE auto' = [auto EXCEPT !.engaged = FALSE, !.streak = 0] /\ good' = 0
    BY <1>1, <2>1, Zenon DEF AutoState
  <2>2. CASE auto' = [auto EXCEPT !.pc = "probe", !.names = names] /\ good' = good
    BY <1>1, <1>3, <2>2, Zenon DEF AutoState
  <2>3. CASE /\ auto' = [auto EXCEPT !.pc = "probe", !.names = names, !.engaged = TRUE,
                                     !.streak = 0, !.factor = Factor]
             /\ good' = 0
    BY <1>1, <1>3, <1>4, <2>3, Zenon DEF AutoState
  <2> QED BY <1>5, <2>1, <2>2, <2>3
<1>7. AtMost(auto'.streak, Probes) <= good' /\ good' \in 0..Probes
  BY <1>1, <1>6 DEF AtMost
<1> QED BY <1>6, <1>7, Zenon DEF LatchInv, StreakIsReal

\* A healthy probe lengthens the row it counts; another one ends it, and leaves
\* a tick that will not count it.
LEMMA ProbeStep == LatchInv /\ Probe => LatchInv'
<1> SUFFICES ASSUME LatchInv, Probe PROVE LatchInv'
  OBVIOUS
<1>1. /\ auto \in AutoState /\ good \in 0..Probes /\ auto.streak \in Nat /\ Probes \in Nat
      /\ AtMost(auto.streak, Probes) <= good
  BY LatchAssumption DEF LatchInv, StreakIsReal, AutoState, Probe
<1>2. /\ auto' \in AutoState /\ auto'.pc = "apply" /\ auto'.streak = auto.streak
      /\ auto'.healthy = (health = "good")
  BY <1>1, Zenon DEF Probe, AutoState
<1>3. good' = IF health = "good" THEN AtMost(good + 1, Probes) ELSE 0
  BY DEF Probe
<1>4. good' \in 0..Probes
  BY <1>1, <1>3 DEF AtMost
<1>5. health = "good" => AtMost(auto'.streak + 1, Probes) <= good'
  BY <1>1, <1>2, <1>3, SMTT(30) DEF AtMost
<1> QED BY <1>2, <1>4, <1>5, Zenon DEF LatchInv, StreakIsReal

\* A tick that ends stores the streak it counted, or none after a clear.
LEMMA TickEndStep == LatchInv /\ TickEnd => LatchInv'
<1> SUFFICES ASSUME LatchInv, TickEnd PROVE LatchInv'
  OBVIOUS
<1>1. /\ auto \in AutoState /\ good \in 0..Probes
      /\ auto.healthy => AtMost(auto.streak + 1, Probes) <= good
  BY Zenon DEF LatchInv, StreakIsReal, TickEnd
<1>2. auto.streak \in Nat /\ Probes \in Nat
  BY <1>1, LatchAssumption DEF AutoState
<1>3. Streak(auto) \in Nat /\ AtMost(Streak(auto), Probes) <= good
  <2>1. CASE auto.healthy
    BY <1>1, <1>2, <2>1 DEF Streak, AtMost
  <2>2. CASE ~auto.healthy
    <3>1. Streak(auto) = 0
      BY <2>2, Zenon DEF Streak
    <3> QED BY <1>1, <1>2, <3>1 DEF AtMost
  <2> QED BY <2>1, <2>2
<1>4. /\ auto' \in AutoState /\ auto'.pc = "idle"
      /\ <<auto'.streak, good'>> \in {<<0, 0>>, <<Streak(auto), good>>}
  <2> 0 \in Nat
    OBVIOUS
  <2>1. CASE auto' = [Idle(auto) EXCEPT !.engaged = FALSE, !.streak = 0] /\ good' = 0
    BY <1>1, <2>1, Zenon DEF Idle, AutoState
  <2>2. CASE auto' = [Idle(auto) EXCEPT !.streak = Streak(auto)] /\ good' = good
    BY <1>1, <1>3, <2>2, Zenon DEF Idle, AutoState
  <2> QED BY <2>1, <2>2, Zenon DEF TickEnd
<1>5. AtMost(auto'.streak, Probes) <= good' /\ good' \in 0..Probes
  BY <1>1, <1>2, <1>3, <1>4 DEF AtMost
<1> QED BY <1>4, <1>5, Zenon DEF LatchInv, StreakIsReal

\* Every step of the latch's parties preserves the inductive invariant.
LEMMA LatchNextInv == LatchInv /\ [LatchNext]_latchVars => LatchInv'
<1> SUFFICES ASSUME LatchInv, [LatchNext]_latchVars PROVE LatchInv'
  OBVIOUS
<1>1. ASSUME NEW e \in Evals, Send(e) \/ Answer(e) \/ Finish(e) PROVE LatchInv'
  BY <1>1, LatchUnchanged DEF Send, Answer, Healthy, Cancelled, NoAnswer, Errored, Broken,
                              Finish, Count, OnTrip, recovery
<1>2. CASE WindowPasses \/ Check \/ FlapWindowPasses \/ OPAChanges
  BY <1>2, LatchUnchanged DEF WindowPasses, Check, FlapWindowPasses, OPAChanges, recovery
<1>3. ASSUME NEW c \in Conds,
             ClearByHand(c) \/ (\E x \in 1..MaxProofs : ClearByQuorum(c, x))
      PROVE  LatchInv'
  BY <1>3, LatchUnchanged DEF ClearByHand, ClearByQuorum, recovery
<1>4. CASE Recovery
  BY <1>4, TickStartStep, ProbeStep, TickEndStep DEF Recovery
<1>5. CASE Restart
  <2>1. auto' = FreshAuto /\ good' = 0
    BY <1>5 DEF Restart, Start, FreshAuto
  <2>2. (auto = FreshAuto /\ good = 0 => LatchInv)'
    BY LatchFresh, PTL
  <2> QED BY <2>1, <2>2 DEF FreshAuto
<1>6. CASE UNCHANGED latchVars
  BY <1>6, LatchUnchanged DEF latchVars, recovery
<1> QED BY <1>1, <1>2, <1>3, <1>4, <1>5, <1>6 DEF LatchNext

\* The automatic recovery (opa_autoclear.go, Tick) lifts a condition only after
\* Probes healthy probes in a row of one engagement, for every threshold, factor
\* and set of evaluations, however trips, lifts by hand and restarts come in
\* between.
THEOREM AutoClearIsEarned == LatchSpec => ClearsAreEarned
<1>1. LatchInit => LatchInv
  BY LatchFresh DEF LatchInit, FreshAuto
<1>2. LatchInv /\ [LatchNext]_latchVars => [TickEnd /\ (\E c \in Conds : Cleared(c)) => good >= Probes]_latchVars
  <2> SUFFICES ASSUME LatchInv, TickEnd, NEW c \in Conds, Cleared(c) PROVE good >= Probes
    OBVIOUS
  <2>1. auto.pc = "apply" /\ auto.healthy /\ auto.streak + 1 >= Probes * auto.factor
    BY DEF TickEnd, Cleared, Streak
  <2>2. /\ auto.streak \in Nat /\ auto.factor \in Nat \ {0} /\ Probes \in Nat /\ good \in Nat
        /\ AtMost(auto.streak + 1, Probes) <= good
    BY <2>1, LatchAssumption, SMTT(30) DEF LatchInv, StreakIsReal, AutoState
  <2>3. Probes * auto.factor \in Nat /\ Probes * auto.factor >= Probes
    BY <2>2, FactorOnlyAdds
  <2>4. auto.streak + 1 >= Probes
    BY <2>1, <2>2, <2>3
  <2> QED BY <2>2, <2>4 DEF AtMost
<1> QED BY <1>1, <1>2, LatchNextInv, PTL DEF LatchSpec, ClearsAreEarned

-----------------------------------------------------------------------------
(* The validator: lemmas about the cache's operators. *)

\* The live slots of a ring are finitely many, at most one per entry.
LEMMA LiveSlotsFinite ==
  ASSUME NEW r \in Seq(Tokens), NEW at
  PROVE  /\ IsFiniteSet(LiveSlots(r, at))
         /\ Cardinality(LiveSlots(r, at)) \in Nat
         /\ Cardinality(LiveSlots(r, at)) <= Len(r)
<1>1. Len(r) \in Nat /\ LiveSlots(r, at) \in SUBSET (1..Len(r))
  BY DEF LiveSlots
<1>2. IsFiniteSet(1..Len(r)) /\ Cardinality(1..Len(r)) = Len(r)
  <2>1. 1 \in Int /\ Len(r) \in Int
    BY <1>1
  <2>2. /\ IsFiniteSet(1..Len(r))
        /\ Cardinality(1..Len(r)) = IF 1 > Len(r) THEN 0 ELSE Len(r) - 1 + 1
    BY <2>1, FS_Interval, Zenon
  <2> QED BY <2>2, <1>1
<1>3. IsFiniteSet(LiveSlots(r, at)) /\ Cardinality(LiveSlots(r, at)) <= Len(r)
  BY <1>1, <1>2, FS_Subset
<1> QED BY <1>3, FS_CardinalityType

\* purgeHead keeps the ring and the membership table in step: the popped
\* entries leave both.
LEMMA PopKeepsMirror ==
  ASSUME NEW r \in Seq(Tokens), NEW s, Mirrors(r, s), NEW n \in 0..Len(r),
         Capacity \in Nat
  PROVE  LET q == SubSeq(r, n + 1, Len(r))
             u == s \ {r[i] : i \in 1..n}
         IN  q \in Seq(Tokens) /\ Mirrors(q, u)
<1> DEFINE q == SubSeq(r, n + 1, Len(r))
           u == s \ {r[i] : i \in 1..n}
<1>1. Len(r) \in Nat /\ \A i \in 1..Len(r) : r[i] \in Tokens
  OBVIOUS
<1>2. /\ q \in Seq(Tokens)
      /\ Len(q) = Len(r) - n
      /\ \A i \in 1..(Len(r) - n) : q[i] = r[n + i]
  <2>1. \A i \in (n + 1)..Len(r) : r[i] \in Tokens
    BY <1>1
  <2>2. /\ q \in Seq(Tokens)
        /\ Len(q) = IF n + 1 <= Len(r) THEN Len(r) - (n + 1) + 1 ELSE 0
        /\ \A i \in 1..(Len(r) - (n + 1) + 1) : q[i] = r[(n + 1) + i - 1]
    BY <2>1, <1>1
  <2> QED BY <2>2, <1>1
<1>3. Len(q) <= Capacity
  BY <1>1, <1>2, SMTT(30) DEF Mirrors
<1>4. u = {q[i] : i \in 1..Len(q)}
  <2>1. ASSUME NEW t \in u PROVE t \in {q[i] : i \in 1..Len(q)}
    <3>1. PICK k \in 1..Len(r) : t = r[k]
      BY DEF Mirrors
    <3>2. k > n
      BY <3>1, <1>1
    <3>3. k - n \in 1..Len(q) /\ q[k - n] = r[k]
      BY <3>2, <1>1, <1>2, SMTT(30)
    <3> QED BY <3>1, <3>3
  <2>2. ASSUME NEW k \in 1..Len(q) PROVE q[k] \in u
    <3>1. q[k] = r[n + k] /\ n + k \in 1..Len(r) /\ n + k > n
      BY <1>1, <1>2
    <3>2. \A i \in 1..n : r[i] # r[n + k]
      BY <3>1, <1>1, SMTT(30) DEF Mirrors
    <3> QED BY <3>1, <3>2 DEF Mirrors
  <2> QED BY <2>1, <2>2, Zenon
<1>5. \A i, j \in 1..Len(q) : q[i] = q[j] => i = j
  <2> SUFFICES ASSUME NEW i \in 1..Len(q), NEW j \in 1..Len(q), q[i] = q[j]
               PROVE  i = j
    OBVIOUS
  <2>1. q[i] = r[n + i] /\ q[j] = r[n + j] /\ n + i \in 1..Len(r) /\ n + j \in 1..Len(r)
    BY <1>1, <1>2
  <2>2. n + i = n + j
    BY <2>1 DEF Mirrors
  <2> QED BY <2>2
<1> QED BY <1>2, <1>3, <1>4, <1>5, Zenon DEF Mirrors

\* purgeAll keeps the ring and the membership table in step: what remains is
\* every live entry, once, and one slot per live entry.
LEMMA PurgeKeepsMirror ==
  ASSUME NEW r \in Seq(Tokens), NEW s, Mirrors(r, s), NEW at,
         NEW kept \in PurgeAll(r, at), Capacity \in Nat
  PROVE  /\ kept \in Seq(Tokens)
         /\ Len(kept) = Cardinality(LiveSlots(r, at))
         /\ Mirrors(kept, s \ Dead(r, at))
<1> DEFINE live == LiveSlots(r, at)
           size == Cardinality(live)
<1>1. PICK f \in [1..size -> live] :
        /\ \A i, j \in 1..size : i < j => f[i] < f[j]
        /\ kept = [i \in 1..size |-> r[f[i]]]
  BY DEF PurgeAll
<1>2. /\ IsFiniteSet(live) /\ size \in Nat /\ size <= Len(r)
      /\ Len(r) \in Nat /\ live \subseteq 1..Len(r)
      /\ \A i \in 1..Len(r) : r[i] \in Tokens
  <2>1. Len(r) \in Nat /\ \A i \in 1..Len(r) : r[i] \in Tokens
    BY SMTT(30)
  <2>2. live \subseteq 1..Len(r)
    BY DEF LiveSlots
  <2>3. IsFiniteSet(live) /\ size \in Nat /\ size <= Len(r)
    BY LiveSlotsFinite
  <2> QED BY <2>1, <2>2, <2>3
<1>3. kept \in Seq(Tokens) /\ Len(kept) = size
  <2>1. \A i \in 1..size : f[i] \in 1..Len(r)
    BY <1>1, <1>2
  <2>2. kept \in [1..size -> Tokens]
    BY <2>1, <1>1, <1>2
  <2> QED BY <2>2, <1>2
<1>4. \A i, j \in 1..size : f[i] = f[j] => i = j
  <2> SUFFICES ASSUME NEW i \in 1..size, NEW j \in 1..size, f[i] = f[j], i < j
               PROVE  FALSE
    BY <1>2
  <2>1. f[i] < f[j] /\ f[i] \in Nat
    BY <1>1, <1>2, SMTT(30)
  <2> QED BY <2>1
<1>5. \A k \in live : \E i \in 1..size : f[i] = k
  <2>1. f \in Injection(1..size, live)
    BY <1>1, <1>4 DEF Injection, IsInjective
  <2>2. Cardinality(1..size) = size
    <3>1. Cardinality(1..size) = IF 1 > size THEN 0 ELSE size - 1 + 1
      <4>1. 1 \in Int /\ size \in Int
        BY <1>2, SMTT(30)
      <4> QED BY <4>1, FS_Interval, Zenon
    <3> QED BY <3>1, <1>2
  <2>3. f \in Surjection(1..size, live)
    BY <2>1, <2>2, <1>2, FS_Injection
  <2> QED BY <2>3 DEF Surjection
<1> HIDE DEF live, size
<1>6. \A i \in 1..Len(kept) : kept[i] = r[f[i]] /\ f[i] \in live
  BY <1>1, <1>3, Zenon
<1>7. \A i, j \in 1..Len(kept) : kept[i] = kept[j] => i = j
  <2> SUFFICES ASSUME NEW i \in 1..size, NEW j \in 1..size, kept[i] = kept[j]
               PROVE  i = j
    BY <1>3
  <2>1. f[i] \in 1..Len(r) /\ f[j] \in 1..Len(r) /\ r[f[i]] = r[f[j]]
    BY <1>6, <1>2, <1>3, Zenon
  <2>2. f[i] = f[j]
    BY <2>1 DEF Mirrors
  <2> QED BY <2>2, <1>4
<1>8. s \ Dead(r, at) = {kept[i] : i \in 1..Len(kept)}
  <2>1. ASSUME NEW t \in s \ Dead(r, at) PROVE t \in {kept[i] : i \in 1..Len(kept)}
    <3>1. PICK k \in 1..Len(r) : t = r[k]
      BY DEF Mirrors
    <3>2. k \in live
      BY <3>1 DEF live, LiveSlots, Dead
    <3>3. PICK i \in 1..size : f[i] = k
      BY <3>2, <1>5
    <3> QED BY <3>1, <3>3, <1>3, <1>6
  <2>2. ASSUME NEW i \in 1..Len(kept) PROVE kept[i] \in s \ Dead(r, at)
    <3>1. f[i] \in 1..Len(r) /\ kept[i] = r[f[i]] /\ ~Expired(r[f[i]], at)
      BY <1>6 DEF live, LiveSlots
    <3> QED BY <3>1, SMTT(30) DEF Mirrors, Dead
  <2> QED BY <2>1, <2>2
<1>9. Len(kept) <= Capacity
  BY <1>2, <1>3, SMTT(30) DEF Mirrors
<1> QED BY <1>3, <1>7, <1>8, <1>9 DEF Mirrors, size, live

\* A consumed token takes one new slot and one new table entry.
LEMMA AppendKeepsMirror ==
  ASSUME NEW r \in Seq(Tokens), NEW s, Mirrors(r, s), NEW t \in Tokens \ s,
         Len(r) < Capacity, Capacity \in Nat
  PROVE  Append(r, t) \in Seq(Tokens) /\ Mirrors(Append(r, t), s \cup {t})
<1> DEFINE q == Append(r, t)
<1>1. /\ Len(r) \in Nat
      /\ q \in Seq(Tokens) /\ Len(q) = Len(r) + 1
      /\ \A i \in 1..Len(r) : q[i] = r[i]
      /\ q[Len(r) + 1] = t
  OBVIOUS
<1> HIDE DEF q
<1>2. s \cup {t} = {q[i] : i \in 1..Len(q)}
  BY <1>1, SMTT(30) DEF Mirrors
<1>3. \A i \in 1..Len(r) : r[i] # t
  BY DEF Mirrors
<1>4. \A i, j \in 1..Len(q) : q[i] = q[j] => i = j
  BY <1>1, <1>3, SMTT(30) DEF Mirrors
<1> QED BY <1>1, <1>2, <1>4, SMTT(30) DEF Mirrors, q

-----------------------------------------------------------------------------
(* The validator's inductive invariant. *)

\* No handler holds a clock reading from the future.
ReadingsPast == \A h \in Handlers : now[h] <= clock

IInv ==
  /\ TypeOK
  /\ ReadingsPast
  /\ CacheConsistent
  /\ FreshNeverForgotten
  /\ NoProofNoAccess
  /\ AllowsAreConsumed

\* What one critical section of CheckAndConsume may do: it forgets expired
\* tokens only, keeps ring and table in step, and accepts only a token that
\* the table does not hold or that has expired.
LEMMA ConsumeEffect ==
  ASSUME TypeOK, ReadingsPast, CacheConsistent, NEW h \in Handlers, CheckAndConsume(h)
  PROVE  /\ tok[h] \in Tokens
         /\ ring' \in Seq(Tokens) /\ seen' \subseteq Tokens
         /\ tripped' \in BOOLEAN /\ gated' \in BOOLEAN
         /\ Mirrors(ring', seen')
         /\ \A t \in seen \ seen' : Exp[t] < clock
         /\ \/ UNCHANGED <<allow, accepted>>
            \/ /\ tok[h] \in seen => Exp[tok[h]] < clock
               /\ tok[h] \in seen'
               /\ allow' = [allow EXCEPT ![h] = TRUE]
               /\ accepted' = [accepted EXCEPT ![tok[h]] = @ + 1]
<1> USE ConstantsAssumption
<1>1. PICK n \in 0..Len(ring) :
        /\ PopsHead(ring, now[h], n)
        /\ LET t == tok[h]
               r == SubSeq(ring, n + 1, Len(ring))
               s == seen \ {ring[i] : i \in 1..n}
           IN  \/ Replay(t, r, s)
               \/ Len(r) < Capacity /\ Consume(h, t, r, s)
               \/ /\ Len(r) = Capacity /\ t \notin s
                  /\ \E kept \in PurgeAll(r, now[h]) :
                       \/ Saturate(t, kept, s \ Dead(r, now[h]))
                       \/ Consume(h, t, kept, s \ Dead(r, now[h]))
  BY Zenon DEF CheckAndConsume
<1> DEFINE t == tok[h]
           r == SubSeq(ring, n + 1, Len(ring))
           s == seen \ {ring[i] : i \in 1..n}
<1>2. t \in Tokens /\ now[h] \in Nat /\ clock \in Nat /\ now[h] <= clock
  BY DEF TypeOK, ReadingsPast, CheckAndConsume
<1>3. r \in Seq(Tokens) /\ Mirrors(r, s)
  BY PopKeepsMirror, Zenon DEF TypeOK, CacheConsistent
<1>4. \A x \in seen \ s : Exp[x] < clock
  <2>1. \A i \in 1..n : ring[i] \in Tokens /\ Exp[ring[i]] < now[h]
    <3>1. Len(ring) \in Nat /\ \A i \in 1..Len(ring) : ring[i] \in Tokens
      BY SMTT(30) DEF TypeOK
    <3>2. \A i \in 1..n : Expired(ring[i], now[h])
      BY <1>1 DEF PopsHead
    <3> QED BY <3>1, <3>2, SMTT(30) DEF Expired
  <2>2. \A i \in 1..n : Exp[ring[i]] < clock
    BY <2>1, <1>2, SMTT(30)
  <2> QED BY <2>2
<1>5. s \subseteq Tokens /\ tripped \in BOOLEAN /\ gated \in BOOLEAN
  BY DEF TypeOK
<1>6. \/ Replay(t, r, s)
      \/ Len(r) < Capacity /\ Consume(h, t, r, s)
      \/ /\ Len(r) = Capacity /\ t \notin s
         /\ \E kept \in PurgeAll(r, now[h]) :
              \/ Saturate(t, kept, s \ Dead(r, now[h]))
              \/ Consume(h, t, kept, s \ Dead(r, now[h]))
  BY <1>1, Zenon
<1> HIDE DEF t, r, s
<1>7. CASE Replay(t, r, s)
  BY <1>7, <1>2, <1>3, <1>4, <1>5 DEF Replay, t
<1>8. CASE Len(r) < Capacity /\ Consume(h, t, r, s)
  <2>1. Append(r, t) \in Seq(Tokens) /\ Mirrors(Append(r, t), s \cup {t})
    BY <1>8, <1>2, <1>3, AppendKeepsMirror DEF Consume
  <2> QED BY <2>1, <1>8, <1>2, <1>4, <1>5 DEF Consume, t
<1>9. CASE /\ Len(r) = Capacity /\ t \notin s
           /\ \E kept \in PurgeAll(r, now[h]) :
                \/ Saturate(t, kept, s \ Dead(r, now[h]))
                \/ Consume(h, t, kept, s \ Dead(r, now[h]))
  <2>1. PICK kept \in PurgeAll(r, now[h]) :
             \/ Saturate(t, kept, s \ Dead(r, now[h]))
             \/ Consume(h, t, kept, s \ Dead(r, now[h]))
    BY <1>9
  <2> DEFINE u == s \ Dead(r, now[h])
  <2>2. kept \in Seq(Tokens) /\ Mirrors(kept, u)
    BY <1>3, PurgeKeepsMirror
  <2>3. \A x \in seen \ u : Exp[x] < clock
    <3>1. \A x \in Dead(r, now[h]) : x \in Tokens /\ Exp[x] < now[h]
      BY <1>3, SMTT(30) DEF Dead, Expired
    <3> QED BY <3>1, <1>2, <1>4, SMTT(30)
  <2>4. u \subseteq Tokens
    BY <1>5
  <2>5. \/ Saturate(t, kept, u)
        \/ Consume(h, t, kept, u)
    BY <2>1
  <2> HIDE DEF u
  <2>6. CASE Saturate(t, kept, u)
    BY <2>6, <2>2, <2>3, <2>4, <1>2, <1>5 DEF Saturate, t
  <2>7. CASE Consume(h, t, kept, u)
    <3>1. Append(kept, t) \in Seq(Tokens) /\ Mirrors(Append(kept, t), u \cup {t})
      BY <2>7, <2>2, <1>2, AppendKeepsMirror DEF Consume
    <3> QED BY <3>1, <2>7, <2>3, <2>4, <1>2, <1>5 DEF Consume, t
  <2> QED BY <2>5, <2>6, <2>7
<1> QED BY <1>6, <1>7, <1>8, <1>9, Zenon

\* Init establishes the inductive invariant.
LEMMA InitIInv == Init => IInv
<1> SUFFICES ASSUME Init PROVE IInv
  OBVIOUS
<1> USE ConstantsAssumption DEF Init
<1>1. TypeOK
  <2>1. ring \in Seq(Tokens)
    BY SMTT(30)
  <2>2. Init /\ ring \in Seq(Tokens) => TypeOK
    BY Zenon DEF TypeOK
  <2> QED BY <2>1, <2>2
<1>2. CacheConsistent
  BY SMTT(30) DEF CacheConsistent, Mirrors
<1> QED BY <1>1, <1>2, SMTT(30) DEF IInv, ReadingsPast, FreshNeverForgotten, NoProofNoAccess, AllowsAreConsumed

\* Every step preserves the inductive invariant.
LEMMA NextIInv == IInv /\ [Next]_vars => IInv'
<1> SUFFICES ASSUME IInv, [Next]_vars PROVE IInv'
  OBVIOUS
<1> USE ConstantsAssumption DEF IInv, ReadingsPast
<1>1. ASSUME NEW h \in Handlers, NEW t \in Tokens, Arrive(h, t) PROVE IInv'
  BY <1>1, SMTT(30) DEF Arrive, TypeOK, CacheConsistent, FreshNeverForgotten, NoProofNoAccess,
              AllowsAreConsumed, cacheVars, histVars
<1>2. ASSUME NEW h \in Handlers, Decide(h) PROVE IInv'
  BY <1>2 DEF Decide, TypeOK, CacheConsistent, FreshNeverForgotten, NoProofNoAccess,
              AllowsAreConsumed, cacheVars, histVars
<1>3. ASSUME NEW h \in Handlers, Sample(h) PROVE IInv'
  <2>1. /\ now' \in [Handlers -> Nat] /\ pc' = [pc EXCEPT ![h] = "consume"] /\ pc[h] = "sample"
        /\ \A g \in Handlers : now'[g] \in {now[g], clock}
        /\ UNCHANGED <<clock, epoch, exhausted, gated, cacheVars, tok, allow, histVars>>
    BY <1>3 DEF Sample, TypeOK
  <2>2. TypeOK' /\ CacheConsistent'
    BY <2>1 DEF TypeOK, CacheConsistent, cacheVars, histVars
  <2>3. ASSUME NEW g \in Handlers PROVE now'[g] <= clock'
    <3>1. clock \in Nat /\ clock' = clock /\ now[g] <= clock /\ now'[g] \in {now[g], clock}
      BY <2>1, Zenon DEF TypeOK
    <3> HIDE DEF IInv
    <3> QED BY <3>1, SMTT(30)
  <2>4. FreshNeverForgotten' /\ NoProofNoAccess'
    BY <2>1 DEF FreshNeverForgotten, NoProofNoAccess, cacheVars, histVars
  <2>5. AllowsAreConsumed'
    BY <2>1 DEF TypeOK, AllowsAreConsumed, cacheVars, histVars
  <2> QED
    BY <2>2, <2>3, <2>4, <2>5, Zenon
<1>4. ASSUME NEW h \in Handlers, CheckAndConsume(h) PROVE IInv'
  <2>1. /\ pc' = [pc EXCEPT ![h] = "leaf"]
        /\ UNCHANGED <<clock, epoch, exhausted, tok, now, proved, granted>>
    BY <1>4 DEF CheckAndConsume
  <2>2. /\ tok[h] \in Tokens
        /\ ring' \in Seq(Tokens) /\ seen' \subseteq Tokens
        /\ tripped' \in BOOLEAN /\ gated' \in BOOLEAN
        /\ Mirrors(ring', seen')
        /\ \A t \in seen \ seen' : Exp[t] < clock
        /\ \/ UNCHANGED <<allow, accepted>>
           \/ /\ tok[h] \in seen => Exp[tok[h]] < clock
              /\ tok[h] \in seen'
              /\ allow' = [allow EXCEPT ![h] = TRUE]
              /\ accepted' = [accepted EXCEPT ![tok[h]] = @ + 1]
    BY <1>4, ConsumeEffect
  <2>3. TypeOK'
    <3>1. allow' \in [Handlers -> BOOLEAN] /\ accepted' \in [Tokens -> Nat]
      <4>1. allow \in [Handlers -> BOOLEAN] /\ accepted \in [Tokens -> Nat]
        BY DEF TypeOK
      <4>2. CASE UNCHANGED <<allow, accepted>>
        BY <4>1, <4>2
      <4>3. CASE /\ allow' = [allow EXCEPT ![h] = TRUE]
                 /\ accepted' = [accepted EXCEPT ![tok[h]] = @ + 1]
        BY <4>1, <4>3, <2>2, SMTT(30)
      <4> QED BY <4>2, <4>3, <2>2
    <3>2. /\ pc' \in [Handlers -> {"idle", "decide", "sample", "consume", "leaf"}]
          /\ \A g \in Handlers : pc'[g] # "idle" => tok'[g] \in Tokens
      BY <2>1, <2>2 DEF TypeOK
    <3> QED BY <2>1, <2>2, <3>1, <3>2 DEF TypeOK
  <2>4. CacheConsistent'
    BY <2>2 DEF CacheConsistent
  <2>5. FreshNeverForgotten'
    <3> SUFFICES ASSUME NEW t \in Tokens, accepted'[t] > 0, clock <= Exp[t]
                 PROVE  t \in seen'
      BY <2>1 DEF FreshNeverForgotten
    <3>1. CASE t = tok[h] /\ accepted' = [accepted EXCEPT ![tok[h]] = @ + 1] /\ tok[h] \in seen'
      BY <3>1
    <3>2. CASE accepted'[t] = accepted[t]
      <4>1. t \in seen
        BY <3>2 DEF FreshNeverForgotten
      <4>2. ~(Exp[t] < clock)
        BY SMTT(30) DEF TypeOK
      <4> QED BY <4>1, <4>2, <2>2
    <3> QED BY <3>1, <3>2, <2>2 DEF TypeOK
  <2>6. AllowsAreConsumed'
    <3>1. \A t \in Tokens : accepted[t] > 0 => accepted'[t] > 0
      <4>1. accepted \in [Tokens -> Nat]
        BY DEF TypeOK
      <4>2. CASE UNCHANGED accepted
        BY <4>2
      <4>3. CASE accepted' = [accepted EXCEPT ![tok[h]] = @ + 1]
        BY <4>1, <4>3, SMTT(30)
      <4> QED BY <4>2, <4>3, <2>2
    <3>2. \A g \in Handlers : allow'[g] => pc'[g] = "leaf" /\ accepted'[tok'[g]] > 0
      <4> SUFFICES ASSUME NEW g \in Handlers, allow'[g]
                   PROVE  pc'[g] = "leaf" /\ accepted'[tok[g]] > 0
        BY <2>1
      <4>1. CASE allow[g]
        <5>1. pc[g] = "leaf" /\ accepted[tok[g]] > 0 /\ tok[g] \in Tokens
          BY <4>1 DEF AllowsAreConsumed, TypeOK
        <5> QED BY <5>1, <3>1, <2>1 DEF TypeOK
      <4>2. CASE ~allow[g]
        <5>1. g = h /\ accepted' = [accepted EXCEPT ![tok[h]] = @ + 1]
          BY <4>2, <2>2 DEF TypeOK
        <5> QED BY <5>1, <2>1, <2>2, SMTT(30) DEF TypeOK
      <4> QED BY <4>1, <4>2
    <3> QED BY <3>1, <3>2, <2>1 DEF AllowsAreConsumed, TypeOK
  <2> QED BY <2>1, <2>3, <2>4, <2>5, <2>6 DEF NoProofNoAccess
<1>5. ASSUME NEW h \in Handlers, WriteLeaf(h) PROVE IInv'
  BY <1>5, SMTT(30) DEF WriteLeaf, TypeOK, CacheConsistent, FreshNeverForgotten, NoProofNoAccess,
              AllowsAreConsumed, cacheVars
<1>6. CASE Tick
  BY <1>6, SMTT(30) DEF Tick, TypeOK, CacheConsistent, FreshNeverForgotten, NoProofNoAccess,
              AllowsAreConsumed, cacheVars, histVars
<1>7. CASE NewEpoch
  BY <1>7, SMTT(30) DEF NewEpoch, TypeOK, CacheConsistent, FreshNeverForgotten, NoProofNoAccess,
              AllowsAreConsumed, cacheVars, histVars
<1>8. CASE ClearGate
  BY <1>8, Zenon DEF ClearGate, TypeOK, CacheConsistent, FreshNeverForgotten, NoProofNoAccess,
              AllowsAreConsumed, cacheVars, histVars
<1>9. ASSUME NEW t \in Tokens, CutPassport(t) PROVE IInv'
  BY <1>9 DEF CutPassport, TypeOK, CacheConsistent, FreshNeverForgotten, NoProofNoAccess,
              AllowsAreConsumed, cacheVars, histVars
<1>10. CASE UNCHANGED vars
  BY <1>10 DEF vars, TypeOK, CacheConsistent, FreshNeverForgotten, NoProofNoAccess,
               AllowsAreConsumed, cacheVars, histVars
<1> QED BY <1>1, <1>2, <1>3, <1>4, <1>5, <1>6, <1>7, <1>8, <1>9, <1>10 DEF Next, HandlerStep

\* The inductive invariant holds in every reachable state.
THEOREM Invariance == Spec => []IInv
<1> QED BY InitIInv, NextIInv, PTL DEF Spec

\* A consumed token stays in the membership table until the clock has passed
\* its expiry, however many handlers purge the cache concurrently.
THEOREM FreshTokensRemembered == Spec => []FreshNeverForgotten
<1>1. IInv => FreshNeverForgotten
  BY DEF IInv
<1> QED BY <1>1, Invariance, PTL

\* Ring and membership table hold the same tokens within the capacity.
THEOREM CacheStaysConsistent == Spec => []CacheConsistent
<1>1. IInv => CacheConsistent
  BY DEF IInv
<1> QED BY <1>1, Invariance, PTL

\* An allow is returned only after its leaf is in the log, and only for a
\* token that CheckAndConsume accepted.
THEOREM AllowsAreProved == Spec => [](NoProofNoAccess /\ AllowsAreConsumed)
<1>1. IInv => NoProofNoAccess /\ AllowsAreConsumed
  BY DEF IInv
<1> QED BY <1>1, Invariance, PTL

\* The cache implements the one-shot memory: the initial states map to its
\* initial states and every step of the handlers to one of its steps.
THEOREM CacheIsOneShot == Spec => OneShotWhileFresh
<1> USE ConstantsAssumption
<1>1. Init => Memory!Init
  BY SMTT(30) DEF Init, Memory!Init
<1>2. IInv /\ [Next]_vars => [Memory!Next]_(Memory!vars)
  <2> SUFFICES ASSUME IInv, [Next]_vars PROVE [Memory!Next]_(Memory!vars)
    OBVIOUS
  <2> USE DEF Memory!vars
  <2>1. ASSUME NEW h \in Handlers, CheckAndConsume(h) PROVE [Memory!Next]_(Memory!vars)
    <3>1. clock' = clock
      BY <2>1 DEF CheckAndConsume
    <3>2. /\ tok[h] \in Tokens
          /\ \/ UNCHANGED <<allow, accepted>>
             \/ /\ tok[h] \in seen => Exp[tok[h]] < clock
                /\ accepted' = [accepted EXCEPT ![tok[h]] = @ + 1]
      BY <2>1, ConsumeEffect DEF IInv
    <3>3. tok[h] \notin seen => (clock <= Exp[tok[h]] => accepted[tok[h]] = 0)
      BY <3>2, SMTT(30) DEF IInv, FreshNeverForgotten, TypeOK
    <3>4. Exp[tok[h]] < clock => ~(clock <= Exp[tok[h]])
      BY <3>2, SMTT(30) DEF IInv, TypeOK
    <3> QED BY <3>1, <3>2, <3>3, <3>4 DEF Memory!Next, Memory!Accept
  <2>2. CASE Tick
    BY <2>2, SMTT(30) DEF Tick, Memory!Next, Memory!Tick, histVars, IInv, TypeOK
  <2>3. CASE UNCHANGED vars
    BY <2>3 DEF vars, histVars
  <2>4. CASE NewEpoch \/ ClearGate \/ \E t \in Tokens : CutPassport(t)
    BY <2>4 DEF NewEpoch, ClearGate, CutPassport, histVars
  <2>5. ASSUME NEW h \in Handlers,
               (\E t \in Tokens : Arrive(h, t)) \/ Decide(h) \/ Sample(h) \/ WriteLeaf(h)
        PROVE  [Memory!Next]_(Memory!vars)
    BY <2>5 DEF Arrive, Decide, Sample, WriteLeaf, histVars
  <2> QED BY <2>1, <2>2, <2>3, <2>4, <2>5 DEF Next, HandlerStep
<1> QED BY <1>1, <1>2, Invariance, PTL DEF Spec, OneShotWhileFresh, Memory!Spec
=============================================================================
