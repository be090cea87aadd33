------------------------------ MODULE Telemetry ------------------------------
(***************************************************************************)
(* The telemetry pipeline of pepd behind the exporter (that one is in      *)
(* Passports): each record is fanned out to the aggregator, which commits  *)
(* one leaf per window (telemetry/aggregate.go), and to the anti-dribble   *)
(* detector, which keeps rings of dated slots per destination and alerts   *)
(* (telemetry/antidribble.go); the raw records of a sealed window stay in  *)
(* a bounded store until their purge is traced (telemetry/retention.go).   *)
(*                                                                         *)
(* A window of the aggregator and a minute of the detector are one unit of *)
(* `minute`, which is the cell's clock and may step back.  A record is a   *)
(* number.  Ring stands for the 1440 minute slots of 24 h, HourLen for the *)
(* 60 minutes of an hour and HourRing for the 168 hour slots of 7 days.    *)
(* Sums are machine words of Word values.  The exponential averages are    *)
(* abstracted to "not zero", and the two signals computed from them and    *)
(* from the spread of the slots to an arbitrary addition to the score.     *)
(***************************************************************************)
EXTENDS Integers, FiniteSets

CONSTANTS Dsts, Sizes, Ring, HourLen, HourRing, Word, ByteThreshold24h,
          ByteThreshold7d, WBytes, WOther, AlertThreshold, Hysteresis,
          MaxEntities, MaxBatches, RawTTL,
          MaxMinute, MaxFed, MaxLeafFailures, MaxStepsBack

ASSUME TelemetryAssumption ==
    /\ {Ring, HourLen, HourRing, Word, RawTTL} \subseteq Nat \ {0}
    /\ HourLen * HourRing >= Ring + HourLen
    /\ Sizes \subseteq Nat
    /\ Hysteresis \in 0..(AlertThreshold - 1)
    /\ \A n \in {MaxEntities, MaxBatches, MaxMinute, MaxFed, MaxLeafFailures,
                 MaxStepsBack} : n \in Nat

VARIABLES minute,       \* the cell's clock
          agg,          \* Aggregator: [cur |-> window or -1, recs |-> records]
          batches,      \* RetentionStore.batches: [window, at, recs]
          watermark,    \* Detector.watermark
          profiles,     \* Detector.entities, a function on the ones it tracks
          leafFailures, stepsBack,
          open,         \* the pipeline is not closed
          fed,          \* history: number of records fed so far
          committed,    \* history: [window, recs] of every aggregate leaf
          alarmed,      \* history: records whose loss raised an alarm
          truth         \* history: [Dsts -> [minutes -> bytes]] the rings took

aggVars == <<agg, batches, committed, alarmed>>
detVars == <<watermark, profiles, truth>>
telVars == <<minute, aggVars, detVars, leafFailures, stepsBack, fed, open>>

Minutes == 0..MaxMinute
HourOf(m) == m \div HourLen

(***************************************************************************)
(* Aggregator and RetentionStore.                                          *)
(***************************************************************************)
SpendFaults(faults) ==
    /\ leafFailures + faults <= MaxLeafFailures
    /\ leafFailures' = leafFailures + faults

Put(batch) ==
    IF batch.recs = {} \/ Cardinality(batches) >= MaxBatches
      THEN batches ELSE batches \cup {batch}

buildAggregate(first, w) ==
    [window |-> w, recs |-> IF w = first THEN agg.recs ELSE {}]

\* tickLocked: seals the windows from `first` on, one leaf each, and stops at
\* the first leaf that cannot be written (window `upto`).  Only the first of
\* them holds records; a full store raises an alarm and moves on.
SealWindows(first, upto) ==
    /\ committed' = committed \cup {buildAggregate(first, w) : w \in first..(upto - 1)}
    /\ LET batch == [window |-> first, at |-> minute, recs |-> agg.recs]
       IN  batches' = IF upto > first THEN Put(batch) ELSE batches

KeptForgetsFailure(upto) == IF minute > agg.cur THEN {} ELSE agg.recs
KeptRecords(upto) == IF upto > agg.cur THEN {} ELSE agg.recs

\* Feed: the elapsed windows first; if one cannot be sealed the record is not
\* taken, and the exporter that sees the error raises an alarm.
AggregatorFeed(r) ==
    \/ /\ agg.cur = -1 \/ minute <= agg.cur
       /\ agg' = [cur |-> IF agg.cur = -1 THEN minute ELSE agg.cur,
                  recs |-> agg.recs \cup {r}]
       /\ SpendFaults(0)
       /\ UNCHANGED <<batches, committed, alarmed>>
    \/ /\ agg.cur # -1 /\ minute > agg.cur
       /\ \E upto \in agg.cur..minute :
            /\ SealWindows(agg.cur, upto)
            /\ agg' = [cur |-> upto,
                       recs |-> KeptRecords(upto) \cup (IF upto = minute THEN {r} ELSE {})]
            /\ SpendFaults(IF upto = minute THEN 0 ELSE 1)
            /\ alarmed' = IF upto = minute THEN alarmed ELSE alarmed \cup {r}

AggregatorTick ==
    /\ agg.cur # -1 /\ minute > agg.cur
    /\ \E upto \in agg.cur..minute :
         /\ SealWindows(agg.cur, upto)
         /\ agg' = [cur |-> upto, recs |-> KeptRecords(upto)]
         /\ SpendFaults(IF upto = minute THEN 0 ELSE 1)
    /\ UNCHANGED <<minute, detVars, stepsBack, fed, open, alarmed>>

ExpiredBatches == {b \in batches : b.at + RawTTL <= minute}

\* PurgeExpired: each batch is deleted only after its leaf.
PurgeExpired ==
    /\ ExpiredBatches # {}
    /\ \E failed \in SUBSET ExpiredBatches :
         /\ batches' = batches \ (ExpiredBatches \ failed)
         /\ SpendFaults(Cardinality(failed))
    /\ UNCHANGED <<minute, agg, committed, alarmed, detVars, stepsBack, fed, open>>

(***************************************************************************)
(* Detector: the rings of a destination.                                   *)
(***************************************************************************)
Slots == 0..(Ring - 1)
HourSlots == 0..(HourRing - 1)

newEntityProfile ==
    [slotMin |-> [s \in Slots |-> -1], ring24 |-> [s \in Slots |-> 0], sum24 |-> 0,
     slotHour |-> [s \in HourSlots |-> -1], ring7 |-> [s \in HourSlots |-> 0],
     curHour |-> -1, curHourBytes |-> 0,
     lastEval |-> -1, ema |-> FALSE, alerted |-> FALSE]

commitHour(p) ==
    LET s == p.curHour % HourRing
        old == IF p.slotHour[s] = p.curHour THEN p.ring7[s] ELSE 0
    IN  [p EXCEPT !.slotHour[s] = p.curHour,
                  !.ring7[s] = old + p.curHourBytes,
                  !.curHourBytes = 0]

addUndated(p, m, bytes) ==
    LET s == m % Ring
        q == [p EXCEPT !.slotMin[s] = m, !.ring24[s] = @ + bytes,
                       !.sum24 = (@ + bytes) % Word]
        h == HourOf(m)
        c == IF q.curHour >= 0 /\ h # q.curHour THEN commitHour(q) ELSE q
    IN  [c EXCEPT !.curHour = h, !.curHourBytes = @ + bytes]

\* add: the value an outdated slot still holds is subtracted from the running
\* sum before the slot is written again.
add(p, m, bytes) ==
    LET s == m % Ring
        stale == IF p.slotMin[s] # m /\ p.slotMin[s] >= 0 THEN p.ring24[s] ELSE 0
        held == IF p.slotMin[s] = m THEN p.ring24[s] ELSE 0
        q == [p EXCEPT !.slotMin[s] = m, !.ring24[s] = held + bytes,
                       !.sum24 = (@ - stale + bytes) % Word]
        h == HourOf(m)
        c == IF q.curHour >= 0 /\ h # q.curHour THEN commitHour(q) ELSE q
    IN  [c EXCEPT !.curHour = h, !.curHourBytes = @ + bytes]

bytesAt(p, m) == IF p.slotMin[m % Ring] = m THEN p.ring24[m % Ring] ELSE 0

\* The sum of f over S, by counting units.
Units(f, S) == UNION {{x} \X (1..f[x]) : x \in S}
Total(f, S) == Cardinality(Units(f, S))

Sum24At(p, t) ==
    Total(p.ring24, {s \in Slots : p.slotMin[s] \in (t - Ring + 1)..t})

Sum7At(p, t) ==
    LET hours == (HourOf(t) - HourRing + 1)..HourOf(t)
    IN  Total(p.ring7, {s \in HourSlots : p.slotHour[s] \in hours})
          + IF p.curHour >= 0 /\ p.curHour \in hours THEN p.curHourBytes ELSE 0

(***************************************************************************)
(* sealLocked: advanceEMA and evaluate, for every tracked destination that *)
(* is not dormant.                                                         *)
(***************************************************************************)
Dormant(p) == p.sum24 = 0 /\ ~p.ema

\* The averages after the minutes (lastEval, t]: not zero if the last of them
\* had bytes; they may have rounded down to zero after an empty one.
advanceEMA(p, t) ==
    IF p.lastEval < 0 \/ t <= p.lastEval THEN {p.ema}
    ELSE IF bytesAt(p, t) > 0 THEN {TRUE}
    ELSE IF t - p.lastEval > Ring THEN {FALSE}
    ELSE IF p.ema \/ \E j \in (p.lastEval + 1)..t : bytesAt(p, j) > 0
           THEN BOOLEAN ELSE {FALSE}

Score(p, t, other) ==
    other + IF Sum24At(p, t) > ByteThreshold24h \/ Sum7At(p, t) > ByteThreshold7d
              THEN WBytes ELSE 0

\* The profile after evaluate, if the alert leaf can (wrote) be written.
evaluate(p, t, ema, other, wrote) ==
    LET score == Score(p, t, other)
        armed == ~p.alerted \/ score < AlertThreshold - Hysteresis
        fires == armed /\ score >= AlertThreshold
    IN  [p EXCEPT !.sum24 = Sum24At(p, t),
                  !.lastEval = IF @ > t THEN @ ELSE t,
                  !.ema = ema,
                  !.alerted = IF fires THEN wrote ELSE ~armed]

Sealed(p, t, ema, other, wrote) ==
    IF Dormant(p) THEN [p EXCEPT !.lastEval = t - 1]
                  ELSE evaluate(p, t, ema, other, wrote)

\* The profiles after sealLocked(t), when a signal other than the volume adds
\* `other` and the alert leaves of `unwritten` fail.
SealProfiles(t, other, unwritten) ==
    {f \in [DOMAIN profiles ->
               UNION {{Sealed(profiles[d], t, ema, other, d \notin unwritten) :
                         ema \in advanceEMA(profiles[d], t)} : d \in DOMAIN profiles}] :
        \A d \in DOMAIN profiles :
           \E ema \in advanceEMA(profiles[d], t) :
              f[d] = Sealed(profiles[d], t, ema, other, d \notin unwritten)}

Track(f, d, m, bytes) ==
    IF d \in DOMAIN f THEN [f EXCEPT ![d] = add(@, m, bytes)]
    ELSE IF Cardinality(DOMAIN f) >= MaxEntities THEN f
    ELSE [e \in DOMAIN f \cup {d} |->
            IF e = d THEN add(newEntityProfile, m, bytes) ELSE f[e]]

\* Detector.Feed of a record of minute m.
DetectorFeed(d, m, bytes) ==
    LET mark == IF watermark > m THEN watermark ELSE m
        taken == m > mark - Ring
    IN  \E other \in WOther, unwritten \in SUBSET DOMAIN profiles :
          \E f \in IF watermark >= 0 /\ m > watermark
                     THEN SealProfiles(m - 1, other, unwritten) ELSE {profiles} :
            /\ watermark' = mark
            /\ profiles' = IF taken THEN Track(f, d, m, bytes) ELSE f
            /\ truth' = IF taken /\ d \in DOMAIN profiles'
                          THEN [truth EXCEPT ![d][m] = @ + bytes] ELSE truth

(***************************************************************************)
(* The pipeline.                                                           *)
(***************************************************************************)
FanOutFeed ==
    /\ open /\ fed < MaxFed
    /\ fed' = fed + 1
    /\ \E d \in Dsts, bytes \in Sizes :
         AggregatorFeed(fed') /\ DetectorFeed(d, minute, bytes)
    /\ UNCHANGED <<minute, stepsBack, open>>

\* Pipeline.Close: Seal of the window in progress, Flush of the detector.
PipelineClose ==
    /\ open /\ open' = FALSE
    /\ LET cur == IF agg.cur = -1 THEN minute ELSE agg.cur
       IN  \/ /\ SealWindows(cur, cur + 1)
              /\ agg' = [cur |-> cur + 1, recs |-> {}]
              /\ SpendFaults(0)
           \/ /\ agg' = [agg EXCEPT !.cur = cur]
              /\ SpendFaults(1)
              /\ UNCHANGED <<batches, committed>>
    /\ \/ /\ watermark >= 0
          /\ \E other \in WOther, unwritten \in SUBSET DOMAIN profiles :
               profiles' \in SealProfiles(watermark, other, unwritten)
       \/ watermark < 0 /\ UNCHANGED profiles
    /\ UNCHANGED <<minute, watermark, truth, stepsBack, fed, alarmed>>

MinutePasses ==
    /\ minute < MaxMinute
    /\ minute' = minute + 1
    /\ UNCHANGED <<aggVars, detVars, leafFailures, stepsBack, fed, open>>

ClockStepsBack ==
    /\ minute > 0 /\ stepsBack < MaxStepsBack
    /\ minute' = minute - 1 /\ stepsBack' = stepsBack + 1
    /\ UNCHANGED <<aggVars, detVars, leafFailures, fed, open>>

NewAggregator == agg = [cur |-> -1, recs |-> {}] /\ committed = {} /\ alarmed = {}
NewRetentionStore == batches = {}
NewDetector ==
    /\ watermark = -1 /\ profiles = [d \in {} |-> newEntityProfile]
    /\ truth = [d \in Dsts |-> [m \in Minutes |-> 0]]

TelInit ==
    /\ minute = 0 /\ leafFailures = 0 /\ stepsBack = 0 /\ open = TRUE /\ fed = 0
    /\ NewAggregator /\ NewRetentionStore /\ NewDetector

TelNext == \/ FanOutFeed \/ AggregatorTick \/ PurgeExpired \/ PipelineClose
           \/ MinutePasses \/ ClockStepsBack

TelSpec == TelInit /\ [][TelNext]_telVars

(***************************************************************************)
(* Properties.                                                             *)
(***************************************************************************)
Truth24(d, t) == Total(truth[d], {m \in Minutes : m \in (t - Ring + 1)..t})
Truth7(d, t) ==
    Total(truth[d], {m \in Minutes : HourOf(m) \in (HourOf(t) - HourRing + 1)..HourOf(t)})

\* At every minute an evaluation may be made for, the sums a scan of the rings
\* finds are the volumes really fed over the two sliding windows, however long a
\* destination was silent (a slot is reused one or several turns of the ring
\* later), whatever hour late records of a clock that stepped back fall in:
\* entityProfile.add, commitHour, evaluate.
RingsExact ==
    \A d \in DOMAIN profiles : \A t \in watermark..MaxMinute :
       /\ Sum24At(profiles[d], t) = Truth24(d, t)
       /\ Sum7At(profiles[d], t) = Truth7(d, t)

\* Where record r is: leaves of the registry, the window in progress.
HeldBy(r) == {c \in committed : r \in c.recs} \cup {w \in {agg} : r \in w.recs}

\* No record leaves the aggregates silently: each one fed is in the window in
\* progress, or committed by exactly one leaf, or its refusal raised an alarm,
\* whichever leaf failed and however often the sealing was retried
\* (Aggregator.Feed, sealLocked).
CommittedOnce ==
    \A r \in 1..fed :
       IF r \in alarmed THEN HeldBy(r) = {}
       ELSE \E place \in HeldBy(r) : HeldBy(r) = {place}

\* "somme courante (peut surestimer entre deux évals - resynchronisée au scan)"
\* (antidribble.go:254): the running sum may overestimate, so that sealLocked
\* never takes a destination that has bytes in its window for a dormant one.
DormantIsIdle ==
    \A d \in DOMAIN profiles :
       Dormant(profiles[d]) => Sum24At(profiles[d], watermark) = 0
=============================================================================
