-------------------------- MODULE DurableLogProofs --------------------------
(***************************************************************************)
(* Proofs about the registry and what it meters.  Every passport is        *)
(* metered and its records are complete, for any number of handlers,       *)
(* volume and window (Passports).  The stop leaf of the backpressure is    *)
(* the last leaf, and no decision is accepted past the opposability        *)
(* window, for any number of writers, any capacity and any window.         *)
(***************************************************************************)
EXTENDS DurableLog, Passports, TLAPS

\* A leaf goes to Zenon first and, if that does not find it soon, to the SMT solver.
USE ZenonT(2), SMTT(30)

-----------------------------------------------------------------------------
(* The passports: quota, records, and the doors that are metered. *)

\* The windows begun since a passport was opened only grow.
LEMMA QuotientGrows ==
  ASSUME NEW W \in Nat \ {0}, NEW a \in Nat, NEW b \in Nat
  PROVE  /\ a \div W \in Nat
         /\ a <= b => a \div W <= b \div W
         /\ a + W <= b => a \div W + 1 <= b \div W
<1> DEFINE q == a \div W
           p == b \div W
<1>1. q \in Nat /\ W * q <= a /\ a < W * (q + 1)
  OBVIOUS
<1>2. p \in Nat /\ W * p <= b /\ b < W * (p + 1)
  OBVIOUS
<1> HIDE DEF q, p
<1>3. ASSUME NEW m \in Nat, NEW n \in Nat, W * m < W * n PROVE m + 1 <= n
  <2> SUFFICES ASSUME n <= m PROVE FALSE
    OBVIOUS
  <2>1. W * n <= W * m
    OBVIOUS
  <2> QED BY <2>1, <1>3
<1>4. a <= b => q <= p
  <2> SUFFICES ASSUME a <= b PROVE q <= p
    OBVIOUS
  <2>1. W * q < W * (p + 1)
    BY <1>1, <1>2
  <2>2. q + 1 <= p + 1
    BY <2>1, <1>1, <1>2, <1>3
  <2> QED BY <2>2, <1>1, <1>2
<1>5. a + W <= b => q + 1 <= p
  <2> SUFFICES ASSUME a + W <= b PROVE q + 1 <= p
    OBVIOUS
  <2>1. W * (q + 1) = W * q + W
    BY <1>1
  <2>2. W * (q + 1) < W * (p + 1)
    BY <2>1, <1>1, <1>2
  <2>3. q + 1 + 1 <= p + 1
    BY <2>2, <1>1, <1>2, <1>3
  <2> QED BY <2>3, <1>1, <1>2
<1> QED BY <1>1, <1>4, <1>5 DEF q, p

\* What one volume per window since c.opened allows at time t.
Allowance(c, t) == VolumeMax * (1 + (t - c.opened) \div WindowS)

\* What was taken and what is left fit in the windows begun so far; the current
\* one began at c.from.
Metered(c, t) ==
  /\ c \in Counters /\ c.opened <= c.from /\ c.from <= t
  /\ c.consumed + c.remaining <= Allowance(c, c.from)

LEMMA AllowanceGrows ==
  ASSUME NEW c \in Counters, NEW t \in Nat, NEW u \in Nat, c.opened <= t, t <= u
  PROVE  /\ Allowance(c, t) \in Nat /\ Allowance(c, t) <= Allowance(c, u)
         /\ t + WindowS <= u => Allowance(c, t) + VolumeMax <= Allowance(c, u)
<1> DEFINE a == (t - c.opened) \div WindowS
           b == (u - c.opened) \div WindowS
<1>1. /\ a \in Nat /\ b \in Nat /\ a <= b
      /\ t + WindowS <= u => a + 1 <= b
  <2>1. t - c.opened \in Nat /\ u - c.opened \in Nat /\ WindowS \in Nat \ {0}
    BY PassportsAssumption, SMTT(30) DEF Counters
  <2>2. t - c.opened <= u - c.opened
    BY DEF Counters
  <2>3. t + WindowS <= u => (t - c.opened) + WindowS <= u - c.opened
    BY PassportsAssumption, SMTT(30) DEF Counters
  <2> QED BY <2>1, <2>2, <2>3, QuotientGrows
<1>2. VolumeMax \in Nat
  BY PassportsAssumption
<1> HIDE DEF a, b
<1>3. VolumeMax * (1 + a) \in Nat /\ VolumeMax * (1 + a) <= VolumeMax * (1 + b)
  BY <1>1, <1>2
<1>4. a + 1 <= b => VolumeMax * (1 + a) + VolumeMax <= VolumeMax * (1 + b)
  <2> SUFFICES ASSUME a + 1 <= b PROVE VolumeMax * (1 + a) + VolumeMax <= VolumeMax * (1 + b)
    OBVIOUS
  <2>1. VolumeMax * (1 + a) + VolumeMax = VolumeMax * (2 + a)
    BY <1>1, <1>2
  <2>2. 2 + a <= 1 + b
    BY <1>1
  <2>3. VolumeMax * (2 + a) <= VolumeMax * (1 + b)
    BY <1>1, <1>2, <2>2
  <2> QED BY <2>1, <2>3
<1> QED BY <1>1, <1>3, <1>4 DEF Allowance, a, b

LEMMA RechargedMetered ==
  ASSUME NEW t \in Nat, NEW c, Metered(c, t), NEW now \in Nat, now <= t
  PROVE  /\ Metered(Recharged(c, now), t)
         /\ Recharged(c, now).consumed = c.consumed /\ Recharged(c, now).opened = c.opened
         /\ Recharged(c, now).closed = c.closed
<1>1. /\ c \in Counters /\ c.opened <= c.from /\ c.from <= t
      /\ c.from \in Nat /\ c.opened \in Nat /\ c.remaining \in Nat /\ c.consumed \in Nat
      /\ c.closed \in BOOLEAN
  BY DEF Metered, Counters
<1>2. CASE ~WindowOver(c, now)
  BY <1>2 DEF Recharged
<1>3. CASE WindowOver(c, now)
  <2> DEFINE r == [c EXCEPT !.from = now, !.remaining = VolumeMax]
  <2>1. Recharged(c, now) = r
    BY <1>3 DEF Recharged
  <2>2. VolumeMax \in Nat /\ WindowS \in Nat /\ c.from + WindowS <= now
    BY <1>1, <1>3, PassportsAssumption, SMTT(30) DEF WindowOver
  <2>3. /\ r \in Counters /\ r.from = now /\ r.remaining = VolumeMax /\ r.consumed = c.consumed
        /\ r.opened = c.opened /\ r.closed = c.closed
    BY <1>1, <2>2, Zenon DEF Counters
  <2>4. /\ Allowance(c, c.from) \in Nat
        /\ Allowance(c, c.from) + VolumeMax <= Allowance(c, now)
    BY <1>1, <2>2, AllowanceGrows, SMTT(30)
  <2>5. c.consumed + c.remaining <= Allowance(c, c.from)
    BY DEF Metered
  <2>6. Allowance(r, now) = Allowance(c, now) /\ Allowance(c, now) \in Nat
    <3>1. c.opened <= now
      BY <1>1, <2>2
    <3> QED BY <1>1, <2>3, <3>1, AllowanceGrows DEF Allowance
  <2> HIDE DEF r
  <2>7. r.consumed + r.remaining <= Allowance(r, r.from)
    BY <1>1, <2>2, <2>3, <2>4, <2>5, <2>6
  <2>8. Metered(r, t)
    BY <1>1, <2>2, <2>3, <2>7 DEF Metered
  <2> QED BY <2>1, <2>3, <2>8
<1> QED BY <1>2, <1>3

LEMMA TakenMetered ==
  ASSUME NEW t \in Nat, NEW c, Metered(c, t), NEW n \in Nat, n <= c.remaining
  PROVE  Metered(Taken(c, n), t) /\ Taken(c, n).consumed = c.consumed + n
         /\ Taken(c, n).closed = c.closed
<1>1. c \in Counters /\ c.remaining \in Nat /\ c.consumed \in Nat /\ c.closed \in BOOLEAN
  BY DEF Metered, Counters
<1> DEFINE d == Taken(c, n)
<1>2. /\ d.remaining = c.remaining - n /\ d.consumed = c.consumed + n
      /\ d.from = c.from /\ d.opened = c.opened /\ d.closed = c.closed
  BY <1>1 DEF Taken, Counters
<1>3. d \in Counters
  <2>1. c.remaining - n \in Nat /\ c.consumed + n \in Nat
    BY <1>1
  <2> QED BY <1>1, <2>1, Zenon DEF Taken, Counters
<1>4. Allowance(d, d.from) = Allowance(c, c.from)
  BY <1>2 DEF Allowance
<1> HIDE DEF d
<1>5. d.consumed + d.remaining = c.consumed + c.remaining
  BY <1>1, <1>2
<1>6. Metered(d, t)
  BY <1>2, <1>3, <1>4, <1>5 DEF Metered
<1> QED BY <1>2, <1>6 DEF d

\* Consume keeps a counter within its allowance, and never takes back.
LEMMA ConsumeMetered ==
  ASSUME NEW p \in Passports, NEW n \in Nat, NEW now \in Nat, clock \in Nat, now <= clock,
         Metered(counter[p], clock)
  PROVE  LET d == AfterConsume(p, n, now) IN
         /\ Metered(d, clock)
         /\ counter[p].consumed <= d.consumed
         /\ counter[p].closed => d.closed
<1> DEFINE c == counter[p]
           r == Recharged(c, now)
           d == AfterConsume(p, n, now)
<1>0. Metered(c, clock) /\ c.consumed \in Nat /\ c.closed \in BOOLEAN /\ c \in Counters
  BY DEF Metered, Counters
<1>7. Exp[p] \in Nat
  BY PassportsAssumption
<1>1. Metered(r, clock) /\ r.consumed = c.consumed /\ r.closed = c.closed
  BY <1>0, RechargedMetered, SMTT(30)
<1>2. \A x : Metered(x, clock) => /\ Metered([x EXCEPT !.closed = TRUE], clock)
                                  /\ [x EXCEPT !.closed = TRUE].consumed = x.consumed
                                  /\ [x EXCEPT !.closed = TRUE].closed
  <2> SUFFICES ASSUME NEW x, Metered(x, clock)
               PROVE  /\ Metered([x EXCEPT !.closed = TRUE], clock)
                      /\ [x EXCEPT !.closed = TRUE].consumed = x.consumed
                      /\ [x EXCEPT !.closed = TRUE].closed
    OBVIOUS
  <2> DEFINE y == [x EXCEPT !.closed = TRUE]
  <2>1. x \in Counters
    BY DEF Metered
  <2>2. y \in Counters /\ y.from = x.from /\ y.opened = x.opened /\ y.remaining = x.remaining
        /\ y.consumed = x.consumed /\ y.closed
    BY <2>1, Zenon DEF Counters
  <2> HIDE DEF y
  <2>3. Metered(y, clock)
    BY <2>2 DEF Metered, Allowance
  <2> QED BY <2>2, <2>3 DEF y
<1>3. CASE c.closed
  <2>1. d = c
    BY <1>3 DEF AfterConsume
  <2> QED BY <1>0, <2>1
<1>4. CASE ~c.closed /\ now > Exp[p]
  <2>1. d = [c EXCEPT !.closed = TRUE]
    BY <1>4, <1>7 DEF AfterConsume
  <2> HIDE DEF c, d
  <2>2. Metered(d, clock) /\ d.consumed = c.consumed /\ d.closed
    BY <1>0, <1>2, <2>1
  <2> QED BY <1>0, <2>2 DEF c, d
<1>5. CASE ~c.closed /\ ~(now > Exp[p]) /\ n > r.remaining
  <2>1. d = [r EXCEPT !.closed = TRUE]
    BY <1>5, <1>7, SMTT(30) DEF AfterConsume
  <2> HIDE DEF c, d, r
  <2>2. Metered(d, clock) /\ d.consumed = r.consumed /\ d.closed
    BY <1>1, <1>2, <2>1
  <2> QED BY <1>0, <1>1, <2>2 DEF c, d
<1>6. CASE ~c.closed /\ ~(now > Exp[p]) /\ ~(n > r.remaining)
  <2>1. d = Taken(r, n)
    BY <1>6, <1>7 DEF AfterConsume
  <2>2. r.remaining \in Nat
    BY <1>1 DEF Metered, Counters
  <2>3. n <= r.remaining
    BY <2>2, <1>6
  <2> HIDE DEF c, d, r
  <2>4. Metered(d, clock) /\ d.consumed = r.consumed + n
    BY <1>1, <2>1, <2>3, TakenMetered
  <2> QED BY <1>0, <1>1, <1>6, <2>4 DEF c, d
<1> QED BY <1>3, <1>4, <1>5, <1>6

ReqPCs == {"new", "dryrun", "open", "policy", "done"}

\* A request has no passport before it reaches Open, which it does once, and an
\* allow that has passed Open has one.
ReqInv ==
  /\ req \in [Passports -> [pc : ReqPCs, now : Nat, allow : BOOLEAN]]
  /\ \A p \in Passports :
       /\ req[p].now <= clock
       /\ req[p].pc \in {"new", "dryrun", "open"} => p \notin Opened
       /\ req[p].pc = "policy" /\ req[p].allow => p \in Opened

\* A handler that consumes has a counter, and a reading of the clock that is past.
ConInv ==
  /\ con \in [Consumers -> [pc : {"idle", "consume"}, p : Nat, now : Nat]]
  /\ \A c \in Consumers : con[c].pc = "consume" => con[c].p \in Opened /\ con[c].now <= clock

MeterInv ==
  /\ clock \in Nat /\ DOMAIN counter = Passports
  /\ \A p \in Opened : Metered(counter[p], clock)

\* The records of an open passport: as long as its total is still to be read,
\* last is what they hold of it, unless it was cut; once the total was read they
\* hold it all.  What the records lack of a total is what was taken late.
Reported(p) ==
  LET c == counter[p] IN
  /\ late[p] <= c.consumed /\ last[p] <= recorded[p]
  /\ p \in live => late[p] = 0 /\ p \notin DOMAIN evicted
  /\ p \in live \cup DOMAIN evicted => p \notin missed /\ (c.closed \/ last[p] = recorded[p])
  /\ p \in DOMAIN evicted => evicted[p] = c.consumed - late[p]
  /\ p \in DOMAIN export.totals => export.totals[p] \in Nat /\ export.totals[p] <= c.consumed
  /\ p \notin live \cup missed \cup DOMAIN evicted =>
       /\ recorded[p] >= c.consumed - late[p]
       /\ ~c.closed => recorded[p] = c.consumed - late[p]

Unseen(p) ==
  /\ last[p] = 0 /\ recorded[p] = 0 /\ late[p] = 0
  /\ p \notin live /\ p \notin missed /\ p \notin DOMAIN evicted

RecInv ==
  /\ last \in [Passports -> Nat] /\ recorded \in [Passports -> Nat]
  /\ late \in [Passports -> Nat]
  /\ live \subseteq Passports
  /\ DOMAIN export = {"pc", "now", "totals"}
  /\ DOMAIN export.totals = IF export.pc = "flags" THEN live ELSE {}
  /\ \A p \in Passports : IF p \in Opened THEN Reported(p) ELSE Unseen(p)

PassInv == ReqInv /\ ConInv /\ MeterInv /\ RecInv

\* A counter that is open is a counter, and stays one.
LEMMA OpenCounter ==
  ASSUME MeterInv, NEW p \in Opened
  PROVE  /\ p \in Passports /\ counter[p] \in Counters /\ counter[p].consumed \in Nat
         /\ counter[p].closed \in BOOLEAN
<1>1. p \in Passports /\ counter[p] \in Counters
  BY DEF Opened, MeterInv, Metered
<1> QED BY <1>1 DEF Counters

LEMMA PassInitInv == PassInit => PassInv
<1> SUFFICES ASSUME PassInit PROVE PassInv
  OBVIOUS
<1>1. Opened = {}
  BY DEF PassInit, Opened
<1>2. ReqInv
  BY <1>1 DEF PassInit, ReqInv, ReqPCs
<1>3. ConInv
  BY <1>1 DEF PassInit, ConInv, NotConsuming
<1>4. MeterInv
  BY <1>1 DEF PassInit, MeterInv
<1>5. RecInv
  BY <1>1 DEF PassInit, RecInv, Unseen
<1> QED BY <1>2, <1>3, <1>4, <1>5 DEF PassInv

\* The parts of the invariant depend on few variables.
LEMMA RecFrame ==
  ASSUME RecInv, UNCHANGED <<ledgerVars, last, recorded>>, UNCHANGED export.totals,
         DOMAIN export' = DOMAIN export, export'.pc # "flags" <=> export.pc # "flags"
  PROVE  RecInv'
BY DEF RecInv, ledgerVars, Reported, Unseen, Opened

LEMMA RequestSteps ==
  ASSUME PassInv, NEW p \in Passports, Validate(p) \/ Execute(p) \/ Forward(p)
  PROVE  PassInv'
<1>1. UNCHANGED <<clock, mode, ledgerVars, con, exporter>>
  BY Zenon DEF Validate, Execute, Forward
<1>2. MeterInv' /\ ConInv' /\ Opened' = Opened
  BY <1>1 DEF PassInv, MeterInv, ConInv, Opened, ledgerVars
<1>3. RecInv'
  BY <1>1, RecFrame DEF PassInv, exporter
<1>4. PICK to \in ReqPCs, allow \in BOOLEAN :
        /\ req' = [req EXCEPT ![p] = [pc |-> to, allow |-> allow, now |-> IF to = "open" THEN clock ELSE 0]]
        /\ to \in {"dryrun", "open"} => req[p].pc \in {"new", "dryrun", "open"}
        /\ to # "new" /\ (to = "policy" => ~allow)
  <2>1. CASE Validate(p)
    BY <2>1, Zenon DEF Validate, ReqStep, ReqPCs
  <2>2. CASE Execute(p)
    BY <2>2, Zenon DEF Execute, ReqStep, ReqPCs
  <2>3. CASE Forward(p)
    <3>1. PICK allow \in {FALSE, req[p].allow} : ReqStep(p, "policy", "done", allow)
      BY <2>3, Zenon DEF Forward
    <3>2. allow \in BOOLEAN
      BY Zenon DEF PassInv, ReqInv
    <3> QED BY <3>1, <3>2, Zenon DEF ReqStep, ReqPCs
  <2> QED BY <2>1, <2>2, <2>3
<1>5. clock \in Nat
  BY DEF PassInv, MeterInv
<1>6. ReqInv'
  BY <1>1, <1>2, <1>4, <1>5, SMTT(30) DEF PassInv, ReqInv
<1> QED BY <1>2, <1>3, <1>6 DEF PassInv

LEMMA PostureAndTime ==
  ASSUME PassInv, (\E m \in {"monitor", "closed"} : SetMode(m)) \/ Tick \/ ExportBegin \/ UNCHANGED passVars
  PROVE  PassInv'
<1>1. /\ UNCHANGED <<requests, ledgerVars, con, last, recorded>>
      /\ clock' = clock \/ clock' = clock + 1
      /\ \/ UNCHANGED export
         \/ export.pc = "idle" /\ export' = [export EXCEPT !.pc = "totals", !.now = clock]
  BY DEF SetMode, Tick, ExportBegin, passVars, exporter
<1>2. RecInv'
  <2>1. /\ UNCHANGED export.totals /\ DOMAIN export' = DOMAIN export
        /\ export'.pc # "flags" <=> export.pc # "flags"
    BY <1>1, Zenon DEF PassInv, RecInv
  <2> QED BY <1>1, <2>1, RecFrame DEF PassInv
<1>3. clock \in Nat /\ clock' \in Nat /\ clock <= clock' /\ Opened' = Opened
  BY <1>1, SMTT(30) DEF PassInv, MeterInv, Opened, ledgerVars
<1>4. MeterInv'
  <2>1. ASSUME NEW p \in Opened PROVE Metered(counter[p], clock')
    <3>1. Metered(counter[p], clock) /\ counter[p].from \in Nat
      BY DEF PassInv, MeterInv, Metered, Counters
    <3> QED BY <1>3, <3>1 DEF Metered
  <2> QED BY <1>1, <1>3, <2>1 DEF PassInv, MeterInv, ledgerVars
<1>5. ReqInv'
  BY <1>1, <1>3, SMTT(30) DEF PassInv, ReqInv, requests
<1>6. ConInv'
  BY <1>1, <1>3, SMTT(30) DEF PassInv, ConInv
<1> QED BY <1>2, <1>4, <1>5, <1>6 DEF PassInv

LEMMA LookupStep ==
  ASSUME PassInv, NEW c \in Consumers, NEW p \in Passports, Lookup(c, p) PROVE PassInv'
<1>1. /\ UNCHANGED <<clock, requests, ledgerVars, exporter>> /\ p \in live
      /\ con' = [con EXCEPT ![c] = [pc |-> "consume", p |-> p, now |-> clock]]
  BY DEF Lookup
<1>2. MeterInv' /\ ReqInv' /\ Opened' = Opened
  BY <1>1 DEF PassInv, MeterInv, ReqInv, Opened, ledgerVars, requests
<1>3. RecInv'
  BY <1>1, RecFrame DEF PassInv, exporter
<1>4. p \in Opened /\ p \in Nat /\ clock \in Nat
  BY <1>1, PassportsAssumption DEF PassInv, RecInv, Unseen, MeterInv
<1>5. ConInv'
  BY <1>1, <1>2, <1>4, SMTT(30) DEF PassInv, ConInv
<1> QED BY <1>2, <1>3, <1>5 DEF PassInv

\* purgeLocked keeps the totals of some of the counters it drops, and misses the others.
LEMMA PurgeEffect ==
  ASSUME NEW now, Purge(now)
  PROVE  \E kept \in SUBSET Expired(now) :
           /\ DOMAIN evicted' = DOMAIN evicted \cup kept
           /\ \A q \in DOMAIN evicted' :
                evicted'[q] = IF q \in kept THEN counter[q].consumed ELSE evicted[q]
           /\ missed' = missed \cup (Expired(now) \ kept)
<1> DEFINE k == LET room == MaxPassports - Cardinality(DOMAIN evicted)
                    n == Cardinality(Expired(now))
                IN IF n <= room THEN n ELSE room
<1>1. PICK kept \in kSubset(k, Expired(now)) :
        /\ evicted' = [p \in DOMAIN evicted \cup kept |->
                         IF p \in kept THEN counter[p].consumed ELSE evicted[p]]
        /\ missed' = missed \cup (Expired(now) \ kept)
  BY DEF Purge
<1> HIDE DEF k
<1>2. kept \in SUBSET Expired(now)
  BY DEF kSubset
<1> QED BY <1>1, <1>2

\* What a purge makes of the records of a passport whose counter it does not touch.
LEMMA PurgedRecord ==
  ASSUME MeterInv, RecInv, NEW now, Purge(now), NEW q \in Passports,
         UNCHANGED <<last[q], recorded[q], late[q], counter[q]>>,
         q \in live' <=> q \in live \ Expired(now),
         q \in DOMAIN export'.totals => export'.totals[q] = counter[q].consumed
  PROVE  IF q \in Opened' THEN Reported(q)' ELSE Unseen(q)'
<1>1. PICK kept \in SUBSET Expired(now) :
           /\ DOMAIN evicted' = DOMAIN evicted \cup kept
           /\ \A p \in DOMAIN evicted' :
                evicted'[p] = IF p \in kept THEN counter[p].consumed ELSE evicted[p]
           /\ missed' = missed \cup (Expired(now) \ kept)
  BY PurgeEffect, Zenon
<1>2. q \in Opened' <=> q \in Opened
  BY DEF Opened
<1>3. CASE q \notin Opened
  <2>1. Unseen(q)
    BY <1>3 DEF RecInv
  <2>2. q \notin Expired(now)
    BY <2>1 DEF Unseen, Expired
  <2> QED BY <1>1, <1>2, <1>3, <2>1, <2>2 DEF Unseen
<1>4. CASE q \in Opened
  <2>1. Reported(q) /\ counter[q].consumed \in Nat
    BY <1>4, OpenCounter DEF RecInv
  <2>2. last[q] \in Nat /\ recorded[q] \in Nat /\ late[q] \in Nat
    BY DEF RecInv
  <2>3. CASE q \in Expired(now)
    <3>1. q \in live /\ q \notin live'
      BY <2>3 DEF Expired
    <3>2. late[q] = 0 /\ q \notin DOMAIN evicted /\ q \notin missed
          /\ (counter[q].closed \/ last[q] = recorded[q])
      BY <2>1, <3>1 DEF Reported
    <3>3. CASE q \in kept
      <4>1. q \in DOMAIN evicted' /\ q \notin missed' /\ evicted'[q] = counter[q].consumed
        BY <1>1, <3>2, <3>3
      <4> QED BY <1>2, <1>4, <2>1, <2>2, <3>1, <3>2, <4>1 DEF Reported
    <3>4. CASE q \notin kept
      <4>1. q \notin DOMAIN evicted' /\ q \in missed'
        BY <1>1, <2>3, <3>2, <3>4
      <4> QED BY <1>2, <1>4, <2>1, <2>2, <3>1, <3>2, <4>1 DEF Reported
    <3> QED BY <3>3, <3>4
  <2>4. CASE q \notin Expired(now)
    <3>1. /\ q \in live' <=> q \in live
          /\ q \in DOMAIN evicted' <=> q \in DOMAIN evicted
          /\ q \in missed' <=> q \in missed
          /\ q \in DOMAIN evicted => evicted'[q] = evicted[q]
      BY <1>1, <2>4
    <3> QED BY <1>2, <1>4, <2>1, <2>2, <3>1, SMTT(30) DEF Reported
  <2> QED BY <2>3, <2>4
<1> QED BY <1>3, <1>4

LEMMA OpenStep ==
  ASSUME PassInv, NEW p \in Passports, OpenPassport(p) PROVE PassInv'
<1> DEFINE now == req[p].now
           admitted == Admits(p, now)
<1>1. /\ UNCHANGED <<clock, con, export, last, recorded, late>>
      /\ export.pc # "flags" /\ req[p].pc = "open"
      /\ Purge(now)
      /\ live' = (live \ Expired(now)) \cup (IF admitted THEN {p} ELSE {})
      /\ counter' = IF admitted THEN [counter EXCEPT ![p] = NewCounter(now)] ELSE counter
      /\ req' = [req EXCEPT ![p] = [pc |-> "policy", allow |-> admitted, now |-> 0]]
  BY DEF OpenPassport, Open, ReqStep, LedgerFree, exporter
<1>2. /\ now \in Nat /\ clock \in Nat /\ now <= clock /\ p \notin Opened
      /\ DOMAIN counter = Passports
  BY <1>1 DEF PassInv, ReqInv, MeterInv
<1>3. admitted \in BOOLEAN
  BY DEF Admits
<1> HIDE DEF now, admitted
<1>4. NewCounter(now) \in Counters /\ Metered(NewCounter(now), clock)
  <2> DEFINE d == NewCounter(now)
  <2>1. VolumeMax \in Nat
    BY PassportsAssumption
  <2>2. d \in Counters /\ d.opened = now /\ d.from = now /\ d.remaining = VolumeMax /\ d.consumed = 0
    BY <1>2, <2>1 DEF NewCounter, Counters
  <2>3. Allowance(d, now) = VolumeMax * (1 + 0 \div WindowS)
    BY <1>2, <2>2 DEF Allowance
  <2>4. 0 \div WindowS = 0
    BY PassportsAssumption, SMTT(30)
  <2> HIDE DEF d
  <2>5. Allowance(d, now) = VolumeMax
    BY <2>1, <2>3, <2>4
  <2>6. Metered(d, clock)
    BY <1>2, <2>1, <2>2, <2>5, SMTT(30) DEF Metered
  <2> QED BY <2>2, <2>6 DEF d
<1>5. /\ Opened' = Opened \cup (IF admitted THEN {p} ELSE {})
      /\ DOMAIN counter' = Passports
      /\ \A q \in Passports : q # p \/ ~admitted => counter'[q] = counter[q]
      /\ admitted => counter'[p] = NewCounter(now)
  BY <1>1, <1>2, <1>4, PassportsAssumption DEF Opened
<1>6. MeterInv'
  BY <1>1, <1>2, <1>4, <1>5 DEF PassInv, MeterInv, Opened
<1>7. ReqInv'
  <2>1. req' \in [Passports -> [pc : ReqPCs, now : Nat, allow : BOOLEAN]]
    BY <1>1, <1>3 DEF PassInv, ReqInv, ReqPCs
  <2>2. ASSUME NEW q \in Passports
        PROVE  /\ req'[q].now <= clock
               /\ req'[q].pc \in {"new", "dryrun", "open"} => q \notin Opened'
               /\ req'[q].pc = "policy" /\ req'[q].allow => q \in Opened'
    <3>1. CASE q = p
      BY <1>1, <1>2, <1>5, <3>1, SMTT(30) DEF PassInv, ReqInv
    <3>2. CASE q # p
      BY <1>1, <1>5, <3>2 DEF PassInv, ReqInv
    <3> QED BY <3>1, <3>2
  <2> QED BY <1>1, <2>1, <2>2 DEF ReqInv
<1>8. ConInv'
  BY <1>1, <1>5 DEF PassInv, ConInv
<1>9. RecInv'
  <2>1. /\ RecInv /\ MeterInv /\ DOMAIN export.totals = {}
    BY <1>1 DEF PassInv, RecInv
  <2>2. ASSUME NEW q \in Passports, q # p \/ ~admitted
        PROVE  IF q \in Opened' THEN Reported(q)' ELSE Unseen(q)'
    <3>1. q \in live' <=> q \in live \ Expired(now)
      BY <1>1, <2>2
    <3> QED BY <1>1, <1>5, <2>1, <2>2, <3>1, PurgedRecord
  <2>3. ASSUME admitted PROVE p \in Opened' /\ Reported(p)'
    <3>1. Unseen(p)
      BY <1>2, <2>1 DEF RecInv
    <3>2. p \notin Expired(now)
      BY <3>1 DEF Unseen, Expired
    <3>3. p \notin DOMAIN evicted' /\ p \notin missed'
      <4>1. p \notin DOMAIN evicted /\ p \notin missed
        BY <3>1 DEF Unseen
      <4> QED BY <1>1, <3>2, <4>1, PurgeEffect, Zenon
    <3>4. /\ p \in live' /\ counter'[p].consumed = 0 /\ ~counter'[p].closed
          /\ last'[p] = 0 /\ recorded'[p] = 0 /\ late'[p] = 0 /\ DOMAIN export'.totals = {}
      BY <1>1, <1>5, <2>1, <2>3, <3>1 DEF Unseen, NewCounter
    <3> QED BY <1>5, <2>3, <3>3, <3>4 DEF Reported
  <2>4. live' \subseteq Passports
    BY <1>1, <2>1 DEF RecInv
  <2>5. \A q \in Passports : IF q \in Opened' THEN Reported(q)' ELSE Unseen(q)'
    BY <2>2, <2>3
  <2> QED BY <1>1, <2>1, <2>4, <2>5 DEF RecInv
<1> QED BY <1>6, <1>7, <1>8, <1>9 DEF PassInv

LEMMA ConsumeStep ==
  ASSUME PassInv, NEW c \in Consumers, NEW n \in Quanta, Consume(c, n) PROVE PassInv'
<1>0. PICK p : p = con[c].p
  OBVIOUS
<1> DEFINE d == AfterConsume(p, n, con[c].now)
<1>1. /\ con[c].pc = "consume"
      /\ counter' = [counter EXCEPT ![p] = d]
      /\ late' = IF p \in live THEN late
                 ELSE [late EXCEPT ![p] = @ + counter'[p].consumed - counter[p].consumed]
      /\ con' = [con EXCEPT ![c] = NotConsuming]
      /\ UNCHANGED <<clock, req, live, evicted, missed, export, last, recorded>>
  BY <1>0, SMTT(30) DEF Consume, requests, exporter
<1>2. /\ p \in Opened /\ p \in Passports /\ con[c].now \in Nat /\ con[c].now <= clock
      /\ clock \in Nat /\ n \in Nat /\ DOMAIN counter = Passports
      /\ Metered(counter[p], clock) /\ late \in [Passports -> Nat]
  <2>1. p \in Opened /\ con[c].now <= clock /\ con[c].now \in Nat
    BY <1>0, <1>1 DEF PassInv, ConInv
  <2>2. clock \in Nat /\ DOMAIN counter = Passports /\ Metered(counter[p], clock)
    BY <2>1 DEF PassInv, MeterInv
  <2>3. n \in Nat /\ late \in [Passports -> Nat]
    BY PassportsAssumption DEF PassInv, RecInv
  <2> QED BY <2>1, <2>2, <2>3 DEF Opened
<1>3. /\ Metered(d, clock) /\ counter[p].consumed <= d.consumed
      /\ counter[p].closed => d.closed
  BY <1>2, ConsumeMetered
<1>4. d \in Counters /\ d.consumed \in Nat /\ d # NoCounter
  BY <1>3, PassportsAssumption DEF Metered, Counters
<1>5. counter[p].consumed \in Nat
  BY <1>2 DEF Metered, Counters
<1> HIDE DEF d
<1>6. /\ DOMAIN counter' = Passports /\ counter'[p] = d /\ Opened' = Opened
      /\ \A q \in Passports : q # p => counter'[q] = counter[q]
  BY <1>1, <1>2, <1>4 DEF Opened
<1>7. /\ late'[p] = IF p \in live THEN late[p] ELSE late[p] + d.consumed - counter[p].consumed
      /\ late' \in [Passports -> Nat]
      /\ \A q \in Passports : q # p => late'[q] = late[q]
  <2>1. late[p] \in Nat
    BY <1>2
  <2>2. late[p] + d.consumed - counter[p].consumed \in Nat
    BY <1>3, <1>4, <1>5, <2>1, SMTT(30)
  <2> QED BY <1>1, <1>2, <1>6, <2>2
<1>8. MeterInv'
  BY <1>1, <1>2, <1>3, <1>6, SMTT(30) DEF PassInv, MeterInv
<1>9. ReqInv' /\ ConInv'
  BY <1>1, <1>2, <1>6 DEF PassInv, ReqInv, ConInv, NotConsuming
<1>10. RecInv'
  <2>1. ASSUME NEW q \in Passports, q # p
        PROVE  IF q \in Opened' THEN Reported(q)' ELSE Unseen(q)'
    BY <1>1, <1>6, <1>7, <2>1 DEF PassInv, RecInv, Reported, Unseen
  <2>2. Reported(p) /\ late[p] \in Nat /\ recorded[p] \in Nat /\ last[p] \in Nat
    BY <1>2 DEF PassInv, RecInv
  <2>3. Reported(p)'
    <3>1. CASE p \in live
      <4>1. late'[p] = late[p]
        BY <1>7, <3>1
      <4> QED BY <1>1, <1>3, <1>4, <1>5, <1>6, <2>2, <3>1, <4>1 DEF Reported
    <3>2. CASE p \notin live
      <4>1. late'[p] = late[p] + d.consumed - counter[p].consumed
        BY <1>7, <3>2
      <4>2. d.consumed - late'[p] = counter[p].consumed - late[p] /\ late'[p] <= d.consumed
        BY <1>4, <1>5, <2>2, <4>1 DEF Reported
      <4>3. /\ last[p] <= recorded[p]
            /\ p \in DOMAIN evicted =>
                 /\ p \notin missed /\ (counter[p].closed \/ last[p] = recorded[p])
                 /\ evicted[p] = counter[p].consumed - late[p]
            /\ p \in DOMAIN export.totals =>
                 export.totals[p] \in Nat /\ export.totals[p] <= counter[p].consumed
            /\ p \notin missed \cup DOMAIN evicted =>
                 /\ recorded[p] >= counter[p].consumed - late[p]
                 /\ ~counter[p].closed => recorded[p] = counter[p].consumed - late[p]
        BY <2>2, <3>2 DEF Reported
      <4>4. p \in DOMAIN export.totals => export.totals[p] <= d.consumed
        BY <1>3, <1>4, <1>5, <4>3
      <4>5. p \notin missed \cup DOMAIN evicted =>
              /\ recorded[p] >= d.consumed - late'[p]
              /\ ~d.closed => recorded[p] = d.consumed - late'[p]
        BY <1>3, <4>2, <4>3
      <4> QED BY <1>1, <1>3, <1>6, <3>2, <4>2, <4>3, <4>4, <4>5 DEF Reported
    <3> QED BY <3>1, <3>2
  <2>4. \A q \in Passports : IF q \in Opened' THEN Reported(q)' ELSE Unseen(q)'
    BY <1>2, <1>6, <2>1, <2>3
  <2> QED BY <1>1, <1>7, <2>4 DEF PassInv, RecInv
<1> QED BY <1>8, <1>9, <1>10 DEF PassInv

LEMMA ReadTotalsStep == ASSUME PassInv, ReadTotals PROVE PassInv'
<1>1. /\ UNCHANGED <<clock, req, counter, late, con, last, recorded>>
      /\ Purge(export.now) /\ live' = live \ Expired(export.now)
      /\ export' = [export EXCEPT !.pc = "flags", !.totals = [p \in live' |-> counter[p].consumed]]
  BY DEF ReadTotals, requests
<1>2. MeterInv' /\ ReqInv' /\ ConInv'
  BY <1>1 DEF PassInv, MeterInv, ReqInv, ConInv, Opened
<1>3. /\ DOMAIN export' = DOMAIN export /\ export'.pc = "flags"
      /\ export'.totals = [p \in live' |-> counter[p].consumed]
  BY <1>1 DEF PassInv, RecInv
<1>4. ASSUME NEW q \in Passports
      PROVE  IF q \in Opened' THEN Reported(q)' ELSE Unseen(q)'
  <2>1. q \in DOMAIN export'.totals => export'.totals[q] = counter[q].consumed
    BY <1>3
  <2> QED BY <1>1, <2>1, PurgedRecord, Zenon DEF PassInv
<1>5. RecInv'
  BY <1>1, <1>3, <1>4 DEF PassInv, RecInv
<1> QED BY <1>2, <1>5 DEF PassInv

LEMMA ExportStep == ASSUME PassInv, Export PROVE PassInv'
<1>1. /\ UNCHANGED <<clock, req, live, counter, late, missed, con>>
      /\ export.pc = "flags" /\ evicted' = <<>>
      /\ export' = [export EXCEPT !.pc = "idle", !.totals = <<>>]
  BY DEF Export, requests
<1>2. MeterInv' /\ ReqInv' /\ ConInv' /\ Opened' = Opened
  BY <1>1 DEF PassInv, MeterInv, ReqInv, ConInv, Opened
<1>3. /\ DOMAIN export' = DOMAIN export /\ export'.pc = "idle" /\ DOMAIN export'.totals = {}
      /\ DOMAIN evicted' = {} /\ DOMAIN export.totals = live
  BY <1>1, SMTT(30) DEF PassInv, RecInv
<1>4. ASSUME NEW p \in Passports
      PROVE  /\ last'[p] \in Nat /\ recorded'[p] \in Nat
             /\ IF p \in Opened THEN Reported(p)' ELSE Unseen(p)'
  <2>1. /\ recorded'[p] = IF p \in Sessions THEN recorded[p] + Total(p) - last[p] ELSE recorded[p]
        /\ last'[p] = IF p \in Sessions /\ ~Closed(p) THEN Total(p) ELSE 0
        /\ last[p] \in Nat /\ recorded[p] \in Nat /\ late[p] \in Nat
    BY DEF Export, PassInv, RecInv
  <2>2. CASE p \notin Opened
    <3>1. Unseen(p)
      BY <2>2 DEF PassInv, RecInv
    <3>2. p \notin Sessions
      BY <1>3, <3>1 DEF Sessions, Unseen
    <3> QED BY <1>1, <1>3, <2>1, <2>2, <3>1, <3>2 DEF Unseen
  <2>3. CASE p \in Opened
    <3>1. Reported(p) /\ counter[p].consumed \in Nat
      BY <2>3, OpenCounter DEF PassInv, RecInv
    <3>2. CASE p \in DOMAIN evicted
      <4>1. /\ recorded'[p] = recorded[p] + (counter[p].consumed - late[p]) - last[p]
            /\ last'[p] = 0 /\ p \notin live /\ late[p] <= counter[p].consumed
            /\ last[p] <= recorded[p] /\ p \notin missed
            /\ counter[p].closed \/ last[p] = recorded[p]
        BY <2>1, <3>1, <3>2 DEF Sessions, Total, Closed, Reported
      <4> QED BY <1>1, <1>3, <2>1, <2>3, <3>1, <4>1, SMTT(30) DEF Reported
    <3>3. CASE p \in live
      <4>1. /\ p \notin DOMAIN evicted /\ p \in DOMAIN export.totals /\ export.totals[p] \in Nat
            /\ export.totals[p] <= counter[p].consumed /\ late[p] = 0 /\ p \notin missed
            /\ last[p] <= recorded[p]
            /\ counter[p].closed \/ last[p] = recorded[p]
        BY <1>3, <3>1, <3>3 DEF Reported
      <4>2. /\ recorded'[p] = recorded[p] + export.totals[p] - last[p]
            /\ last'[p] = IF ~counter[p].closed THEN export.totals[p] ELSE 0
        BY <2>1, <4>1 DEF Sessions, Total, Closed
      <4> QED BY <1>1, <1>3, <2>1, <2>3, <3>1, <3>3, <4>1, <4>2, SMTT(30) DEF Reported
    <3>4. CASE p \notin live /\ p \notin DOMAIN evicted
      <4>1. recorded'[p] = recorded[p] /\ last'[p] = 0
        BY <1>3, <2>1, <3>4 DEF Sessions
      <4> QED BY <1>1, <1>3, <2>1, <2>3, <3>1, <3>4, <4>1, SMTT(30) DEF Reported
    <3> QED BY <3>2, <3>3, <3>4
  <2> QED BY <2>2, <2>3
<1>5. last' \in [Passports -> Nat] /\ recorded' \in [Passports -> Nat]
  <2>1. /\ last' = [p \in Passports |-> last'[p]]
        /\ recorded' = [p \in Passports |-> recorded'[p]]
    BY DEF Export
  <2> QED BY <1>4, <2>1
<1>6. RecInv'
  BY <1>1, <1>2, <1>3, <1>4, <1>5 DEF PassInv, RecInv
<1> QED BY <1>2, <1>6 DEF PassInv

\* Every step of a request, of a consumer, of the exporter and of the clock keeps it.
LEMMA PassNextInv == PassInv /\ [PassNext]_passVars => PassInv'
<1> SUFFICES ASSUME PassInv, [PassNext]_passVars PROVE PassInv'
  OBVIOUS
<1>1. ASSUME NEW p \in Passports, Evaluate(p) PROVE PassInv'
  BY <1>1, RequestSteps, OpenStep DEF Evaluate
<1>2. ASSUME NEW c \in Consumers, NEW p \in Passports, Lookup(c, p) PROVE PassInv'
  BY <1>2, LookupStep
<1>3. ASSUME NEW c \in Consumers, NEW n \in Quanta, Consume(c, n) PROVE PassInv'
  BY <1>3, ConsumeStep
<1>4. CASE \E m \in {"monitor", "closed"} : SetMode(m)
  BY <1>4, PostureAndTime
<1>5. CASE ReadTotals
  BY <1>5, ReadTotalsStep
<1>6. CASE Export
  BY <1>6, ExportStep
<1>7. CASE Tick \/ ExportBegin \/ UNCHANGED passVars
  BY <1>7, PostureAndTime
<1> QED BY <1>1, <1>2, <1>3, <1>4, <1>5, <1>6, <1>7 DEF PassNext

LEMMA PassInvariance == PassSpec => []PassInv
BY PassInitInv, PassNextInv, PTL DEF PassSpec

\* PassportCounter.Consume meters: whatever handlers overlap and however old their
\* readings of the clock, a passport gets at most one volume per window since
\* QuotaLedger.Open, for any volume, window, quanta and number of handlers.
THEOREM QuotaHolds == PassSpec => []QuotaPerWindow
<1>1. ASSUME PassInv, NEW p \in Opened
      PROVE  counter[p].consumed <= VolumeMax * (1 + (clock - counter[p].opened) \div WindowS)
  <2>1. PICK c : c = counter[p]
    OBVIOUS
  <2>2. c \in Counters /\ Metered(c, clock) /\ clock \in Nat
    BY <1>1, <2>1 DEF PassInv, MeterInv, Metered
  <2>3. /\ c.from \in Nat /\ c.opened \in Nat /\ c.consumed \in Nat /\ c.remaining \in Nat
        /\ c.opened <= c.from /\ c.from <= clock
        /\ c.consumed + c.remaining <= Allowance(c, c.from)
    BY <2>2 DEF Metered, Counters
  <2>4. c.opened <= clock
    BY <2>2, <2>3
  <2>5. Allowance(c, c.from) \in Nat /\ Allowance(c, c.from) <= Allowance(c, clock)
    BY <2>2, <2>3, AllowanceGrows
  <2>6. Allowance(c, clock) \in Nat
    BY <2>2, <2>4, AllowanceGrows
  <2>7. c.consumed <= Allowance(c, clock)
    BY <2>3, <2>5, <2>6
  <2> QED BY <2>1, <2>7 DEF Allowance
<1>2. PassInv => QuotaPerWindow
  BY <1>1 DEF QuotaPerWindow
<1> QED BY PassInvariance, <1>2, PTL

\* The last look at a purged counter: once QuotaLedger.Snapshot has handed over the
\* total of a passport that left the ledger, Exporter.ExportOnce has recorded all of
\* it, and exactly it if the passport was never cut, for any interleaving of Open's
\* purge, Consume and the two halves of a snapshot.
THEOREM NothingUnrecorded == PassSpec => []RecordsComplete
<1>1. ASSUME PassInv, NEW p \in Opened \ (live \cup missed \cup DOMAIN evicted)
      PROVE  /\ recorded[p] >= counter[p].consumed - late[p]
             /\ ~counter[p].closed => recorded[p] = counter[p].consumed - late[p]
  <2>1. Reported(p)
    BY <1>1 DEF PassInv, RecInv, Opened
  <2> QED BY <2>1 DEF Reported
<1>2. PassInv => RecordsComplete
  BY <1>1 DEF RecordsComplete
<1> QED BY PassInvariance, <1>2, PTL

\* Listener.evaluate opens the counter before it lets a request through: in posture
\* closed only an allow whose passport is open is forwarded, in posture refused
\* nothing is, whenever the posture changes.
THEOREM DoorsAreMetered == PassSpec => OpenDoorsAreMetered
<1>1. ASSUME PassInv, PassNext, NEW p \in forwarded' \ forwarded
      PROVE  mode = "monitor" \/ (mode = "closed" /\ req'[p].allow /\ p \in Opened)
  <2>1. PICK q \in Passports : Forward(q)
    BY <1>1, Zenon DEF PassNext, Evaluate, Validate, Execute, OpenPassport, SetMode, Lookup,
       Consume, ExportBegin, ReadTotals, Export, Tick, requests
  <2>2. PICK allow \in {FALSE, req[q].allow} :
          /\ ReqStep(q, "policy", "done", allow)
          /\ forwarded' = IF Allows(allow) THEN forwarded \cup {q} ELSE forwarded
    BY <2>1 DEF Forward
  <2>3. p = q /\ Allows(allow)
    BY <1>1, <2>2
  <2>4. /\ req \in [Passports -> [pc : ReqPCs, now : Nat, allow : BOOLEAN]]
        /\ req[q].pc = "policy" /\ req[q].allow => q \in Opened
    BY <1>1 DEF PassInv, ReqInv
  <2>5. req[q].pc = "policy" /\ req'[q].allow = allow
    BY <2>2, <2>4 DEF ReqStep
  <2>6. allow => req[q].allow
    BY <2>2
  <2> QED BY <2>3, <2>4, <2>5, <2>6 DEF Allows
<1>2. PassInv /\ [PassNext]_passVars
        => [\A p \in forwarded' \ forwarded :
              mode = "monitor" \/ (mode = "closed" /\ req'[p].allow /\ p \in Opened)]_passVars
  BY <1>1
<1> QED BY PassInvariance, <1>2, PTL DEF PassSpec, OpenDoorsAreMetered

-----------------------------------------------------------------------------

\* catchup covers the whole of writeCatchup, the episode leaf included.
CatchupCovers == catchup <=> tr.pc \in CatchingUp

\* Once waitInflight has returned under the lock, no writer is past its second
\* check of Engaged().
NobodyAdds == engaged /\ mon.pc # "inflight" => \A w \in Writers : sw[w].pc # "adding"

\* Once WaitOutstanding has returned under the lock, the tracker is not about to
\* write an episode leaf.
NoEpisodeLeaf == engaged /\ mon.drained => tr.pc # "leaf"

IInv == TypeOK /\ CatchupCovers /\ NobodyAdds /\ NoEpisodeLeaf /\ StopIsLast

\* What an Add does to the order of the leaves.
LEMMA AddEffect ==
  ASSUME NEW kind, NEW at \in Places, size \in Nat, Add(kind, at)
  PROVE  /\ size' \in Nat /\ at \in Nat
         /\ at = 0 => lastLeaf' = lastLeaf
         /\ at # 0 => lastLeaf' = kind
BY DEF Add, Places

LEMMA InitInv == Init => IInv
<1> SUFFICES ASSUME Init PROVE IInv
  OBVIOUS
<1>1. TypeOK
  <2>1. size \in Nat
    BY DEF Init
  <2>2. sw \in [Writers -> [pc : {"idle", "asked"} \cup InFlight, at : Nat]]
    BY DEF Init
  <2>3. mon \in [pc : MonPC, drained : BOOLEAN, added : BOOLEAN]
    BY DEF Init, MonPC
  <2>4. engaged \in BOOLEAN /\ catchup \in BOOLEAN
    BY Zenon DEF Init
  <2> QED BY <2>1, <2>2, <2>3, <2>4 DEF TypeOK
<1>2. CatchupCovers
  BY DEF Init, CatchupCovers, CatchingUp
<1>3. NobodyAdds /\ NoEpisodeLeaf /\ StopIsLast
  BY DEF Init, NobodyAdds, NoEpisodeLeaf, StopIsLast
<1> QED BY <1>1, <1>2, <1>3 DEF IInv

LEMMA WriterKeepsInv ==
  ASSUME IInv, NEW w \in Writers, Ask(w) \/ Writer(w) PROVE IInv'
<1> USE DEF IInv, TypeOK, InFlight
<1>1. CASE Ask(w)
  BY <1>1 DEF Ask, To, Storage, Async, CatchupCovers, NobodyAdds, NoEpisodeLeaf, StopIsLast
<1>2. CASE Enter(w)
  BY <1>2 DEF Enter, To, Storage, Async, CatchupCovers, NobodyAdds, NoEpisodeLeaf, StopIsLast
<1>3. CASE AskAgain(w)
  BY <1>3 DEF AskAgain, To, Storage, Async, CatchupCovers, NobodyAdds, NoEpisodeLeaf, StopIsLast
<1>4. CASE Return(w)
  BY <1>4 DEF Return, To, Storage, Async, CatchupCovers, NobodyAdds, NoEpisodeLeaf, StopIsLast
<1>5. CASE AddLeaf(w)
  <2>1. PICK at \in Places : Add("sync", at) /\ To(w, "awaiting", at)
    BY <1>5 DEF AddLeaf
  <2>2. size' \in Nat /\ at \in Nat
    BY <2>1, AddEffect
  <2>3. UNCHANGED <<engaged, mon, Async>> /\ sw[w].pc = "adding"
    BY <1>5 DEF AddLeaf
  <2>4. TypeOK'
    BY <2>1, <2>2, <2>3 DEF To, Async
  <2>5. (CatchupCovers /\ NobodyAdds /\ NoEpisodeLeaf)'
    BY <2>1, <2>3 DEF To, Async, CatchupCovers, NobodyAdds, NoEpisodeLeaf
  <2>6. StopIsLast'
    BY <2>3 DEF Async, NobodyAdds, StopIsLast
  <2> QED BY <2>4, <2>5, <2>6
<1> QED BY <1>1, <1>2, <1>3, <1>4, <1>5 DEF Writer

LEMMA TrackerKeepsInv == ASSUME IInv, Tracker PROVE IInv'
<1> USE DEF IInv, TypeOK, CatchingUp
<1>1. CASE Take
  BY <1>1, SMTT(30) DEF Take, TrackerTo, Storage, CatchupCovers, NobodyAdds, NoEpisodeLeaf, StopIsLast
<1>2. CASE Confirm
  <2>1. tr.pc = "await" /\ UNCHANGED <<Storage, sw, engaged, mon>>
    BY <1>2 DEF Confirm
  <2>2. catchup' \in BOOLEAN /\ tr' = [pc |-> IF catchup' THEN "catchup" ELSE "wait", at |-> 0]
    BY <1>2 DEF Confirm, TrackerTo
  <2> QED
    BY <2>1, <2>2 DEF Storage, CatchupCovers, NobodyAdds, NoEpisodeLeaf, StopIsLast
<1>3. CASE Abandon
  BY <1>3 DEF Abandon, TrackerTo, Storage, CatchupCovers, NobodyAdds, NoEpisodeLeaf, StopIsLast
<1>4. CASE Uncut
  BY <1>4 DEF Uncut, TrackerTo, Storage, CatchupCovers, NobodyAdds, NoEpisodeLeaf, StopIsLast
<1>5. CASE AskEngaged
  BY <1>5 DEF AskEngaged, TrackerTo, Storage, CatchupCovers, NobodyAdds, NoEpisodeLeaf, StopIsLast
<1>6. CASE EpisodeLeaf
  <2>1. PICK at \in Places : Add("episode", at) /\ TrackerTo("awaitLeaf", 0)
    BY <1>6 DEF EpisodeLeaf
  <2>2. size' \in Nat /\ at \in Nat
    BY <2>1, AddEffect
  <2>3. tr.pc = "leaf" /\ UNCHANGED <<sw, engaged, mon, queue, catchup>>
    BY <1>6 DEF EpisodeLeaf
  <2> QED
    BY <2>1, <2>2, <2>3 DEF TrackerTo, CatchupCovers, NobodyAdds, NoEpisodeLeaf, StopIsLast
<1>7. CASE EpisodeEnds
  BY <1>7 DEF EpisodeEnds, TrackerTo, Storage, CatchupCovers, NobodyAdds, NoEpisodeLeaf, StopIsLast
<1>8. CASE CaughtUp
  BY <1>8, Zenon DEF CaughtUp, TrackerTo, Storage, CatchupCovers, NobodyAdds, NoEpisodeLeaf, StopIsLast
<1> QED BY <1>1, <1>2, <1>3, <1>4, <1>5, <1>6, <1>7, <1>8 DEF Tracker

LEMMA MonitorKeepsInv == ASSUME IInv, Monitor \/ Engage \/ Disengage PROVE IInv'
<1> USE DEF IInv, TypeOK, MonPC
<1>1. CASE Engage
  BY <1>1 DEF Engage, Storage, Async, CatchupCovers, NobodyAdds, NoEpisodeLeaf, StopIsLast
<1>2. CASE Disengage
  BY <1>2, Zenon DEF Disengage, Storage, Async, CatchupCovers, NobodyAdds, NoEpisodeLeaf, StopIsLast
<1>3. CASE WaitInflight
  BY <1>3 DEF WaitInflight, MonTo, InFlight, Storage, Async, CatchupCovers, NobodyAdds,
              NoEpisodeLeaf, StopIsLast
<1>4. CASE Drained
  BY <1>4, Zenon DEF Drained, Outstanding, CatchingUp, Storage, Async, CatchupCovers, NobodyAdds,
              NoEpisodeLeaf, StopIsLast
<1>5. CASE DrainTimeout
  BY <1>5 DEF DrainTimeout, MonTo, Storage, Async, CatchupCovers, NobodyAdds,
              NoEpisodeLeaf, StopIsLast
<1>6. CASE StopLeaf
  <2>1. PICK at \in Places :
          /\ Add("stop", at)
          /\ mon' = [mon EXCEPT !.pc = "await", !.added = (engaged /\ at # 0)]
    BY <1>6, Zenon DEF StopLeaf
  <2>2. /\ size' \in Nat
        /\ at # 0 => lastLeaf' = "stop"
    BY <2>1, AddEffect
  <2>3. UNCHANGED <<sw, engaged, Async>> /\ mon.pc = "leaf"
    BY <1>6 DEF StopLeaf
  <2>4. /\ mon' \in [pc : MonPC, drained : BOOLEAN, added : BOOLEAN]
        /\ mon'.added => at # 0
        /\ mon'.pc = "await" /\ mon'.drained = mon.drained
    BY <2>1, Zenon
  <2> QED
    BY <2>2, <2>3, <2>4 DEF Async, CatchupCovers, NobodyAdds, NoEpisodeLeaf, StopIsLast
<1>7. CASE StopLeafEnds
  BY <1>7 DEF StopLeafEnds, MonTo, Storage, Async, CatchupCovers, NobodyAdds,
              NoEpisodeLeaf, StopIsLast
<1>8. CASE OnAlarm
  BY <1>8 DEF OnAlarm, MonTo, Storage, Async, CatchupCovers, NobodyAdds,
              NoEpisodeLeaf, StopIsLast
<1> QED BY <1>1, <1>2, <1>3, <1>4, <1>5, <1>6, <1>7, <1>8 DEF Monitor

LEMMA OthersKeepInv ==
  ASSUME IInv, Publish \/ Outage \/ AsyncAppend \/ CutWatch \/ Close PROVE IInv'
<1> USE DEF IInv, TypeOK
<1>1. CASE Publish
  BY <1>1 DEF Publish, Async, CatchupCovers, NobodyAdds, NoEpisodeLeaf, StopIsLast
<1>2. CASE Outage
  BY <1>2 DEF Outage, Async, CatchupCovers, NobodyAdds, NoEpisodeLeaf, StopIsLast
<1>3. CASE AsyncAppend
  <2>1. PICK at \in Places : Add("async", at)
    BY <1>3 DEF AsyncAppend
  <2>2. size' \in Nat
    BY <2>1, AddEffect
  <2>3. ~engaged /\ UNCHANGED <<sw, engaged, mon, catchup, tr>>
    BY <1>3 DEF AsyncAppend
  <2> QED
    BY <2>2, <2>3 DEF CatchupCovers, NobodyAdds, NoEpisodeLeaf, StopIsLast
<1>4. CASE CutWatch
  BY <1>4 DEF CutWatch, Storage, CatchupCovers, NobodyAdds, NoEpisodeLeaf, StopIsLast
<1>5. CASE Close
  BY <1>5 DEF Close, Storage, CatchupCovers, NobodyAdds, NoEpisodeLeaf, StopIsLast
<1> QED BY <1>1, <1>2, <1>3, <1>4, <1>5

LEMMA NextInv == ASSUME IInv, [Next]_vars PROVE IInv'
<1>1. CASE Next
  BY <1>1, WriterKeepsInv, TrackerKeepsInv, MonitorKeepsInv, OthersKeepInv DEF Next
<1>2. CASE UNCHANGED vars
  BY <1>2 DEF vars, Storage, Async, IInv, TypeOK, CatchupCovers, NobodyAdds,
              NoEpisodeLeaf, StopIsLast
<1> QED BY <1>1, <1>2

\* "la feuille KindBackpressure est litteralement la DERNIERE feuille du registre"
\* (engage): whenever the drain of an engagement succeeded and its lock still
\* holds, whatever the number of writers and the order of all their steps.
THEOREM StopLeafIsLast == Spec => []StopIsLast
<1>1. IInv => StopIsLast
  BY DEF IInv
<1> QED BY InitInv, NextInv, <1>1, PTL DEF Spec

-----------------------------------------------------------------------------
(* The opposability window. *)

Leaf == [at : Nat, age : Nat]

\* The queue q of the writer beside its cut t, its state of closing c and the
\* place p of its tracker.  Ages fall along the queue, so that the head alone
\* tells whether a leaf is past the window, and a head past the window has cut
\* the writer, unless it is being closed.  The cut is lifted on an empty queue,
\* and the tracker confirms a head that is there.
WindowState(q, t, c, p) ==
  /\ q \in Seq(Leaf)
  /\ \A i, j \in 1..Len(q) : i < j => q[j].age <= q[i].age
  /\ q # <<>> /\ q[1].age > Window => t \/ c # "open"
  /\ p = "catchup" => q = <<>> /\ t
  /\ p = "await" => q # <<>>

WindowInv == WindowState(queue, tripped, closing, tr.pc)

\* What entered last is the youngest, and it enters behind a head in time.
LEMMA WindowAppend ==
  ASSUME NEW q, NEW c, NEW p, NEW at \in Nat, WindowState(q, FALSE, c, p), c = "open"
  PROVE  WindowState(Append(q, [at |-> at, age |-> 0]), FALSE, c, p)
<1> DEFINE r == Append(q, [at |-> at, age |-> 0])
<1>1. q \in Seq(Leaf) /\ [at |-> at, age |-> 0] \in Leaf
  BY DEF WindowState, Leaf
<1>2. r \in Seq(Leaf) /\ Len(r) = Len(q) + 1 /\ r # <<>> /\ Len(q) \in Nat
  BY <1>1
<1>3. \A i \in 1..Len(q) : r[i] = q[i]
  BY <1>1
<1>4. r[Len(q) + 1].age = 0
  BY <1>1
<1> HIDE DEF r
<1>5. \A i, j \in 1..Len(r) : i < j => r[j].age <= r[i].age
  <2> SUFFICES ASSUME NEW i \in 1..Len(r), NEW j \in 1..Len(r), i < j
               PROVE  r[j].age <= r[i].age
    OBVIOUS
  <2>4. i \in 1..Len(q)
    BY <1>2
  <2>5. q[i] \in Leaf
    BY <1>1, <2>4
  <2>1. i \in 1..Len(q) /\ r[i] = q[i] /\ q[i].age \in Nat
    BY <2>4, <2>5, <1>3 DEF Leaf
  <2>2. CASE j \in 1..Len(q)
    BY <2>1, <2>2, <1>3 DEF WindowState
  <2>3. CASE j = Len(q) + 1
    BY <2>1, <2>3, <1>4
  <2> QED BY <1>2, <2>2, <2>3
<1>6. ~(r[1].age > Window)
  <2>1. CASE Len(q) = 0
    BY <2>1, <1>4, DurableLogAssumption
  <2>2. CASE Len(q) # 0
    <3>1. r[1] = q[1] /\ q # <<>>
      BY <2>2, <1>2, <1>3
    <3> QED BY <3>1 DEF WindowState
  <2> QED BY <2>1, <2>2
<1>7. p # "catchup"
  BY DEF WindowState
<1>8. WindowState(r, FALSE, c, p)
  BY <1>2, <1>5, <1>6, <1>7 DEF WindowState
<1> QED BY <1>8, Zenon DEF r

LEMMA OlderGrows ==
  ASSUME NEW m \in Nat, NEW n \in Nat
  PROVE  Older(m) \in Nat /\ (m <= n => Older(m) <= Older(n))
BY DurableLogAssumption DEF Older

Aged(q) == [i \in 1..Len(q) |-> [q[i] EXCEPT !.age = Older(@)]]

\* A period of cutWatch ages all leaves alike, and cuts if the head is too old.
LEMMA WindowPeriod ==
  ASSUME NEW q, NEW t, NEW c, NEW p, WindowState(q, t, c, p), NEW u,
         u <=> (t \/ (c = "open" /\ q # <<>> /\ Aged(q)[1].age > Window))
  PROVE  WindowState(Aged(q), u, c, p)
<1> DEFINE r == Aged(q)
<1>0. r = [i \in 1..Len(q) |-> [q[i] EXCEPT !.age = Older(@)]]
  BY DEF Aged
<1> HIDE DEF r
<1>1. q \in Seq(Leaf) /\ Len(q) \in Nat
  BY DEF WindowState
<1>2. \A i \in 1..Len(q) : /\ q[i].at \in Nat /\ q[i].age \in Nat
                           /\ r[i] = [at |-> q[i].at, age |-> Older(q[i].age)]
  <2>1. ASSUME NEW i \in 1..Len(q)
        PROVE  /\ q[i].at \in Nat /\ q[i].age \in Nat
               /\ r[i] = [at |-> q[i].at, age |-> Older(q[i].age)]
    <3>1. q[i] \in Leaf /\ r[i] = [q[i] EXCEPT !.age = Older(q[i].age)]
      BY <1>0, <1>1
    <3> QED BY <3>1 DEF Leaf
  <2> QED BY <2>1
<1>3. \A i \in 1..Len(q) : r[i] \in Leaf
  <2> SUFFICES ASSUME NEW i \in 1..Len(q) PROVE r[i] \in Leaf
    OBVIOUS
  <2>1. Older(q[i].age) \in Nat
    BY <1>2, OlderGrows, Zenon
  <2>2. q[i].at \in Nat /\ r[i] = [at |-> q[i].at, age |-> Older(q[i].age)]
    BY <1>2
  <2> QED BY <2>1, <2>2 DEF Leaf
<1>4. r \in Seq(Leaf) /\ Len(r) = Len(q) /\ (r = <<>> <=> q = <<>>)
  BY <1>0, <1>1, <1>3, SMTT(30)
<1>5. \A i, j \in 1..Len(r) : i < j => r[j].age <= r[i].age
  <2> SUFFICES ASSUME NEW i \in 1..Len(q), NEW j \in 1..Len(q), i < j
               PROVE  r[j].age <= r[i].age
    BY <1>4
  <2>1. q[j].age <= q[i].age
    BY DEF WindowState
  <2>2. q[i].age \in Nat /\ q[j].age \in Nat
    BY <1>2, Zenon
  <2>3. Older(q[j].age) <= Older(q[i].age)
    BY <2>1, <2>2, OlderGrows, Zenon
  <2>4. /\ r[i] = [at |-> q[i].at, age |-> Older(q[i].age)]
        /\ r[j] = [at |-> q[j].at, age |-> Older(q[j].age)]
    BY <1>2
  <2> QED BY <2>3, <2>4
<1>6. WindowState(r, u, c, p)
  BY <1>4, <1>5 DEF WindowState, r
<1> QED BY <1>6 DEF r

\* Behind a head in time the next one is in time too.
LEMMA WindowTail ==
  ASSUME NEW q, NEW t, NEW c, NEW p, WindowState(q, t, c, p), q # <<>>
  PROVE  /\ WindowState(Tail(q), t, c, "wait")
         /\ t /\ Tail(q) = <<>> => WindowState(Tail(q), t, c, "catchup")
<1>1. q \in Seq(Leaf) /\ Tail(q) \in Seq(Leaf) /\ Len(q) \in Nat
  BY DEF WindowState
<1>2. Len(Tail(q)) = Len(q) - 1 /\ \A i \in 1..Len(Tail(q)) : Tail(q)[i] = q[i + 1]
  BY <1>1
<1>3. \A i, j \in 1..Len(Tail(q)) : i < j => Tail(q)[j].age <= Tail(q)[i].age
  BY <1>1, <1>2 DEF WindowState
<1>4. Tail(q) # <<>> /\ Tail(q)[1].age > Window => q[1].age > Window
  <2> SUFFICES ASSUME Tail(q) # <<>>, Tail(q)[1].age > Window PROVE q[1].age > Window
    OBVIOUS
  <2>1. 1 \in 1..Len(q) /\ 2 \in 1..Len(q) /\ Tail(q)[1] = q[2]
    BY <1>1, <1>2, SMTT(30)
  <2>2. q[1] \in Leaf /\ q[2] \in Leaf
    BY <1>1, <2>1
  <2>3. q[1].age \in Nat /\ q[2].age \in Nat
    BY <2>2 DEF Leaf
  <2>4. q[2].age <= q[1].age
    BY <2>1 DEF WindowState
  <2> QED BY <2>1, <2>3, <2>4, DurableLogAssumption
<1> QED BY <1>1, <1>3, <1>4, Zenon DEF WindowState

LEMMA WindowStep == ASSUME TypeOK, WindowInv, [Next]_vars PROVE WindowInv'
<1>1. CASE UNCHANGED <<queue, tripped, closing, tr>>
  BY <1>1 DEF WindowInv
<1>2. CASE AsyncAppend
  <2>1. PICK at \in Places : queue' = Append(queue, [at |-> at, age |-> 0])
    BY <1>2 DEF AsyncAppend
  <2>2. at \in Nat /\ closing = "open" /\ ~tripped /\ UNCHANGED <<tripped, closing, tr>>
    BY <1>2, SMTT(30) DEF AsyncAppend, Places, TypeOK
  <2>3. WindowState(queue, FALSE, closing, tr.pc)
    BY <2>2 DEF WindowInv, WindowState
  <2>4. WindowState(queue', FALSE, closing, tr.pc)
    BY <2>1, <2>2, <2>3, WindowAppend, Zenon
  <2> QED BY <2>2, <2>4 DEF WindowInv, WindowState
<1>3. CASE CutWatch
  <2>1. /\ queue' = Aged(queue)
        /\ tripped' <=> (tripped \/ (closing = "open" /\ queue # <<>> /\ Aged(queue)[1].age > Window))
        /\ UNCHANGED <<closing, tr>>
    BY <1>3 DEF CutWatch, Aged
  <2>2. WindowState(Aged(queue), tripped', closing, tr.pc)
    BY <2>1, WindowPeriod DEF WindowInv
  <2> QED BY <2>1, <2>2 DEF WindowInv
<1>4. CASE Take
  BY <1>4 DEF Take, TrackerTo, WindowInv, WindowState
<1>5. CASE Confirm
  <2>1. /\ queue' = Tail(queue) /\ tr.pc = "await" /\ UNCHANGED <<tripped, closing>>
        /\ catchup' <=> (tripped /\ Tail(queue) = <<>>)
        /\ tr'.pc = IF catchup' THEN "catchup" ELSE "wait"
    BY <1>5, Zenon DEF Confirm, TrackerTo
  <2>2. queue # <<>>
    BY <2>1 DEF WindowInv, WindowState
  <2>3. /\ WindowState(Tail(queue), tripped, closing, "wait")
        /\ tripped /\ Tail(queue) = <<>> => WindowState(Tail(queue), tripped, closing, "catchup")
    BY <2>2, WindowTail DEF WindowInv
  <2> QED BY <2>1, <2>3 DEF WindowInv
<1>6. CASE Abandon \/ AskEngaged \/ EpisodeLeaf \/ EpisodeEnds \/ CaughtUp
  <2>1. UNCHANGED <<queue, tripped, closing>> /\ tr'.pc \notin {"catchup", "await"}
    BY <1>6 DEF Abandon, AskEngaged, EpisodeLeaf, EpisodeEnds, CaughtUp, TrackerTo
  <2> QED BY <2>1 DEF WindowInv, WindowState
<1>7. CASE Uncut
  <2>1. UNCHANGED <<queue, closing>> /\ tr.pc = "catchup" /\ tr'.pc = "ask"
    BY <1>7 DEF Uncut, TrackerTo
  <2> QED BY <2>1 DEF WindowInv, WindowState
<1>8. CASE Close
  <2>1. UNCHANGED <<queue, tripped, tr>> /\ closing' # "open"
    BY <1>8 DEF Close
  <2> QED BY <2>1 DEF WindowInv, WindowState
<1>9. CASE Publish \/ Outage \/ Monitor \/ Engage \/ Disengage
  BY <1>9, <1>1, Zenon DEF Publish, Outage, Monitor, Engage, Disengage, WaitInflight, Drained,
      DrainTimeout, StopLeaf, StopLeafEnds, OnAlarm, Async
<1>10. ASSUME NEW w \in Writers, Ask(w) \/ Writer(w) PROVE WindowInv'
  BY <1>10, <1>1 DEF Ask, Writer, Enter, AskAgain, AddLeaf, Return, Async
<1>11. CASE UNCHANGED vars
  BY <1>1, <1>11 DEF vars, Async
<1> QED BY <1>2, <1>3, <1>4, <1>5, <1>6, <1>7, <1>8, <1>9, <1>10, <1>11 DEF Next, Tracker

\* A queue grows by an accepted decision only.
LEMMA OnlyAppendGrows ==
  ASSUME TypeOK, WindowInv, [Next]_vars, Len(queue') > Len(queue) PROVE AsyncAppend
<1>1. queue \in Seq(Leaf) /\ Len(queue) \in Nat
  BY DEF WindowInv, WindowState
<1>2. queue' # queue
  BY <1>1
<1>3. CASE CutWatch
  <2>1. Len(queue') = Len(queue)
    BY <1>1, <1>3 DEF CutWatch
  <2> QED BY <2>1, <1>1
<1>4. CASE Confirm
  <2>1. queue' = Tail(queue) /\ queue # <<>>
    BY <1>4 DEF Confirm, WindowInv, WindowState
  <2> QED BY <2>1, <1>1
<1>5. CASE Publish \/ Outage \/ Monitor \/ Engage \/ Disengage \/ Close
  BY <1>5, <1>2, Zenon DEF Publish, Outage, Monitor, Engage, Disengage, WaitInflight, Drained,
      DrainTimeout, StopLeaf, StopLeafEnds, OnAlarm, Close, Async
<1>6. CASE Take \/ Abandon \/ Uncut \/ AskEngaged \/ EpisodeLeaf \/ EpisodeEnds \/ CaughtUp
  BY <1>6, <1>2 DEF Take, Abandon, Uncut, AskEngaged, EpisodeLeaf, EpisodeEnds, CaughtUp
<1>7. CASE \E w \in Writers : Ask(w) \/ Writer(w)
  BY <1>7, <1>2 DEF Ask, Writer, Enter, AskAgain, AddLeaf, Return, Async
<1>8. CASE UNCHANGED vars
  BY <1>8, <1>2 DEF vars, Async
<1> QED BY <1>3, <1>4, <1>5, <1>6, <1>7, <1>8 DEF Next, Tracker

\* "la fenetre borne la perte" (Append of AsyncWriter, cutWatch): for any window,
\* any capacity and any interleaving of the tracker, the watch, a close and the
\* callers, a decision is accepted only while the oldest leaf that waits for its
\* publication is within the window.
THEOREM LossIsBounded == Spec => AcceptedInWindow
<1>1. Init => WindowInv
  BY SMTT(30) DEF Init, WindowInv, WindowState
<1>2. IInv /\ WindowInv /\ [Next]_vars => (Len(queue') > Len(queue) /\ queue # <<>> => queue[1].age <= Window)
  <2> SUFFICES ASSUME IInv, WindowInv, [Next]_vars, Len(queue') > Len(queue), queue # <<>>
               PROVE  queue[1].age <= Window
    OBVIOUS
  <2>1. AsyncAppend
    BY OnlyAppendGrows DEF IInv
  <2>2. closing = "open" /\ ~tripped
    BY <2>1 DEF AsyncAppend
  <2>3. queue[1] \in Leaf
    BY DEF WindowInv, WindowState
  <2>4. queue[1].age \in Nat
    BY <2>3 DEF Leaf
  <2> QED BY <2>2, <2>4, DurableLogAssumption DEF WindowInv, WindowState
<1>3. IInv /\ WindowInv /\ [Next]_vars => IInv' /\ WindowInv'
  BY NextInv, WindowStep DEF IInv
<1> QED BY InitInv, <1>1, <1>2, <1>3, PTL DEF Spec, AcceptedInWindow
=============================================================================
