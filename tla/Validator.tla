----------------------------- MODULE Validator -----------------------------
(***************************************************************************)
(* The PEP's token validator (pep/validator.go) and the bounded            *)
(* anti-replay cache it consumes from (pep/antireplay.go), run by several  *)
(* request handlers at once.  A handler reads the clock on entry, goes     *)
(* through the fail-closed gate and the chain of checks, calls             *)
(* CheckAndConsume, which reads the clock again BEFORE taking the cache's  *)
(* lock, and finally writes the decision leaf.                             *)
(*                                                                         *)
(* A token stands for its jti.  Times are whole seconds: both files        *)
(* compare Unix().                                                         *)
(***************************************************************************)
EXTENDS Integers, Sequences, FiniteSets

CONSTANTS Handlers,       \* concurrent requests being evaluated
          Tokens,         \* jti values
          NoToken,        \* an idle handler has no token
          Iat, Exp,       \* [Tokens -> Nat]: issue and expiry claims
          TokEpoch,       \* [Tokens -> Nat]: epoch claim
          Defect,         \* [Tokens -> STRING]: first failing static check, "" if none
          Metered,        \* tokens that carry a quota passport
          MinTTL, MaxTTL, \* bounds on Exp - Iat (30 s and 60 s in the code)
          Capacity,       \* slots of the ring
          MaxClock, MaxEpoch  \* bounds of the exploration

ASSUME ConstantsAssumption ==
  /\ NoToken \notin Tokens
  /\ Iat \in [Tokens -> Nat] /\ Exp \in [Tokens -> Nat]
  /\ TokEpoch \in [Tokens -> Nat]
  /\ Metered \subseteq Tokens
  /\ MinTTL \in Nat /\ MaxTTL \in Nat
  /\ Capacity \in Nat \ {0}
  /\ MaxClock \in Nat /\ MaxEpoch \in Nat

VARIABLES
  clock,      \* the cell's clock
  epoch,      \* the epoch source's current epoch
  exhausted,  \* passports the quota ledger has cut
  gated,      \* the fail-closed gate refuses
  ring,       \* the occupied slots, oldest first
  seen,       \* the membership table of the cache
  tripped,    \* saturation latch of the cache
  pc,         \* where each handler is
  tok,        \* the token it evaluates
  now,        \* the last clock reading it made
  allow,      \* its verdict so far
  \* history, for the properties only
  accepted,   \* how often CheckAndConsume answered true for a token
  proved,     \* tokens with an allow leaf in the log
  granted     \* tokens for which an allow was returned

cacheVars == <<ring, seen, tripped>>
histVars  == <<accepted, proved, granted>>
vars == <<clock, epoch, exhausted, gated, cacheVars, pc, tok, now, allow, histVars>>

Init ==
  /\ clock = 0 /\ epoch = 0
  /\ exhausted = {} /\ gated = FALSE
  /\ ring = <<>> /\ seen = {} /\ tripped = FALSE
  /\ pc = [h \in Handlers |-> "idle"]
  /\ tok = [h \in Handlers |-> NoToken]
  /\ now = [h \in Handlers |-> 0]
  /\ allow = [h \in Handlers |-> FALSE]
  /\ accepted = [t \in Tokens |-> 0]
  /\ proved = {} /\ granted = {}

-----------------------------------------------------------------------------
(* The cache.  A slot index modulo the capacity is a position in the       *)
(* sequence of occupied slots: head is the first, head + count the next.   *)

Expired_Inclusive(t, at) == Exp[t] <= at

\* Strict boundary: the validator still accepts at Exp = now.
Expired(t, at) == Exp[t] < at

\* purgeHead pops n entries: the head of r up to its first live entry.
PopsHead(r, at, n) ==
  /\ \A i \in 1..n : Expired(r[i], at)
  /\ n < Len(r) => ~Expired(r[n + 1], at)

LiveSlots(r, at) == {i \in 1..Len(r) : ~Expired(r[i], at)}

\* purgeAll keeps the live entries of r in insertion order.  The set has one
\* element, the compacted ring.
PurgeAll(r, at) ==
  LET live == LiveSlots(r, at)
      size == Cardinality(live)
      orders == {f \in [1..size -> live] : \A i, j \in 1..size : i < j => f[i] < f[j]}
  IN  {[i \in 1..size |-> r[f[i]]] : f \in orders}

Dead(r, at) == {r[i] : i \in {k \in 1..Len(r) : Expired(r[k], at)}}

\* What CheckAndConsume does with the ring r and the table s once purgeHead is
\* done: the outcome is a replay, a saturation or a consumption.
Replay(t, r, s) ==
  /\ t \in s
  /\ ring' = r /\ seen' = s
  /\ UNCHANGED <<tripped, gated, allow, accepted>>

Saturate(t, r, s) ==
  /\ t \notin s
  /\ Len(r) = Capacity
  /\ ring' = r /\ seen' = s
  /\ tripped' = TRUE
  /\ gated' = (gated \/ ~tripped)     \* onTrip is called once, on the first saturation
  /\ UNCHANGED <<allow, accepted>>

Consume(h, t, r, s) ==
  /\ t \notin s
  /\ Len(r) < Capacity
  /\ ring' = Append(r, t) /\ seen' = s \cup {t}
  /\ allow' = [allow EXCEPT ![h] = TRUE]
  /\ accepted' = [accepted EXCEPT ![t] = @ + 1]
  /\ UNCHANGED <<tripped, gated>>

-----------------------------------------------------------------------------
(* The validator. *)

\* Validate reads the clock once, on entry.
Arrive(h, t) ==
  /\ pc[h] = "idle"
  /\ pc' = [pc EXCEPT ![h] = "decide"]
  /\ tok' = [tok EXCEPT ![h] = t]
  /\ now' = [now EXCEPT ![h] = clock]
  /\ UNCHANGED <<clock, epoch, exhausted, gated, cacheVars, allow, histVars>>

Fresh(t, at) == Iat[t] <= at /\ at <= Exp[t]

TTLInRange(t) == Exp[t] - Iat[t] \in MinTTL..MaxTTL

\* Everything decide checks before the anti-replay cache.
Admissible(t, at) ==
  /\ ~gated
  /\ Defect[t] = ""
  /\ Fresh(t, at) /\ TTLInRange(t)
  /\ TokEpoch[t] = epoch
  /\ t \in Metered => t \notin exhausted

\* A refusal goes straight to its leaf and leaves the cache alone.
Decide(h) ==
  /\ pc[h] = "decide"
  /\ pc' = [pc EXCEPT ![h] = IF Admissible(tok[h], now[h]) THEN "sample" ELSE "leaf"]
  /\ UNCHANGED <<clock, epoch, exhausted, gated, cacheVars, tok, now, allow, histVars>>

\* CheckAndConsume reads the clock before it locks.
Sample(h) ==
  /\ pc[h] = "sample"
  /\ pc' = [pc EXCEPT ![h] = "consume"]
  /\ now' = [now EXCEPT ![h] = clock]
  /\ UNCHANGED <<clock, epoch, exhausted, gated, cacheVars, tok, allow, histVars>>

\* The critical section of CheckAndConsume.  The exhaustive purge runs only
\* for an unknown token that finds the ring full.
CheckAndConsume(h) ==
  /\ pc[h] = "consume"
  /\ pc' = [pc EXCEPT ![h] = "leaf"]
  /\ \E n \in 0..Len(ring) :
       /\ PopsHead(ring, now[h], n)
       /\ LET t == tok[h]
              r == SubSeq(ring, n + 1, Len(ring))
              s == seen \ {ring[i] : i \in 1..n}
          IN  \/ Replay(t, r, s)
              \/ Len(r) < Capacity /\ Consume(h, t, r, s)
              \/ /\ Len(r) = Capacity /\ t \notin s
                 /\ \E kept \in PurgeAll(r, now[h]) :
                      \/ Saturate(t, kept, s \ Dead(r, now[h]))
                      \/ Consume(h, t, kept, s \ Dead(r, now[h]))
  /\ UNCHANGED <<clock, epoch, exhausted, tok, now, proved, granted>>

WriteLeaf_IgnoresFailure(h) ==
  /\ pc[h] = "leaf"
  /\ pc' = [pc EXCEPT ![h] = "idle"]
  /\ tok' = [tok EXCEPT ![h] = NoToken]
  /\ now' = [now EXCEPT ![h] = 0]
  /\ allow' = [allow EXCEPT ![h] = FALSE]
  /\ granted' = IF allow[h] THEN granted \cup {tok[h]} ELSE granted
  /\ proved' \in {proved, IF allow[h] THEN proved \cup {tok[h]} ELSE proved}
  /\ UNCHANGED <<clock, epoch, exhausted, gated, cacheVars, accepted>>

\* The decision leaf.  When it cannot be written an allow becomes a deny.
WriteLeaf(h) ==
  /\ pc[h] = "leaf"
  /\ pc' = [pc EXCEPT ![h] = "idle"]
  /\ tok' = [tok EXCEPT ![h] = NoToken]
  /\ now' = [now EXCEPT ![h] = 0]
  /\ allow' = [allow EXCEPT ![h] = FALSE]
  /\ \/ /\ allow[h]
        /\ proved' = proved \cup {tok[h]}
        /\ granted' = granted \cup {tok[h]}
     \/ UNCHANGED <<proved, granted>>
  /\ UNCHANGED <<clock, epoch, exhausted, gated, cacheVars, accepted>>

-----------------------------------------------------------------------------
(* What surrounds the validator. *)

Tick ==
  /\ clock < MaxClock
  /\ clock' = clock + 1
  /\ UNCHANGED <<epoch, exhausted, gated, cacheVars, pc, tok, now, allow, histVars>>

\* Revocation is a new epoch.
NewEpoch ==
  /\ epoch < MaxEpoch
  /\ epoch' = epoch + 1
  /\ UNCHANGED <<clock, exhausted, gated, cacheVars, pc, tok, now, allow, histVars>>

\* The quota ledger cuts a passport it opened for a granted token.
CutPassport(t) ==
  /\ t \in granted \cap Metered
  /\ exhausted' = exhausted \cup {t}
  /\ UNCHANGED <<clock, epoch, gated, cacheVars, pc, tok, now, allow, histVars>>

\* A governed clear of the fail-closed condition; the cache keeps its latch.
ClearGate ==
  /\ gated
  /\ gated' = FALSE
  /\ UNCHANGED <<clock, epoch, exhausted, cacheVars, pc, tok, now, allow, histVars>>

HandlerStep(h) ==
  \/ \E t \in Tokens : Arrive(h, t)
  \/ Decide(h)
  \/ Sample(h)
  \/ CheckAndConsume(h)
  \/ WriteLeaf(h)

Next ==
  \/ \E h \in Handlers : HandlerStep(h)
  \/ Tick
  \/ NewEpoch
  \/ \E t \in Tokens : CutPassport(t)
  \/ ClearGate

Spec == Init /\ [][Next]_vars

-----------------------------------------------------------------------------
(* Properties. *)

\* Types of the handlers, the cache and the histories.
TypeOK ==
  /\ clock \in Nat /\ epoch \in Nat
  /\ exhausted \subseteq Tokens
  /\ gated \in BOOLEAN /\ tripped \in BOOLEAN
  /\ ring \in Seq(Tokens) /\ seen \subseteq Tokens
  /\ pc \in [Handlers -> {"idle", "decide", "sample", "consume", "leaf"}]
  /\ tok \in [Handlers -> Tokens \cup {NoToken}]
  /\ \A h \in Handlers : pc[h] # "idle" => tok[h] \in Tokens
  /\ now \in [Handlers -> Nat]
  /\ allow \in [Handlers -> BOOLEAN]
  /\ accepted \in [Tokens -> Nat]
  /\ proved \subseteq Tokens /\ granted \subseteq Tokens

\* The table s holds exactly the tokens of the ring r, each once, within the
\* capacity.
Mirrors(r, s) ==
  /\ Len(r) <= Capacity
  /\ s = {r[i] : i \in 1..Len(r)}
  /\ \A i, j \in 1..Len(r) : r[i] = r[j] => i = j

\* The membership table and the ring hold the same tokens, each once, and the
\* ring never outgrows the capacity allocated at start: a table entry without
\* a slot would never be purged, a slot without a table entry is a token that
\* can be replayed (antireplay.go, CheckAndConsume, purgeHead, purgeAll).
CacheConsistent == Mirrors(ring, seen)

\* "JAMAIS d'eviction": a token that was consumed is remembered until the
\* clock has passed its expiry, whatever other handlers purge meanwhile.
FreshNeverForgotten ==
  \A t \in Tokens : accepted[t] > 0 /\ clock <= Exp[t] => t \in seen

\* The cache implements the one-shot memory: no token is consumed a second
\* time before the clock has passed its expiry.
Memory == INSTANCE OneShot WITH Items <- Tokens, Expiry <- Exp,
                                count <- accepted, clock <- clock
OneShotWhileFresh == Memory!Spec

\* No proof, no access: an allow is only returned for a token whose allow
\* leaf is in the log (writeLeaf turns the allow into a deny otherwise).
NoProofNoAccess == granted \subseteq proved

\* Every allow belongs to a consumption: a handler holds a positive verdict,
\* and a token is granted, only after CheckAndConsume accepted that token.
AllowsAreConsumed ==
  /\ \A h \in Handlers : allow[h] => pc[h] = "leaf" /\ accepted[tok[h]] > 0
  /\ \A t \in granted : accepted[t] > 0
=============================================================================
