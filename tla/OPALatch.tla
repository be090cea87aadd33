------------------------------ MODULE OPALatch ------------------------------
(***************************************************************************)
(* The fail-closed latch of the PEP and the four parties that move it for  *)
(* OPA: the client that counts faults (pep/opa_client.go), the revision    *)
(* watcher (pep/opa_revision.go), the automatic recovery                   *)
(* (pep/opa_autoclear.go) and the operators (FailClosed.Clear).            *)
(*                                                                         *)
(* Conditions: "fault" stands for opa-timeout, opa-unreachable and         *)
(* opa-error, counted alike; "stalled", "bad" (opa-bad-response),          *)
(* "unverifiable", "mismatch" (class W).  OPA is                           *)
(*   good     answers, with the pinned bundle                              *)
(*   silent   no answer                                                    *)
(*   broken   answers errors, or bodies that break the contract            *)
(*   swapped  answers, with another bundle.                                *)
(***************************************************************************)
EXTENDS Integers, FiniteSets

CONSTANTS Evals,             \* concurrent evaluations
          TripAfter, MinUnanswered, Probes, MaxFactor,
          MaxProofs          \* quorum proofs that are ever issued

ASSUME LatchAssumption ==
  /\ TripAfter \in Nat \ {0} /\ MinUnanswered \in Nat \ {0} /\ Probes \in Nat \ {0}
  /\ MaxFactor \in Nat \ {0} /\ MaxProofs \in Nat

Conds == {"fault", "stalled", "bad", "unverifiable", "mismatch"}
Class == [c \in Conds |-> IF c = "mismatch" THEN "W" ELSE "I"]
Candidates == {"fault", "stalled", "unverifiable"}
Health == {"good", "silent", "broken", "swapped"}

VARIABLES
  health,
  latched,     \* conditions tripped in the latch (FailClosed.conds)
  floor,       \* persisted expiry of the last quorum proof consumed
  eval,        \* [Evals -> {"idle", "sent", "late", "trip", "bad"}]
  faults,      \* consecutive faults, up to TripAfter
  unanswered,  \* requests without answer, up to MinUnanswered
  window,      \* StallWindow has passed since the last answer
  auto,        \* the recovery goroutine
  recent,      \* an automatic clear less than autoClearFlapWindow ago
  good         \* history: healthy probes in a row of this engagement, up to Probes

client == <<eval, faults, unanswered, window>>
recovery == <<auto, recent>>
latchVars == <<health, latched, floor, client, recovery, good>>

AtMost(n, bound) == IF n < bound THEN n ELSE bound
Most == Probes * MaxFactor

-----------------------------------------------------------------------------
(* The latch. *)

\* Trip, for each of the conditions in C: no effect on one already tripped.
Trip(C) == latched' = latched \cup C
Lift(C) == latched' = latched \ C

Gate == latched = {}

\* Clear of a class I condition, by an operator.
ClearByHand(c) ==
  /\ c \in latched /\ Class[c] # "W"
  /\ Lift({c})
  /\ UNCHANGED <<health, floor, client, recovery, good>>

\* Clear of a class W condition: a fresh proof is consumed first (QuorumState).
ClearByQuorum(c, expiry) ==
  /\ c \in latched /\ Class[c] = "W"
  /\ expiry > floor
  /\ floor' = expiry
  /\ Lift({c})
  /\ UNCHANGED <<health, client, recovery, good>>

\* Tick keeps the candidates, AutoClear refuses class W.
Liftable(c) == c \in Candidates /\ Class[c] # "W"

-----------------------------------------------------------------------------
(* The client. *)

\* The validator asks the gate, then OPA is called.
Send(e) ==
  /\ eval[e] = "idle" /\ Gate
  /\ eval' = [eval EXCEPT ![e] = "sent"]
  /\ UNCHANGED <<health, latched, floor, faults, unanswered, window, recovery, good>>

\* Allow, deny or undefined rule: noteAlive, then finish resets the count.
Healthy(e) ==
  /\ eval[e] = "sent" /\ health \in {"good", "swapped"}
  /\ eval' = [eval EXCEPT ![e] = "idle"]
  /\ faults' = 0 /\ unanswered' = 0 /\ window' = FALSE
  /\ UNCHANGED <<health, latched, floor, recovery, good>>

\* The caller's context ended: neither a fault nor a proof of health.
Cancelled(e) ==
  /\ eval[e] = "sent"
  /\ eval' = [eval EXCEPT ![e] = "idle"]
  /\ UNCHANGED <<health, latched, floor, faults, unanswered, window, recovery, good>>

Stalled(n) == n >= MinUnanswered /\ window

\* No answer: noteUnanswered, which may trip "stalled"; finish comes after it.
NoAnswer(e) ==
  /\ eval[e] = "sent" /\ health = "silent"
  /\ eval' = [eval EXCEPT ![e] = "late"]
  /\ unanswered' = AtMost(unanswered + 1, MinUnanswered)
  /\ Trip(IF Stalled(unanswered') THEN {"stalled"} ELSE {})
  /\ UNCHANGED <<health, floor, faults, window, recovery, good>>

\* An error status: OPA is alive.
Errored(e) ==
  /\ eval[e] = "sent" /\ health = "broken"
  /\ eval' = [eval EXCEPT ![e] = "late"]
  /\ unanswered' = 0 /\ window' = FALSE
  /\ UNCHANGED <<health, latched, floor, faults, recovery, good>>

Broken(e) ==
  /\ eval[e] = "sent" /\ health = "broken"
  /\ eval' = [eval EXCEPT ![e] = "bad"]
  /\ faults' = AtMost(faults + 1, TripAfter)
  /\ unanswered' = 0 /\ window' = FALSE
  /\ UNCHANGED <<health, latched, floor, recovery, good>>

\* finish: count the fault, and trip in a second step at the threshold.
Count(e) ==
  /\ eval[e] = "late"
  /\ faults' = AtMost(faults + 1, TripAfter)
  /\ eval' = [eval EXCEPT ![e] = IF faults + 1 >= TripAfter THEN "trip" ELSE "idle"]
  /\ UNCHANGED <<health, latched, floor, unanswered, window, recovery, good>>

OnTrip(e) ==
  /\ eval[e] \in {"trip", "bad"}
  /\ Trip(IF eval[e] = "trip" THEN {"fault"} ELSE {"bad"})
  /\ eval' = [eval EXCEPT ![e] = "idle"]
  /\ UNCHANGED <<health, floor, faults, unanswered, window, recovery, good>>

WindowPasses ==
  /\ ~window
  /\ window' = TRUE
  /\ UNCHANGED <<health, latched, floor, eval, faults, unanswered, recovery, good>>

-----------------------------------------------------------------------------
(* The revision watcher: Check trips at every detection. *)

Seen_Once(h) == CASE h = "good" -> {} [] h = "swapped" -> {} [] OTHER -> {"unverifiable"}

Seen(h) == CASE h = "good" -> {} [] h = "swapped" -> {"mismatch"} [] OTHER -> {"unverifiable"}

Check ==
  /\ Trip(Seen(health))
  /\ UNCHANGED <<health, floor, client, recovery, good>>

-----------------------------------------------------------------------------
(* The recovery: one goroutine, whose probe runs outside of its mutex. *)

Idle(a) == [a EXCEPT !.pc = "idle", !.names = {}, !.healthy = FALSE]

\* A latch that trips again soon after an automatic clear costs twice the probes.
Factor == IF recent THEN AtMost(auto.factor * 2, MaxFactor) ELSE 1

TickStart ==
  LET names == {c \in latched : Liftable(c)} IN
  /\ auto.pc = "idle"
  /\ \/ /\ names = {}
        /\ auto' = [auto EXCEPT !.engaged = FALSE, !.streak = 0]
        /\ good' = 0
     \/ /\ names # {} /\ auto.engaged
        /\ auto' = [auto EXCEPT !.pc = "probe", !.names = names]
        /\ UNCHANGED good
     \/ /\ names # {} /\ ~auto.engaged
        /\ auto' = [auto EXCEPT !.pc = "probe", !.names = names, !.engaged = TRUE,
                                !.streak = 0, !.factor = Factor]
        /\ good' = 0
  /\ UNCHANGED <<health, latched, floor, client, recent>>

Probe ==
  /\ auto.pc = "probe"
  /\ auto' = [auto EXCEPT !.pc = "apply", !.healthy = (health = "good")]
  /\ good' = IF health = "good" THEN AtMost(good + 1, Probes) ELSE 0
  /\ UNCHANGED <<health, latched, floor, client, recent>>

Streak_Kept(a) == IF a.healthy THEN a.streak + 1 ELSE a.streak

Streak_Restarts(a) == IF a.healthy THEN 1 ELSE 0

Streak(a) == IF a.healthy THEN a.streak + 1 ELSE 0

TickEnd ==
  /\ auto.pc = "apply"
  /\ IF auto.healthy /\ Streak(auto) >= Probes * auto.factor
     THEN /\ auto' = [Idle(auto) EXCEPT !.engaged = FALSE, !.streak = 0]
          /\ Lift(auto.names \cap latched)
          /\ recent' = (recent \/ auto.names \cap latched # {})
          /\ good' = 0
     ELSE /\ auto' = [Idle(auto) EXCEPT !.streak = Streak(auto)]
          /\ UNCHANGED <<latched, recent, good>>
  /\ UNCHANGED <<health, floor, client>>

FlapWindowPasses ==
  /\ recent
  /\ recent' = FALSE
  /\ UNCHANGED <<health, latched, floor, client, auto, good>>

-----------------------------------------------------------------------------
\* pepd checks the revision before it serves and refuses to start otherwise.
Start ==
  /\ latched' = {}
  /\ eval' = [e \in Evals |-> "idle"]
  /\ faults' = 0 /\ unanswered' = 0 /\ window' = FALSE
  /\ auto' = [pc |-> "idle", names |-> {}, healthy |-> FALSE, engaged |-> FALSE,
              streak |-> 0, factor |-> 1]
  /\ recent' = FALSE
  /\ good' = 0

Restart ==
  /\ health = "good"
  /\ Start
  /\ UNCHANGED <<health, floor>>

OPAChanges ==
  /\ health' \in Health \ {health}
  /\ UNCHANGED <<latched, floor, client, recovery, good>>

LatchInit ==
  /\ health = "good"
  /\ latched = {} /\ floor = 0
  /\ eval = [e \in Evals |-> "idle"]
  /\ faults = 0 /\ unanswered = 0 /\ window = FALSE
  /\ auto = [pc |-> "idle", names |-> {}, healthy |-> FALSE, engaged |-> FALSE,
             streak |-> 0, factor |-> 1]
  /\ recent = FALSE
  /\ good = 0

Finish(e) == Count(e) \/ OnTrip(e)
Answer(e) == Healthy(e) \/ Cancelled(e) \/ NoAnswer(e) \/ Errored(e) \/ Broken(e)
Recovery == TickStart \/ Probe \/ TickEnd

LatchNext ==
  \/ \E e \in Evals : Send(e) \/ Answer(e) \/ Finish(e)
  \/ WindowPasses \/ Check \/ Recovery \/ FlapWindowPasses
  \/ \E c \in Conds : ClearByHand(c) \/ (\E x \in 1..MaxProofs : ClearByQuorum(c, x))
  \/ Restart \/ OPAChanges

LatchSpec == LatchInit /\ [][LatchNext]_latchVars

\* Evaluations end within their budget; the watcher and the recovery run on
\* tickers for as long as the process lives.
LatchFairness ==
  /\ \A e \in Evals : WF_latchVars(Answer(e)) /\ WF_latchVars(Finish(e))
  /\ WF_latchVars(Check) /\ WF_latchVars(Recovery)

LatchFairSpec == LatchSpec /\ LatchFairness

-----------------------------------------------------------------------------
(* Properties. *)

\* Types of the latch, the client's counters and the recovery; its retry factor
\* never exceeds MaxFactor (opa_autoclear.go).
LatchTypeOK ==
  /\ health \in Health /\ latched \subseteq Conds /\ floor \in 0..MaxProofs
  /\ eval \in [Evals -> {"idle", "sent", "late", "trip", "bad"}]
  /\ faults \in 0..TripAfter /\ unanswered \in 0..MinUnanswered /\ window \in BOOLEAN
  /\ auto \in [pc : {"idle", "probe", "apply"}, names : SUBSET Conds, healthy : BOOLEAN,
               engaged : BOOLEAN, streak : 0..Most, factor : 1..MaxFactor]
  /\ recent \in BOOLEAN
  /\ good \in 0..Probes

Cleared(c) == c \in latched /\ c \notin latched'

\* "il faut Probes sondes saines CONSECUTIVES": whatever happens between two
\* ticks, an automatic clear follows that many healthy probes in a row, all of
\* them since the recovery engaged.
ClearsAreEarned ==
  [][TickEnd /\ (\E c \in Conds : Cleared(c)) => good >= Probes]_latchVars

\* The latch of an OPA that recovered for good is lifted without anyone.
Recovers ==
  <>[](health = "good") => <>[](latched \cap Candidates = {})

\* An OPA that keeps serving another bundle is latched again after each lift.
SwapIsLatched ==
  <>[](health = "swapped") => []<>("mismatch" \in latched)
=============================================================================
