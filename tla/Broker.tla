------------------------------- MODULE Broker -------------------------------
(***************************************************************************)
(* The broker's decision flow (broker/broker.go, HandleAction) with the    *)
(* ledger of the emission envelope (broker/envelope.go).  Requests run     *)
(* concurrently; each step below ends where another request may interleave *)
(* with a shared state: the epoch, the register of quorum proofs, the plan,*)
(* the ledger.  The quorum gate and the contract store are reduced to what *)
(* QuorumGate and PlanContract show of them: one call, one consumption.    *)
(***************************************************************************)
EXTENDS Integers, FiniteSets, Functions

CONSTANTS Reqs,
          Request,      \* [subject, cn, volume or None, proof or None, step or None]
          Agent,        \* the register: subject -> [class, cn, ceiling or None]
          None,
          Limit,        \* the envelope rule, in OPA's bundle
          MaxEntities, MaxUint,
          \* bounds:
          MaxEpoch, MaxRestarts

ASSUME BrokerAssumption ==
  /\ Limit \in Nat /\ MaxEntities \in Nat \ {0} /\ MaxUint \in Nat
  /\ MaxEpoch \in Nat /\ MaxRestarts \in Nat
  /\ None \notin Nat /\ IsFiniteSet(Reqs)
  /\ \A r \in Reqs : {Request[r].step, Request[r].volume} \subseteq Nat \cup {None}

VARIABLES
  epoch,     \* the epoch this cell has authority for
  pc, ep,    \* per request: its step, and the epoch it read
  total,     \* per request: what Reserve returned
  agg,       \* the ledger: <<subject, epoch>> -> volume
  newest,    \* the latest epoch the ledger was used with
  spent,     \* quorum proofs consumed, in the durable register
  cursor,    \* steps of the plan consumed, or None when the store lost it
  signed,    \* requests whose token was signed
  restarts,
  life,      \* history: per request, the run of brokerd that received it
  ahead      \* history: per request, the requests whose volume is in its total

gates == <<spent, cursor>>
ledger == <<agg, newest>>
lives == <<restarts, life>>
answers == <<total, ahead>>
vars == <<epoch, pc, ep, answers, ledger, gates, signed, lives>>

Subject(r) == Request[r].subject
Volume(r) == Request[r].volume
Class(r) == Agent[Subject(r)].class
Subjects == {Subject(r) : r \in Reqs}
Steps == {"new", "quorum", "plan", "reserve", "envelope", "issue", "done"}

-----------------------------------------------------------------------------
(* The ledger. *)

Key(r) == <<Subject(r), ep[r]>>

At(l, k) == IF k \in DOMAIN l THEN l[k] ELSE 0

Purged_Current(l, e) == Restrict(l, {k \in DOMAIN l : k[2] > e})

\* purgeLocked.
Purged(l, e) == Restrict(l, {k \in DOMAIN l : k[2] >= e})

Room(l, k) == k \in DOMAIN l \/ Cardinality(DOMAIN l) < MaxEntities

\* Release.
Released(l, r) ==
  LET k == Key(r) IN
  IF k \notin DOMAIN l \/ Volume(r) = None THEN l
  ELSE IF l[k] <= Volume(r) THEN Restrict(l, DOMAIN l \ {k})
  ELSE [l EXCEPT ![k] = @ - Volume(r)]

Put(l, k, v) == [j \in DOMAIN l \cup {k} |-> IF j = k THEN v ELSE l[j]]

Later(a, b) == IF a >= b THEN a ELSE b

\* The requests that hold a reservation, or the volume they were signed for.
Reserved(s, e) ==
  {r \in Reqs : /\ Subject(r) = s /\ ep[r] = e /\ life[r] = restarts
                /\ Volume(r) # None
                /\ r \in signed \/ pc[r] \in {"envelope", "issue"}}

-----------------------------------------------------------------------------
(* HandleAction. *)

Goto(r, where) == pc' = [pc EXCEPT ![r] = where]
Deny(r) == Goto(r, "done")

\* The registered identity is the one of the transport, or neither has any.
Resolved(r) == Subject(r) \in DOMAIN Agent /\ Request[r].cn = Agent[Subject(r)].cn

\* Bounds, registered identity, the epoch (without authority, a fault), the translator
\* (a pending arbitration is a refusal), the register of skills and OPA's decision.
Receive(r) ==
  /\ pc[r] = "new"
  /\ \/ Deny(r) /\ UNCHANGED <<ep, life>>
     \/ /\ Resolved(r) /\ Goto(r, "quorum")
        /\ ep' = [ep EXCEPT ![r] = epoch] /\ life' = [life EXCEPT ![r] = restarts]
  /\ UNCHANGED <<epoch, answers, ledger, gates, signed, restarts>>

Quorum_NotSpent(r) ==
  /\ pc[r] = "quorum"
  /\ \/ Class(r) # "W" /\ Goto(r, "plan") /\ UNCHANGED spent
     \/ Class(r) = "W" /\ Deny(r) /\ UNCHANGED spent
     \/ /\ Class(r) = "W" /\ Request[r].proof \notin spent \cup {None}
        /\ UNCHANGED spent
        /\ Goto(r, "plan") \/ Deny(r)
  /\ UNCHANGED <<epoch, ep, answers, ledger, cursor, signed, lives>>

\* VerifyClassW: a proof is spent at its admission, even if the leaf then fails.
Quorum(r) ==
  /\ pc[r] = "quorum"
  /\ \/ Class(r) # "W" /\ Goto(r, "plan") /\ UNCHANGED spent
     \/ Class(r) = "W" /\ Deny(r) /\ UNCHANGED spent
     \/ /\ Class(r) = "W" /\ Request[r].proof \notin spent \cup {None}
        /\ spent' = spent \cup {Request[r].proof}
        /\ Goto(r, "plan") \/ Deny(r)
  /\ UNCHANGED <<epoch, ep, answers, ledger, cursor, signed, lives>>

\* VerifyStep: the step after the cursor, and no other; F, I and W must have one.
Plan(r) ==
  LET step == Request[r].step IN
  /\ pc[r] = "plan"
  /\ \/ step = None /\ Class(r) = "Out" /\ Goto(r, "reserve") /\ UNCHANGED cursor
     \/ (step = None => Class(r) # "Out") /\ Deny(r) /\ UNCHANGED cursor
     \/ /\ step # None /\ cursor # None /\ step = cursor + 1
        /\ cursor' = step /\ Goto(r, "reserve")
  /\ UNCHANGED <<epoch, ep, answers, ledger, spent, signed, lives>>

\* The ceiling of the agent, then Reserve: the total includes what is in flight.
Reserve(r) ==
  LET kept == Purged(agg, ep[r])
      sum == At(kept, Key(r)) + Volume(r)
      ceiling == Agent[Subject(r)].ceiling
  IN /\ pc[r] = "reserve"
     /\ \/ Volume(r) = None /\ Goto(r, "issue") /\ UNCHANGED <<ledger, answers>>
        \/ /\ Volume(r) # None /\ (ceiling # None => Volume(r) > ceiling)
           /\ Deny(r) /\ UNCHANGED <<ledger, answers>>
        \/ /\ Volume(r) # None /\ ceiling # None /\ Volume(r) <= ceiling
           /\ newest' = Later(newest, ep[r])
           /\ IF Room(kept, Key(r)) /\ sum <= MaxUint
              THEN /\ agg' = Put(kept, Key(r), sum)
                   /\ total' = [total EXCEPT ![r] = sum]
                   /\ ahead' = [ahead EXCEPT ![r] = {r} \cup Reserved(Subject(r), ep[r])]
                   /\ Goto(r, "envelope")
              ELSE agg' = kept /\ UNCHANGED answers /\ Deny(r)
     /\ UNCHANGED <<epoch, ep, gates, signed, lives>>

\* EvalEnvelope: the rule on the total; any fault of the call is a refusal.
EvalEnvelope(r) ==
  /\ pc[r] = "envelope"
  /\ \/ total[r] <= Limit /\ Goto(r, "issue") /\ UNCHANGED agg
     \/ Deny(r) /\ agg' = Released(agg, r)
  /\ UNCHANGED <<epoch, ep, answers, newest, gates, signed, lives>>

\* Issue: the reservation is released if the signature fails.  Then the broker's own
\* leaf: without it the token is withheld, and its volume stays reserved.
Issue(r) ==
  /\ pc[r] = "issue" /\ Goto(r, "done")
  /\ \/ signed' = signed \cup {r} /\ UNCHANGED agg
     \/ agg' = Released(agg, r) /\ UNCHANGED signed
  /\ UNCHANGED <<epoch, ep, answers, newest, gates, lives>>

-----------------------------------------------------------------------------
\* The tracker accepts a new epoch.
NewEpoch ==
  /\ epoch < MaxEpoch /\ epoch' = epoch + 1
  /\ UNCHANGED <<pc, ep, answers, ledger, gates, signed, lives>>

\* brokerd restarts: the proofs are on disk, the ledger and the plans are not.
Restart ==
  /\ restarts < MaxRestarts /\ restarts' = restarts + 1
  /\ agg' = <<>> /\ cursor' = None
  /\ pc' = [r \in Reqs |-> IF pc[r] = "new" THEN "new" ELSE "done"]
  /\ UNCHANGED <<epoch, ep, answers, newest, spent, signed, life>>

Init ==
  /\ epoch = 0 /\ newest = 0
  /\ pc = [r \in Reqs |-> "new"] /\ ep = [r \in Reqs |-> 0]
  /\ total = [r \in Reqs |-> 0]
  /\ agg = <<>> /\ spent = {} /\ cursor = 0 /\ signed = {}
  /\ restarts = 0 /\ life = [r \in Reqs |-> 0] /\ ahead = [r \in Reqs |-> {}]

Handle(r) ==
  \/ Receive(r) \/ Quorum(r) \/ Plan(r)
  \/ Reserve(r) \/ EvalEnvelope(r) \/ Issue(r)

\* Every request answered: nothing is left to do.
Idle == (\A r \in Reqs : pc[r] = "done") /\ UNCHANGED vars

Next == (\E r \in Reqs : Handle(r)) \/ NewEpoch \/ Restart \/ Idle

Spec == Init /\ [][Next]_vars

-----------------------------------------------------------------------------

\* The volume of requests: their units, counted.
Units(r) == IF Volume(r) = None THEN {} ELSE {r} \X (1..Volume(r))
VolumeOf(rs) == Cardinality(UNION {Units(r) : r \in rs})

\* What this run of brokerd signed for an entity in an epoch.
SignedIn(s, e) == {r \in signed : Subject(r) = s /\ ep[r] = e /\ life[r] = restarts}

\* HandleAction consumes a proof and a plan step before it signs: no quorum proof
\* and no step of the plan backs two tokens, across refusals and restarts.
ConsentUsedOnce ==
  \A r, q \in signed : r # q =>
    /\ Class(r) = "W" /\ Class(q) = "W" => Request[r].proof # Request[q].proof
    /\ Request[r].step # None => Request[r].step # Request[q].step

\* The broker implements the abstract quota: concurrent reservations behave as one
\* counter per entity, checked and incremented at once, which a new epoch resets,
\* and a restart (the ledger is not persisted).
Quota == INSTANCE EpochQuota WITH
           epoch <- newest + restarts,
           issued <- [s \in Subjects |-> VolumeOf(SignedIn(s, newest))]
QuotaSpec == Quota!Spec
=============================================================================
