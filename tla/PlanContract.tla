---------------------------- MODULE PlanContract ----------------------------
(***************************************************************************)
(* The store of plan contracts (pep/plan_contract.go): plans are submitted,*)
(* approved by operators, consumed step by step at emission, revoked,      *)
(* expired.  Every operation runs under the store's mutex, reads the clock *)
(* inside it and first sweeps the store (expireLocked): one operation is   *)
(* one step.  Leaves may fail; the store lives in memory.                  *)
(*                                                                         *)
(* The clock counts seconds, the resolution of the plan seal: a plan is    *)
(* identified by its content and the second of its submission.             *)
(***************************************************************************)
EXTENDS Integers, Sequences, FiniteSets

CONSTANTS Contents,          \* (subject, steps) pairs that are submitted
          Subject, Steps,    \* [Contents -> ...], [Contents -> Seq(Step)]
          Required,          \* [Contents -> Nat]: approvals for the subject
          Keys, Submitters, Approvers, Revokers,   \* operator keys and roles
          Separate,          \* SeparateDuties: unsigned submissions refused
          NoPlan, NoKey,
          MaxPending, MaxApproved, MaxTombstones, MaxReplay,
          PendingTTL, MinTTL, ApprovalTTL, SubmissionTTL,
          MaxClock, MaxPlanFaults, MaxPlans  \* bounds

Hashes == Contents \X (0..MaxClock)
Messages == Contents \X (0..MaxClock + SubmissionTTL)

ASSUME ConstantsAssumption ==
  /\ Submitters \subseteq Keys /\ Approvers \subseteq Keys /\ Revokers \subseteq Keys
  /\ NoKey \notin Keys
  /\ \A c \in Contents : Required[c] \in Nat \ {0} /\ Len(Steps[c]) \in Nat
  /\ Separate \in BOOLEAN
  /\ MaxClock \in Nat /\ MaxPlanFaults \in Nat

ASSUME TTLAssumption ==
  PendingTTL \in Nat /\ MinTTL \in Nat /\ ApprovalTTL \in Nat /\ SubmissionTTL \in Nat

\* No second sees more submissions than the store keeps tombstones (128 by
\* default): one of them would be forgotten while its seal can be made again.
ASSUME TombstoneAssumption ==
  IsFiniteSet(Contents) /\ MaxTombstones \in Nat /\ Cardinality(Contents) <= MaxTombstones

PlanEntry == [expires : Nat, status : {"pending", "approved", "revoked"}, required : Nat,
              submitter : Keys \cup {NoKey}, cursor : Nat, expired : BOOLEAN]

ASSUME NoPlanAssumption == NoPlan \notin PlanEntry

VARIABLES
  clock, planFaults,
  created,       \* plans ever put in the store, up to MaxPlans
  plans,         \* [Hashes -> PlanEntry \cup {NoPlan}]
  submissions,   \* signed submissions still remembered: <<content, expiry>>
  \* history
  approveLeaves, \* {<<hash, key>>}: attributed approval leaves
  ran,           \* [Hashes -> Nat]: steps consumed
  revokedEver    \* hashes with a revocation leaf

history == <<approveLeaves, ran, revokedEver>>
planVars == <<clock, planFaults, created, plans, submissions, history>>

-----------------------------------------------------------------------------
(* The sweep, for a store p. *)

Present(p) == {h \in Hashes : p[h] # NoPlan}
WithStatus(p, status) == {h \in Present(p) : p[h].status = status /\ ~p[h].expired}
Due_Never(p) == {}

Due(p) == {h \in Present(p) : ~p[h].expired /\ clock > p[h].expires}

Tombs(p) == {h \in Present(p) : p[h].expired \/ p[h].status = "revoked"}

\* expireLocked marks what is due, except the plans whose expiry leaf fails.
MarkExpired(p, failed) ==
  [h \in Hashes |-> IF h \in Due(p) \ failed THEN [p[h] EXCEPT !.expired = TRUE] ELSE p[h]]

\* evictTombstonesLocked: the oldest tombs beyond the limit; ties by submission
\* instant are broken arbitrarily.
Evictions(p) ==
  {gone \in SUBSET Tombs(p) :
     /\ Cardinality(Tombs(p) \ gone) = (IF Cardinality(Tombs(p)) <= MaxTombstones
                                        THEN Cardinality(Tombs(p)) ELSE MaxTombstones)
     /\ \A g \in gone, k \in Tombs(p) \ gone : g[2] <= k[2]}

Evict(p, gone) == [h \in Hashes |-> IF h \in gone THEN NoPlan ELSE p[h]]

Failing == IF planFaults < MaxPlanFaults THEN SUBSET Due(plans) ELSE {{}}

\* The stores a sweep can leave, with the faults they cost.
Swept ==
  UNION {LET q == MarkExpired(plans, failed) IN
         {<<Evict(q, gone), IF failed = {} THEN 0 ELSE 1>> : gone \in Evictions(q)} :
           failed \in Failing}

Remembered == {m \in submissions : clock < m[2]}

-----------------------------------------------------------------------------
(* Operations.  Each one starts from s, what the sweep left.               *)

\* approversApartFrom
EnoughApprovers(c, k) == Required[c] <= Cardinality(Approvers \ {k})

NewEntry(c, k) ==
  [expires |-> clock + PendingTTL, status |-> "pending", required |-> Required[c],
   submitter |-> k, cursor |-> 0, expired |-> FALSE]

\* submitLocked.  A second submission of the same content in the same second is
\* traced and changes nothing.
SubmitInto(p, c, k) ==
  LET h == <<c, clock>> IN
  /\ EnoughApprovers(c, k)
  /\ \/ /\ p[h] = NoPlan
        /\ Cardinality(WithStatus(p, "pending")) < MaxPending
        /\ created < MaxPlans
        /\ plans' = [p EXCEPT ![h] = NewEntry(c, k)]
        /\ created' = created + 1
     \/ p[h] # NoPlan /\ plans' = p /\ UNCHANGED created

Submit(s, c) ==
  /\ ~Separate
  /\ SubmitInto(s[1], c, NoKey)
  /\ planFaults' = planFaults + s[2]
  /\ UNCHANGED <<clock, submissions, history>>

\* The signed message holds content and expiry, not the key: it is refused the
\* second time whoever signs it.
SubmitSigned(s, c, exp, k) ==
  /\ clock < exp /\ exp <= clock + SubmissionTTL
  /\ k \in Submitters
  /\ <<c, exp>> \notin Remembered
  /\ Cardinality(Remembered) < MaxReplay
  /\ SubmitInto(s[1], c, k)
  /\ submissions' = Remembered \cup {<<c, exp>>}
  /\ planFaults' = planFaults + s[2]
  /\ UNCHANGED <<clock, approveLeaves, ran, revokedEver>>

-----------------------------------------------------------------------------
(* Approval, revocation, consumption.  sigs: the keys whose signature on    *)
(* (hash, expiry) was presented.                                            *)

Approvable_NoQuorum(p, h, exp, sigs) ==
  /\ p[h] # NoPlan /\ ~p[h].expired /\ p[h].status = "pending"
  /\ exp - clock \in MinTTL..ApprovalTTL
  /\ sigs # {} /\ sigs \subseteq Approvers
  /\ p[h].submitter \notin sigs
  /\ Cardinality(WithStatus(p, "approved")) < MaxApproved
Approvable_Again(p, h, exp, sigs) ==
  /\ p[h] # NoPlan /\ ~p[h].expired /\ p[h].status # "revoked"
  /\ exp - clock \in MinTTL..ApprovalTTL
  /\ sigs # {} /\ sigs \subseteq Approvers
  /\ p[h].submitter \notin sigs
  /\ Cardinality(sigs) >= p[h].required

Approvable(p, h, exp, sigs) ==
  /\ p[h] # NoPlan /\ ~p[h].expired /\ p[h].status = "pending"
  /\ exp - clock \in MinTTL..ApprovalTTL
  /\ sigs # {} /\ sigs \subseteq Approvers
  /\ p[h].submitter \notin sigs
  /\ Cardinality(sigs) >= p[h].required
  /\ Cardinality(WithStatus(p, "approved")) < MaxApproved

\* One attributed leaf per signature, all before the activation.
ApproveAll(s, h, exp, sigs) ==
  /\ Approvable(s[1], h, exp, sigs)
  /\ plans' = [s[1] EXCEPT ![h].status = "approved", ![h].expires = exp, ![h].cursor = 0]
  /\ approveLeaves' = approveLeaves \cup {<<h, k>> : k \in sigs}
  /\ planFaults' = planFaults + s[2]
  /\ UNCHANGED <<clock, created, submissions, ran, revokedEver>>

\* A leaf fails after some were written: no activation, the others remain.
ApproveFails(s, h, exp, sigs) ==
  \E written \in SUBSET sigs \ {sigs} :
    /\ planFaults + s[2] < MaxPlanFaults
    /\ Approvable(s[1], h, exp, sigs)
    /\ plans' = s[1]
    /\ approveLeaves' = approveLeaves \cup {<<h, k>> : k \in written}
    /\ planFaults' = planFaults + s[2] + 1
    /\ UNCHANGED <<clock, created, submissions, ran, revokedEver>>

Revoke(s, h, exp, k) ==
  /\ s[1][h] # NoPlan /\ s[1][h].status # "revoked" /\ ~s[1][h].expired
  /\ exp - clock \in 1..ApprovalTTL
  /\ k \in Revokers
  /\ plans' = [s[1] EXCEPT ![h].status = "revoked"]
  /\ revokedEver' = revokedEver \cup {h}
  /\ planFaults' = planFaults + s[2]
  /\ UNCHANGED <<clock, created, submissions, approveLeaves, ran>>

Executable_Revoked(e, h, subject, step) ==
  /\ e # NoPlan
  /\ subject = Subject[h[1]]
  /\ ~e.expired
  /\ e.status # "pending"
  /\ e.cursor < Len(Steps[h[1]])
  /\ step = Steps[h[1]][e.cursor + 1]

Executable(e, h, subject, step) ==
  /\ e # NoPlan
  /\ subject = Subject[h[1]]
  /\ ~e.expired
  /\ e.status = "approved"
  /\ e.cursor < Len(Steps[h[1]])
  /\ step = Steps[h[1]][e.cursor + 1]

\* The consumption leaf is written, then the cursor moves.
VerifyStep(s, h, subject, step) ==
  /\ Executable(s[1][h], h, subject, step)
  /\ plans' = [s[1] EXCEPT ![h].cursor = @ + 1]
  /\ ran' = [ran EXCEPT ![h] = @ + 1]
  /\ planFaults' = planFaults + s[2]
  /\ UNCHANGED <<clock, created, submissions, approveLeaves, revokedEver>>

\* Any call that is refused, for whatever reason, or whose own leaf fails: it
\* has swept the store, a signed submission also its replay memory.
Refused(s) ==
  /\ plans' = s[1]
  /\ submissions' \in {submissions, Remembered}
  /\ planFaults' = planFaults + s[2]
  /\ UNCHANGED <<clock, created, history>>

PlanTick ==
  /\ clock < MaxClock
  /\ clock' = clock + 1
  /\ UNCHANGED <<planFaults, created, plans, submissions, history>>

\* A restart takes longer than the second a seal resolves.
PlanRestart ==
  /\ clock < MaxClock
  /\ clock' = clock + 1
  /\ plans' = [h \in Hashes |-> NoPlan]
  /\ submissions' = {}
  /\ UNCHANGED <<planFaults, created, approveLeaves, ran, revokedEver>>

PlanInit ==
  /\ clock = 0 /\ planFaults = 0 /\ created = 0
  /\ plans = [h \in Hashes |-> NoPlan]
  /\ submissions = {}
  /\ approveLeaves = {}
  /\ ran = [h \in Hashes |-> 0]
  /\ revokedEver = {}

Expiries == clock + 1..clock + ApprovalTTL

Operation(s) ==
  \/ \E c \in Contents : Submit(s, c)
  \/ \E m \in Messages, k \in Keys : SubmitSigned(s, m[1], m[2], k)
  \/ \E h \in Hashes, exp \in Expiries, sigs \in SUBSET Keys :
       ApproveAll(s, h, exp, sigs) \/ ApproveFails(s, h, exp, sigs)
  \/ \E h \in Hashes, exp \in Expiries, k \in Keys : Revoke(s, h, exp, k)
  \/ \E h \in Hashes, c \in Contents : \E i \in 1..Len(Steps[c]) :
       VerifyStep(s, h, Subject[c], Steps[c][i])
  \/ Refused(s)

PlanNext ==
  \/ \E s \in Swept : Operation(s)
  \/ PlanTick
  \/ PlanRestart

PlanSpec == PlanInit /\ [][PlanNext]_planVars

-----------------------------------------------------------------------------
(* Properties. *)

\* Types of the store.
PlanTypeOK ==
  /\ clock \in Nat
  /\ plans \in [Hashes -> PlanEntry \cup {NoPlan}]

\* No contract without proof: an approved plan has the attributed leaves of as
\* many distinct approvers as it required, its recorded submitter not among
\* them, whatever leaves failed before (ApproveAll).
ApprovedIsProved ==
  \A h \in Present(plans) : plans[h].status = "approved" =>
    \E sigs \in SUBSET (Approvers \ {plans[h].submitter}) :
      /\ Cardinality(sigs) >= plans[h].required
      /\ \A k \in sigs : <<h, k>> \in approveLeaves

\* Across approvals, evictions and resubmissions, the steps of one
\* sealed plan are consumed at most once each (VerifyStep's cursor).
EachStepOnce == \A h \in Hashes : ran[h] <= Len(Steps[h[1]])

\* "Le refus tient dans tous les cas": no step of a revoked plan is consumed,
\* even after its tombstone is evicted.
RevokedNeverRuns == [][\A h \in revokedEver : ran'[h] = ran[h]]_planVars

\* No step is consumed once the date of the plan is past, unless the leaf of its
\* expiry could not be written at that very call (expireLocked, VerifyStep).
NoStepAfterExpiry ==
  [][\A h \in Hashes : ran'[h] # ran[h] =>
        clock <= plans[h].expires \/ planFaults' > planFaults]_planVars
=============================================================================
