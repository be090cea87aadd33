--------------------------- MODULE MCPlanContract ---------------------------
(***************************************************************************)
(* Two parts of one PEP that do not share state, each from its own initial *)
(* state.                                                                  *)
(*   plans: a content of two steps that needs two approvals, submitted up  *)
(*     to two times, in different seconds, with or without the key of its  *)
(*     submitter; one tombstone is kept.                                   *)
(*   admission: subject A floods with three requests, B sends one; two     *)
(*     slots, a queue of two, of which one subject may hold three places.  *)
(* The plans may come to rest, admission may not.                          *)
(***************************************************************************)
EXTENDS PlanContract, OPAAdmission, TLC

CONSTANTS long, agent, s1, s2, k1, k2, k3, a1, a2, a3, b1, A, B
VARIABLE part

MCSubject == long :> agent
MCSteps == long :> <<s1, s2>>
MCRequired == long :> 2

MCSubjectOf == [r \in Reqs |-> IF r \in {a1, a2, a3} THEN A ELSE B]

\* The keys that only approve, and the requests of the flood.
Symmetry == Permutations({k2, k3}) \cup Permutations({a1, a2, a3})

all == <<planVars, admVars, part>>

MCInit == part \in {"plans", "admission"} /\ PlanInit /\ AdmInit
MCNext ==
  \/ part = "plans" /\ PlanNext /\ UNCHANGED <<admVars, part>>
  \/ part = "admission" /\ AdmNext /\ UNCHANGED <<planVars, part>>
  \/ part = "plans" /\ UNCHANGED all
MCSpec == MCInit /\ [][MCNext]_all
=============================================================================
