----------------------------- MODULE EpochQuota -----------------------------
(***************************************************************************)
(* What the envelope of emission promises: in the epoch in force, an       *)
(* entity is issued at most Limit.  A new epoch starts afresh.             *)
(***************************************************************************)
EXTENDS Naturals

CONSTANTS Subjects, Limit

VARIABLES epoch, issued

Init == epoch \in Nat /\ issued = [s \in Subjects |-> 0]

Issue(s) ==
  /\ issued'[s] \in issued[s]..Limit
  /\ issued' = [issued EXCEPT ![s] = issued'[s]]
  /\ UNCHANGED epoch

NewEpoch == epoch' > epoch /\ issued' = [s \in Subjects |-> 0]

Next == NewEpoch \/ \E s \in Subjects : Issue(s)

Spec == Init /\ [][Next]_<<epoch, issued>>
=============================================================================
