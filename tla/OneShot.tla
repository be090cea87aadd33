------------------------------ MODULE OneShot ------------------------------
(***************************************************************************)
(* What a replay memory promises: an item is accepted at most once as long *)
(* as it is fresh, that is until the clock passes its expiry.  Whatever    *)
(* the memory forgets, evicts or refuses is not visible here; refusing is  *)
(* always allowed.                                                         *)
(***************************************************************************)
EXTENDS Naturals

CONSTANTS Items,      \* tokens, proofs: whatever is accepted once
          Expiry      \* Expiry[i]: the last instant at which i is fresh

VARIABLES count,      \* how often each item has been accepted
          clock

vars == <<count, clock>>

Init == count = [i \in Items |-> 0] /\ clock \in Nat

Accept(i) ==
  /\ clock <= Expiry[i] => count[i] = 0
  /\ count' = [count EXCEPT ![i] = @ + 1]
  /\ UNCHANGED clock

Tick == clock' > clock /\ UNCHANGED count

Next == Tick \/ \E i \in Items : Accept(i)

Spec == Init /\ [][Next]_vars
=============================================================================
