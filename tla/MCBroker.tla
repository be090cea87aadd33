------------------------------ MODULE MCBroker ------------------------------
(***************************************************************************)
(* Six requests, of which four are let past HandleAction's first checks:   *)
(*   volumes: passports of one entity that exceed its rule of 2 together,  *)
(*     that overflow the aggregate (2 + 2 > MaxUint), and one beyond the   *)
(*     entity's ceiling;                                                   *)
(*   consents: two requests of class W with the same proof, the second     *)
(*     without a volume, beside two of the passports.                      *)
(* The others are refused at the start.                                    *)
(***************************************************************************)
EXTENDS Broker, FiniteSetsExt, TLC

CONSTANTS a, c, p      \* agents, and a quorum proof

Passport(s, v) == [subject |-> s, cn |-> None, volume |-> v, proof |-> None, step |-> None]
Critical(proof, step) == [subject |-> c, cn |-> c, volume |-> 1, proof |-> proof, step |-> step]

MCAgent ==
  (a :> [class |-> "Out", cn |-> None, ceiling |-> 2]) @@
  (c :> [class |-> "W", cn |-> c, ceiling |-> 2])

Requests ==
  <<Passport(a, 1), Passport(a, 2), Passport(a, 2), Passport(a, 3),
    Critical(p, 1), [Critical(p, 2) EXCEPT !.volume = None]>>

MCReqs == DOMAIN Requests
Volumes == 1..4
Consents == {1, 2, 5, 6}

VARIABLE served

MCInit == served \in {Volumes, Consents} /\ Init
MCNext ==
  LET others == {r \in Reqs \ served : pc[r] = "new"} IN
  /\ Next /\ UNCHANGED served
  /\ others # {} => pc' = [pc EXCEPT ![Min(others)] = "done"]
MCSpec == MCInit /\ [][MCNext]_<<vars, served>>
=============================================================================
