---------------------------- MODULE MCPassports ------------------------------
(***************************************************************************)
(* Two passports of different dates, one dry run, and two handlers that    *)
(* consume at once, in a ledger with room for one.  The posture decides    *)
(* only what is let through, which nothing else reads, and the exporter    *)
(* only reads the ledger: a behaviour has changes of posture or exports,   *)
(* not both.                                                               *)
(***************************************************************************)
EXTENDS Passports, TLC

CONSTANTS c1, c2
VARIABLE part

MCExp == [p \in Passports |-> p]
Symmetry == Permutations({c1, c2})

MCInit == part \in {"posture", "exports"} /\ PassInit /\ (part = "exports" => mode = "monitor")
MCNext ==
  /\ PassNext /\ UNCHANGED part
  /\ IF part = "posture" THEN UNCHANGED exporter ELSE UNCHANGED mode
MCSpec == MCInit /\ [][MCNext]_<<passVars, part>>
=============================================================================
