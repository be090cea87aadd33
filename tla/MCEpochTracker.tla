--------------------------- MODULE MCEpochTracker ---------------------------
(***************************************************************************)
(* Three parts of the control plane that do not share state, each from its *)
(* own initial state.                                                      *)
(*   epochs: two cells.  The tokens hand the authority back and forth,     *)
(*     revoke a cell, conflict within an epoch, carry a roster without     *)
(*     their authority, repeat a signer, and end in the order of their     *)
(*     epochs.                                                             *)
(*   proofs: four statements over two epochs for a register of two         *)
(*     entries; one statement is signed twice by different controllers,    *)
(*     one proof repeats a signer, one is for another rule bundle.         *)
(*   watchdog: two sources, a restart of OPA after two agreeing polls, two *)
(*     an hour.  It alone has fair steps, and never comes to rest.         *)
(***************************************************************************)
EXTENDS EpochTracker, QuorumGate, OPAWatchdog

CONSTANTS a, b, k1, k2, k3, w1, w2, pol, other, u1, u2
VARIABLE part

Tok(n, auth, issued, ttl, mode, roster, signers) ==
  [n |-> n, auth |-> auth, issued |-> issued, ttl |-> ttl, mode |-> mode,
   roster |-> roster, signers |-> signers]

Both == <<k1, k2>>

MCGenesis == Tok(0, a, 0, 2, "manual", NoRoster, Both)

StepTokens ==
  {MCGenesis,
   Tok(1, b, 1, 3, "auto",   NoRoster, Both),
   Tok(1, a, 1, 3, "manual", NoRoster, Both),
   Tok(2, a, 2, 3, "auto",   {a},      Both),
   Tok(3, b, 3, 3, "auto",   NoRoster, Both),
   Tok(3, b, 3, 3, "auto",   {a},      Both),
   Tok(4, a, 3, 3, "manual", NoRoster, <<k1, k1>>)}

ASSUME MonotoneExpiry

Proof(action, policy, ep, exp, signers) ==
  [action |-> action, policy |-> policy, epoch |-> ep, exp |-> exp, signers |-> signers]

SecondProofs ==
  {Proof(w1, pol,   0, 4, <<k1, k2>>),
   Proof(w1, pol,   0, 4, <<k2, k3>>),
   Proof(w2, pol,   0, 6, <<k1, k3>>),
   Proof(w1, pol,   1, 6, <<k1, k2>>),
   Proof(w2, pol,   1, 4, <<k1, k1>>),
   Proof(w2, other, 0, 4, <<k1, k2>>)}

ASSUME WholeSeconds

MCSources == <<u1, u2>>

all == <<vars, gateVars, dogVars, part>>

MCInit ==
  /\ part \in {"epochs", "proofs", "watchdog"}
  /\ Init /\ GateInit /\ DogInit
  /\ part # "watchdog" => ~dryRun
MCNext ==
  \/ part = "epochs" /\ Next /\ UNCHANGED <<gateVars, dogVars, part>>
  \/ part = "proofs" /\ GateNext /\ UNCHANGED <<vars, dogVars, part>>
  \/ part = "watchdog" /\ DogNext /\ UNCHANGED <<vars, gateVars, part>>
  \/ part # "watchdog" /\ UNCHANGED all
MCSpec == MCInit /\ [][MCNext]_all /\ DogFairness
=============================================================================
