----------------------------- MODULE QuorumGate -----------------------------
(***************************************************************************)
(* The class-W gate of the broker (cluster/quorum.go) and the durable      *)
(* register of consumed proofs behind it (cluster/proof_store.go).         *)
(* VerifyClassW and Consume run under the gate's mutex, the clock is read  *)
(* inside it: one call is one step.  The caller's epoch was read earlier   *)
(* (broker.go, HandleAction) and may be old.  The clock counts ticks,      *)
(* Second ticks to the second: the register keeps expiries in seconds.     *)
(***************************************************************************)
EXTENDS Integers, Sequences, FiniteSets

CONSTANTS Proofs,        \* proofs in circulation
          Actions,       \* class-W actions
          PolicyID,      \* the cell's rule bundle
          GateControllers, K,
          Second, MaxProofTTL, Capacity,
          MaxGateClock, MaxEpoch

\* A proof: action, policy, epoch and exp are the signed statement; signers
\* lists the keys whose signature verifies.
Statement(p) == [action |-> p.action, policy |-> p.policy, epoch |-> p.epoch, exp |-> p.exp]
Statements == {Statement(p) : p \in Proofs}

ASSUME GateAssumption ==
  /\ \A p \in Proofs : p.exp \in Nat /\ p.epoch \in Nat
  /\ Second \in Nat \ {0} /\ MaxProofTTL \in Nat /\ Capacity \in Nat \ {0}
  /\ MaxGateClock \in Nat /\ MaxEpoch \in Nat

VARIABLES
  gateClock, epoch,
  entries,    \* register in memory: statements consumed and not purged
  disk,       \* the register's file
  consumed,   \* [Statements -> Nat]: how often Consume returned ok
  gateLeaves, \* [Statements -> Nat]: admission leaves
  admitted    \* [Statements -> Nat]: how often VerifyClassW returned nil

gateVars == <<gateClock, epoch, entries, disk, consumed, gateLeaves, admitted>>

-----------------------------------------------------------------------------
(* The checks of VerifyClassW. *)

Bound(p, action, ep) == p.action = action /\ p.policy = PolicyID /\ p.epoch = ep

Timely(p) == gateClock < p.exp /\ p.exp <= gateClock + MaxProofTTL

Cosigned(p) ==
  /\ \A i, j \in 1..Len(p.signers) : p.signers[i] = p.signers[j] => i = j
  /\ \A i \in 1..Len(p.signers) : p.signers[i] \in GateControllers
  /\ Len(p.signers) >= K

Valid(p, action, ep) == Bound(p, action, ep) /\ Timely(p) /\ Cosigned(p)

-----------------------------------------------------------------------------
(* Consume.  The register stores the expiry in whole seconds. *)

Unix(t) == t \div Second

Purgeable(s) == Unix(s.exp) <= Unix(gateClock)

Kept == {s \in entries : ~Purgeable(s)}

RegisterFull(s) == s \notin entries /\ Cardinality(Kept) >= Capacity

Room(s) == s \notin entries /\ Cardinality(Kept) < Capacity

Persist_Late(s) ==
  /\ entries' = Kept \cup {s}
  /\ UNCHANGED disk

\* persistLocked: the file is replaced in one rename.
Persist(s) ==
  /\ entries' = Kept \cup {s}
  /\ disk' = entries'

\* The purge is undone when the register is full or the file cannot be written.
ConsumeFails(s) ==
  /\ RegisterFull(s) \/ Room(s)
  /\ UNCHANGED <<entries, disk>>

-----------------------------------------------------------------------------
(* VerifyClassW. *)

Refuse(p, action, ep) ==
  /\ ~Valid(p, action, ep) \/ Statement(p) \in entries
  /\ UNCHANGED gateVars

Unavailable(p, action, ep) ==
  /\ Valid(p, action, ep)
  /\ ConsumeFails(Statement(p))
  /\ UNCHANGED <<gateClock, epoch, consumed, gateLeaves, admitted>>

\* The proof is consumed, then the admission leaf is written or fails.
Admit(p, action, ep) ==
  LET s == Statement(p) IN
  /\ Valid(p, action, ep)
  /\ Room(s)
  /\ Persist(s)
  /\ consumed' = [consumed EXCEPT ![s] = @ + 1]
  /\ \/ /\ gateLeaves' = [gateLeaves EXCEPT ![s] = @ + 1]
        /\ admitted' = [admitted EXCEPT ![s] = @ + 1]
     \/ UNCHANGED <<gateLeaves, admitted>>
  /\ UNCHANGED <<gateClock, epoch>>

VerifyClassW(p, action, ep) ==
  \/ Refuse(p, action, ep)
  \/ Unavailable(p, action, ep)
  \/ Admit(p, action, ep)

\* A crash, and the restart that reads the file (newConsumedProofs).
GateCrash ==
  /\ entries' = disk
  /\ UNCHANGED <<gateClock, epoch, disk, consumed, gateLeaves, admitted>>

\* A crash after the rename: the proof is burnt and nobody was admitted.
CrashInConsume(p, action, ep) ==
  /\ Valid(p, action, ep)
  /\ Room(Statement(p))
  /\ Persist(Statement(p))
  /\ UNCHANGED <<gateClock, epoch, consumed, gateLeaves, admitted>>

GateTick ==
  /\ gateClock < MaxGateClock
  /\ gateClock' = gateClock + 1
  /\ UNCHANGED <<epoch, entries, disk, consumed, gateLeaves, admitted>>

NewEpoch ==
  /\ epoch < MaxEpoch
  /\ epoch' = epoch + 1
  /\ UNCHANGED <<gateClock, entries, disk, consumed, gateLeaves, admitted>>

GateInit ==
  /\ gateClock = 0 /\ epoch = 0
  /\ entries = {} /\ disk = {}
  /\ consumed = [s \in Statements |-> 0]
  /\ gateLeaves = [s \in Statements |-> 0]
  /\ admitted = [s \in Statements |-> 0]

GateNext ==
  \/ \E p \in Proofs, action \in Actions, ep \in 0..epoch :
       VerifyClassW(p, action, ep) \/ CrashInConsume(p, action, ep)
  \/ GateCrash
  \/ GateTick
  \/ NewEpoch

GateSpec == GateInit /\ [][GateNext]_gateVars

-----------------------------------------------------------------------------
(* Properties. *)

\* Types of the register, its file and the counts.
GateTypeOK ==
  /\ gateClock \in Nat
  /\ entries \subseteq Statements /\ disk \subseteq Statements
  /\ consumed \in [Statements -> Nat]
  /\ gateLeaves \in [Statements -> Nat]
  /\ admitted \in [Statements -> Nat]

\* Proofs expire on whole seconds.  VerifyClassW does not check it: an RFC 3339
\* expiry may carry a fraction.
WholeSeconds == \A s \in Statements : s.exp % Second = 0

\* One proof, one authorisation: through crashes and purges, Consume accepts no
\* statement twice while VerifyClassW would still take it.
Memory == INSTANCE OneShot WITH Items <- Statements,
                                Expiry <- [s \in Statements |-> s.exp - 1],
                                count <- consumed, clock <- gateClock
OneAuthorisationPerProof == Memory!Spec

\* "Jamais d'eviction d'une preuve encore valide": what was consumed is in the
\* register, and in its file, until the proof has expired.
ValidNeverEvicted ==
  \A s \in Statements : consumed[s] > 0 /\ gateClock < s.exp => s \in entries \cap disk

\* An admission has been consumed and has its leaf: "pas de preuve, pas d'acces".
AdmissionsProved ==
  \A s \in Statements : admitted[s] <= gateLeaves[s] /\ gateLeaves[s] <= consumed[s]

\* Between two calls the register in memory is the register on disk: a refused
\* Consume undoes its purge, a successful one has written its file, so that a
\* restart changes nothing.
MemoryIsDisk == entries = disk
=============================================================================
