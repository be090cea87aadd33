---------------------------- MODULE EpochTracker ----------------------------
(***************************************************************************)
(* Epoch fencing of the cluster (cluster/epoch.go): every cell runs a      *)
(* tracker that verifies quorum-signed epoch tokens and applies them.      *)
(* Tokens come from ceremonies outside the cells: any token may reach any  *)
(* cell late, repeatedly, out of order or never.  A tracker lives in       *)
(* memory: a restarted cell begins again from the genesis token, which     *)
(* brokerd feeds to Accept before it serves (broker/cmd/brokerd/main.go).  *)
(*                                                                         *)
(* The cells share one clock: the skew that time synchronisation leaves is *)
(* covered by nothing in the tracker but the bound on issue times.         *)
(***************************************************************************)
EXTENDS Integers, Sequences, FiniteSets

CONSTANTS Cells,            \* members pinned in the manifest
          Controllers,      \* pinned controller keys
          Quorum,           \* signatures required
          Tokens,           \* the tokens in circulation
          Genesis,          \* epoch 0
          NoEpoch, NoRoster,
          MinTTL, MaxTTL, Skew, Hour, MaxAuto,
          MaxClock, MaxFaults

\* A token: n, auth, issued, ttl, mode ("auto" or "manual"), roster (a set of
\* cells or NoRoster) are signed; signers lists the keys whose signature
\* verifies, in the order of the token.
Payload(t) == <<t.n, t.auth, t.issued, t.ttl, t.mode, t.roster>>
Expires(t) == t.issued + t.ttl

ASSUME ConstantsAssumption ==
  /\ Genesis \in Tokens
  /\ \A t \in Tokens : t.n \in Nat /\ t.issued \in Nat /\ t.ttl \in Nat
  /\ NoEpoch \notin Tokens
  /\ Skew \in Nat /\ Hour \in Nat /\ MaxAuto \in Nat
  /\ MaxClock \in Nat /\ MaxFaults \in Nat

VARIABLES
  clock,
  current,      \* [Cells -> Tokens \cup {NoEpoch}]: the token applied
  notBefore,    \* [Cells -> Nat]: when it takes effect
  quarantined,  \* [Cells -> SUBSET Cells]
  autoLog,      \* [Cells -> Seq(Nat)]: times of the automatic switches
  leaves,       \* {<<cell, token>>}: acceptance leaves in the cells' logs
  faults,       \* crashes and failed acceptance leaves so far
  \* history, for the properties only
  known         \* [Cells -> SUBSET [tok, at]]: tokens applied since the last
                \* start, and when (automatic switches only)

memory == <<current, notBefore, quarantined, autoLog, known>>
vars == <<clock, memory, leaves, faults>>

-----------------------------------------------------------------------------
(* Checks of Accept, in the order of the code. *)

\* verifyQuorumLocked: distinct pinned keys, at least Quorum of them; one
\* repeated or unknown signer spoils the token.
VerifyQuorum(t) ==
  /\ \A i, j \in 1..Len(t.signers) : t.signers[i] = t.signers[j] => i = j
  /\ \A i \in 1..Len(t.signers) : t.signers[i] \in Controllers
  /\ Len(t.signers) >= Quorum

WellFormed(t) ==
  /\ t.ttl \in MinTTL..MaxTTL
  /\ t.issued <= clock + Skew
  /\ t.auth \in Cells
  /\ t.mode \in {"auto", "manual"}
  /\ VerifyQuorum(t)

\* A newer epoch whose lease is still running.  The genesis token is applied
\* even when its lease is over: a cell starts days after the ceremony.
Advances(c, t) ==
  current[c] # NoEpoch => (t.n > current[c].n /\ clock < Expires(t))

Recent(log) == SelectSeq(log, LAMBDA ts : ts > clock - Hour)

BudgetLeft(c, t) == t.mode = "auto" => Len(Recent(autoLog[c])) < MaxAuto

\* consumeAutoBudgetLocked prunes the log and, if there is room, spends.
Spend(c, t) ==
  autoLog' = IF t.mode = "auto"
             THEN [autoLog EXCEPT ![c] = IF BudgetLeft(c, t)
                                         THEN Append(Recent(@), clock) ELSE Recent(@)]
             ELSE autoLog

RosterOK(t) ==
  t.roster # NoRoster => t.roster # {} /\ t.roster \subseteq Cells /\ t.auth \in t.roster

Revoked(t) == IF t.roster = NoRoster THEN {} ELSE Cells \ t.roster

EffectiveFrom_Issue(c, t) == t.issued

\* The new epoch waits for the lease it replaces.
EffectiveFrom(c, t) ==
  LET cur == current[c] IN
  IF cur # NoEpoch /\ clock < Expires(cur) /\ Expires(cur) > t.issued
  THEN Expires(cur) ELSE t.issued

-----------------------------------------------------------------------------
(* Accept.  The switch is made before its leaf is written: when the leaf   *)
(* fails, Accept returns an error but the new epoch stays.                 *)

\* leafLocked, which may fail.
WriteLeaf(c, t) ==
  \/ leaves' = leaves \cup {<<c, t>>} /\ UNCHANGED faults
  \/ faults < MaxFaults /\ faults' = faults + 1 /\ UNCHANGED leaves

Applied(t) == [tok |-> t, at |-> IF t.mode = "auto" THEN clock ELSE 0]

Switch_ReplacesQuarantine(c, t) ==
  /\ current' = [current EXCEPT ![c] = t]
  /\ notBefore' = [notBefore EXCEPT ![c] = EffectiveFrom(c, t)]
  /\ quarantined' = [quarantined EXCEPT ![c] = Revoked(t)]
  /\ known' = [known EXCEPT ![c] = @ \cup {Applied(t)}]
  /\ WriteLeaf(c, t)

Switch(c, t) ==
  /\ current' = [current EXCEPT ![c] = t]
  /\ notBefore' = [notBefore EXCEPT ![c] = EffectiveFrom(c, t)]
  /\ quarantined' = [quarantined EXCEPT ![c] = @ \cup Revoked(t)]
  /\ known' = [known EXCEPT ![c] = @ \cup {Applied(t)}]
  /\ WriteLeaf(c, t)

AcceptSwitch(c, t) ==
  /\ WellFormed(t)
  /\ Advances(c, t)
  /\ BudgetLeft(c, t)
  /\ RosterOK(t)
  /\ Spend(c, t)
  /\ Switch(c, t)
  /\ UNCHANGED clock

\* A refusal that only leaves its leaf and perhaps an alarm (malformed, quorum
\* missing, regression, conflicting token of the current epoch, lease over),
\* and the silent success of a repeated token.
AcceptNothing(c, t) ==
  /\ WellFormed(t) => ~Advances(c, t)
  /\ UNCHANGED vars

AcceptOverBudget(c, t) ==
  /\ WellFormed(t)
  /\ Advances(c, t)
  /\ ~BudgetLeft(c, t)
  /\ Spend(c, t)
  /\ UNCHANGED <<clock, current, notBefore, quarantined, known, leaves, faults>>

\* A bad roster is refused after the budget was spent.
AcceptBadRoster(c, t) ==
  /\ WellFormed(t)
  /\ Advances(c, t)
  /\ BudgetLeft(c, t)
  /\ ~RosterOK(t)
  /\ Spend(c, t)
  /\ UNCHANGED <<clock, current, notBefore, quarantined, known, leaves, faults>>

Accept(c, t) ==
  \/ AcceptSwitch(c, t)
  \/ AcceptNothing(c, t)
  \/ AcceptOverBudget(c, t)
  \/ AcceptBadRoster(c, t)

-----------------------------------------------------------------------------

\* CurrentEpoch returns the epoch exactly when the cell serves.
Serving(c) ==
  /\ current[c] # NoEpoch
  /\ c \notin quarantined[c]
  /\ current[c].auth = c
  /\ notBefore[c] <= clock
  /\ clock < Expires(current[c])

Init ==
  /\ clock = 0 /\ faults = 0
  /\ current = [c \in Cells |-> NoEpoch]
  /\ notBefore = [c \in Cells |-> 0]
  /\ quarantined = [c \in Cells |-> {}]
  /\ autoLog = [c \in Cells |-> <<>>]
  /\ known = [c \in Cells |-> {}]
  /\ leaves = {}

\* brokerd's start: the genesis token, with its leaf, or no service at all.
Boot(c) ==
  /\ current[c] = NoEpoch
  /\ AcceptSwitch(c, Genesis)
  /\ <<c, Genesis>> \in leaves'

\* POST /v1/epoch/renew on a running cell.
Renew(c, t) ==
  /\ current[c] # NoEpoch
  /\ Accept(c, t)

Crash(c) ==
  /\ faults < MaxFaults
  /\ faults' = faults + 1
  /\ current' = [current EXCEPT ![c] = NoEpoch]
  /\ notBefore' = [notBefore EXCEPT ![c] = 0]
  /\ quarantined' = [quarantined EXCEPT ![c] = {}]
  /\ autoLog' = [autoLog EXCEPT ![c] = <<>>]
  /\ known' = [known EXCEPT ![c] = {}]
  /\ UNCHANGED <<clock, leaves>>

Tick ==
  /\ clock < MaxClock
  /\ clock' = clock + 1
  /\ UNCHANGED <<memory, leaves, faults>>

Next ==
  \/ \E c \in Cells : Boot(c) \/ Crash(c)
  \/ \E c \in Cells, t \in Tokens : Renew(c, t)
  \/ Tick

Spec == Init /\ [][Next]_vars

-----------------------------------------------------------------------------
(* Properties. *)

\* Types of the trackers' state and of what they have applied.
TypeOK ==
  /\ clock \in Nat
  /\ current \in [Cells -> Tokens \cup {NoEpoch}]
  /\ notBefore \in [Cells -> Nat]
  /\ quarantined \in [Cells -> SUBSET Cells]
  /\ known \in [Cells -> SUBSET [tok : Tokens, at : Nat]]

\* The ceremonies renew in step: a later epoch never ends before an earlier
\* one.  The tracker does not check it.
MonotoneExpiry == \A t, u \in Tokens : t.n < u.n => Expires(t) <= Expires(u)

\* "Jamais de fenetre de double autorite" (Accept, notBefore): while a cell
\* serves, no other cell serves under an epoch the first one has applied since
\* it started.  Two authorities at once need a cell that missed a token.
SingleAuthority ==
  \A c, d \in Cells :
    Serving(c) /\ Serving(d) /\ (\E k \in known[d] : k.tok = current[c]) => c = d

\* The current token is the highest epoch applied since the start, and of two
\* conflicting tokens of one epoch at most one is ever applied.
HighestEpochRules ==
  \A c \in Cells : \A k \in known[c] :
    k.tok.n < current[c].n \/ Payload(k.tok) = Payload(current[c])

\* A cell that applied a roster without itself serves no more, whatever later
\* tokens say, until it is restarted.
RevocationSticks ==
  \A c \in Cells : (\E k \in known[c] : c \in Revoked(k.tok)) => ~Serving(c)

\* Comment of Accept: "un echec d'ecriture de feuille bascule l'acceptation en
\* refus (pas de preuve, pas de bascule)".
NoProofNoSwitch == \A c \in Cells : current[c] # NoEpoch => <<c, current[c]>> \in leaves
=============================================================================
