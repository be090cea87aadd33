---------------------------- MODULE BrokerProofs ----------------------------
(***************************************************************************)
(* Proofs about brokerd, for any number of requests, subjects, epochs and  *)
(* restarts: the consents of a decision are its own, and the envelope      *)
(* implements a counter per subject and epoch (EpochQuota).                *)
(***************************************************************************)
EXTENDS Broker, FiniteSetTheorems, TLAPS

\* A leaf goes to Zenon first and, if that does not find it soon, to the SMT solver.
USE ZenonT(2), SMTT(30)

\* Requests the quorum gate, and the contract store, let pass.
Vouched(r) == r \in signed \/ pc[r] \in {"plan", "reserve", "envelope", "issue"}
Stepped(r) == r \in signed \/ pc[r] \in {"reserve", "envelope", "issue"}
Step(r) == Request[r].step
Proof(r) == Request[r].proof

\* A request that passed a gate has used up its consent there.
Consumed ==
  \A r \in Reqs :
    /\ Vouched(r) /\ Class(r) = "W" => Proof(r) \in spent
    /\ Stepped(r) /\ Step(r) # None /\ cursor # None => Step(r) <= cursor

\* Two requests that passed a gate passed it on different consents.
Distinct ==
  \A r, q \in Reqs : r # q =>
    /\ Vouched(r) /\ Vouched(q) /\ Class(r) = "W" /\ Class(q) = "W" => Proof(r) # Proof(q)
    /\ Stepped(r) /\ Stepped(q) /\ Step(r) # None => Step(r) # Step(q)

IInv ==
  /\ pc \in [Reqs -> Steps]
  /\ cursor \in Nat \cup {None}
  /\ signed \subseteq Reqs
  /\ \A r \in signed : pc[r] = "done"
  /\ Consumed /\ Distinct

-----------------------------------------------------------------------------
\* A step after which no request has passed a gate it had not passed.
LEMMA NobodyPasses ==
  ASSUME Consumed, Distinct, spent \subseteq spent', cursor' \in {cursor, None},
         \A r \in Reqs : (Vouched(r)' => Vouched(r)) /\ (Stepped(r)' => Stepped(r))
  PROVE  Consumed' /\ Distinct'
<1>1. Consumed'
  BY DEF Consumed, Class, Subject, Step, Proof
<1>2. Distinct'
  BY DEF Distinct, Class, Subject, Step, Proof
<1> QED BY <1>1, <1>2

LEMMA MovesOne ==
  ASSUME IInv, NEW r \in Reqs,
         NEW where \in Steps,
         Goto(r, where) \/ Deny(r)
  PROVE  /\ pc' \in [Reqs -> Steps]
         /\ \A q \in Reqs : q # r => pc'[q] = pc[q]
         /\ pc'[r] \in {where, "done"}
         /\ Goto(r, where) => pc'[r] = where
<1>1. "done" \in Steps
  BY DEF Steps
<1>2. CASE Goto(r, where)
  BY <1>1, <1>2 DEF IInv, Goto
<1>3. CASE ~Goto(r, where)
  BY <1>1, <1>3 DEF IInv, Deny, Goto
<1> QED BY <1>2, <1>3

LEMMA InitInv == Init => IInv
<1> SUFFICES ASSUME Init PROVE IInv
  OBVIOUS
<1>1. pc = [r \in Reqs |-> "new"] /\ signed = {} /\ cursor = 0
  BY DEF Init
<1>2. \A r \in Reqs : ~Vouched(r) /\ ~Stepped(r)
  BY <1>1 DEF Vouched, Stepped
<1>3. pc \in [Reqs -> Steps]
  BY <1>1 DEF Steps
<1> QED BY <1>1, <1>2, <1>3 DEF IInv, Consumed, Distinct

LEMMA QuietKeepsInv ==
  ASSUME IInv, NEW r \in Reqs,
         NEW where \in {"quorum", "envelope", "issue", "done"},
         Goto(r, where) \/ Deny(r),
         UNCHANGED <<gates, signed>>,
         r \notin signed,
         where \in {"envelope", "issue"} => pc[r] \in {"reserve", "envelope"}
  PROVE  IInv'
<1>1. /\ pc' \in [Reqs -> Steps] /\ pc'[r] \in {where, "done"}
      /\ \A q \in Reqs : q # r => pc'[q] = pc[q]
  <2>1. where \in Steps
    BY DEF Steps
  <2> QED BY <2>1, MovesOne
<1>2. \A q \in Reqs : (Vouched(q)' => Vouched(q)) /\ (Stepped(q)' => Stepped(q))
  BY <1>1 DEF Vouched, Stepped
<1>3. Consumed' /\ Distinct'
  BY <1>2, NobodyPasses DEF IInv, gates
<1>4. \A q \in signed : pc'[q] = "done"
  BY <1>1 DEF IInv
<1> QED BY <1>1, <1>3, <1>4 DEF IInv, gates

LEMMA IssueKeepsInv == ASSUME IInv, NEW r \in Reqs, Issue(r) PROVE IInv'
<1>1. /\ pc[r] = "issue" /\ UNCHANGED gates /\ Goto(r, "done")
      /\ signed' = signed \cup {r} \/ UNCHANGED signed
  BY DEF Issue
<1>2. /\ pc' \in [Reqs -> Steps] /\ \A q \in Reqs : q # r => pc'[q] = pc[q]
      /\ pc'[r] = "done"
  <2>1. "done" \in Steps
    BY DEF Steps
  <2> QED BY <1>1, <2>1, MovesOne
<1>3. signed' \subseteq signed \cup {r} /\ signed' \subseteq Reqs
  BY <1>1 DEF IInv
<1>4. \A q \in Reqs : (Vouched(q)' => Vouched(q)) /\ (Stepped(q)' => Stepped(q))
  BY <1>1, <1>2, <1>3 DEF Vouched, Stepped
<1>5. Consumed' /\ Distinct'
  BY <1>1, <1>4, NobodyPasses DEF IInv, gates
<1>6. \A q \in signed' : pc'[q] = "done"
  BY <1>2, <1>3 DEF IInv
<1> QED BY <1>1, <1>2, <1>3, <1>5, <1>6 DEF IInv, gates

LEMMA QuorumKeepsInv == ASSUME IInv, NEW r \in Reqs, Quorum(r) PROVE IInv'
<1>1. /\ pc[r] = "quorum" /\ UNCHANGED <<cursor, signed>>
      /\ Goto(r, "plan") \/ Deny(r)
      /\ \/ UNCHANGED spent /\ Class(r) # "W"
         \/ UNCHANGED spent /\ Deny(r)
         \/ Class(r) = "W" /\ Proof(r) \notin spent /\ spent' = spent \cup {Proof(r)}
  BY DEF Quorum, Proof
<1>2. /\ pc' \in [Reqs -> Steps] /\ \A q \in Reqs : q # r => pc'[q] = pc[q]
      /\ pc'[r] \in {"plan", "done"} /\ (Deny(r) => pc'[r] = "done")
  <2>1. "plan" \in Steps
    BY DEF Steps
  <2>2. Deny(r) => pc'[r] = "done"
    BY DEF Deny, Goto, IInv
  <2> QED BY <1>1, <2>1, <2>2, MovesOne
<1>3. r \notin signed /\ ~Vouched(r) /\ ~Stepped(r)
  BY <1>1 DEF IInv, Vouched, Stepped
<1>4. /\ \A q \in Reqs : q # r => (Vouched(q)' <=> Vouched(q)) /\ (Stepped(q)' <=> Stepped(q))
      /\ ~Stepped(r)'
  BY <1>1, <1>2, <1>3 DEF Vouched, Stepped
<1>5. Vouched(r)' /\ Class(r) = "W" => Proof(r) \notin spent /\ spent' = spent \cup {Proof(r)}
  BY <1>1, <1>2, <1>3 DEF Vouched
<1>6. spent \subseteq spent'
  BY <1>1
<1>7. Consumed'
  BY <1>1, <1>4, <1>5, <1>6 DEF IInv, Consumed, Class, Subject, Step, Proof
<1>8. Distinct'
  <2>1. ASSUME NEW q \in Reqs, q # r, Vouched(q), Class(q) = "W", Vouched(r)', Class(r) = "W"
        PROVE  Proof(q) # Proof(r)
    BY <1>5, <2>1 DEF IInv, Consumed
  <2> QED BY <1>4, <2>1 DEF IInv, Distinct, Class, Subject, Step, Proof
<1>9. \A q \in signed : pc'[q] = "done"
  BY <1>2, <1>3 DEF IInv
<1> QED BY <1>1, <1>2, <1>7, <1>8, <1>9 DEF IInv

LEMMA PlanKeepsInv == ASSUME IInv, NEW r \in Reqs, Plan(r) PROVE IInv'
<1>1. /\ pc[r] = "plan" /\ UNCHANGED <<spent, signed>>
      /\ Goto(r, "reserve") \/ Deny(r)
      /\ \/ UNCHANGED cursor /\ Step(r) = None
         \/ UNCHANGED cursor /\ Deny(r)
         \/ Step(r) # None /\ cursor # None /\ Step(r) = cursor + 1 /\ cursor' = Step(r)
  BY DEF Plan, Step
<1>2. /\ pc' \in [Reqs -> Steps] /\ \A q \in Reqs : q # r => pc'[q] = pc[q]
      /\ pc'[r] \in {"reserve", "done"} /\ (Deny(r) => pc'[r] = "done")
  <2>1. "reserve" \in Steps
    BY DEF Steps
  <2>2. Deny(r) => pc'[r] = "done"
    BY DEF Deny, Goto, IInv
  <2> QED BY <1>1, <2>1, <2>2, MovesOne
<1>3. r \notin signed /\ Vouched(r) /\ ~Stepped(r)
  BY <1>1 DEF IInv, Vouched, Stepped
<1>4. /\ \A q \in Reqs : Vouched(q)' => Vouched(q)
      /\ \A q \in Reqs : q # r => (Stepped(q)' <=> Stepped(q))
  BY <1>1, <1>2, <1>3 DEF Vouched, Stepped
<1>5. \A q \in Reqs : Step(q) \in Nat \cup {None}
  BY BrokerAssumption DEF Step
<1>6. Stepped(r)' /\ Step(r) # None => cursor # None /\ Step(r) = cursor + 1 /\ cursor' = Step(r)
  BY <1>1, <1>2, <1>3 DEF Stepped
<1>7. cursor' \in Nat \cup {None} /\ (cursor' # None /\ cursor # None => cursor' >= cursor)
      /\ (cursor' # None => cursor # None)
  BY <1>1, <1>5 DEF IInv
<1>8. Consumed'
  <2> SUFFICES ASSUME NEW q \in Reqs
               PROVE  /\ Vouched(q)' /\ Class(q) = "W" => Proof(q) \in spent'
                      /\ Stepped(q)' /\ Step(q) # None /\ cursor' # None => Step(q) <= cursor'
    BY DEF Consumed, Class, Subject, Step, Proof
  <2>1. Vouched(q)' /\ Class(q) = "W" => Proof(q) \in spent'
    BY <1>1, <1>4 DEF IInv, Consumed
  <2>2. ASSUME Stepped(q)', Step(q) # None, cursor' # None PROVE Step(q) <= cursor'
    <3>1. CASE q = r
      BY <1>5, <1>6, <2>2, <3>1
    <3>2. CASE q # r
      <4>1. Step(q) <= cursor
        BY <1>4, <1>7, <2>2, <3>2 DEF IInv, Consumed
      <4> QED BY <1>5, <1>7, <2>2, <4>1, BrokerAssumption, SMTT(30) DEF IInv
    <3> QED BY <3>1, <3>2
  <2> QED BY <2>1, <2>2
<1>9. Distinct'
  <2>1. ASSUME NEW q \in Reqs, q # r, Stepped(q), Step(q) # None, Stepped(r)', Step(r) # None
        PROVE  Step(q) # Step(r)
    <3>1. Step(q) <= cursor /\ Step(r) = cursor + 1 /\ cursor # None
      BY <1>6, <2>1 DEF IInv, Consumed
    <3> QED BY <1>5, <2>1, <3>1 DEF IInv
  <2> QED BY <1>4, <2>1 DEF IInv, Distinct, Class, Subject, Step, Proof
<1>10. \A q \in signed : pc'[q] = "done"
  BY <1>2, <1>3 DEF IInv
<1> QED BY <1>1, <1>2, <1>7, <1>8, <1>9, <1>10 DEF IInv

LEMMA RestartKeepsInv == ASSUME IInv, Restart PROVE IInv'
<1>1. /\ cursor' = None /\ UNCHANGED <<spent, signed>>
      /\ pc' = [r \in Reqs |-> IF pc[r] = "new" THEN "new" ELSE "done"]
  BY DEF Restart
<1>2. \A q \in Reqs : (Vouched(q)' => Vouched(q)) /\ (Stepped(q)' => Stepped(q))
  BY <1>1 DEF Vouched, Stepped
<1>3. Consumed' /\ Distinct'
  BY <1>1, <1>2, NobodyPasses DEF IInv
<1>4. pc' \in [Reqs -> Steps] /\ \A q \in signed : pc'[q] = "done"
  BY <1>1 DEF IInv, Steps
<1> QED BY <1>1, <1>3, <1>4 DEF IInv

-----------------------------------------------------------------------------
LEMMA StepKeepsInv == IInv /\ [Next]_vars => IInv'
<1> SUFFICES ASSUME IInv, [Next]_vars PROVE IInv'
  OBVIOUS
<1>1. ASSUME NEW r \in Reqs, Handle(r) PROVE IInv'
  <2>0. pc[r] # "done" => r \notin signed
    BY DEF IInv
  <2>1. CASE Receive(r)
    BY <2>0, <2>1, QuietKeepsInv DEF Receive, gates
  <2>2. CASE Reserve(r)
    <3>1. /\ pc[r] = "reserve" /\ UNCHANGED <<gates, signed>>
          /\ Goto(r, "issue") \/ Goto(r, "envelope") \/ Deny(r)
      BY <2>2, Zenon DEF Reserve
    <3> QED BY <2>0, <3>1, QuietKeepsInv
  <2>3. CASE EvalEnvelope(r)
    <3>1. pc[r] = "envelope" /\ UNCHANGED <<gates, signed>> /\ (Goto(r, "issue") \/ Deny(r))
      BY <2>3, Zenon DEF EvalEnvelope
    <3> QED BY <2>0, <3>1, QuietKeepsInv
  <2> QED BY <1>1, <2>1, <2>2, <2>3, QuorumKeepsInv, PlanKeepsInv, IssueKeepsInv DEF Handle
<1>2. CASE NewEpoch \/ Idle \/ UNCHANGED vars
  <2>1. UNCHANGED <<pc, spent, cursor, signed>>
    BY <1>2 DEF NewEpoch, Idle, vars, gates
  <2> QED BY <2>1, SMTT(30) DEF IInv, Consumed, Distinct, Vouched, Stepped, Class, Subject, Step, Proof
<1> QED BY <1>1, <1>2, RestartKeepsInv DEF Next

\* Two tokens never rest on one quorum proof or on one step of the plan, however
\* many requests HandleAction runs at once, wherever they are refused and whenever
\* brokerd restarts.
THEOREM ConsentsAreUsedOnce == Spec => []ConsentUsedOnce
<1>1. IInv => ConsentUsedOnce
  BY DEF IInv, Distinct, ConsentUsedOnce, Vouched, Stepped, Step, Proof
<1> QED BY <1>1, InitInv, StepKeepsInv, PTL DEF Spec

-----------------------------------------------------------------------------
(***************************************************************************)
(* The envelope.  The requests that hold a reservation are ordered by the  *)
(* totals Reserve returned to them: of two, one has the other ahead of it. *)
(* Approvals come in any order and refusals in between, so that the volume *)
(* approved is bounded by the total of one request, whoever that is: the   *)
(* set B below.                                                            *)
(***************************************************************************)
UnitsOf(rs) == UNION {Units(r) : r \in rs}

LEMMA RequestUnits ==
  ASSUME NEW r \in Reqs, Volume(r) # None
  PROVE  /\ Volume(r) \in Nat /\ Units(r) = {r} \X (1..Volume(r))
         /\ IsFiniteSet(Units(r)) /\ Cardinality(Units(r)) = Volume(r)
<1>1. Volume(r) \in Nat
  BY BrokerAssumption DEF Volume
<1>2. IsFiniteSet(1..Volume(r)) /\ Cardinality(1..Volume(r)) = Volume(r)
  BY <1>1, FS_Interval
<1>3. IsFiniteSet({r}) /\ Cardinality({r}) = 1
  BY FS_Singleton
<1>4. Units(r) = {r} \X (1..Volume(r))
  BY DEF Units
<1>5. /\ IsFiniteSet({r} \X (1..Volume(r)))
      /\ Cardinality({r} \X (1..Volume(r))) = Cardinality({r}) * Cardinality(1..Volume(r))
  BY <1>2, <1>3, FS_Product, Zenon
<1> QED BY <1>1, <1>2, <1>3, <1>4, <1>5, SMTT(30)

\* Volumes are finite, and grow with the requests they are of.
LEMMA VolumeIsFinite ==
  ASSUME NEW rs \in SUBSET Reqs
  PROVE  IsFiniteSet(UnitsOf(rs)) /\ VolumeOf(rs) \in Nat
<1> DEFINE f == [r \in rs |-> Units(r)]
           T == {Units(r) : r \in rs}
<1>1. f \in Surjection(rs, T)
  BY DEF Surjection
<1>2. IsFiniteSet(rs)
  BY BrokerAssumption, FS_Subset
<1>3. IsFiniteSet(T)
  BY <1>1, <1>2, FS_Surjection
<1>4. \A t \in T : IsFiniteSet(t)
  <2>1. \A r \in rs : IsFiniteSet(Units(r))
    BY RequestUnits, FS_EmptySet DEF Units
  <2> QED BY <2>1
<1>5. IsFiniteSet(UNION T)
  BY <1>3, <1>4, FS_UNION
<1> QED BY <1>5, FS_CardinalityType DEF UnitsOf, VolumeOf

LEMMA VolumeGrows ==
  ASSUME NEW rs \in SUBSET Reqs, NEW qs \in SUBSET rs PROVE VolumeOf(qs) <= VolumeOf(rs)
<1>1. UnitsOf(qs) \in SUBSET UnitsOf(rs) /\ IsFiniteSet(UnitsOf(rs))
  BY VolumeIsFinite DEF UnitsOf
<1> QED BY <1>1, FS_Subset DEF UnitsOf, VolumeOf

LEMMA VolumeAdds ==
  ASSUME NEW rs \in SUBSET Reqs, NEW r \in Reqs, r \notin rs, Volume(r) # None
  PROVE  VolumeOf(rs \cup {r}) = VolumeOf(rs) + Volume(r)
<1>1. UnitsOf(rs \cup {r}) = UnitsOf(rs) \cup Units(r)
  BY DEF UnitsOf
<1>2. UnitsOf(rs) \cap Units(r) = {}
  <2>1. \A q \in rs : \A u \in Units(q) : u[1] = q
    BY DEF Units
  <2>2. \A u \in Units(r) : u[1] = r
    BY DEF Units
  <2>3. \A u \in UnitsOf(rs) : \E q \in rs : u \in Units(q)
    BY DEF UnitsOf
  <2>4. ASSUME NEW u \in UnitsOf(rs), u \in Units(r) PROVE FALSE
    <3>1. PICK q \in rs : u \in Units(q)
      BY <2>3
    <3>2. u[1] = q /\ u[1] = r
      BY <2>1, <2>2, <2>4, <3>1
    <3> QED BY <3>2
  <2> QED BY <2>4
<1>3. IsFiniteSet(UnitsOf(rs)) /\ IsFiniteSet(Units(r)) /\ Cardinality(Units(r)) = Volume(r)
  BY VolumeIsFinite, RequestUnits
<1>4. Cardinality(UnitsOf(rs) \cup Units(r))
        = Cardinality(UnitsOf(rs)) + Cardinality(Units(r)) - Cardinality({})
  BY <1>2, <1>3, FS_Union, SMTT(30)
<1>5. VolumeOf(rs) \in Nat /\ Volume(r) \in Nat /\ VolumeOf(rs) = Cardinality(UnitsOf(rs))
  BY VolumeIsFinite, RequestUnits DEF UnitsOf, VolumeOf
<1>6. VolumeOf(rs \cup {r}) = Cardinality(UnitsOf(rs) \cup Units(r)) /\ Cardinality({}) = 0
  BY <1>1, FS_EmptySet DEF UnitsOf, VolumeOf
<1> QED BY <1>3, <1>4, <1>5, <1>6, SMTT(30)

\* What has no volume adds none.
LEMMA NoVolume ==
  ASSUME NEW rs, NEW qs, \A r \in rs \cup qs : Volume(r) # None => r \in rs /\ r \in qs
  PROVE  VolumeOf(rs) = VolumeOf(qs)
<1>1. UNION {Units(r) : r \in rs} = UNION {Units(r) : r \in qs}
  <2>1. \A r : Volume(r) = None => Units(r) = {}
    BY DEF Units
  <2> QED BY <2>1
<1> QED BY <1>1 DEF VolumeOf

LEMMA EmptyVolume == VolumeOf({}) = 0
<1>1. UNION {Units(r) : r \in {}} = {}
  OBVIOUS
<1> QED BY <1>1, FS_EmptySet DEF VolumeOf

-----------------------------------------------------------------------------
\* O: who holds a reservation; P: who was approved; A[r]: who is in r's total.
InOrder(O, A) ==
  \A r \in O : /\ A[r] \in SUBSET Reqs /\ r \in A[r]
               /\ \A q \in O : q \notin A[r] => A[r] \cap O \subseteq A[q]

Bounds(B, O, P, A) ==
  /\ B \in SUBSET Reqs /\ VolumeOf(B) <= Limit /\ P \subseteq B
  /\ \A r \in O \ B : B \cap O \subseteq A[r]

Bounded(O, P, A) == \E B : Bounds(B, O, P, A)

\* A request that leaves, refused or failed, keeps the order and the bound.
LEMMA Leaves ==
  ASSUME NEW O, NEW P, NEW A, InOrder(O, A), Bounded(O, P, A),
         NEW O2 \in SUBSET O, NEW P2 \in SUBSET P
  PROVE  InOrder(O2, A) /\ Bounded(O2, P2, A)
<1>1. InOrder(O2, A)
  BY DEF InOrder
<1>2. PICK B : Bounds(B, O, P, A)
  BY DEF Bounded
<1>3. Bounds(B, O2, P2, A)
  BY <1>2 DEF Bounds
<1> QED BY <1>1, <1>3 DEF Bounded

\* A request that reserves has all the others ahead of it.
LEMMA Enters ==
  ASSUME NEW O \in SUBSET Reqs, NEW P \in SUBSET O, NEW A, InOrder(O, A), Bounded(O, P, A),
         NEW r \in Reqs, r \notin O, \A q \in O : r \notin A[q],
         NEW A2, A2[r] = O \cup {r}, \A q \in O : A2[q] = A[q]
  PROVE  InOrder(O \cup {r}, A2) /\ Bounded(O \cup {r}, P, A2)
<1>1. InOrder(O \cup {r}, A2)
  <2> SUFFICES ASSUME NEW q \in O \cup {r}
               PROVE  /\ A2[q] \in SUBSET Reqs /\ q \in A2[q]
                      /\ \A p \in O \cup {r} :
                           p \notin A2[q] => A2[q] \cap (O \cup {r}) \subseteq A2[p]
    BY DEF InOrder
  <2>1. CASE q = r
    BY <2>1
  <2>2. CASE q \in O
    <3>1. A2[q] = A[q] /\ A[q] \in SUBSET Reqs /\ q \in A[q]
      BY <2>2 DEF InOrder
    <3>2. ASSUME NEW p \in O \cup {r}, p \notin A[q], NEW x \in A[q] \cap (O \cup {r})
          PROVE  x \in A2[p]
      <4>1. CASE p = r
        BY <4>1
      <4>2. CASE p \in O /\ x \in O
        BY <2>2, <3>2, <4>2 DEF InOrder
      <4>3. CASE p \in O /\ x = r
        BY <2>2, <3>2, <4>3
      <4> QED BY <4>1, <4>2, <4>3
    <3> QED BY <3>1, <3>2
  <2> QED BY <2>1, <2>2
<1>2. PICK B : Bounds(B, O, P, A)
  BY DEF Bounded
<1>3. VolumeOf(B \ {r}) <= Limit
  <2>1. VolumeOf(B \ {r}) <= VolumeOf(B) /\ VolumeOf(B \ {r}) \in Nat /\ VolumeOf(B) \in Nat
    BY <1>2, VolumeGrows, VolumeIsFinite DEF Bounds
  <2> QED BY <1>2, <2>1, BrokerAssumption, SMTT(30) DEF Bounds
<1>4. Bounds(B \ {r}, O \cup {r}, P, A2)
  BY <1>2, <1>3 DEF Bounds
<1> QED BY <1>1, <1>4 DEF Bounded

\* A request whose total is within the limit may be approved.
LEMMA Approves ==
  ASSUME NEW O, NEW P \in SUBSET O, NEW A, InOrder(O, A), Bounded(O, P, A),
         NEW r \in O, VolumeOf(A[r]) <= Limit
  PROVE  Bounded(O, P \cup {r}, A)
<1>1. PICK B : Bounds(B, O, P, A)
  BY DEF Bounded
<1>2. CASE r \in B
  <2>1. Bounds(B, O, P \cup {r}, A)
    BY <1>1, <1>2 DEF Bounds
  <2> QED BY <2>1 DEF Bounded
<1>3. CASE r \notin B
  <2>1. P \subseteq A[r] /\ r \in A[r]
    BY <1>1, <1>3 DEF Bounds, InOrder
  <2>2. Bounds(A[r], O, P \cup {r}, A)
    BY <2>1 DEF Bounds, InOrder
  <2> QED BY <2>2 DEF Bounded
<1> QED BY <1>2, <1>3

-----------------------------------------------------------------------------
Passed == {"envelope", "issue", "done"}

Held(s) == Reserved(s, newest)
Approved(s) == {r \in Held(s) : r \in signed \/ pc[r] = "issue"}

LedgerType ==
  /\ newest \in Nat /\ restarts \in Nat /\ epoch \in Nat
  /\ ep \in [Reqs -> Nat] /\ life \in [Reqs -> Nat]
  /\ ahead \in [Reqs -> SUBSET Reqs] /\ DOMAIN total = Reqs
  /\ \A k \in DOMAIN agg : k[2] \in 0..newest

\* A request belongs to the run of brokerd that received it, and one that has
\* reserved has used the ledger with its epoch.
RequestsInv ==
  \A r \in Reqs :
    /\ life[r] <= restarts
    /\ pc[r] \notin {"new", "done"} => life[r] = restarts
    /\ Volume(r) # None /\ (r \in signed \/ pc[r] \in {"envelope", "issue"}) => ep[r] <= newest
    /\ \A q \in ahead[r] : pc[q] \in Passed

\* One entity: the volume v of the ledger, the requests H that hold a reservation,
\* the requests P approved, the totals t and what they were made of, A.
SubjectState(v, H, P, t, A) ==
  /\ v = VolumeOf(H) /\ \A r \in H : t[r] = VolumeOf(A[r])
  /\ InOrder(H, A) /\ Bounded(H, P, A)

SubjectInv(s) == SubjectState(At(agg, <<s, newest>>), Held(s), Approved(s), total, ahead)

LedgerInv == LedgerType /\ RequestsInv /\ \A s : SubjectInv(s)

LEMMA StateSame ==
  ASSUME NEW v, NEW H, NEW P, NEW t, NEW A, SubjectState(v, H, P, t, A),
         NEW u, NEW B, \A q \in H : u[q] = t[q] /\ B[q] = A[q]
  PROVE  SubjectState(v, H, P, u, B)
<1>1. InOrder(H, B)
  BY DEF SubjectState, InOrder
<1>2. PICK C : Bounds(C, H, P, A)
  BY DEF SubjectState, Bounded
<1>3. Bounds(C, H, P, B)
  BY <1>2 DEF Bounds
<1> QED BY <1>1, <1>3 DEF SubjectState, Bounded

LEMMA StateEmpty == ASSUME NEW t, NEW A PROVE SubjectState(0, {}, {}, t, A)
<1>1. Bounds({}, {}, {}, A)
  BY EmptyVolume, BrokerAssumption, SMTT(30) DEF Bounds
<1> QED BY <1>1, EmptyVolume DEF SubjectState, InOrder, Bounded

LEMMA StateLeaves ==
  ASSUME NEW v, NEW H \in SUBSET Reqs, NEW P, NEW t, NEW A, SubjectState(v, H, P, t, A),
         NEW r \in H, Volume(r) # None
  PROVE  /\ v \in Nat /\ Volume(r) \in Nat /\ Volume(r) <= v
         /\ SubjectState(v - Volume(r), H \ {r}, P \ {r}, t, A)
<1>1. VolumeOf(H) = VolumeOf(H \ {r}) + Volume(r)
  <2>1. (H \ {r}) \cup {r} = H /\ r \notin H \ {r} /\ H \ {r} \in SUBSET Reqs /\ r \in Reqs
    OBVIOUS
  <2> QED BY <2>1, VolumeAdds
<1>2. VolumeOf(H \ {r}) \in Nat /\ Volume(r) \in Nat
  BY VolumeIsFinite, RequestUnits
<1>3. v - Volume(r) = VolumeOf(H \ {r}) /\ v \in Nat /\ Volume(r) <= v
  BY <1>1, <1>2 DEF SubjectState
<1>4. InOrder(H \ {r}, A) /\ Bounded(H \ {r}, P \ {r}, A)
  BY Leaves DEF SubjectState
<1> QED BY <1>2, <1>3, <1>4 DEF SubjectState

LEMMA StateEnters ==
  ASSUME NEW v, NEW H \in SUBSET Reqs, NEW P \in SUBSET H, NEW t, NEW A,
         SubjectState(v, H, P, t, A), NEW r \in Reqs, r \notin H, Volume(r) # None,
         \A q \in H : r \notin A[q],
         NEW u, NEW B, u[r] = v + Volume(r), B[r] = H \cup {r},
         \A q \in H : u[q] = t[q] /\ B[q] = A[q]
  PROVE  SubjectState(v + Volume(r), H \cup {r}, P, u, B)
<1>1. VolumeOf(H \cup {r}) = v + Volume(r)
  BY VolumeAdds DEF SubjectState
<1>2. InOrder(H \cup {r}, B) /\ Bounded(H \cup {r}, P, B)
  BY Enters DEF SubjectState
<1>3. \A q \in H \cup {r} : u[q] = VolumeOf(B[q])
  BY <1>1 DEF SubjectState
<1> QED BY <1>1, <1>2, <1>3 DEF SubjectState

LEMMA StateApproves ==
  ASSUME NEW v, NEW H, NEW P \in SUBSET H, NEW t, NEW A,
         SubjectState(v, H, P, t, A), NEW r \in H, t[r] <= Limit
  PROVE  SubjectState(v, H, P \cup {r}, t, A)
BY Approves DEF SubjectState

-----------------------------------------------------------------------------
(* The ledger, by what it holds at a key. *)

LEMMA AtPurged ==
  ASSUME NEW l, NEW e, NEW k
  PROVE  /\ k[2] >= e => At(Purged(l, e), k) = At(l, k)
         /\ DOMAIN Purged(l, e) \subseteq DOMAIN l
         /\ k \notin DOMAIN l => At(Purged(l, e), k) = 0
BY DEF At, Purged, Restrict

LEMMA AtUpdated ==
  ASSUME NEW l, NEW k, NEW v, NEW j
  PROVE  /\ At(Put(l, k, v), k) = v /\ (j # k => At(Put(l, k, v), j) = At(l, j))
         /\ DOMAIN Put(l, k, v) = DOMAIN l \cup {k}
BY DEF At, Put

LEMMA AtReleased ==
  ASSUME NEW l, NEW r \in Reqs, NEW j
  PROVE  /\ j # Key(r) => At(Released(l, r), j) = At(l, j)
         /\ DOMAIN Released(l, r) \subseteq DOMAIN l
         /\ Volume(r) # None /\ At(l, Key(r)) \in Nat /\ Volume(r) <= At(l, Key(r)) =>
              At(Released(l, r), Key(r)) = At(l, Key(r)) - Volume(r)
<1> DEFINE k == Key(r)
<1>1. Volume(r) # None => Volume(r) \in Nat
  BY RequestUnits
<1> HIDE DEF k
<1>2. CASE k \notin DOMAIN l \/ Volume(r) = None
  <2>1. Released(l, r) = l /\ (k \notin DOMAIN l => At(l, k) = 0)
    BY <1>2 DEF Released, At, k
  <2> QED BY <1>1, <1>2, <2>1 DEF k
<1>3. CASE k \in DOMAIN l /\ Volume(r) # None /\ l[k] <= Volume(r)
  <2>1. Released(l, r) = [x \in DOMAIN l \ {k} |-> l[x]]
    BY <1>3 DEF Released, Restrict, k
  <2> QED BY <1>1, <1>3, <2>1, SMTT(30) DEF k, At
<1>4. CASE k \in DOMAIN l /\ Volume(r) # None /\ ~(l[k] <= Volume(r))
  <2>1. Released(l, r) = [l EXCEPT ![k] = @ - Volume(r)]
    BY <1>4 DEF Released, k
  <2> QED BY <1>1, <1>4, <2>1 DEF k, At
<1> QED BY <1>2, <1>3, <1>4

-----------------------------------------------------------------------------
(* The steps. *)

LEMMA ButOne ==
  ASSUME NEW A, NEW B, NEW r, A \ {r} = B \ {r}
  PROVE  /\ (r \in A <=> r \in B) => A = B
         /\ r \in A => A = B \cup {r}
         /\ r \notin A => A = B \ {r}
<1>1. \A x : x # r => (x \in A <=> x \in B)
  <2> SUFFICES ASSUME NEW x, x # r PROVE x \in A <=> x \in B
    OBVIOUS
  <2>1. x \in A \ {r} <=> x \in B \ {r}
    BY Zenon
  <2> QED BY <2>1
<1> QED BY <1>1

\* A step of r leaves the reservations of the others alone.
LEMMA OthersStay ==
  ASSUME NEW r \in Reqs, UNCHANGED <<newest, restarts>>,
         \A q \in Reqs \ {r} : /\ pc'[q] = pc[q] /\ ep'[q] = ep[q] /\ life'[q] = life[q]
                               /\ q \in signed' <=> q \in signed,
         NEW s
  PROVE  Held(s)' \ {r} = Held(s) \ {r} /\ Approved(s)' \ {r} = Approved(s) \ {r}
<1>1. \A q \in Reqs \ {r} : q \in Held(s)' <=> q \in Held(s)
  BY DEF Held, Reserved, Subject, Volume
<1>2. Held(s) \subseteq Reqs /\ Held(s)' \subseteq Reqs
  BY DEF Held, Reserved
<1>3. \A q \in Reqs \ {r} : q \in Approved(s)' <=> q \in Approved(s)
  BY <1>1 DEF Approved
<1> QED BY <1>1, <1>2, <1>3 DEF Approved

LEMMA HeldType ==
  ASSUME NEW s
  PROVE  /\ Held(s) \in SUBSET Reqs /\ Approved(s) \in SUBSET Held(s)
         /\ \A r \in Reqs : r \in Held(s) <=>
              /\ Subject(r) = s /\ ep[r] = newest /\ life[r] = restarts /\ Volume(r) # None
              /\ r \in signed \/ pc[r] \in {"envelope", "issue"}
         /\ \A r : r \in Approved(s) <=> r \in Held(s) /\ (r \in signed \/ pc[r] = "issue")
BY DEF Held, Approved, Reserved

\* A request that has reserved nothing yet, and reserves nothing in this step.
LEMMA QuietLedger ==
  ASSUME IInv, LedgerInv, NEW r \in Reqs, pc[r] \in {"new", "quorum", "plan", "reserve"},
         pc' \in [Reqs -> Steps], ep' \in [Reqs -> Nat], life' \in [Reqs -> Nat], epoch' \in Nat,
         \A q \in Reqs \ {r} : pc'[q] = pc[q] /\ ep'[q] = ep[q] /\ life'[q] = life[q],
         life'[r] <= restarts, pc'[r] \notin {"new", "done"} => life'[r] = restarts,
         pc'[r] \in {"envelope", "issue"} => Volume(r) = None,
         UNCHANGED <<answers, ledger, signed, restarts>>
  PROVE  LedgerInv'
<1>0. r \notin signed /\ LedgerType /\ RequestsInv /\ UNCHANGED <<total, ahead, agg, newest, signed, restarts>>
  BY DEF IInv, LedgerInv, answers, ledger
<1>1. LedgerType'
  BY <1>0 DEF LedgerType
<1>2. RequestsInv'
  <2>1. \A q \in Reqs : r \notin ahead[q] /\ ahead[q] \subseteq Reqs
    BY <1>0 DEF RequestsInv, Passed, LedgerType
  <2>2. \A q \in Reqs : \A p \in ahead[q] : pc'[p] \in Passed
    BY <1>0, <2>1 DEF RequestsInv
  <2>3. ASSUME NEW q \in Reqs
        PROVE  /\ life'[q] <= restarts
               /\ pc'[q] \notin {"new", "done"} => life'[q] = restarts
               /\ Volume(q) # None /\ (q \in signed \/ pc'[q] \in {"envelope", "issue"}) => ep'[q] <= newest
    <3>1. CASE q = r
      BY <1>0, <3>1
    <3>2. CASE q # r
      BY <1>0, <3>2 DEF RequestsInv
    <3> QED BY <3>1, <3>2
  <2> QED BY <1>0, <2>2, <2>3 DEF RequestsInv, Volume
<1>3. ASSUME NEW s PROVE SubjectInv(s)'
  <2>1. Held(s)' \ {r} = Held(s) \ {r} /\ Approved(s)' \ {r} = Approved(s) \ {r}
    BY <1>0, OthersStay
  <2>2. r \notin Held(s) /\ r \notin Approved(s)
    BY <1>0, HeldType
  <2>3. r \notin Held(s)' /\ r \notin Approved(s)'
    BY <1>0 DEF Held, Approved, Reserved, Volume
  <2>4. Held(s)' = Held(s) /\ Approved(s)' = Approved(s)
    BY <2>1, <2>2, <2>3, ButOne, SMTT(30)
  <2>5. SubjectInv(s)
    BY DEF LedgerInv
  <2>6. At(agg, <<s, newest>>)' = At(agg, <<s, newest>>)
    BY <1>0 DEF At
  <2> QED BY <1>0, <2>4, <2>5, <2>6, Zenon DEF SubjectInv
<1> QED BY <1>1, <1>2, <1>3, Zenon DEF LedgerInv

\* What the decisions on a reservation have in common.
LEMMA DecidedLedger ==
  ASSUME IInv, LedgerInv, NEW r \in Reqs, pc[r] \in {"envelope", "issue"},
         pc' \in [Reqs -> Steps], pc'[r] \in {"issue", "done"},
         \A q \in Reqs \ {r} : pc'[q] = pc[q],
         signed' \in {signed, signed \cup {r}}, DOMAIN agg' \subseteq DOMAIN agg,
         UNCHANGED <<epoch, ep, answers, newest, lives>>
  PROVE  /\ LedgerType' /\ RequestsInv'
         /\ \A s : Held(s)' \ {r} = Held(s) \ {r} /\ Approved(s)' \ {r} = Approved(s) \ {r}
         /\ \A s : r \in Held(s) <=> s = Subject(r) /\ ep[r] = newest /\ Volume(r) # None
         /\ \A s : r \in Held(s)' <=> r \in Held(s) /\ (r \in signed' \/ pc'[r] = "issue")
         /\ \A s : r \in Approved(s)' <=> r \in Held(s)'
         /\ \A s : r \in Approved(s) <=> r \in Held(s) /\ pc[r] = "issue"
<1>0. /\ LedgerType /\ RequestsInv /\ UNCHANGED <<total, ahead, restarts, life, ep, newest, epoch>>
      /\ r \notin signed
  BY DEF LedgerInv, answers, lives, IInv
<1>1. LedgerType'
  BY <1>0 DEF LedgerType
<1>2. RequestsInv'
  <2>1. \A q \in Reqs : ahead[q] \subseteq Reqs
    BY <1>0 DEF LedgerType
  <2>2. \A q \in Reqs : \A p \in ahead[q] : pc'[p] \in Passed
    BY <1>0, <2>1 DEF RequestsInv, Passed
  <2>3. ASSUME NEW q \in Reqs
        PROVE  /\ life[q] <= restarts
               /\ pc'[q] \notin {"new", "done"} => life[q] = restarts
               /\ Volume(q) # None /\ (q \in signed' \/ pc'[q] \in {"envelope", "issue"}) => ep[q] <= newest
    <3>1. CASE q = r
      BY <1>0, <3>1 DEF RequestsInv
    <3>2. CASE q # r
      BY <1>0, <3>2 DEF RequestsInv
    <3> QED BY <3>1, <3>2
  <2> QED BY <1>0, <2>2, <2>3 DEF RequestsInv, Volume
<1>3. \A s : Held(s)' \ {r} = Held(s) \ {r} /\ Approved(s)' \ {r} = Approved(s) \ {r}
  BY <1>0, OthersStay
<1>4. life[r] = restarts
  BY <1>0 DEF RequestsInv
<1>5. \A s : r \in Held(s) <=> s = Subject(r) /\ ep[r] = newest /\ Volume(r) # None
  BY <1>4, HeldType
<1>6. \A s : r \in Held(s)' <=> r \in Held(s) /\ (r \in signed' \/ pc'[r] = "issue")
  <2>1. \A s : r \in Held(s)' <=> /\ s = Subject(r) /\ ep[r] = newest /\ Volume(r) # None
                                  /\ r \in signed' \/ pc'[r] = "issue"
    BY <1>0, <1>4 DEF Held, Reserved, Volume, Subject
  <2> QED BY <1>5, <2>1
<1>7. \A s : r \in Approved(s)' <=> r \in Held(s)'
  BY <1>6 DEF Approved
<1>8. \A s : r \in Approved(s) <=> r \in Held(s) /\ pc[r] = "issue"
  BY <1>0 DEF Approved
<1> QED BY <1>1, <1>2, <1>3, <1>5, <1>6, <1>7, <1>8, Zenon

\* A refusal, or a failed signature, releases the reservation.
LEMMA ReleaseLedger ==
  ASSUME IInv, LedgerInv, NEW r \in Reqs, pc[r] \in {"envelope", "issue"},
         pc' = [pc EXCEPT ![r] = "done"], agg' = Released(agg, r),
         UNCHANGED <<epoch, ep, answers, newest, lives, signed>>
  PROVE  LedgerInv'
<1>0. /\ UNCHANGED <<total, ahead>> /\ r \notin signed /\ \A s : SubjectInv(s)
      /\ DOMAIN agg' \subseteq DOMAIN agg
  BY AtReleased DEF answers, IInv, LedgerInv
<1>1. pc' \in [Reqs -> Steps] /\ pc'[r] = "done" /\ \A q \in Reqs \ {r} : pc'[q] = pc[q]
  BY DEF IInv, Steps
<1>2. /\ LedgerType' /\ RequestsInv'
      /\ \A s : Held(s)' \ {r} = Held(s) \ {r} /\ Approved(s)' \ {r} = Approved(s) \ {r}
      /\ \A s : r \in Held(s) <=> s = Subject(r) /\ ep[r] = newest /\ Volume(r) # None
      /\ \A s : r \notin Held(s)' /\ r \notin Approved(s)'
  BY <1>0, <1>1, DecidedLedger
<1>3. ASSUME NEW s PROVE SubjectInv(s)'
  <2>1. Held(s)' = Held(s) \ {r} /\ Approved(s)' = Approved(s) \ {r}
    BY <1>2, ButOne
  <2>2. SubjectState(At(agg, <<s, newest>>), Held(s), Approved(s), total, ahead)
    BY <1>0 DEF SubjectInv
  <2>3. At(agg, <<s, newest>>)' = At(Released(agg, r), <<s, newest>>)
    BY DEF At
  <2>4. CASE r \in Held(s)
    <3>1. Key(r) = <<s, newest>> /\ Volume(r) # None
      BY <1>2, <2>4 DEF Key
    <3> DEFINE v == At(agg, <<s, newest>>)
    <3>2. /\ v \in Nat /\ Volume(r) <= v
          /\ SubjectState(v - Volume(r), Held(s) \ {r}, Approved(s) \ {r}, total, ahead)
      BY <2>2, <2>4, <3>1, StateLeaves, HeldType
    <3>3. At(Released(agg, r), <<s, newest>>) = v - Volume(r)
      BY <3>1, <3>2, AtReleased
    <3> QED BY <1>0, <2>1, <2>3, <3>2, <3>3, Zenon DEF SubjectInv
  <2>5. CASE r \notin Held(s)
    <3>1. Held(s)' = Held(s) /\ Approved(s)' = Approved(s)
      BY <2>1, <2>5, HeldType, SMTT(30)
    <3>2. At(Released(agg, r), <<s, newest>>) = At(agg, <<s, newest>>)
      <4>1. CASE Volume(r) = None
        BY <4>1 DEF Released
      <4>2. CASE Volume(r) # None
        <5>1. Key(r) # <<s, newest>>
          BY <1>2, <2>5, <4>2 DEF Key
        <5> QED BY <5>1, AtReleased
      <4> QED BY <4>1, <4>2
    <3> QED BY <1>0, <2>2, <2>3, <3>1, <3>2, Zenon DEF SubjectInv
  <2> QED BY <2>4, <2>5
<1> QED BY <1>2, <1>3, Zenon DEF LedgerInv

LEMMA EvalEnvelopeLedger ==
  ASSUME IInv, LedgerInv, NEW r \in Reqs, EvalEnvelope(r) PROVE LedgerInv'
<1>0. /\ pc[r] = "envelope" /\ UNCHANGED <<epoch, ep, answers, newest, lives, signed>>
      /\ UNCHANGED <<total, ahead>> /\ r \notin signed /\ \A s : SubjectInv(s)
  BY DEF EvalEnvelope, answers, IInv, LedgerInv
<1>1. CASE total[r] <= Limit /\ Goto(r, "issue") /\ UNCHANGED agg
  <2>1. pc' \in [Reqs -> Steps] /\ pc'[r] = "issue" /\ \A q \in Reqs \ {r} : pc'[q] = pc[q]
    BY <1>1 DEF Goto, IInv, Steps
  <2>2. /\ LedgerType' /\ RequestsInv'
        /\ \A s : Held(s)' \ {r} = Held(s) \ {r} /\ Approved(s)' \ {r} = Approved(s) \ {r}
        /\ \A s : r \in Held(s)' <=> r \in Held(s)
        /\ \A s : r \in Approved(s)' <=> r \in Held(s)'
        /\ \A s : r \notin Approved(s)
    BY <1>0, <1>1, <2>1, DecidedLedger
  <2>3. ASSUME NEW s PROVE SubjectInv(s)'
    <3>1. Held(s)' = Held(s)
      BY <2>2, ButOne, SMTT(30)
    <3>2. At(agg, <<s, newest>>)' = At(agg, <<s, newest>>)
      BY <1>0, <1>1 DEF At
    <3>3. SubjectState(At(agg, <<s, newest>>), Held(s), Approved(s), total, ahead)
      BY <1>0 DEF SubjectInv
    <3>4. CASE r \in Held(s)
      <4>1. Approved(s)' = Approved(s) \cup {r}
        BY <2>2, <3>4, ButOne, SMTT(30)
      <4>2. SubjectState(At(agg, <<s, newest>>), Held(s), Approved(s) \cup {r}, total, ahead)
        BY <1>1, <3>3, <3>4, StateApproves, HeldType
      <4> QED BY <1>0, <3>1, <3>2, <4>1, <4>2, Zenon DEF SubjectInv
    <3>5. CASE r \notin Held(s)
      <4>1. Approved(s)' = Approved(s)
        BY <2>2, <3>5, ButOne, SMTT(30)
      <4> QED BY <1>0, <3>1, <3>2, <3>3, <4>1, Zenon DEF SubjectInv
    <3> QED BY <3>4, <3>5
  <2> QED BY <2>2, <2>3, Zenon DEF LedgerInv
<1>2. CASE Deny(r) /\ agg' = Released(agg, r)
  <2>1. pc' = [pc EXCEPT ![r] = "done"]
    BY <1>2 DEF Deny, Goto
  <2> QED BY <1>0, <1>2, <2>1, ReleaseLedger
<1> QED BY <1>1, <1>2 DEF EvalEnvelope

LEMMA IssueLedger ==
  ASSUME IInv, LedgerInv, NEW r \in Reqs, Issue(r) PROVE LedgerInv'
<1>0. /\ pc[r] = "issue" /\ UNCHANGED <<epoch, ep, answers, newest, lives>>
      /\ UNCHANGED <<total, ahead>> /\ r \notin signed /\ \A s : SubjectInv(s)
      /\ pc' = [pc EXCEPT ![r] = "done"]
  BY DEF Issue, Goto, answers, IInv, LedgerInv
<1>1. CASE signed' = signed \cup {r} /\ UNCHANGED agg
  <2>1. pc' \in [Reqs -> Steps] /\ pc'[r] = "done" /\ \A q \in Reqs \ {r} : pc'[q] = pc[q]
    BY <1>0 DEF IInv, Steps
  <2>2. /\ LedgerType' /\ RequestsInv'
        /\ \A s : Held(s)' \ {r} = Held(s) \ {r} /\ Approved(s)' \ {r} = Approved(s) \ {r}
        /\ \A s : r \in Held(s)' <=> r \in Held(s)
        /\ \A s : r \in Approved(s)' <=> r \in Held(s)'
        /\ \A s : r \in Approved(s) <=> r \in Held(s)
    BY <1>0, <1>1, <2>1, DecidedLedger
  <2>3. ASSUME NEW s PROVE SubjectInv(s)'
    <3>1. Held(s)' = Held(s) /\ Approved(s)' = Approved(s)
      BY <2>2, ButOne, SMTT(30)
    <3>2. At(agg, <<s, newest>>)' = At(agg, <<s, newest>>)
      BY <1>0, <1>1 DEF At
    <3>3. SubjectInv(s)
      BY <1>0
    <3> QED BY <1>0, <3>1, <3>2, <3>3, Zenon DEF SubjectInv
  <2> QED BY <2>2, <2>3, Zenon DEF LedgerInv
<1>2. CASE agg' = Released(agg, r) /\ UNCHANGED signed
  BY <1>0, <1>2, ReleaseLedger
<1> QED BY <1>1, <1>2 DEF Issue

\* The state of an entity in the newest epoch, or in a later one, of which the
\* ledger knows nothing.
LEMMA LaterEpoch ==
  ASSUME IInv, LedgerInv, NEW m \in Nat, m >= newest, NEW s, NEW P,
         P = {q \in Reserved(s, m) : q \in signed \/ pc[q] = "issue"}
  PROVE  SubjectState(At(agg, <<s, m>>), Reserved(s, m), P, total, ahead)
<1>1. CASE m = newest
  <2>1. SubjectInv(s)
    BY DEF LedgerInv
  <2> QED BY <1>1, <2>1, Zenon DEF SubjectInv, Held, Approved
<1>2. CASE m # newest
  <2>1. newest \in Nat /\ ep \in [Reqs -> Nat] /\ \A k \in DOMAIN agg : k[2] \in 0..newest
    BY DEF LedgerInv, LedgerType
  <2>2. At(agg, <<s, m>>) = 0
    BY <1>2, <2>1, SMTT(30) DEF At
  <2>3. ASSUME NEW q \in Reserved(s, m) PROVE FALSE
    <3>1. /\ q \in Reqs /\ ep[q] = m /\ Volume(q) # None
          /\ q \in signed \/ pc[q] \in {"envelope", "issue"}
      BY DEF Reserved
    <3>2. ep[q] <= newest
      BY <3>1 DEF LedgerInv, RequestsInv
    <3> QED BY <1>2, <2>1, <3>1, <3>2
  <2>4. Reserved(s, m) = {} /\ P = {}
    BY <2>3
  <2> QED BY <2>2, <2>4, StateEmpty
<1> QED BY <1>1, <1>2

LEMMA LaterOf ==
  ASSUME NEW a \in Nat, NEW b \in Nat
  PROVE  Later(a, b) \in Nat /\ Later(a, b) >= a /\ Later(a, b) >= b /\ Later(a, b) \in {a, b}
BY DEF Later

\* Reserve, past the checks of the quota.
LEMMA ReserveLedger ==
  ASSUME IInv, LedgerInv, NEW r \in Reqs, pc[r] = "reserve", Volume(r) # None,
         NEW kept, kept = Purged(agg, ep[r]), NEW sum, sum = At(kept, Key(r)) + Volume(r),
         newest' = Later(newest, ep[r]),
         \/ /\ agg' = Put(kept, Key(r), sum) /\ total' = [total EXCEPT ![r] = sum]
            /\ ahead' = [ahead EXCEPT ![r] = {r} \cup Reserved(Subject(r), ep[r])]
            /\ pc' = [pc EXCEPT ![r] = "envelope"]
         \/ agg' = kept /\ UNCHANGED answers /\ pc' = [pc EXCEPT ![r] = "done"],
         UNCHANGED <<epoch, ep, signed, lives>>
  PROVE  LedgerInv'
<1> DEFINE m == newest'
           e == ep[r]
           ok == pc'[r] = "envelope"
<1>0. /\ LedgerType /\ RequestsInv /\ r \notin signed /\ UNCHANGED <<restarts, life, ep, epoch, signed>>
      /\ newest \in Nat /\ e \in Nat /\ ep \in [Reqs -> Nat] /\ life[r] = restarts
  BY DEF LedgerInv, lives, IInv, LedgerType, RequestsInv
<1>1. m \in Nat /\ m >= newest /\ m >= e /\ m \in {newest, e}
  BY <1>0, LaterOf
<1>2. /\ pc' \in [Reqs -> Steps] /\ pc'[r] \in {"envelope", "done"}
      /\ \A q \in Reqs \ {r} : pc'[q] = pc[q]
      /\ \A q \in Reqs \ {r} : ahead'[q] = ahead[q] /\ total'[q] = total[q]
      /\ DOMAIN total' = Reqs
      /\ ahead' \in [Reqs -> SUBSET Reqs]
      /\ ok => /\ ahead'[r] = {r} \cup Reserved(Subject(r), e) /\ total'[r] = sum
               /\ agg' = Put(kept, Key(r), sum)
      /\ ~ok => agg' = kept /\ ahead'[r] = ahead[r]
  <2>1. Reserved(Subject(r), e) \subseteq Reqs
    BY DEF Reserved
  <2> QED BY <1>0, <2>1, SMTT(30) DEF IInv, Steps, LedgerType, answers
<1>3. \A q \in Reqs : r \notin ahead[q] /\ ahead[q] \subseteq Reqs
  BY <1>0 DEF RequestsInv, Passed, LedgerType
<1> HIDE DEF m, e, ok
<1>4. LedgerType'
  <2>1. DOMAIN kept \subseteq DOMAIN agg
    BY AtPurged
  <2>2. DOMAIN agg' \subseteq DOMAIN agg \cup {Key(r)}
    <3>1. CASE ok
      <4>1. agg' = Put(kept, Key(r), sum)
        BY <1>2, <3>1
      <4>2. DOMAIN agg' = DOMAIN kept \cup {Key(r)}
        BY <4>1, AtUpdated, Zenon
      <4> QED BY <2>1, <4>2
    <3>2. CASE ~ok
      BY <1>2, <2>1, <3>2
    <3> QED BY <3>1, <3>2
  <2>3. Key(r)[2] = e
    BY DEF Key, e
  <2>4. \A k \in DOMAIN agg' : k[2] \in 0..m
    <3>1. \A k \in DOMAIN agg : k[2] \in 0..newest
      BY <1>0 DEF LedgerType
    <3> QED BY <1>0, <1>1, <2>2, <2>3, <3>1, SMTT(30)
  <2> QED BY <1>0, <1>1, <1>2, <2>4 DEF LedgerType, m
<1>5. RequestsInv'
  <2>1. ASSUME NEW q \in Reqs, NEW p \in ahead'[q] PROVE pc'[p] \in Passed
    <3>1. CASE p = r
      BY <1>2, <3>1 DEF Passed
    <3>2. CASE p # r /\ p \in ahead[q]
      BY <1>0, <1>2, <1>3, <3>2 DEF RequestsInv
    <3>3. CASE p # r /\ p \notin ahead[q]
      <4>1. q = r /\ p \in Reserved(Subject(r), e)
        BY <1>2, <2>1, <3>3
      <4>2. p \in Reqs /\ (p \in signed \/ pc[p] \in {"envelope", "issue"})
        BY <4>1 DEF Reserved
      <4>3. pc[p] \in Passed
        BY <4>2 DEF IInv, Passed
      <4> QED BY <1>2, <3>3, <4>2, <4>3
    <3> QED BY <3>1, <3>2, <3>3
  <2>2. ASSUME NEW q \in Reqs
        PROVE  /\ life[q] <= restarts
               /\ pc'[q] \notin {"new", "done"} => life[q] = restarts
               /\ Volume(q) # None /\ (q \in signed \/ pc'[q] \in {"envelope", "issue"}) => ep[q] <= m
    <3>1. CASE q = r
      BY <1>0, <1>1, <3>1 DEF RequestsInv, e
    <3>2. CASE q # r
      <4>1. pc'[q] = pc[q] /\ ep[q] \in Nat
        BY <1>0, <1>2, <3>2
      <4> QED BY <1>0, <1>1, <4>1, SMTT(30) DEF RequestsInv
    <3> QED BY <3>1, <3>2
  <2> QED BY <1>0, <2>1, <2>2 DEF RequestsInv, Volume, m
<1>6. ASSUME NEW s PROVE SubjectInv(s)'
  <2> DEFINE H == Reserved(s, m)
             P == {q \in Reserved(s, m) : q \in signed \/ pc[q] = "issue"}
             v == At(agg, <<s, m>>)
  <2>1. SubjectState(v, H, P, total, ahead)
    BY <1>1, LaterEpoch
  <2>2. r \notin H /\ H \in SUBSET Reqs /\ P \in SUBSET H
    BY <1>0 DEF Reserved
  <2>3. At(kept, <<s, m>>) = v
    BY <1>0, <1>1, AtPurged, SMTT(30) DEF e
  <2>4. \A q \in Reqs \ {r} : q \in Held(s)' <=> q \in H
    BY <1>0, <1>2 DEF Held, Reserved, Volume, Subject, m
  <2>5. Held(s)' \subseteq Reqs /\ (r \in Held(s)' <=> ok /\ s = Subject(r) /\ e = m)
    BY <1>0, <1>2 DEF Held, Reserved, Volume, Subject, m, e, ok
  <2>6. Approved(s)' = P
    <3>1. \A q : q \in Approved(s)' <=> q \in Held(s)' /\ (q \in signed \/ pc'[q] = "issue")
      BY <1>0 DEF Approved
    <3>2. r \notin Approved(s)' /\ Approved(s)' \subseteq Reqs
      BY <1>0, <1>2, <2>5, <3>1
    <3>3. \A q \in Reqs \ {r} : q \in Approved(s)' <=> q \in P
      BY <1>2, <2>4, <3>1
    <3> QED BY <2>2, <3>2, <3>3
  <2>7. At(agg, <<s, newest>>)' = At(agg', <<s, m>>)
    BY DEF At, m
  <2>8. CASE ok /\ s = Subject(r) /\ e = m
    <3>1. Held(s)' = H \cup {r}
      BY <2>2, <2>4, <2>5, <2>8
    <3>2. Key(r) = <<s, m>>
      BY <2>8 DEF Key, e
    <3>3. ahead'[r] = H \cup {r} /\ total'[r] = v + Volume(r)
      BY <1>2, <2>3, <2>8, <3>2
    <3>4. At(agg', <<s, m>>) = v + Volume(r)
      <4>1. agg' = Put(kept, <<s, m>>, sum) /\ sum = v + Volume(r)
        BY <1>2, <2>3, <2>8, <3>2
      <4>2. At(Put(kept, <<s, m>>, sum), <<s, m>>) = sum
        BY DEF At, Put
      <4> QED BY <4>1, <4>2, Zenon
    <3> HIDE DEF H, P, v
    <3>5. SubjectState(v + Volume(r), H \cup {r}, P, total', ahead')
      BY <1>2, <1>3, <2>1, <2>2, <3>3, StateEnters, SMTT(30)
    <3> QED BY <2>6, <2>7, <3>1, <3>4, <3>5, Zenon DEF SubjectInv
  <2>9. CASE ~(ok /\ s = Subject(r) /\ e = m)
    <3>1. Held(s)' = H
      BY <2>2, <2>4, <2>5, <2>9, SMTT(30)
    <3>2. At(agg', <<s, m>>) = v
      <4>1. CASE ok
        <5>1. Key(r) # <<s, m>>
          BY <2>9, <4>1 DEF Key, e
        <5>2. agg' = Put(kept, Key(r), sum)
          BY <1>2, <4>1
        <5>3. At(Put(kept, Key(r), sum), <<s, m>>) = At(kept, <<s, m>>)
          BY <5>1 DEF At, Put
        <5> QED BY <2>3, <5>2, <5>3, Zenon
      <4>2. CASE ~ok
        BY <1>2, <2>3, <4>2
      <4> QED BY <4>1, <4>2
    <3> HIDE DEF H, P, v
    <3>3. SubjectState(v, H, P, total', ahead')
      BY <1>2, <2>1, <2>2, StateSame, SMTT(30)
    <3> QED BY <2>6, <2>7, <3>1, <3>2, <3>3, Zenon DEF SubjectInv
  <2> QED BY <2>8, <2>9
<1> QED BY <1>4, <1>5, <1>6, Zenon DEF LedgerInv

LEMMA LedgerInit == Init => LedgerInv
<1> SUFFICES ASSUME Init PROVE LedgerInv
  OBVIOUS
<1>1. /\ newest = 0 /\ restarts = 0 /\ epoch = 0 /\ agg = <<>> /\ signed = {}
      /\ pc = [r \in Reqs |-> "new"] /\ ep = [r \in Reqs |-> 0] /\ total = [r \in Reqs |-> 0]
      /\ life = [r \in Reqs |-> 0] /\ ahead = [r \in Reqs |-> {}]
  BY DEF Init
<1>2. LedgerType /\ RequestsInv
  BY <1>1, SMTT(30) DEF LedgerType, RequestsInv
<1>3. ASSUME NEW s PROVE SubjectInv(s)
  <2>1. Held(s) = {} /\ Approved(s) = {}
    BY <1>1 DEF Held, Approved, Reserved
  <2>2. At(agg, <<s, newest>>) = 0
    BY <1>1 DEF At
  <2> QED BY <2>1, <2>2, StateEmpty DEF SubjectInv
<1> QED BY <1>2, <1>3 DEF LedgerInv

LEMMA RestartLedger == ASSUME IInv, LedgerInv, Restart PROVE LedgerInv'
<1>1. /\ restarts' = restarts + 1 /\ agg' = <<>> /\ UNCHANGED <<epoch, ep, total, ahead, newest, signed, life>>
      /\ pc' = [r \in Reqs |-> IF pc[r] = "new" THEN "new" ELSE "done"]
      /\ LedgerType /\ RequestsInv /\ pc \in [Reqs -> Steps]
  BY DEF Restart, answers, LedgerInv, IInv
<1>2. \A r \in Reqs : life[r] < restarts' /\ life[r] \in Nat /\ restarts' \in Nat
  BY <1>1, SMTT(30) DEF LedgerType, RequestsInv
<1>3. LedgerType'
  BY <1>1, <1>2, SMTT(30) DEF LedgerType
<1>4. RequestsInv'
  <2>1. \A r \in Reqs : ahead[r] \subseteq Reqs
    BY <1>1 DEF LedgerType
  <2>2. \A r \in Reqs : pc'[r] \in {"new", "done"} /\ (pc[r] \in Passed => pc'[r] \in Passed)
    BY <1>1 DEF Passed
  <2>3. \A r \in Reqs : \A q \in ahead[r] : pc'[q] \in Passed
    BY <1>1, <2>1, <2>2 DEF RequestsInv
  <2>4. \A r \in Reqs : Volume(r) # None /\ r \in signed => ep[r] <= newest
    BY <1>1 DEF RequestsInv
  <2>5. \A r \in Reqs : life[r] <= restarts'
    BY <1>2
  <2> QED BY <1>1, <2>2, <2>3, <2>4, <2>5 DEF RequestsInv, Volume
<1>5. ASSUME NEW s PROVE SubjectInv(s)'
  <2>1. Held(s)' = {}
    BY <1>1, <1>2, SMTT(30) DEF Held, Reserved
  <2>2. Approved(s)' = {}
    BY <2>1 DEF Approved
  <2>3. At(agg, <<s, newest>>)' = 0
    BY <1>1 DEF At
  <2> QED BY <2>1, <2>2, <2>3, StateEmpty DEF SubjectInv
<1> QED BY <1>3, <1>4, <1>5, Zenon DEF LedgerInv

LEMMA LedgerStep == IInv /\ LedgerInv /\ [Next]_vars => LedgerInv'
<1> SUFFICES ASSUME IInv, LedgerInv, [Next]_vars PROVE LedgerInv'
  OBVIOUS
<1>0. LedgerType /\ RequestsInv
  BY DEF LedgerInv
<1>1. ASSUME NEW r \in Reqs, Handle(r) PROVE LedgerInv'
  <2>0. ASSUME NEW where \in Steps, pc' = [pc EXCEPT ![r] = where]
        PROVE  pc' \in [Reqs -> Steps] /\ pc'[r] = where /\ \A q \in Reqs \ {r} : pc'[q] = pc[q]
    BY <2>0 DEF IInv
  <2>1. CASE Receive(r)
    <3>1. /\ pc[r] = "new" /\ pc' \in [Reqs -> Steps] /\ pc'[r] \in {"quorum", "done"}
          /\ \A q \in Reqs \ {r} : pc'[q] = pc[q]
      BY <2>0, <2>1 DEF Receive, Goto, Deny, Steps
    <3>2. /\ UNCHANGED <<epoch, answers, ledger, signed, restarts>>
          /\ \/ UNCHANGED <<ep, life>> /\ pc'[r] = "done"
             \/ ep' = [ep EXCEPT ![r] = epoch] /\ life' = [life EXCEPT ![r] = restarts]
      BY <2>0, <2>1 DEF Receive, Deny, Goto, Steps
    <3>3. /\ ep' \in [Reqs -> Nat] /\ life' \in [Reqs -> Nat] /\ epoch' \in Nat
          /\ \A q \in Reqs \ {r} : ep'[q] = ep[q] /\ life'[q] = life[q]
          /\ life'[r] <= restarts /\ (pc'[r] # "done" => life'[r] = restarts)
      BY <1>0, <3>2, SMTT(30) DEF LedgerType, RequestsInv
    <3> QED BY <3>1, <3>2, <3>3, QuietLedger
  <2>2. ASSUME pc[r] \in {"quorum", "plan", "reserve"},
               UNCHANGED <<epoch, ep, answers, ledger, signed, lives>>,
               NEW where \in {"plan", "reserve", "issue", "done"},
               pc' = [pc EXCEPT ![r] = where], where = "issue" => Volume(r) = None
        PROVE  LedgerInv'
    <3>1. /\ pc' \in [Reqs -> Steps] /\ pc'[r] = where /\ \A q \in Reqs \ {r} : pc'[q] = pc[q]
      BY <2>0, <2>2 DEF Steps
    <3>2. /\ ep' \in [Reqs -> Nat] /\ life' \in [Reqs -> Nat] /\ epoch' \in Nat
          /\ life'[r] = restarts /\ life'[r] <= restarts /\ UNCHANGED <<ep, life, restarts>>
      BY <1>0, <2>2 DEF LedgerType, RequestsInv, lives
    <3> QED BY <2>2, <3>1, <3>2, QuietLedger
  <2>3. CASE Quorum(r)
    BY <2>2, <2>3 DEF Quorum, Goto, Deny
  <2>4. CASE Plan(r)
    BY <2>2, <2>4 DEF Plan, Goto, Deny
  <2>5. CASE Reserve(r)
    <3>1. CASE Volume(r) = None /\ Goto(r, "issue") /\ UNCHANGED <<ledger, answers>>
      BY <2>2, <2>5, <3>1 DEF Reserve, Goto
    <3>2. CASE Deny(r) /\ UNCHANGED <<ledger, answers>>
      BY <2>2, <2>5, <3>2 DEF Reserve, Goto, Deny
    <3>3. CASE /\ ~(Volume(r) = None /\ Goto(r, "issue") /\ UNCHANGED <<ledger, answers>>)
               /\ ~(Deny(r) /\ UNCHANGED <<ledger, answers>>)
      <4>1. PICK kept, sum : kept = Purged(agg, ep[r]) /\ sum = At(kept, Key(r)) + Volume(r)
        OBVIOUS
      <4>2. /\ pc[r] = "reserve" /\ Volume(r) # None /\ newest' = Later(newest, ep[r])
            /\ \/ /\ agg' = Put(kept, Key(r), sum) /\ total' = [total EXCEPT ![r] = sum]
                  /\ ahead' = [ahead EXCEPT ![r] = {r} \cup Reserved(Subject(r), ep[r])]
                  /\ pc' = [pc EXCEPT ![r] = "envelope"]
               \/ agg' = kept /\ UNCHANGED answers /\ pc' = [pc EXCEPT ![r] = "done"]
            /\ UNCHANGED <<epoch, ep, signed, lives>>
        BY <2>5, <3>3, <4>1 DEF Reserve, Goto, Deny
      <4> QED BY <4>1, <4>2, ReserveLedger
    <3> QED BY <2>5, <3>1, <3>2, <3>3 DEF Reserve
  <2> QED BY <1>1, <2>1, <2>3, <2>4, <2>5, EvalEnvelopeLedger, IssueLedger DEF Handle
<1>2. CASE NewEpoch \/ Idle \/ UNCHANGED vars
  <2>1. /\ UNCHANGED <<pc, ep, total, ahead, agg, newest, signed, restarts, life>>
        /\ epoch' \in {epoch, epoch + 1}
    BY <1>2 DEF NewEpoch, Idle, vars, answers, ledger, lives
  <2>2. LedgerType' /\ RequestsInv'
    BY <1>0, <2>1, SMTT(30) DEF LedgerType, RequestsInv, Volume
  <2>3. ASSUME NEW s PROVE SubjectInv(s)'
    <3>1. SubjectInv(s)
      BY DEF LedgerInv
    <3>2. Held(s)' = Held(s) /\ Approved(s)' = Approved(s)
      BY <2>1 DEF Held, Approved, Reserved
    <3>3. At(agg, <<s, newest>>)' = At(agg, <<s, newest>>)
      BY <2>1 DEF At
    <3> QED BY <2>1, <3>1, <3>2, <3>3, Zenon DEF SubjectInv
  <2> QED BY <2>2, <2>3, Zenon DEF LedgerInv
<1> QED BY <1>1, <1>2, RestartLedger DEF Next

-----------------------------------------------------------------------------
\* What is signed in the newest epoch was approved.
SignedWithin ==
  \A s : SignedIn(s, newest) \in SUBSET Reqs /\ VolumeOf(SignedIn(s, newest)) <= Limit

LEMMA WithinLimit == IInv /\ LedgerInv => SignedWithin
<1> SUFFICES ASSUME IInv, LedgerInv, NEW s
             PROVE  /\ SignedIn(s, newest) \in SUBSET Reqs
                    /\ VolumeOf(SignedIn(s, newest)) <= Limit
  BY DEF SignedWithin
<1>1. SignedIn(s, newest) \in SUBSET Reqs
  BY DEF IInv, SignedIn
<1> DEFINE V == {r \in SignedIn(s, newest) : Volume(r) # None}
<1>2. V \subseteq Approved(s)
  <2>1. \A r \in V : r \in Reqs /\ r \in signed /\ Subject(r) = s /\ ep[r] = newest
                     /\ life[r] = restarts /\ Volume(r) # None
    BY <1>1 DEF SignedIn
  <2> QED BY <2>1 DEF Approved, Held, Reserved
<1>3. VolumeOf(SignedIn(s, newest)) = VolumeOf(V)
  BY NoVolume
<1>4. PICK B : Bounds(B, Held(s), Approved(s), ahead)
  BY DEF LedgerInv, SubjectInv, SubjectState, Bounded
<1>5. V \in SUBSET B /\ B \in SUBSET Reqs /\ VolumeOf(B) <= Limit
  BY <1>2, <1>4 DEF Bounds
<1> HIDE DEF V
<1>6. VolumeOf(V) <= VolumeOf(B) /\ VolumeOf(V) \in Nat /\ VolumeOf(B) \in Nat
  BY <1>5, VolumeGrows, VolumeIsFinite
<1> QED BY <1>1, <1>3, <1>5, <1>6, BrokerAssumption, SMTT(30)

IssuedTo(s) == VolumeOf(SignedIn(s, newest))
Issued == [s \in Subjects |-> IssuedTo(s)]

\* A signature adds to what its entity was issued, within the limit.
LEMMA IssueCounts ==
  ASSUME SignedWithin', NEW r \in Reqs, Issue(r)
  PROVE  /\ UNCHANGED <<newest, restarts>>
         /\ \A s : /\ IssuedTo(s)' \in IssuedTo(s)..Limit
                   /\ s # Subject(r) => IssuedTo(s)' = IssuedTo(s)
<1>1. UNCHANGED <<newest, restarts, ep, life>> /\ signed' \in {signed, signed \cup {r}}
  BY DEF Issue, lives
<1> SUFFICES ASSUME NEW s
             PROVE  /\ IssuedTo(s)' \in IssuedTo(s)..Limit
                    /\ s # Subject(r) => IssuedTo(s)' = IssuedTo(s)
  BY <1>1
<1> DEFINE T == SignedIn(s, newest)'
<1>3. T \in SUBSET Reqs /\ VolumeOf(T) <= Limit
  BY DEF SignedWithin
<1>4. SignedIn(s, newest) \in SUBSET T /\ (s # Subject(r) => SignedIn(s, newest) = T)
  BY <1>1 DEF SignedIn, Subject
<1>5. IssuedTo(s)' = VolumeOf(T)
  BY DEF IssuedTo
<1> HIDE DEF T
<1>6. IssuedTo(s) <= VolumeOf(T) /\ VolumeOf(T) \in Nat /\ IssuedTo(s) \in Nat
  BY <1>3, <1>4, VolumeGrows, VolumeIsFinite DEF IssuedTo
<1>7. s # Subject(r) => IssuedTo(s) = VolumeOf(T)
  BY <1>4 DEF IssuedTo
<1> QED BY <1>3, <1>5, <1>6, <1>7, BrokerAssumption, SMTT(30)

\* A new epoch of the ledger, or a new run of brokerd, starts from nothing.
LEMMA FreshCounts ==
  ASSUME IInv, LedgerInv, UNCHANGED <<signed, ep, life>>,
         newest' \in Nat, restarts' \in Nat,
         \/ newest' > newest /\ restarts' = restarts
         \/ newest' = newest /\ restarts' > restarts
  PROVE  /\ newest' + restarts' > newest + restarts
         /\ \A s : IssuedTo(s)' = 0
<1>0. newest \in Nat /\ restarts \in Nat /\ ep \in [Reqs -> Nat] /\ life \in [Reqs -> Nat]
  BY DEF LedgerInv, LedgerType
<1>1. newest' + restarts' > newest + restarts
  <2>1. \A a, b, c, d \in Nat : (c > a /\ d = b) \/ (c = a /\ d > b) => c + d > a + b
    OBVIOUS
  <2> QED BY <1>0, <2>1
<1>2. ASSUME NEW s PROVE IssuedTo(s)' = 0
  <2> DEFINE T == SignedIn(s, newest)'
  <2>1. ASSUME NEW r \in T PROVE Volume(r) = None
    <3>1. r \in signed /\ r \in Reqs /\ ep[r] = newest' /\ life[r] = restarts'
      BY DEF SignedIn, IInv
    <3>2. life[r] <= restarts /\ (Volume(r) # None => ep[r] <= newest)
      BY <3>1 DEF LedgerInv, RequestsInv
    <3> QED BY <1>0, <3>1, <3>2, SMTT(30)
  <2>2. IssuedTo(s)' = VolumeOf(T)
    BY DEF IssuedTo
  <2> HIDE DEF T
  <2>3. VolumeOf(T) = VolumeOf({})
    BY <2>1, NoVolume
  <2> QED BY <2>2, <2>3, EmptyVolume
<1> QED BY <1>1, <1>2

\* Every other step leaves what was signed.
LEMMA SameCounts ==
  ASSUME IInv, UNCHANGED <<newest, restarts, signed>>,
         \A r \in signed : ep'[r] = ep[r] /\ life'[r] = life[r], NEW s
  PROVE  IssuedTo(s)' = IssuedTo(s)
<1>1. SignedIn(s, newest)' = SignedIn(s, newest)
  BY DEF SignedIn, Subject
<1> QED BY <1>1, Zenon DEF IssuedTo

\* The broker's envelope is a counter per entity and epoch: however many requests
\* reserve, are approved, refused or fail at once, and in whatever order, what is
\* signed for an entity grows within the limit and starts afresh with an epoch or a
\* run of brokerd.
THEOREM QuotaIsACounter == Spec => QuotaSpec
<1>1. Init => Quota!Init
  <2> SUFFICES ASSUME Init PROVE Quota!Init
    OBVIOUS
  <2>1. newest + restarts = 0 /\ \A s : SignedIn(s, newest) = {}
    BY DEF Init, SignedIn
  <2>2. \A s \in Subjects : VolumeOf(SignedIn(s, newest)) = 0
    BY <2>1, EmptyVolume
  <2>3. [s \in Subjects |-> VolumeOf(SignedIn(s, newest))] = [s \in Subjects |-> 0]
    BY <2>2
  <2> QED BY <2>1, <2>3 DEF Quota!Init
<1>2. /\ IInv /\ LedgerInv /\ SignedWithin' /\ [Next]_vars
      => [Quota!Next]_<<newest + restarts, Issued>>
  <2> SUFFICES ASSUME IInv, LedgerInv, SignedWithin', [Next]_vars
               PROVE  Quota!Next \/ UNCHANGED <<newest + restarts, Issued>>
    OBVIOUS
  <2>1. ASSUME UNCHANGED <<newest, restarts>>, \A s : IssuedTo(s)' = IssuedTo(s)
        PROVE  UNCHANGED <<newest + restarts, Issued>>
    BY <2>1 DEF Issued, Subjects, Subject
  <2>2. ASSUME newest' + restarts' > newest + restarts, \A s : IssuedTo(s)' = 0
        PROVE  Quota!Next
    <3>1. Issued' = [s \in Subjects |-> 0]
      BY <2>2 DEF Issued
    <3> QED BY <2>2, <3>1 DEF Quota!Next, Quota!NewEpoch, Issued, IssuedTo
  <2>3. ASSUME NEW r \in Reqs, Issue(r) PROVE Quota!Next
    <3> DEFINE s == Subject(r)
    <3>1. /\ UNCHANGED <<newest, restarts>> /\ IssuedTo(s)' \in IssuedTo(s)..Limit
          /\ \A t : t # s => IssuedTo(t)' = IssuedTo(t)
      BY <2>3, IssueCounts
    <3>2. s \in Subjects
      BY DEF Subjects
    <3>3. Issued'[s] \in Issued[s]..Limit /\ Issued' = [Issued EXCEPT ![s] = Issued'[s]]
      BY <3>1, <3>2 DEF Issued
    <3> HIDE DEF s
    <3> QED BY <3>1, <3>2, <3>3 DEF Quota!Next, Quota!Issue, Issued, IssuedTo
  <2>4. ASSUME NEW r \in Reqs, Receive(r) \/ Quorum(r) \/ Plan(r) \/ EvalEnvelope(r)
        PROVE  UNCHANGED <<newest + restarts, Issued>>
    <3>1. /\ UNCHANGED <<newest, restarts, signed>> /\ r \notin signed /\ signed \subseteq Reqs
          /\ \A q \in Reqs \ {r} : ep'[q] = ep[q] /\ life'[q] = life[q]
      BY <2>4 DEF Receive, Quorum, Plan, EvalEnvelope, ledger, lives, IInv, LedgerInv, LedgerType
    <3> QED BY <2>1, <3>1, SameCounts
  <2>5. ASSUME NEW r \in Reqs, Reserve(r) PROVE Quota!Next \/ UNCHANGED <<newest + restarts, Issued>>
    <3>1. UNCHANGED <<signed, ep, life, restarts>> /\ newest' \in {newest, Later(newest, ep[r])}
      BY <2>5 DEF Reserve, lives, ledger
    <3>2. newest \in Nat /\ restarts \in Nat /\ ep[r] \in Nat
      BY DEF LedgerInv, LedgerType
    <3>3. CASE newest' = newest
      BY <2>1, <3>1, <3>3, SameCounts
    <3>4. CASE newest' # newest
      <4>1. newest' \in Nat /\ newest' > newest
        BY <3>1, <3>2, <3>4, LaterOf, SMTT(30)
      <4> QED BY <2>2, <3>1, <3>2, <4>1, FreshCounts
    <3> QED BY <3>3, <3>4
  <2>6. ASSUME Restart PROVE Quota!Next
    <3>1. UNCHANGED <<signed, ep, life, newest>> /\ restarts' = restarts + 1
      BY <2>6 DEF Restart
    <3>2. newest \in Nat /\ restarts \in Nat
      BY DEF LedgerInv, LedgerType
    <3> QED BY <2>2, <3>1, <3>2, FreshCounts
  <2>7. ASSUME NewEpoch \/ Idle \/ UNCHANGED vars PROVE UNCHANGED <<newest + restarts, Issued>>
    <3>1. UNCHANGED <<newest, restarts, signed, ep, life>>
      BY <2>7 DEF NewEpoch, Idle, vars, ledger, lives
    <3> QED BY <2>1, <3>1, SameCounts
  <2> QED BY <2>3, <2>4, <2>5, <2>6, <2>7 DEF Next, Handle
<1> QED
  BY <1>1, <1>2, InitInv, StepKeepsInv, LedgerInit, LedgerStep, WithinLimit, PTL
  DEF Spec, QuotaSpec, Quota!Spec, Issued, IssuedTo
=============================================================================
