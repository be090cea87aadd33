---------------------------- MODULE ClusterProofs ---------------------------
(***************************************************************************)
(* Proofs about what callers and cells contend for: the admission queue in *)
(* front of OPA, for every number of slots, queue length, share and set of *)
(* requests; the authority of an epoch and the register of consumed        *)
(* proofs, for any number of cells, tokens and proofs, any delays, crashes *)
(* and any delivery.                                                       *)
(***************************************************************************)
EXTENDS OPAAdmission, EpochTracker, QuorumGate, FiniteSetTheorems, TLAPS

\* A leaf goes to Zenon first and, if that does not find it soon, to the SMT solver.
USE ZenonT(2), SMTT(30)

-----------------------------------------------------------------------------
(***************************************************************************)
(* The admission queue.  The counters are followed through the set H of    *)
(* the requests that hold a slot and the set Q of those that wait          *)
(* unanswered, and a pass of dispatchLocked through the best waiter it has *)
(* seen.                                                                   *)
(***************************************************************************)

(* Removing a waiter from a queue without repetition. *)

Distinct(q) == \A i, j \in 1..Len(q) : q[i] = q[j] => i = j
Elements(q) == {q[i] : i \in 1..Len(q)}

LEMMA Removed ==
  ASSUME NEW q \in Seq(Reqs), NEW i \in 1..Len(q)
  PROVE  /\ Without(q, i) \in Seq(Reqs) /\ Len(Without(q, i)) = Len(q) - 1
         /\ \A j \in 1..Len(q) - 1 : Without(q, i)[j] = IF j < i THEN q[j] ELSE q[j + 1]
<1>1. \A j \in 1..Len(q) - 1 : q[IF j < i THEN j ELSE j + 1] \in Reqs
  OBVIOUS
<1> QED
  BY <1>1 DEF Without

LEMMA RemovedSet ==
  ASSUME NEW q \in Seq(Reqs), Distinct(q), NEW i \in 1..Len(q)
  PROVE  Distinct(Without(q, i)) /\ Elements(Without(q, i)) = Elements(q) \ {q[i]}
<1> DEFINE d == Without(q, i)
<1>1. /\ Len(d) = Len(q) - 1 /\ Len(q) \in Nat
      /\ \A j \in 1..Len(q) - 1 : d[j] = IF j < i THEN q[j] ELSE q[j + 1]
  BY Removed
<1> HIDE DEF d
<1>2. Distinct(d)
  <2>1. ASSUME NEW a \in 1..Len(q) - 1, NEW b \in 1..Len(q) - 1, d[a] = d[b]
        PROVE  a = b
    <3>1. q[IF a < i THEN a ELSE a + 1] = q[IF b < i THEN b ELSE b + 1]
      BY <1>1, <2>1
    <3>2. (IF a < i THEN a ELSE a + 1) = (IF b < i THEN b ELSE b + 1)
      BY <1>1, <3>1, SMTT(30) DEF Distinct
    <3> QED
      BY <1>1, <3>2
  <2> QED
    BY <1>1, <2>1 DEF Distinct
<1>3. Elements(d) \subseteq Elements(q) \ {q[i]}
  BY <1>1, SMTT(30) DEF Distinct, Elements
<1>4. ASSUME NEW j \in 1..Len(q), j # i PROVE q[j] \in Elements(d)
  <2>1. CASE j < i
    BY <1>1, <2>1 DEF Elements
  <2>2. CASE j > i
    <3>1. j - 1 \in 1..Len(d) /\ d[j - 1] = q[j]
      BY <1>1, <2>2
    <3> QED
      BY <3>1 DEF Elements
  <2> QED
    BY <1>4, <2>1, <2>2
<1>5. Elements(q) \ {q[i]} \subseteq Elements(d)
  BY <1>4 DEF Elements
<1> QED
  BY <1>2, <1>3, <1>5 DEF d

LEMMA AppendedSet ==
  ASSUME NEW q \in Seq(Reqs), Distinct(q), NEW r \in Reqs, r \notin Elements(q)
  PROVE  /\ Distinct(Append(q, r)) /\ Elements(Append(q, r)) = Elements(q) \cup {r}
         /\ Append(q, r) \in Seq(Reqs)
<1> DEFINE d == Append(q, r)
<1>1. /\ d \in Seq(Reqs) /\ Len(d) = Len(q) + 1 /\ Len(q) \in Nat /\ d[Len(q) + 1] = r
      /\ \A j \in 1..Len(q) : d[j] = q[j]
  OBVIOUS
<1> HIDE DEF d
<1>2. Distinct(d)
  BY <1>1, SMTT(30) DEF Distinct, Elements
<1>3. Elements(d) = Elements(q) \cup {r}
  BY <1>1, SMTT(30) DEF Elements
<1> QED
  BY <1>1, <1>2, <1>3 DEF d

LEMMA QueueLength ==
  ASSUME NEW q \in Seq(Reqs), Distinct(q)
  PROVE  Len(q) = Cardinality(Elements(q))
<1>1. Len(q) \in Nat /\ IsFiniteSet(1..Len(q)) /\ Cardinality(1..Len(q)) = Len(q)
  <2>1. Len(q) \in Nat
    OBVIOUS
  <2> QED
    BY <2>1, FS_Interval
<1> DEFINE f == [i \in 1..Len(q) |-> q[i]]
<1>2. f \in Bijection(1..Len(q), Elements(q))
  BY DEF Bijection, Injection, Surjection, Distinct, Elements, IsInjective
<1> QED
  BY <1>1, <1>2, FS_Bijection, SMTT(30) DEF ExistsBijection

-----------------------------------------------------------------------------
(* The counters agree with the holders H and the waiters Q. *)

LEMMA CountAdd ==
  ASSUME NEW S \in SUBSET Reqs, NEW r \in Reqs \ S, NEW s
  PROVE  /\ Cardinality(S) \in Nat /\ Cardinality(S \cup {r}) = Cardinality(S) + 1
         /\ OfSubject(s, S) \in Nat
         /\ SubjectOf[r] = s => OfSubject(s, S \cup {r}) = OfSubject(s, S) + 1
         /\ SubjectOf[r] # s => OfSubject(s, S \cup {r}) = OfSubject(s, S)
<1> DEFINE T == {x \in S : SubjectOf[x] = s}
           U == {x \in S \cup {r} : SubjectOf[x] = s}
<1>1. IsFiniteSet(S) /\ IsFiniteSet(T)
  BY AdmissionAssumption, FS_Subset
<1>2. /\ SubjectOf[r] = s => U = T \cup {r} /\ r \notin T
      /\ SubjectOf[r] # s => U = T
  OBVIOUS
<1>3. OfSubject(s, S) = Cardinality(T) /\ OfSubject(s, S \cup {r}) = Cardinality(U)
  BY DEF OfSubject
<1> HIDE DEF T, U
<1>4. Cardinality(S) \in Nat /\ Cardinality(T) \in Nat
  BY <1>1, FS_CardinalityType
<1>5. Cardinality(S \cup {r}) = Cardinality(S) + 1
  BY <1>1, FS_AddElement
<1>6. r \notin T => Cardinality(T \cup {r}) = Cardinality(T) + 1
  BY <1>1, FS_AddElement, Zenon
<1> QED
  BY <1>2, <1>3, <1>4, <1>5, <1>6

Accounts(H, Q, n, run, per) ==
  /\ H \in SUBSET Reqs /\ Q \in SUBSET Reqs /\ H \cap Q = {}
  /\ run \in [Subjects -> Nat] /\ per \in [Subjects -> Nat]
  /\ n = Cardinality(H) /\ n <= MaxInflight
  /\ \A s \in Subjects :
       run[s] = OfSubject(s, H) /\ per[s] = OfSubject(s, H \cup Q) /\ per[s] <= SubjectCap

\* Adding to the count of one subject.
LEMMA AddAt ==
  ASSUME NEW f \in [Subjects -> Nat], NEW s \in Subjects, NEW n \in {-1, 1}, n = -1 => f[s] # 0
  PROVE  /\ Add(f, s, n) \in [Subjects -> Nat] /\ Add(f, s, n)[s] = f[s] + n
         /\ \A t \in Subjects : t # s => Add(f, s, n)[t] = f[t]
BY SMTT(30) DEF Add

\* One more holder or waiter.
LEMMA CountsAdd ==
  ASSUME NEW S \in SUBSET Reqs, NEW r \in Reqs \ S, NEW f \in [Subjects -> Nat],
         \A s \in Subjects : f[s] = OfSubject(s, S)
  PROVE  /\ Add(f, SubjectOf[r], 1) \in [Subjects -> Nat]
         /\ \A s \in Subjects : Add(f, SubjectOf[r], 1)[s] = OfSubject(s, S \cup {r})
<1>1. SubjectOf[r] \in Subjects
  BY AdmissionAssumption
<1>2. /\ Add(f, SubjectOf[r], 1) \in [Subjects -> Nat]
      /\ Add(f, SubjectOf[r], 1)[SubjectOf[r]] = f[SubjectOf[r]] + 1
      /\ \A t \in Subjects : t # SubjectOf[r] => Add(f, SubjectOf[r], 1)[t] = f[t]
  BY <1>1, AddAt, SMTT(30)
<1>3. ASSUME NEW s \in Subjects
      PROVE  /\ SubjectOf[r] = s => OfSubject(s, S \cup {r}) = f[s] + 1
             /\ SubjectOf[r] # s => OfSubject(s, S \cup {r}) = f[s]
  <2>1. /\ SubjectOf[r] = s => OfSubject(s, S \cup {r}) = OfSubject(s, S) + 1
        /\ SubjectOf[r] # s => OfSubject(s, S \cup {r}) = OfSubject(s, S)
    BY CountAdd, Zenon
  <2> QED
    BY <2>1
<1> QED
  BY <1>2, <1>3, Zenon

\* One less.
LEMMA CountsRemove ==
  ASSUME NEW S \in SUBSET Reqs, NEW r \in S, NEW f \in [Subjects -> Nat],
         \A s \in Subjects : f[s] = OfSubject(s, S)
  PROVE  /\ Add(f, SubjectOf[r], -1) \in [Subjects -> Nat]
         /\ \A s \in Subjects : Add(f, SubjectOf[r], -1)[s] = OfSubject(s, S \ {r})
         /\ \A s \in Subjects : Add(f, SubjectOf[r], -1)[s] <= f[s]
<1> DEFINE T == S \ {r}
<1>1. SubjectOf[r] \in Subjects
  BY AdmissionAssumption
<1>2. T \in SUBSET Reqs /\ r \in Reqs \ T /\ S = T \cup {r}
  OBVIOUS
<1> HIDE DEF T
<1>3. ASSUME NEW s \in Subjects
      PROVE  /\ OfSubject(s, T) \in Nat
             /\ SubjectOf[r] = s => f[s] = OfSubject(s, T) + 1
             /\ SubjectOf[r] # s => f[s] = OfSubject(s, T)
  <2>1. f[s] = OfSubject(s, T \cup {r})
    BY <1>2
  <2>2. /\ OfSubject(s, T) \in Nat
        /\ SubjectOf[r] = s => OfSubject(s, T \cup {r}) = OfSubject(s, T) + 1
        /\ SubjectOf[r] # s => OfSubject(s, T \cup {r}) = OfSubject(s, T)
    BY <1>2, CountAdd, ZenonT(40)
  <2> QED
    BY <2>1, <2>2
<1>4. f[SubjectOf[r]] # 0
  BY <1>1, <1>3
<1>5. /\ Add(f, SubjectOf[r], -1) \in [Subjects -> Nat]
      /\ Add(f, SubjectOf[r], -1)[SubjectOf[r]] = f[SubjectOf[r]] + (-1)
      /\ \A t \in Subjects : t # SubjectOf[r] => Add(f, SubjectOf[r], -1)[t] = f[t]
  BY <1>1, <1>4, AddAt
<1>6. \A s \in Subjects : Add(f, SubjectOf[r], -1)[s] = OfSubject(s, T) /\ Add(f, SubjectOf[r], -1)[s] <= f[s]
  BY <1>1, <1>3, <1>5
<1> QED
  BY <1>5, <1>6 DEF T

LEMMA SizeRemove ==
  ASSUME NEW S \in SUBSET Reqs, NEW r \in S
  PROVE  Cardinality(S) \in Nat /\ Cardinality(S \ {r}) = Cardinality(S) - 1
<1>1. IsFiniteSet(S)
  BY AdmissionAssumption, FS_Subset
<1> QED
  BY <1>1, FS_RemoveElement, FS_CardinalityType

\* acquire: a slot at once.
LEMMA AccountsEnter ==
  ASSUME NEW H, NEW Q, NEW n, NEW run, NEW per, Accounts(H, Q, n, run, per),
         NEW r \in Reqs, r \notin H \cup Q, per[SubjectOf[r]] < SubjectCap, n < MaxInflight
  PROVE  Accounts(H \cup {r}, Q, n + 1, Add(run, SubjectOf[r], 1), Add(per, SubjectOf[r], 1))
<1> DEFINE W == H \cup Q
<1>1. SubjectOf[r] \in Subjects /\ SubjectCap \in Int /\ MaxInflight \in Int
  BY AdmissionAssumption, SMTT(30) DEF SubjectCap
<1>2. /\ H \in SUBSET Reqs /\ W \in SUBSET Reqs /\ r \in Reqs \ H /\ r \in Reqs \ W
      /\ run \in [Subjects -> Nat] /\ per \in [Subjects -> Nat] /\ n = Cardinality(H)
      /\ \A s \in Subjects : run[s] = OfSubject(s, H)
      /\ \A s \in Subjects : per[s] = OfSubject(s, W)
      /\ \A s \in Subjects : per[s] <= SubjectCap
  BY DEF Accounts
<1>3. (H \cup {r}) \cup Q = W \cup {r}
  OBVIOUS
<1> HIDE DEF W
<1>4. n \in Nat /\ n + 1 = Cardinality(H \cup {r})
  BY <1>2, CountAdd
<1>5. /\ Add(run, SubjectOf[r], 1) \in [Subjects -> Nat]
      /\ \A s \in Subjects : Add(run, SubjectOf[r], 1)[s] = OfSubject(s, H \cup {r})
  BY <1>2, CountsAdd, Zenon
<1>6. /\ Add(per, SubjectOf[r], 1) \in [Subjects -> Nat]
      /\ \A s \in Subjects : Add(per, SubjectOf[r], 1)[s] = OfSubject(s, W \cup {r})
  BY <1>2, CountsAdd, Zenon
<1>7. \A s \in Subjects : Add(per, SubjectOf[r], 1)[s] <= SubjectCap
  <2>1. /\ Add(per, SubjectOf[r], 1)[SubjectOf[r]] = per[SubjectOf[r]] + 1
        /\ \A t \in Subjects : t # SubjectOf[r] => Add(per, SubjectOf[r], 1)[t] = per[t]
    BY <1>1, <1>2, AddAt, SMTT(30)
  <2> QED
    BY <1>1, <1>2, <2>1, SMTT(30)
<1>8. (H \cup {r}) \cap Q = {} /\ Q \in SUBSET Reqs
  BY DEF Accounts
<1>9. n + 1 <= MaxInflight
  BY <1>1, <1>4
<1> QED
  BY <1>2, <1>3, <1>4, <1>5, <1>6, <1>7, <1>8, <1>9, Zenon DEF Accounts

\* acquire: a place in the queue.
LEMMA AccountsWait ==
  ASSUME NEW H, NEW Q, NEW n, NEW run, NEW per, Accounts(H, Q, n, run, per),
         NEW r \in Reqs, r \notin H \cup Q, per[SubjectOf[r]] < SubjectCap
  PROVE  Accounts(H, Q \cup {r}, n, run, Add(per, SubjectOf[r], 1))
<1> DEFINE W == H \cup Q
<1>1. SubjectOf[r] \in Subjects /\ SubjectCap \in Int
  BY AdmissionAssumption, SMTT(30) DEF SubjectCap
<1>2. /\ W \in SUBSET Reqs /\ r \in Reqs \ W /\ per \in [Subjects -> Nat]
      /\ \A s \in Subjects : per[s] = OfSubject(s, W)
      /\ \A s \in Subjects : per[s] <= SubjectCap
  BY DEF Accounts
<1>3. H \cup (Q \cup {r}) = W \cup {r}
  OBVIOUS
<1> HIDE DEF W
<1>6. /\ Add(per, SubjectOf[r], 1) \in [Subjects -> Nat]
      /\ \A s \in Subjects : Add(per, SubjectOf[r], 1)[s] = OfSubject(s, W \cup {r})
  BY <1>2, CountsAdd, Zenon
<1>7. \A s \in Subjects : Add(per, SubjectOf[r], 1)[s] <= SubjectCap
  <2>1. /\ Add(per, SubjectOf[r], 1)[SubjectOf[r]] = per[SubjectOf[r]] + 1
        /\ \A t \in Subjects : t # SubjectOf[r] => Add(per, SubjectOf[r], 1)[t] = per[t]
    BY <1>1, <1>2, AddAt, SMTT(30)
  <2> QED
    BY <1>1, <1>2, <2>1, SMTT(30)
<1>8. H \cap (Q \cup {r}) = {} /\ Q \cup {r} \in SUBSET Reqs
  BY DEF Accounts
<1> QED
  BY <1>3, <1>6, <1>7, <1>8, Zenon DEF Accounts

\* dispatchLocked: a waiter gets a slot.
LEMMA AccountsGrant ==
  ASSUME NEW H, NEW Q, NEW n, NEW run, NEW per, Accounts(H, Q, n, run, per),
         NEW r \in Q, n < MaxInflight
  PROVE  Accounts(H \cup {r}, Q \ {r}, n + 1, Add(run, SubjectOf[r], 1), per)
<1>1. MaxInflight \in Int
  BY AdmissionAssumption, SMTT(30)
<1>2. /\ H \in SUBSET Reqs /\ r \in Reqs \ H /\ run \in [Subjects -> Nat] /\ n = Cardinality(H)
      /\ \A s \in Subjects : run[s] = OfSubject(s, H)
  BY DEF Accounts
<1>3. (H \cup {r}) \cup (Q \ {r}) = H \cup Q
  OBVIOUS
<1>4. n \in Nat /\ n + 1 = Cardinality(H \cup {r})
  BY <1>2, CountAdd
<1>5. /\ Add(run, SubjectOf[r], 1) \in [Subjects -> Nat]
      /\ \A s \in Subjects : Add(run, SubjectOf[r], 1)[s] = OfSubject(s, H \cup {r})
  BY <1>2, CountsAdd, Zenon
<1>6. (H \cup {r}) \cap (Q \ {r}) = {} /\ Q \ {r} \in SUBSET Reqs
  BY DEF Accounts
<1>7. n + 1 <= MaxInflight
  BY <1>1, <1>4
<1> QED
  BY <1>2, <1>3, <1>4, <1>5, <1>6, <1>7, Zenon DEF Accounts

\* A waiter gives up or is refused.
LEMMA AccountsLeave ==
  ASSUME NEW H, NEW Q, NEW n, NEW run, NEW per, Accounts(H, Q, n, run, per), NEW r \in Q
  PROVE  Accounts(H, Q \ {r}, n, run, Add(per, SubjectOf[r], -1))
<1> DEFINE W == H \cup Q
<1>1. SubjectCap \in Int
  BY AdmissionAssumption, SMTT(30) DEF SubjectCap
<1>2. /\ W \in SUBSET Reqs /\ r \in W /\ per \in [Subjects -> Nat]
      /\ \A s \in Subjects : per[s] = OfSubject(s, W)
      /\ \A s \in Subjects : per[s] <= SubjectCap
  BY DEF Accounts
<1>3. H \cup (Q \ {r}) = W \ {r}
  BY DEF Accounts
<1> HIDE DEF W
<1>4. /\ Add(per, SubjectOf[r], -1) \in [Subjects -> Nat]
      /\ \A s \in Subjects : Add(per, SubjectOf[r], -1)[s] = OfSubject(s, W \ {r})
      /\ \A s \in Subjects : Add(per, SubjectOf[r], -1)[s] <= per[s]
  BY <1>2, CountsRemove, Zenon
<1>5. \A s \in Subjects : Add(per, SubjectOf[r], -1)[s] <= SubjectCap
  BY <1>1, <1>2, <1>4, SMTT(30)
<1>6. H \cap (Q \ {r}) = {} /\ Q \ {r} \in SUBSET Reqs
  BY DEF Accounts
<1> QED
  BY <1>3, <1>4, <1>5, <1>6, Zenon DEF Accounts

\* releaser.
LEMMA AccountsRelease ==
  ASSUME NEW H, NEW Q, NEW n, NEW run, NEW per, Accounts(H, Q, n, run, per), NEW r \in H
  PROVE  Accounts(H \ {r}, Q, n - 1, Add(run, SubjectOf[r], -1), Add(per, SubjectOf[r], -1))
<1> DEFINE W == H \cup Q
<1>1. SubjectCap \in Int /\ MaxInflight \in Int
  BY AdmissionAssumption, SMTT(30) DEF SubjectCap
<1>2. /\ H \in SUBSET Reqs /\ W \in SUBSET Reqs /\ r \in W /\ n = Cardinality(H) /\ n <= MaxInflight
      /\ run \in [Subjects -> Nat] /\ per \in [Subjects -> Nat]
      /\ \A s \in Subjects : run[s] = OfSubject(s, H)
      /\ \A s \in Subjects : per[s] = OfSubject(s, W)
      /\ \A s \in Subjects : per[s] <= SubjectCap
  BY DEF Accounts
<1>3. (H \ {r}) \cup Q = W \ {r}
  BY DEF Accounts
<1> HIDE DEF W
<1>4. /\ Add(per, SubjectOf[r], -1) \in [Subjects -> Nat]
      /\ \A s \in Subjects : Add(per, SubjectOf[r], -1)[s] = OfSubject(s, W \ {r})
      /\ \A s \in Subjects : Add(per, SubjectOf[r], -1)[s] <= per[s]
  BY <1>2, CountsRemove, Zenon
<1>5. /\ Add(run, SubjectOf[r], -1) \in [Subjects -> Nat]
      /\ \A s \in Subjects : Add(run, SubjectOf[r], -1)[s] = OfSubject(s, H \ {r})
  BY <1>2, CountsRemove, Zenon
<1>6. \A s \in Subjects : Add(per, SubjectOf[r], -1)[s] <= SubjectCap
  BY <1>1, <1>2, <1>4, SMTT(30)
<1>7. n \in Nat /\ Cardinality(H \ {r}) = n - 1 /\ n - 1 <= MaxInflight
  BY <1>1, <1>2, SizeRemove, SMTT(30)
<1>8. (H \ {r}) \cap Q = {} /\ H \ {r} \in SUBSET Reqs /\ Q \in SUBSET Reqs
  BY DEF Accounts
<1> QED
  BY <1>3, <1>4, <1>5, <1>6, <1>7, <1>8, Zenon DEF Accounts

-----------------------------------------------------------------------------
Phases == {"new", "waiting", "serving", "abandoning", "dispatching", "done"}
Unanswered == {r \in Reqs : phase[r] = "waiting" /\ channel[r] = "empty"}

AdmType ==
  /\ phase \in [Reqs -> Phases] /\ channel \in [Reqs -> {"empty", "yes", "no"}]
  /\ queue \in Seq(Reqs) /\ inflight \in Nat
  /\ mutex \in Reqs \cup {Nobody} /\ scan \in [seen : Nat, best : Nat]

\* The best of the waiters examined so far; no pass is going on outside of
\* dispatchLocked or when no slot is free.
ScanState ==
  /\ scan.seen <= Len(queue)
  /\ IF scan.seen = 0 THEN scan = NewPass
     ELSE /\ scan.best \in 1..scan.seen
          /\ \A i \in 1..scan.seen :
               running[SubjectOf[queue[scan.best]]] <= running[SubjectOf[queue[i]]]
  /\ mutex = Nobody \/ inflight = MaxInflight => scan = NewPass

AdmInv ==
  /\ AdmType
  /\ \A r \in Reqs : phase[r] = "new" => channel[r] = "empty"
  /\ mutex # Nobody => phase[mutex] = "dispatching"
  /\ Distinct(queue) /\ Elements(queue) = Unanswered
  /\ Accounts(Holders, Unanswered, inflight, running, perSubject)
  /\ ScanState
  /\ WorkConserving

\* What an action that leaves the queue, the counters and the mutex alone must keep.
LEMMA QuietStep ==
  ASSUME AdmInv, phase' \in [Reqs -> Phases], channel' \in [Reqs -> {"empty", "yes", "no"}],
         \A r \in Reqs : phase'[r] = "new" => channel'[r] = "empty",
         Holders' = Holders, Unanswered' = Unanswered,
         UNCHANGED <<slots, mutex, scan>>, mutex # Nobody => phase'[mutex] = "dispatching"
  PROVE  AdmInv'
<1>1. /\ AdmType' /\ (mutex' # Nobody => phase'[mutex'] = "dispatching")
      /\ Distinct(queue') /\ Elements(queue') = Unanswered'
  BY DEF AdmInv, AdmType, slots
<1>2. Accounts(Holders', Unanswered', inflight', running', perSubject')
  BY Zenon DEF AdmInv, slots
<1>3. ScanState' /\ WorkConserving'
  BY DEF AdmInv, ScanState, WorkConserving, slots, NewPass
<1> QED
  BY <1>1, <1>2, <1>3, Zenon DEF AdmInv

LEMMA AcquireStep ==
  ASSUME AdmInv, NEW r \in Reqs, Acquire(r)
  PROVE  AdmInv'
<1> USE DEF AdmInv
<1>1. /\ phase[r] = "new" /\ mutex = Nobody /\ channel[r] = "empty" /\ scan = NewPass
      /\ r \notin Holders /\ r \notin Unanswered /\ r \notin Elements(queue)
  BY DEF Acquire, Holders, Unanswered, ScanState
<1>2. CASE Shed(r)
  <2>1. phase' = [phase EXCEPT ![r] = "done"] /\ channel' = channel /\ UNCHANGED <<slots, mutex, scan>>
    BY <1>2 DEF Shed
  <2>2. phase' \in [Reqs -> Phases] /\ \A q \in Reqs : phase'[q] = "new" => channel'[q] = "empty"
    BY <2>1 DEF AdmType, Phases
  <2>3. Holders' = Holders /\ Unanswered' = Unanswered
    BY <1>1, <2>1 DEF Holders, Unanswered, AdmType
  <2> QED
    BY <1>1, <2>1, <2>2, <2>3, QuietStep DEF AdmType
<1>3. CASE /\ ~Overloaded(r) /\ inflight < MaxInflight /\ queue = <<>>
           /\ perSubject' = Add(perSubject, SubjectOf[r], 1)
           /\ inflight' = inflight + 1
           /\ running' = Add(running, SubjectOf[r], 1)
           /\ phase' = [phase EXCEPT ![r] = "serving"]
           /\ UNCHANGED <<queue, channel, late, over, mutex, scan>>
  <2>1. /\ AdmType' /\ \A q \in Reqs : phase'[q] = "new" => channel'[q] = "empty"
    BY <1>3, SMTT(30) DEF AdmType, Phases
  <2>2. Holders' = Holders \cup {r} /\ Unanswered' = Unanswered
    BY <1>1, <1>3, SMTT(30) DEF Holders, Unanswered, AdmType
  <2>3. perSubject[SubjectOf[r]] < SubjectCap
    <3>1. perSubject[SubjectOf[r]] \in Nat /\ SubjectCap \in Int
      BY AdmissionAssumption, SMTT(30) DEF Accounts, SubjectCap
    <3> QED
      BY <1>3, <3>1, SMTT(30) DEF Overloaded
  <2>4. Accounts(Holders', Unanswered', inflight', running', perSubject')
    BY <1>1, <1>3, <2>2, <2>3, AccountsEnter, Zenon
  <2>5. ScanState' /\ WorkConserving'
    BY <1>1, <1>3 DEF ScanState, WorkConserving, NewPass
  <2> QED
    BY <1>1, <1>3, <2>1, <2>2, <2>4, <2>5
<1>4. CASE /\ ~Overloaded(r) /\ ~(inflight < MaxInflight /\ queue = <<>>)
           /\ perSubject' = Add(perSubject, SubjectOf[r], 1)
           /\ queue' = Append(queue, r)
           /\ phase' = [phase EXCEPT ![r] = "waiting"]
           /\ UNCHANGED <<inflight, running, channel, late, over, mutex, scan>>
  <2>1. Distinct(queue') /\ Elements(queue') = Elements(queue) \cup {r} /\ queue' \in Seq(Reqs)
    BY <1>1, <1>4, AppendedSet DEF AdmType
  <2>2. /\ AdmType' /\ \A q \in Reqs : phase'[q] = "new" => channel'[q] = "empty"
    BY <1>4, <2>1 DEF AdmType, Phases
  <2>3. Holders' = Holders /\ Unanswered' = Unanswered \cup {r}
    BY <1>1, <1>4 DEF Holders, Unanswered, AdmType
  <2>4. perSubject[SubjectOf[r]] < SubjectCap
    <3>1. perSubject[SubjectOf[r]] \in Nat /\ SubjectCap \in Int
      BY AdmissionAssumption, SMTT(30) DEF Accounts, SubjectCap
    <3> QED
      BY <1>4, <3>1 DEF Overloaded
  <2>5. Accounts(Holders', Unanswered', inflight', running', perSubject')
    BY <1>1, <1>4, <2>3, <2>4, AccountsWait, Zenon
  <2>6. ScanState'
    BY <1>1, <1>4, <2>1 DEF ScanState, NewPass
  <2>7. WorkConserving'
    BY <1>1, <1>4, AdmissionAssumption, SMTT(30) DEF WorkConserving, AdmType, Accounts
  <2> QED
    BY <1>1, <1>4, <2>1, <2>2, <2>3, <2>5, <2>6, <2>7
<1> QED
  BY <1>2, <1>3, <1>4 DEF Acquire

LEMMA AnsweredStep ==
  ASSUME AdmInv, NEW r \in Reqs, Answered(r)
  PROVE  AdmInv'
<1> USE DEF AdmInv
<1>1. /\ phase[r] = "waiting" /\ channel[r] \in {"yes", "no"} /\ channel' = channel
      /\ phase' = [phase EXCEPT ![r] = IF channel[r] = "yes" THEN "serving" ELSE "done"]
      /\ UNCHANGED <<slots, mutex, scan>>
  BY DEF Answered, AdmType
<1>2. phase' \in [Reqs -> Phases] /\ \A q \in Reqs : phase'[q] = "new" => channel'[q] = "empty"
  BY <1>1 DEF AdmType, Phases
<1>3. Holders' = Holders /\ Unanswered' = Unanswered
  BY <1>1 DEF Holders, Unanswered, AdmType
<1>4. mutex # Nobody => phase'[mutex] = "dispatching"
  BY <1>1 DEF AdmType
<1> QED
  BY <1>1, <1>2, <1>3, <1>4, QuietStep DEF AdmType

LEMMA GiveUpStep ==
  ASSUME AdmInv, NEW r \in Reqs, GiveUp(r)
  PROVE  AdmInv'
<1> USE DEF AdmInv
<1>1. phase[r] = "waiting" /\ mutex = Nobody /\ scan = NewPass
  BY DEF GiveUp, ScanState
<1>2. CASE channel[r] # "empty"
  <2>1. /\ \/ channel[r] = "yes" /\ phase' = [phase EXCEPT ![r] = "abandoning"]
           \/ channel[r] = "no" /\ phase' = [phase EXCEPT ![r] = "done"]
        /\ channel' = channel /\ UNCHANGED <<slots, mutex, scan>>
    BY <1>2 DEF GiveUp, slots
  <2>2. phase' \in [Reqs -> Phases] /\ \A q \in Reqs : phase'[q] = "new" => channel'[q] = "empty"
    BY <2>1 DEF AdmType, Phases
  <2>3. Holders' = Holders /\ Unanswered' = Unanswered
    BY <1>1, <2>1, SMTT(30) DEF Holders, Unanswered, AdmType
  <2> QED
    BY <1>1, <2>1, <2>2, <2>3, QuietStep DEF AdmType
<1>3. CASE channel[r] = "empty"
  <2>1. PICK i \in 1..Len(queue) : queue[i] = r /\ queue' = Without(queue, i)
    BY <1>3 DEF GiveUp
  <2>2. /\ perSubject' = Add(perSubject, SubjectOf[r], -1)
        /\ phase' = [phase EXCEPT ![r] = "done"]
        /\ UNCHANGED <<inflight, running, channel, late, over, mutex, scan>>
    BY <1>3 DEF GiveUp
  <2>3. /\ Distinct(queue') /\ Elements(queue') = Elements(queue) \ {r}
    BY <2>1, RemovedSet DEF AdmType
  <2>4. queue' \in Seq(Reqs) /\ Len(queue') = Len(queue) - 1
    BY <2>1, Removed DEF AdmType
  <2>5. AdmType' /\ \A q \in Reqs : phase'[q] = "new" => channel'[q] = "empty"
    BY <2>2, <2>4 DEF AdmType, Phases
  <2>6. Holders' = Holders /\ Unanswered' = Unanswered \ {r} /\ r \in Unanswered
    BY <1>1, <1>3, <2>2 DEF Holders, Unanswered, AdmType
  <2>7. Accounts(Holders', Unanswered', inflight', running', perSubject')
    BY <2>2, <2>6, AccountsLeave, Zenon
  <2>8. ScanState' /\ WorkConserving'
    BY <1>1, <2>1, <2>2, <2>4, SMTT(30) DEF ScanState, WorkConserving, NewPass, AdmType
  <2> QED
    BY <1>1, <2>2, <2>3, <2>5, <2>6, <2>7, <2>8
<1> QED
  BY <1>2, <1>3

LEMMA ReleaseStep ==
  ASSUME AdmInv, NEW r \in Reqs, Release(r)
  PROVE  AdmInv'
<1> USE DEF AdmInv
<1>1. /\ phase[r] \in {"serving", "abandoning"} /\ mutex = Nobody /\ mutex' = r /\ scan' = NewPass
      /\ inflight' = inflight - 1 /\ running' = Add(running, SubjectOf[r], -1)
      /\ perSubject' = Add(perSubject, SubjectOf[r], -1)
      /\ phase' = [phase EXCEPT ![r] = "dispatching"]
      /\ UNCHANGED <<queue, channel, late, over>> /\ r # Nobody
  BY AdmissionAssumption DEF Release
<1>2. Holders' = Holders \ {r} /\ r \in Holders /\ Unanswered' = Unanswered
  BY <1>1 DEF Holders, Unanswered, AdmType
<1>3. Accounts(Holders', Unanswered', inflight', running', perSubject')
  BY <1>1, <1>2, AccountsRelease
<1>4. inflight' \in Nat
  <2>1. inflight = Cardinality(Holders) /\ Cardinality(Holders) \in Nat
        /\ inflight' = Cardinality(Holders \ {r}) /\ Holders \ {r} \in SUBSET Reqs
    BY <1>1, <1>2, <1>3, SizeRemove DEF Accounts
  <2> QED
    BY <2>1, AdmissionAssumption, FS_Subset, FS_CardinalityType
<1>5. AdmType' /\ (mutex' # Nobody => phase'[mutex'] = "dispatching")
      /\ \A q \in Reqs : phase'[q] = "new" => channel'[q] = "empty"
  BY <1>1, <1>4 DEF AdmType, Phases, NewPass
<1>6. ScanState' /\ WorkConserving'
  BY <1>1 DEF ScanState, WorkConserving, NewPass, AdmType
<1> QED
  BY <1>1, <1>2, <1>3, <1>5, <1>6

LEMMA ExamineStep ==
  ASSUME AdmInv, NEW r \in Reqs, Examine(r)
  PROVE  AdmInv'
<1> USE DEF AdmInv
<1> DEFINE n == scan.seen + 1
           w == queue[n]
<1>1. /\ mutex = r /\ inflight < MaxInflight /\ n <= Len(queue)
      /\ UNCHANGED <<phase, inflight, running, late, over, mutex>> /\ r # Nobody
  BY AdmissionAssumption DEF Examine
<1>2. n \in 1..Len(queue) /\ w \in Reqs /\ w \in Unanswered
  BY <1>1, SMTT(30) DEF AdmType, Elements
<1>3. CASE /\ queue' = Without(queue, n)
           /\ perSubject' = Add(perSubject, SubjectOf[w], -1)
           /\ channel' = [channel EXCEPT ![w] = "no"]
           /\ scan' = scan
  <2>1. Distinct(queue') /\ Elements(queue') = Elements(queue) \ {w}
    BY <1>2, <1>3, RemovedSet DEF AdmType
  <2>2. /\ queue' \in Seq(Reqs) /\ Len(queue') = Len(queue) - 1
        /\ \A j \in 1..Len(queue) - 1 : queue'[j] = IF j < n THEN queue[j] ELSE queue[j + 1]
    <3>1. queue \in Seq(Reqs)
      BY DEF AdmType
    <3> HIDE DEF n, AdmInv
    <3> QED
      BY <1>2, <1>3, <3>1, Removed, Zenon
  <2>3. AdmType' /\ \A q \in Reqs : phase'[q] = "new" => channel'[q] = "empty"
    BY <1>1, <1>2, <1>3, <2>2 DEF AdmType, Unanswered
  <2>4. Holders' = Holders /\ Unanswered' = Unanswered \ {w}
    BY <1>1, <1>2, <1>3 DEF Holders, Unanswered, AdmType
  <2>5. Accounts(Holders', Unanswered', inflight', running', perSubject')
    BY <1>1, <1>2, <1>3, <2>4, AccountsLeave, Zenon
  <2>6. \A j \in 1..scan.seen : queue'[j] = queue[j]
    <3>1. scan.seen \in Nat /\ Len(queue) \in Nat
      BY SMTT(30) DEF AdmType
    <3>2. \A j \in 1..scan.seen : j \in 1..Len(queue) - 1 /\ j < n
      BY <1>2, <3>1, SMTT(30)
    <3> QED
      BY <2>2, <3>2
  <2>7. ScanState' /\ WorkConserving'
    BY <1>1, <1>2, <1>3, <2>2, <2>6, SMTT(30) DEF ScanState, WorkConserving, NewPass, AdmType
  <2> QED
    BY <1>1, <2>1, <2>3, <2>4, <2>5, <2>7
<1>4. CASE /\ scan' = [seen |-> n, best |-> IF Prefer(w, scan.best) THEN n ELSE scan.best]
           /\ UNCHANGED <<queue, perSubject, channel>>
  <2>1. AdmType' /\ Holders' = Holders /\ Unanswered' = Unanswered
    BY <1>1, <1>2, <1>4, SMTT(30) DEF AdmType, Holders, Unanswered
  <2>2. running \in [Subjects -> Nat] /\ \A i \in 1..Len(queue) : running[SubjectOf[queue[i]]] \in Nat
    BY AdmissionAssumption, SMTT(30) DEF AdmType, Accounts
  <2>3. ScanState'
    <3>1. scan'.seen = n /\ scan'.best \in 1..n /\ scan.seen \in Nat /\ scan.best \in Nat
      <4>1. scan.seen \in Nat /\ scan.best \in Nat
        BY DEF AdmType
      <4>2. scan'.seen = n /\ scan'.best = IF Prefer(w, scan.best) THEN n ELSE scan.best
        BY <1>4
      <4>3. Prefer(w, scan.best) \/ scan.best \in 1..scan.seen
        BY DEF ScanState, NewPass, Prefer
      <4> QED
        BY <4>1, <4>2, <4>3
    <3>2. \A i \in 1..n : running[SubjectOf[queue[scan'.best]]] <= running[SubjectOf[queue[i]]]
      <4>1. CASE scan.seen = 0
        BY <1>2, <2>2, <3>1, <4>1
      <4>2. CASE scan.seen # 0
        <5> DEFINE Load(i) == running[SubjectOf[queue[i]]]
        <5>1. scan.best \in 1..scan.seen /\ \A i \in 1..scan.seen : Load(scan.best) <= Load(i)
          BY <4>2 DEF ScanState
        <5>2. \/ scan'.best = n /\ Load(n) < Load(scan.best)
              \/ scan'.best = scan.best /\ ~(Load(n) < Load(scan.best))
          BY <1>4, <3>1, <4>2, <5>1, SMTT(30) DEF Prefer
        <5>3. \A i \in 1..n : i = n \/ i \in 1..scan.seen
          BY <3>1, SMTT(30)
        <5>4. \A i \in 1..n : Load(i) \in Nat
          BY <1>2, <2>2, SMTT(30)
        <5>5. n \in 1..n /\ scan.best \in 1..n
          BY <3>1, <5>1
        <5> HIDE DEF Load, n
        <5>6. \A i \in 1..n : Load(scan'.best) <= Load(i)
          BY <5>1, <5>2, <5>3, <5>4, <5>5, SMTT(30)
        <5> QED
          BY <5>6 DEF Load
      <4> QED
        BY <4>1, <4>2, Zenon
    <3>3. inflight \in Nat /\ MaxInflight \in Nat
      BY AdmissionAssumption DEF AdmType
    <3>4. n \in Nat /\ n # 0 /\ n <= Len(queue) /\ queue' = queue /\ running' = running
          /\ ~(mutex' = Nobody \/ inflight' = MaxInflight)
      BY <1>1, <1>4, <3>1, <3>3
    <3> HIDE DEF n, AdmInv
    <3> QED
      BY <3>1, <3>2, <3>4 DEF ScanState
  <2>4. WorkConserving'
    BY <1>1 DEF WorkConserving
  <2> QED
    BY <1>1, <1>4, <2>1, <2>3, <2>4
<1> QED
  BY <1>3, <1>4 DEF Examine

LEMMA GrantStep ==
  ASSUME AdmInv, NEW r \in Reqs, Grant(r)
  PROVE  AdmInv'
<1> USE DEF AdmInv
<1> DEFINE n == scan.best
           w == queue[n]
<1>1. /\ mutex = r /\ inflight < MaxInflight /\ scan.seen = Len(queue) /\ n # 0
      /\ queue' = Without(queue, n) /\ channel' = [channel EXCEPT ![w] = "yes"]
      /\ inflight' = inflight + 1 /\ running' = Add(running, SubjectOf[w], 1)
      /\ scan' = NewPass
      /\ UNCHANGED <<phase, perSubject, late, over, mutex>> /\ r # Nobody
  BY AdmissionAssumption DEF Grant
<1>2. n \in 1..Len(queue) /\ w \in Unanswered /\ w \in Reqs
  <2>1. n \in 1..Len(queue)
    BY <1>1 DEF ScanState, NewPass
  <2> QED
    BY <2>1, SMTT(30) DEF AdmType, Elements
<1>3. Distinct(queue') /\ Elements(queue') = Elements(queue) \ {w}
  BY <1>1, <1>2, RemovedSet DEF AdmType
<1>4. queue' \in Seq(Reqs) /\ Len(queue') = Len(queue) - 1 /\ Len(queue) \in Nat
  BY <1>1, <1>2, Removed DEF AdmType
<1>5. AdmType' /\ \A q \in Reqs : phase'[q] = "new" => channel'[q] = "empty"
  BY <1>1, <1>2, <1>4, SMTT(30) DEF AdmType, Unanswered, NewPass
<1>6. Holders' = Holders \cup {w} /\ Unanswered' = Unanswered \ {w}
  BY <1>1, <1>2, SMTT(30) DEF Holders, Unanswered, AdmType
<1>7. Accounts(Holders', Unanswered', inflight', running', perSubject')
  BY <1>1, <1>2, <1>6, AccountsGrant, Zenon
<1>8. ScanState' /\ WorkConserving'
  BY <1>1, <1>2, <1>4 DEF ScanState, WorkConserving, NewPass
<1> QED
  BY <1>1, <1>3, <1>5, <1>6, <1>7, <1>8

LEMMA EndStep ==
  ASSUME AdmInv, NEW r \in Reqs, NobodyWaits(r) \/ Full(r)
  PROVE  AdmInv'
<1> USE DEF AdmInv
<1>1. /\ mutex = r /\ phase[r] = "dispatching" /\ phase' = [phase EXCEPT ![r] = "done"]
      /\ mutex' = Nobody /\ UNCHANGED <<slots, scan, channel>>
  BY AdmissionAssumption, Zenon DEF NobodyWaits, Full, EndDispatch
<1>2. scan = NewPass /\ (queue # <<>> => inflight = MaxInflight)
  <2>1. CASE NobodyWaits(r)
    BY <2>1, SMTT(30) DEF NobodyWaits, ScanState, NewPass, AdmType
  <2>2. CASE Full(r)
    BY <2>2, AdmissionAssumption, SMTT(30) DEF Full, ScanState, AdmType, Accounts
  <2> QED
    BY <2>1, <2>2
<1>3. AdmType' /\ \A q \in Reqs : phase'[q] = "new" => channel'[q] = "empty"
  BY <1>1 DEF AdmType, Phases, slots
<1>4. Holders' = Holders /\ Unanswered' = Unanswered
  BY <1>1 DEF Holders, Unanswered, AdmType
<1>5. Accounts(Holders', Unanswered', inflight', running', perSubject')
  BY <1>1, <1>4, Zenon DEF slots
<1>6. ScanState' /\ WorkConserving'
  BY <1>1, <1>2 DEF ScanState, WorkConserving, NewPass, slots
<1> QED
  BY <1>1, <1>3, <1>4, <1>5, <1>6, Zenon DEF slots

LEMMA OutsideStep ==
  ASSUME AdmInv, NEW r \in Reqs, BecomeLate(r) \/ ContextEnds(r) \/ Again(r)
  PROVE  AdmInv'
<1> USE DEF AdmInv
<1>1. CASE Again(r)
  <2>1. /\ phase[r] = "done" /\ phase' = [phase EXCEPT ![r] = "new"]
        /\ channel' = [channel EXCEPT ![r] = "empty"] /\ UNCHANGED <<slots, mutex, scan>>
    BY <1>1 DEF Again
  <2>2. /\ phase' \in [Reqs -> Phases] /\ channel' \in [Reqs -> {"empty", "yes", "no"}]
        /\ \A q \in Reqs : phase'[q] = "new" => channel'[q] = "empty"
        /\ (mutex # Nobody => phase'[mutex] = "dispatching")
    BY <2>1 DEF AdmType, Phases
  <2>3. Holders' = Holders /\ Unanswered' = Unanswered
    BY <2>1 DEF Holders, Unanswered, AdmType
  <2> QED
    BY <2>1, <2>2, <2>3, QuietStep
<1>2. CASE BecomeLate(r) \/ ContextEnds(r)
  <2>1. phase' = phase /\ channel' = channel /\ UNCHANGED <<slots, mutex, scan>>
    BY <1>2, Zenon DEF BecomeLate, ContextEnds
  <2>2. Holders' = Holders /\ Unanswered' = Unanswered
    BY <2>1 DEF Holders, Unanswered
  <2> QED
    BY <2>1, <2>2, QuietStep DEF AdmType
<1> QED
  BY <1>1, <1>2, Zenon

LEMMA AdmInvariance == AdmSpec => []AdmInv
<1>1. AdmInit => AdmInv
  <2> SUFFICES ASSUME AdmInit PROVE AdmInv
    OBVIOUS
  <2>1. AdmType /\ Distinct(queue) /\ ScanState /\ WorkConserving /\ mutex = Nobody
        /\ \A r \in Reqs : phase[r] = "new" => channel[r] = "empty"
    BY AdmissionAssumption, SMTT(30) DEF AdmInit, AdmType, Phases, NewPass, Distinct, ScanState, WorkConserving
  <2>2. Elements(queue) = {} /\ Unanswered = {} /\ Holders = {}
    BY DEF AdmInit, Elements, Unanswered, Holders
  <2>3. Accounts({}, {}, inflight, running, perSubject)
    <3>1. \A s \in Subjects : OfSubject(s, {}) = 0
      <4>1. ASSUME NEW s \in Subjects PROVE {r \in {} : SubjectOf[r] = s} = {}
        OBVIOUS
      <4> QED
        BY <4>1, FS_EmptySet DEF OfSubject
    <3>2. Cardinality({}) = 0
      BY FS_EmptySet
    <3>3. SubjectCap \in Nat /\ MaxInflight \in Nat
      BY AdmissionAssumption, SMTT(30) DEF SubjectCap
    <3> QED
      BY <3>1, <3>2, <3>3 DEF Accounts, AdmInit
  <2> QED
    BY <2>1, <2>2, <2>3 DEF AdmInv
<1>2. AdmInv /\ [AdmNext]_admVars => AdmInv'
  <2> SUFFICES ASSUME AdmInv, [AdmNext]_admVars PROVE AdmInv'
    OBVIOUS
  <2>1. CASE UNCHANGED admVars
    <3>1. phase' = phase /\ channel' = channel /\ UNCHANGED <<slots, mutex, scan>>
      BY <2>1 DEF admVars
    <3>2. Holders' = Holders /\ Unanswered' = Unanswered
      BY <3>1 DEF Holders, Unanswered
    <3> QED
      BY <3>1, <3>2, QuietStep DEF AdmInv, AdmType
  <2> QED
    BY <2>1, AcquireStep, AnsweredStep, GiveUpStep, ReleaseStep, ExamineStep, GrantStep, EndStep,
       OutsideStep DEF AdmNext, Step, Dispatch
<1> QED
  BY <1>1, <1>2, PTL DEF AdmSpec

\* In every behaviour of the queue of pep/opa_admission.go, outside of
\* dispatchLocked, a request waits only when all slots are taken.
THEOREM NobodyWaitsBesideAFreeSlot == AdmSpec => []WorkConserving
BY AdmInvariance, PTL DEF AdmInv

\* No slot is lost or counted twice, whatever grant races the end of whatever
\* context: the counters of acquire, releaser and dispatchLocked are those of
\* the requests that hold a slot or wait.
THEOREM NoSlotIsLost == AdmSpec => []SlotsAccounted
<1>1. ASSUME AdmInv PROVE SlotsAccounted
  <2>1. InQueue = Elements(queue)
    BY DEF InQueue, Elements
  <2>2. Len(queue) = Cardinality(InQueue)
    BY <1>1, <2>1, QueueLength DEF AdmInv, AdmType
  <2> QED
    BY <1>1, <2>1, <2>2, Zenon DEF AdmInv, SlotsAccounted, Accounts, Unanswered
<1>2. AdmInv => SlotsAccounted
  BY <1>1
<1> QED
  BY <1>2, AdmInvariance, PTL

\* A grant of dispatchLocked never passes over a waiter whose subject has fewer
\* requests in flight.
THEOREM ServiceIsFair == AdmSpec => FairService
<1> DEFINE Fair == \A r \in Reqs : channel[r] = "empty" /\ channel'[r] = "yes" =>
                     \A i \in 1..Len(queue') :
                       running[SubjectOf[r]] <= running[SubjectOf[queue'[i]]]
<1>1. ASSUME AdmInv, NEW p \in Reqs, Grant(p) PROVE Fair
  <2> DEFINE n == scan.best
  <2>1. /\ scan.seen = Len(queue) /\ n # 0 /\ queue' = Without(queue, n)
        /\ channel' = [channel EXCEPT ![queue[n]] = "yes"]
    BY <1>1 DEF Grant
  <2>2. /\ n \in 1..Len(queue)
        /\ \A i \in 1..Len(queue) : running[SubjectOf[queue[n]]] <= running[SubjectOf[queue[i]]]
    BY <1>1, <2>1 DEF AdmInv, ScanState, NewPass
  <2>3. Elements(queue') \subseteq Elements(queue)
    BY <1>1, <2>1, <2>2, RemovedSet DEF AdmInv, AdmType
  <2>4. \A r \in Reqs : channel[r] = "empty" /\ channel'[r] = "yes" => r = queue[n]
    BY <1>1, <2>1 DEF AdmInv, AdmType
  <2>5. \A x \in Elements(queue) : running[SubjectOf[queue[n]]] <= running[SubjectOf[x]]
    BY <2>2 DEF Elements
  <2>6. \A i \in 1..Len(queue') : queue'[i] \in Elements(queue)
    BY <2>3, Zenon DEF Elements
  <2> QED
    BY <2>4, <2>5, <2>6
<1>2. ASSUME AdmInv, NEW p \in Reqs,
             Acquire(p) \/ Answered(p) \/ GiveUp(p) \/ Release(p) \/ Examine(p) \/ NobodyWaits(p)
             \/ Full(p) \/ BecomeLate(p) \/ ContextEnds(p) \/ Again(p)
      PROVE  Fair
  <2>1. \A r \in Reqs : channel'[r] \in {channel[r], "no", "empty"}
    <3>1. CASE Examine(p)
      BY <1>2, <3>1, Zenon DEF Examine, AdmInv, AdmType
    <3>2. CASE Again(p)
      BY <1>2, <3>2 DEF Again, AdmInv, AdmType
    <3>3. CASE ~Examine(p) /\ ~Again(p)
      BY <1>2, <3>3 DEF Acquire, Shed, Answered, GiveUp, Release, NobodyWaits, Full, BecomeLate, ContextEnds
    <3> QED
      BY <3>1, <3>2, <3>3
  <2> QED
    BY <2>1
<1>3. ASSUME AdmInv, [AdmNext]_admVars PROVE [Fair]_admVars
  BY <1>1, <1>2, <1>3, Zenon DEF AdmNext, Step, Dispatch
<1>4. AdmInv /\ [AdmNext]_admVars => [Fair]_admVars
  BY <1>3
<1> QED
  BY <1>4, AdmInvariance, PTL DEF AdmSpec, FairService

-----------------------------------------------------------------------------
(***************************************************************************)
(* The epochs.  SingleAuthority is not inductive: notBefore only looks at  *)
(* the token that is being replaced.  The strengthening says that every    *)
(* lease a cell has applied and left is over, or over by the time its own  *)
(* takes effect.                                                           *)
(***************************************************************************)

\* Every applied token is the current one or of an earlier epoch.
Ordered ==
  \A c \in Cells : \A k \in known[c] :
    /\ current[c] # NoEpoch
    /\ k.tok = current[c] \/ k.tok.n < current[c].n

\* Every lease the cell left is over when its own takes effect.
Fenced ==
  \A c \in Cells : \A k \in known[c] :
    k.tok # current[c] => Expires(k.tok) <= notBefore[c] \/ Expires(k.tok) <= clock

\* Every revocation the cell applied is in its quarantine.
Sticky == \A c \in Cells : \A k \in known[c] : Revoked(k.tok) \subseteq quarantined[c]

BInv == TypeOK /\ Ordered /\ Sticky
IInv == BInv /\ Fenced

-----------------------------------------------------------------------------
(* One switch, for any cell and token. *)

LEMMA SwitchKeepsTypes ==
  ASSUME TypeOK, NEW c \in Cells, NEW t \in Tokens, AcceptSwitch(c, t)
  PROVE  TypeOK'
<1>1. Revoked(t) \in SUBSET Cells
  BY DEF Revoked
<1>2. EffectiveFrom(c, t) \in Nat
  BY ConstantsAssumption, SMTT(30) DEF TypeOK, EffectiveFrom, Expires
<1>3. Applied(t) \in [tok : Tokens, at : Nat]
  BY DEF TypeOK, Applied
<1> QED
  BY <1>1, <1>2, <1>3 DEF TypeOK, AcceptSwitch, Switch

LEMMA SwitchKeepsOrder ==
  ASSUME TypeOK, Ordered, NEW c \in Cells, NEW t \in Tokens, AcceptSwitch(c, t)
  PROVE  Ordered'
<1> SUFFICES ASSUME NEW d \in Cells, NEW k \in known'[d]
             PROVE  current'[d] # NoEpoch /\ (k.tok = current'[d] \/ k.tok.n < current'[d].n)
  BY DEF Ordered
<1>1. CASE d # c
  BY <1>1 DEF TypeOK, Ordered, AcceptSwitch, Switch
<1>2. CASE d = c
  <2>1. current'[c] = t /\ known'[c] = known[c] \cup {Applied(t)}
    BY DEF TypeOK, AcceptSwitch, Switch
  <2>2. CASE k = Applied(t)
    BY <1>2, <2>1, <2>2, ConstantsAssumption DEF Applied
  <2>3. CASE k \in known[c]
    <3>1. current[c] # NoEpoch /\ (k.tok = current[c] \/ k.tok.n < current[c].n)
      BY <2>3 DEF Ordered
    <3>2. t.n > current[c].n
      BY <3>1 DEF AcceptSwitch, Advances
    <3>3. k.tok \in Tokens /\ current[c] \in Tokens
      BY <2>3, <3>1, SMTT(30) DEF TypeOK
    <3> QED
      BY <1>2, <2>1, <3>1, <3>2, <3>3, ConstantsAssumption, SMTT(30)
  <2> QED
    BY <1>2, <2>1, <2>2, <2>3
<1> QED
  BY <1>1, <1>2

LEMMA SwitchKeepsFence ==
  ASSUME MonotoneExpiry, TypeOK, Ordered, Fenced,
         NEW c \in Cells, NEW t \in Tokens, AcceptSwitch(c, t)
  PROVE  Fenced'
<1> SUFFICES ASSUME NEW d \in Cells, NEW k \in known'[d], k.tok # current'[d]
             PROVE  Expires(k.tok) <= notBefore'[d] \/ Expires(k.tok) <= clock'
  BY DEF Fenced
<1>0. clock' = clock
  BY DEF AcceptSwitch
<1>1. CASE d # c
  BY <1>0, <1>1 DEF TypeOK, Fenced, AcceptSwitch, Switch
<1>2. CASE d = c
  <2>1. /\ current'[c] = t /\ known'[c] = known[c] \cup {Applied(t)}
        /\ notBefore'[c] = EffectiveFrom(c, t)
    BY DEF TypeOK, AcceptSwitch, Switch
  <2>2. k \in known[c]
    BY <1>2, <2>1, SMTT(30) DEF Applied
  <2>3. /\ current[c] # NoEpoch /\ current[c] \in Tokens /\ k.tok \in Tokens
        /\ k.tok = current[c] \/ k.tok.n < current[c].n
    BY <2>2, SMTT(30) DEF TypeOK, Ordered
  <2>4. Expires(k.tok) <= Expires(current[c])
    BY <2>3, ConstantsAssumption, SMTT(30) DEF MonotoneExpiry, Expires
  <2>5. Expires(current[c]) <= EffectiveFrom(c, t) \/ Expires(current[c]) <= clock
    BY <2>3, ConstantsAssumption, SMTT(30) DEF TypeOK, EffectiveFrom, Expires
  <2>6. Expires(k.tok) \in Nat /\ Expires(current[c]) \in Nat /\ EffectiveFrom(c, t) \in Nat
    BY <2>3, ConstantsAssumption, SMTT(30) DEF TypeOK, EffectiveFrom, Expires
  <2> QED
    BY <1>0, <1>2, <2>1, <2>4, <2>5, <2>6, SMTT(30) DEF TypeOK
<1> QED
  BY <1>1, <1>2

LEMMA SwitchKeepsQuarantine ==
  ASSUME TypeOK, Sticky, NEW c \in Cells, NEW t \in Tokens, AcceptSwitch(c, t)
  PROVE  Sticky'
<1> SUFFICES ASSUME NEW d \in Cells, NEW k \in known'[d]
             PROVE  Revoked(k.tok) \subseteq quarantined'[d]
  BY DEF Sticky
<1>1. CASE d # c
  BY <1>1 DEF TypeOK, Sticky, AcceptSwitch, Switch
<1>2. CASE d = c
  <2>1. /\ known'[c] = known[c] \cup {Applied(t)}
        /\ quarantined'[c] = quarantined[c] \cup Revoked(t)
    BY DEF TypeOK, AcceptSwitch, Switch
  <2>2. CASE k = Applied(t)
    BY <1>2, <2>1, <2>2 DEF Applied
  <2>3. CASE k \in known[c]
    BY <1>2, <2>1, <2>3 DEF Sticky
  <2> QED
    BY <1>2, <2>1, <2>2, <2>3
<1> QED
  BY <1>1, <1>2

-----------------------------------------------------------------------------
(* The inductive invariant. *)

LEMMA InitIInv == Init => IInv
BY SMTT(30) DEF Init, IInv, BInv, TypeOK, Ordered, Fenced, Sticky

\* What a crash leaves of the cells' memories.
LEMMA CrashEffect ==
  ASSUME TypeOK, NEW c \in Cells, Crash(c)
  PROVE  /\ TypeOK'
         /\ known'[c] = {} /\ clock' = clock
         /\ \A d \in Cells : d # c => /\ known'[d] = known[d] /\ current'[d] = current[d]
                                      /\ notBefore'[d] = notBefore[d]
                                      /\ quarantined'[d] = quarantined[d]
BY DEF TypeOK, Crash

\* Every step is a switch, a crash, a tick, or leaves this state alone.
LEMMA StepKinds ==
  ASSUME [Next]_vars
  PROVE  \/ \E c \in Cells, t \in Tokens : AcceptSwitch(c, t)
         \/ \E c \in Cells : Crash(c)
         \/ Tick
         \/ UNCHANGED <<clock, current, notBefore, quarantined, known>>
BY ConstantsAssumption, Zenon
   DEF Next, Boot, Renew, Accept, AcceptNothing, AcceptOverBudget, AcceptBadRoster, vars, memory

LEMMA NextBInv ==
  ASSUME BInv, [Next]_vars
  PROVE  BInv'
<1>1. ASSUME NEW c \in Cells, NEW t \in Tokens, AcceptSwitch(c, t)
      PROVE  BInv'
  BY <1>1, SwitchKeepsTypes, SwitchKeepsOrder, SwitchKeepsQuarantine DEF BInv
<1>2. ASSUME NEW c \in Cells, Crash(c)
      PROVE  BInv'
  BY <1>2, CrashEffect, SMTT(30) DEF BInv, Ordered, Sticky
<1>3. ASSUME Tick
      PROVE  BInv'
  BY <1>3, SMTT(30) DEF Tick, memory, BInv, TypeOK, Ordered, Sticky
<1>4. ASSUME UNCHANGED <<clock, current, notBefore, quarantined, known>>
      PROVE  BInv'
  BY <1>4 DEF BInv, TypeOK, Ordered, Sticky
<1> QED
  BY <1>1, <1>2, <1>3, <1>4, StepKinds

LEMMA NextFenced ==
  ASSUME MonotoneExpiry, IInv, [Next]_vars
  PROVE  Fenced'
<1>1. ASSUME NEW c \in Cells, NEW t \in Tokens, AcceptSwitch(c, t)
      PROVE  Fenced'
  BY <1>1, SwitchKeepsFence DEF IInv, BInv
<1>2. ASSUME NEW c \in Cells, Crash(c)
      PROVE  Fenced'
  BY <1>2, CrashEffect DEF IInv, BInv, Fenced
<1>3. ASSUME Tick
      PROVE  Fenced'
  <2>1. /\ UNCHANGED <<current, notBefore, quarantined, known>>
        /\ clock' = clock + 1 /\ clock \in Nat
    BY <1>3 DEF Tick, memory, IInv, BInv, TypeOK
  <2>2. \A c \in Cells : \A k \in known[c] : Expires(k.tok) \in Nat
    BY ConstantsAssumption, SMTT(30) DEF IInv, BInv, TypeOK, Expires
  <2> QED
    BY <2>1, <2>2 DEF IInv, Fenced
<1>4. ASSUME UNCHANGED <<clock, current, notBefore, quarantined, known>>
      PROVE  Fenced'
  BY <1>4 DEF IInv, Fenced
<1> QED
  BY <1>1, <1>2, <1>3, <1>4, StepKinds

LEMMA BasicInvariance == Spec => []BInv
<1>1. Init => BInv
  BY InitIInv DEF IInv
<1>2. BInv /\ [Next]_vars => BInv'
  BY NextBInv
<1> QED
  BY <1>1, <1>2, PTL DEF Spec

LEMMA Invariance ==
  ASSUME MonotoneExpiry
  PROVE  Spec => []IInv
<1>1. IInv /\ [Next]_vars => IInv'
  BY NextBInv, NextFenced DEF IInv
<1> QED
  BY <1>1, InitIInv, PTL DEF Spec

-----------------------------------------------------------------------------

\* No window of double authority between informed cells: as long as later
\* epochs never end before earlier ones, a cell never serves together with the
\* holder of a lease it has applied since its start, whatever the order,
\* loss and repetition of tokens and whatever the crashes (Accept, notBefore).
THEOREM InformedSingleAuthority ==
  ASSUME MonotoneExpiry
  PROVE  Spec => []SingleAuthority
<1>1. IInv => SingleAuthority
  <2> SUFFICES ASSUME IInv, NEW c \in Cells, NEW d \in Cells, Serving(c), Serving(d),
                      NEW k \in known[d], k.tok = current[c]
               PROVE  c = d
    BY DEF SingleAuthority
  <2>1. CASE k.tok = current[d]
    BY <2>1 DEF Serving
  <2>2. CASE k.tok # current[d]
    <3>1. Expires(current[c]) <= notBefore[d] \/ Expires(current[c]) <= clock
      BY <2>2 DEF IInv, Fenced
    <3>2. notBefore[d] <= clock /\ clock < Expires(current[c])
      BY DEF Serving
    <3>3. clock \in Nat /\ notBefore[d] \in Nat /\ Expires(current[c]) \in Nat
      BY ConstantsAssumption, SMTT(30) DEF IInv, BInv, TypeOK, Serving, Expires
    <3> QED
      BY <3>1, <3>2, <3>3
  <2> QED
    BY <2>1, <2>2
<1> QED
  BY <1>1, Invariance, PTL

\* The current token is the highest epoch applied since the start, and no
\* second token of the same epoch is ever applied (Accept, regression and
\* equivocation refusals).
THEOREM EpochsNeverRegress == Spec => []HighestEpochRules
<1>1. BInv => HighestEpochRules
  BY DEF BInv, Ordered, HighestEpochRules
<1> QED
  BY <1>1, BasicInvariance, PTL

\* A cell that applied a roster without itself never serves again before a
\* restart (Accept's quarantine, CurrentEpoch).
THEOREM RevokedCellsStaySilent == Spec => []RevocationSticks
<1>1. BInv => RevocationSticks
  BY DEF BInv, Sticky, RevocationSticks, Serving
<1> QED
  BY <1>1, BasicInvariance, PTL

-----------------------------------------------------------------------------
(***************************************************************************)
(* The register of consumed proofs is a one-shot memory, for any proofs    *)
(* that expire on whole seconds and any register size.  The invariant ties *)
(* the register to the consumptions: what was consumed and has not expired *)
(* is kept in memory and on disk.                                          *)
(***************************************************************************)

GateIInv == GateTypeOK /\ MemoryIsDisk /\ ValidNeverEvicted /\ AdmissionsProved

\* Whole seconds lose nothing in the conversion: what looks expired in seconds
\* has expired.
LEMMA UnixIsExact ==
  ASSUME NEW e \in Nat, NEW c \in Nat, e % Second = 0, Unix(e) <= Unix(c)
  PROVE  e <= c
<1>1. Second \in Nat /\ Second > 0
  BY GateAssumption
<1> DEFINE q == e \div Second
           r == c \div Second
<1>2. q \in Int /\ r \in Int /\ q <= r
  BY <1>1 DEF Unix
<1>3. e = Second * q
  BY <1>1
<1>4. c >= Second * r
  BY <1>1
<1>5. Second * q <= Second * r
  <2> HIDE DEF q, r
  <2> QED
    BY <1>1, <1>2
<1>6. Second * q \in Int /\ Second * r \in Int
  BY <1>1, <1>2, SMTT(30)
<1> QED
  BY <1>3, <1>4, <1>5, <1>6

\* The statement of a proof keeps its expiry.
LEMMA StatementTypes ==
  /\ \A p \in Proofs : Statement(p) \in Statements /\ Statement(p).exp = p.exp
  /\ \A s \in Statements : s.exp \in Nat
BY GateAssumption, SMTT(30) DEF Statements, Statement

\* A purge only drops statements whose proof VerifyClassW refuses already.
LEMMA PurgeIsSafe ==
  ASSUME WholeSeconds, GateTypeOK, NEW s \in entries, gateClock < s.exp
  PROVE  s \in Kept
<1>1. s \in Statements /\ s.exp \in Nat /\ gateClock \in Nat /\ s.exp % Second = 0
  BY StatementTypes DEF GateTypeOK, WholeSeconds
<1>2. ~Purgeable(s)
  <2> SUFFICES ASSUME Unix(s.exp) <= Unix(gateClock) PROVE FALSE
    BY DEF Purgeable
  <2>1. s.exp <= gateClock
    BY <1>1, UnixIsExact
  <2> QED
    BY <1>1, <2>1
<1> QED
  BY <1>2 DEF Kept

\* What a successful write of the register preserves.
LEMMA PersistKeeps ==
  ASSUME WholeSeconds, GateIInv, NEW s \in Statements, Persist(s)
  PROVE  /\ entries' \subseteq Statements /\ disk' = entries' /\ s \in entries'
         /\ \A u \in Statements : consumed[u] > 0 /\ gateClock < u.exp => u \in entries'
<1>1. \A u \in Statements : consumed[u] > 0 /\ gateClock < u.exp => u \in Kept
  BY PurgeIsSafe DEF GateIInv, ValidNeverEvicted
<1> QED
  BY <1>1 DEF Persist, Kept, GateIInv, GateTypeOK

-----------------------------------------------------------------------------

LEMMA GateInitIInv == GateInit => GateIInv
<1> SUFFICES ASSUME GateInit PROVE GateIInv
  OBVIOUS
<1>1. GateTypeOK
  BY DEF GateInit, GateTypeOK
<1>2. MemoryIsDisk /\ ValidNeverEvicted /\ AdmissionsProved
  BY DEF GateInit, MemoryIsDisk, ValidNeverEvicted, AdmissionsProved
<1> QED
  BY <1>1, <1>2 DEF GateIInv

LEMMA AdmitKeeps ==
  ASSUME WholeSeconds, GateIInv, NEW p \in Proofs, NEW action, NEW ep, Admit(p, action, ep)
  PROVE  GateIInv'
<1> DEFINE s == Statement(p)
<1>0. s \in Statements
  BY StatementTypes
<1>1. /\ Persist(s) /\ gateClock' = gateClock
      /\ consumed' = [consumed EXCEPT ![s] = @ + 1]
      /\ \/ /\ gateLeaves' = [gateLeaves EXCEPT ![s] = @ + 1]
            /\ admitted' = [admitted EXCEPT ![s] = @ + 1]
         \/ gateLeaves' = gateLeaves /\ admitted' = admitted
  BY DEF Admit
<1> HIDE DEF s
<1>2. /\ entries' \subseteq Statements /\ disk' = entries' /\ s \in entries'
      /\ \A u \in Statements : consumed[u] > 0 /\ gateClock < u.exp => u \in entries'
  BY <1>0, <1>1, PersistKeeps
<1>3. GateTypeOK'
  BY <1>0, <1>1, <1>2, SMTT(30) DEF GateIInv, GateTypeOK
<1>4. MemoryIsDisk'
  BY <1>2 DEF MemoryIsDisk
<1>5. ValidNeverEvicted'
  BY <1>0, <1>1, <1>2 DEF ValidNeverEvicted, GateIInv, GateTypeOK
<1>6. AdmissionsProved'
  BY <1>0, <1>1 DEF AdmissionsProved, GateIInv, GateTypeOK
<1> QED
  BY <1>3, <1>4, <1>5, <1>6 DEF GateIInv

LEMMA GateNextIInv ==
  ASSUME WholeSeconds, GateIInv, [GateNext]_gateVars
  PROVE  GateIInv'
<1>1. ASSUME NEW p \in Proofs, NEW action, NEW ep, Admit(p, action, ep)
      PROVE  GateIInv'
  BY <1>1, AdmitKeeps
<1>2. ASSUME NEW p \in Proofs, NEW action, NEW ep, CrashInConsume(p, action, ep)
      PROVE  GateIInv'
  <2>1. /\ Statement(p) \in Statements /\ Persist(Statement(p))
        /\ UNCHANGED <<gateClock, consumed, gateLeaves, admitted>>
    BY <1>2, StatementTypes DEF CrashInConsume
  <2>2. /\ entries' \subseteq Statements /\ disk' = entries'
        /\ \A u \in Statements : consumed[u] > 0 /\ gateClock < u.exp => u \in entries'
    BY <2>1, PersistKeeps
  <2> QED
    BY <2>1, <2>2 DEF GateIInv, GateTypeOK, MemoryIsDisk, ValidNeverEvicted, AdmissionsProved
<1>3. ASSUME GateCrash
      PROVE  GateIInv'
  BY <1>3 DEF GateCrash, GateIInv, GateTypeOK, MemoryIsDisk, ValidNeverEvicted, AdmissionsProved
<1>4. ASSUME GateTick
      PROVE  GateIInv'
  <2>1. /\ gateClock \in Nat /\ gateClock' = gateClock + 1
        /\ UNCHANGED <<entries, disk, consumed, gateLeaves, admitted>>
    BY <1>4 DEF GateTick, GateIInv, GateTypeOK
  <2>2. ValidNeverEvicted'
    BY <2>1, StatementTypes, SMTT(30) DEF GateIInv, ValidNeverEvicted
  <2> QED
    BY <2>1, <2>2 DEF GateIInv, GateTypeOK, MemoryIsDisk, AdmissionsProved
<1>5. ASSUME UNCHANGED <<gateClock, entries, disk, consumed, gateLeaves, admitted>>
      PROVE  GateIInv'
  BY <1>5 DEF GateIInv, GateTypeOK, MemoryIsDisk, ValidNeverEvicted, AdmissionsProved
<1> QED
  BY <1>1, <1>2, <1>3, <1>4, <1>5
     DEF GateNext, VerifyClassW, Refuse, Unavailable, ConsumeFails, NewEpoch, gateVars

LEMMA GateInvariance ==
  ASSUME WholeSeconds
  PROVE  GateSpec => []GateIInv
<1>1. GateIInv /\ [GateNext]_gateVars => GateIInv'
  BY GateNextIInv
<1> QED
  BY <1>1, GateInitIInv, PTL DEF GateSpec

-----------------------------------------------------------------------------

\* "Jamais d'eviction d'une preuve encore valide": holds through purges,
\* crashes and failed writes when expiries are whole seconds (Consume).
THEOREM ValidProofsAreKept ==
  ASSUME WholeSeconds
  PROVE  GateSpec => []ValidNeverEvicted
BY GateInvariance, PTL DEF GateIInv

\* Every admission is consumed and has its leaf (VerifyClassW).
THEOREM AdmissionsAreProved ==
  ASSUME WholeSeconds
  PROVE  GateSpec => []AdmissionsProved
BY GateInvariance, PTL DEF GateIInv

\* The gate and its register implement the one-shot memory: one proof, one
\* authorisation, across restarts (VerifyClassW, Consume).
THEOREM RegisterIsOneShot ==
  ASSUME WholeSeconds
  PROVE  GateSpec => OneAuthorisationPerProof
<1>1. GateInit => Memory!Init
  BY DEF GateInit, Memory!Init
<1>2. ASSUME GateIInv, [GateNext]_gateVars
      PROVE  [Memory!Next]_(Memory!vars)
  <2>1. ASSUME NEW p \in Proofs, NEW action, NEW ep, Admit(p, action, ep)
        PROVE  Memory!Next
    <3>1. /\ Statement(p) \in Statements
          /\ gateClock < p.exp /\ p.exp \in Nat /\ Statement(p).exp = p.exp
          /\ Statement(p) \notin entries
      BY <2>1, StatementTypes, GateAssumption DEF Admit, Valid, Timely, Room
    <3>2. consumed[Statement(p)] = 0
      BY <1>2, <3>1, SMTT(30) DEF GateIInv, GateTypeOK, ValidNeverEvicted
    <3>3. Memory!Accept(Statement(p))
      BY <2>1, <3>1, <3>2 DEF Admit, Memory!Accept
    <3> QED
      BY <3>1, <3>3 DEF Memory!Next
  <2>2. ASSUME GateTick
        PROVE  Memory!Next
    BY <1>2, <2>2 DEF GateTick, Memory!Next, Memory!Tick, GateIInv, GateTypeOK
  <2>3. ASSUME UNCHANGED <<gateClock, consumed>>
        PROVE  UNCHANGED Memory!vars
    BY <2>3 DEF Memory!vars
  <2> QED
    BY <1>2, <2>1, <2>2, <2>3
       DEF GateNext, VerifyClassW, Refuse, Unavailable, CrashInConsume, GateCrash, NewEpoch, gateVars
<1> QED
  BY <1>1, <1>2, GateInvariance, PTL DEF GateSpec, OneAuthorisationPerProof, Memory!Spec
=============================================================================
