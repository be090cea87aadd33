---------------------------- MODULE OPAAdmission ----------------------------
(***************************************************************************)
(* The bounded queue in front of OPA (pep/opa_admission.go).  Each request *)
(* is a goroutine that calls acquire and, once it holds a slot, serves and *)
(* releases.  A waiter sleeps on its grant channel and on its context.     *)
(*                                                                         *)
(* Time is what the code asks of it: a request becomes "late" when less    *)
(* than MinService of its budget remains, and its context ends when the    *)
(* budget is spent (it is late then) or when the caller cancels.           *)
(*                                                                         *)
(* The mutex is held through dispatchLocked; its loops are one step per    *)
(* waiter examined, and deadlines may pass between two of them.            *)
(***************************************************************************)
EXTENDS Integers, Sequences, FiniteSets

CONSTANTS Reqs, Subjects, SubjectOf,
          MaxInflight, MaxQueue, SubjectShare,
          Nobody             \* the mutex is free

ASSUME AdmissionAssumption ==
  /\ MaxInflight \in Nat \ {0} /\ MaxQueue \in Nat
  /\ SubjectShare \in 1..100
  /\ IsFiniteSet(Reqs) /\ SubjectOf \in [Reqs -> Subjects]
  /\ Nobody \notin Reqs

VARIABLES
  phase,      \* [Reqs -> PC]
  queue,      \* waiters, oldest first
  inflight,
  perSubject, \* in flight and waiting, by subject
  running,    \* in flight, by subject
  channel,    \* [Reqs -> {"empty", "yes", "no"}]: w.granted, filled once (w.done)
  late, over, \* sets of requests
  mutex,      \* who is in dispatchLocked, or Nobody
  scan        \* dispatchLocked: waiters examined, position of the best or 0

slots == <<queue, inflight, perSubject, running>>
admVars == <<phase, slots, channel, late, over, mutex, scan>>

\* newAdmission: the share rounded up.
SubjectCap == ((MaxInflight + MaxQueue) * SubjectShare + 99) \div 100

-----------------------------------------------------------------------------
Add(f, s, n) == [f EXCEPT ![s] = @ + n]
InQueue == {queue[i] : i \in 1..Len(queue)}
Without(q, i) == [j \in 1..(Len(q) - 1) |-> q[IF j < i THEN j ELSE j + 1]]
NewPass == [seen |-> 0, best |-> 0]

\* acquire, first critical section.
Shed(r) ==
  /\ phase' = [phase EXCEPT ![r] = "done"]
  /\ UNCHANGED <<slots, channel, late, over, mutex, scan>>

Overloaded(r) ==
  \/ perSubject[SubjectOf[r]] >= SubjectCap
  \/ /\ ~(inflight < MaxInflight /\ queue = <<>>)
     /\ Len(queue) >= MaxQueue

Acquire_Barging(r) ==
  /\ phase[r] = "new" /\ mutex = Nobody
  /\ perSubject[SubjectOf[r]] < SubjectCap
  /\ Len(queue) < MaxQueue
  /\ phase' = [phase EXCEPT ![r] = "waiting"]
  /\ queue' = Append(queue, r)
  /\ perSubject' = Add(perSubject, SubjectOf[r], 1)
  /\ UNCHANGED <<inflight, running, channel, late, over, mutex, scan>>

Acquire(r) ==
  /\ phase[r] = "new" /\ mutex = Nobody
  /\ \/ Overloaded(r) /\ Shed(r)
     \/ /\ ~Overloaded(r)
        /\ perSubject' = Add(perSubject, SubjectOf[r], 1)
        /\ \/ /\ inflight < MaxInflight /\ queue = <<>>
              /\ inflight' = inflight + 1
              /\ running' = Add(running, SubjectOf[r], 1)
              /\ phase' = [phase EXCEPT ![r] = "serving"]
              /\ UNCHANGED queue
           \/ /\ ~(inflight < MaxInflight /\ queue = <<>>)
              /\ queue' = Append(queue, r)
              /\ phase' = [phase EXCEPT ![r] = "waiting"]
              /\ UNCHANGED <<inflight, running>>
        /\ UNCHANGED <<channel, late, over, mutex, scan>>

\* The waiter reads its channel.
Answered(r) ==
  /\ phase[r] = "waiting" /\ channel[r] # "empty"
  /\ phase' = [phase EXCEPT ![r] = IF channel[r] = "yes" THEN "serving" ELSE "done"]
  /\ UNCHANGED <<slots, channel, late, over, mutex, scan>>

\* The waiter's context ends: it leaves the queue or, when it was answered in
\* the meantime, gives the slot back (releaser, a critical section of its own).
GiveUp_Forgets(r) ==
  /\ phase[r] = "waiting" /\ r \in over /\ mutex = Nobody
  /\ \/ /\ channel[r] = "empty"
        /\ \E i \in 1..Len(queue) : queue[i] = r /\ queue' = Without(queue, i)
        /\ perSubject' = Add(perSubject, SubjectOf[r], -1)
     \/ channel[r] # "empty" /\ UNCHANGED <<queue, perSubject>>
  /\ phase' = [phase EXCEPT ![r] = "done"]
  /\ UNCHANGED <<inflight, running, channel, late, over, mutex, scan>>

GiveUp(r) ==
  /\ phase[r] = "waiting" /\ r \in over /\ mutex = Nobody
  /\ \/ /\ channel[r] = "empty"
        /\ \E i \in 1..Len(queue) : queue[i] = r /\ queue' = Without(queue, i)
        /\ perSubject' = Add(perSubject, SubjectOf[r], -1)
        /\ phase' = [phase EXCEPT ![r] = "done"]
     \/ /\ channel[r] = "yes"
        /\ phase' = [phase EXCEPT ![r] = "abandoning"]
        /\ UNCHANGED <<queue, perSubject>>
     \/ /\ channel[r] = "no"
        /\ phase' = [phase EXCEPT ![r] = "done"]
        /\ UNCHANGED <<queue, perSubject>>
  /\ UNCHANGED <<inflight, running, channel, late, over, mutex, scan>>

\* releaser: frees the slot and enters dispatchLocked.  The request has been
\* sent to OPA when it was serving.
Release(r) ==
  /\ phase[r] \in {"serving", "abandoning"} /\ mutex = Nobody
  /\ inflight' = inflight - 1
  /\ running' = Add(running, SubjectOf[r], -1)
  /\ perSubject' = Add(perSubject, SubjectOf[r], -1)
  /\ phase' = [phase EXCEPT ![r] = "dispatching"]
  /\ mutex' = r /\ scan' = NewPass
  /\ UNCHANGED <<queue, channel, late, over>>

\* dispatchLocked, while a slot is free: each waiter of the queue is examined, the
\* clock read anew for each.  One that is late leaves with "no"; among the others the
\* first one whose subject has the fewest requests in flight is the best so far.
Prefer_Oldest(w, best) == best = 0

Prefer(w, best) == best = 0 \/ running[SubjectOf[w]] < running[SubjectOf[queue[best]]]

Examine(r) ==
  LET n == scan.seen + 1
      w == queue[n]
  IN /\ mutex = r /\ inflight < MaxInflight
     /\ n <= Len(queue)
     /\ \/ /\ w \in late
           /\ queue' = Without(queue, n)
           /\ perSubject' = Add(perSubject, SubjectOf[w], -1)
           /\ channel' = [channel EXCEPT ![w] = "no"]
           /\ UNCHANGED scan
        \/ /\ w \notin late
           /\ scan' = [seen |-> n, best |-> IF Prefer(w, scan.best) THEN n ELSE scan.best]
           /\ UNCHANGED <<queue, perSubject, channel>>
     /\ UNCHANGED <<phase, inflight, running, late, over, mutex>>

EndDispatch(r) ==
  /\ phase' = [phase EXCEPT ![r] = "done"]
  /\ mutex' = Nobody

\* The pass ends: the best waiter gets the slot and another pass starts, or nobody waits.
Grant(r) ==
  LET w == queue[scan.best] IN
  /\ mutex = r /\ inflight < MaxInflight
  /\ scan.seen = Len(queue) /\ scan.best # 0
  /\ queue' = Without(queue, scan.best)
  /\ channel' = [channel EXCEPT ![w] = "yes"]
  /\ inflight' = inflight + 1
  /\ running' = Add(running, SubjectOf[w], 1)
  /\ scan' = NewPass
  /\ UNCHANGED <<phase, perSubject, late, over, mutex>>

NobodyWaits(r) ==
  /\ mutex = r /\ inflight < MaxInflight
  /\ scan.seen = Len(queue) /\ scan.best = 0
  /\ EndDispatch(r)
  /\ UNCHANGED <<slots, scan, channel, late, over>>

Full(r) ==
  /\ mutex = r /\ inflight >= MaxInflight
  /\ EndDispatch(r)
  /\ UNCHANGED <<slots, scan, channel, late, over>>

BecomeLate(r) ==
  /\ r \notin late
  /\ phase[r] \in {"waiting", "serving"}
  /\ late' = late \cup {r}
  /\ UNCHANGED <<phase, slots, channel, over, mutex, scan>>

\* The budget is spent, or the caller cancels.
ContextEnds(r) ==
  /\ r \notin over
  /\ phase[r] \in {"waiting", "serving"}
  /\ over' = over \cup {r}
  /\ UNCHANGED <<phase, slots, channel, late, mutex, scan>>

\* The caller sends another request.
Again(r) ==
  /\ phase[r] = "done"
  /\ phase' = [phase EXCEPT ![r] = "new"]
  /\ channel' = [channel EXCEPT ![r] = "empty"]
  /\ late' = late \ {r} /\ over' = over \ {r}
  /\ UNCHANGED <<slots, mutex, scan>>

AdmInit ==
  /\ phase = [r \in Reqs |-> "new"]
  /\ queue = <<>> /\ inflight = 0
  /\ perSubject = [s \in Subjects |-> 0] /\ running = [s \in Subjects |-> 0]
  /\ channel = [r \in Reqs |-> "empty"]
  /\ late = {} /\ over = {} /\ mutex = Nobody /\ scan = NewPass

Dispatch(r) == Examine(r) \/ Grant(r) \/ NobodyWaits(r) \/ Full(r)
Step(r) == Answered(r) \/ GiveUp(r) \/ Release(r) \/ Dispatch(r)

AdmNext == \E r \in Reqs : Acquire(r) \/ Step(r) \/ BecomeLate(r) \/ ContextEnds(r) \/ Again(r)

AdmSpec == AdmInit /\ [][AdmNext]_admVars

-----------------------------------------------------------------------------
(* Properties. *)

OfSubject(s, S) == Cardinality({r \in S : SubjectOf[r] = s})

Holders == {r \in Reqs : \/ phase[r] \in {"serving", "abandoning"}
                         \/ phase[r] = "waiting" /\ channel[r] = "yes"}

\* No slot is lost or counted twice when a grant races the end of a context
\* (acquire's second select): the counters are those of the requests that hold
\* a slot or wait, and the queue holds each unanswered waiter once.
SlotsAccounted ==
  /\ inflight = Cardinality(Holders) /\ inflight <= MaxInflight
  /\ InQueue = {r \in Reqs : phase[r] = "waiting" /\ channel[r] = "empty"}
  /\ Len(queue) = Cardinality(InQueue)
  /\ \A s \in Subjects :
       /\ running[s] = OfSubject(s, Holders)
       /\ perSubject[s] = OfSubject(s, Holders \cup InQueue)
       /\ perSubject[s] <= SubjectCap

\* Nobody waits beside a free slot, although only releases serve the queue: a
\* waiter that gives up or expires never hides one (dispatchLocked).
WorkConserving == mutex = Nobody /\ queue # <<>> => inflight = MaxInflight

\* "celle dont le sujet a le MOINS de requetes en vol passe d'abord": a grant
\* never passes over a waiter whose subject was served less.
FairService ==
  [][\A r \in Reqs : channel[r] = "empty" /\ channel'[r] = "yes" =>
       \A i \in 1..Len(queue') :
         running[SubjectOf[r]] <= running[SubjectOf[queue'[i]]]]_admVars
=============================================================================
