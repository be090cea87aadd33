----------------------------- MODULE DurableLog -----------------------------
(***************************************************************************)
(* The registry of a cell: the log with its synchronous writers            *)
(* (registry/cell_log.go), the bounded asynchronous writer of the decision *)
(* path (async_writer.go) and the disk backpressure (backpressure.go).     *)
(*                                                                         *)
(* Leaves are in the order Tessera's Add received them; a prefix of them   *)
(* is published (covered by a checkpoint).  Publication may stop and come  *)
(* back at any time.  Of the leaves, only their number and the kind of the *)
(* last one matter.                                                        *)
(*                                                                         *)
(* The critical sections of w.mu are single steps; every wait, and every   *)
(* read of Engaged() outside a lock, is a step of its own.                 *)
(***************************************************************************)
EXTENDS Integers, Sequences

CONSTANTS Writers,      \* goroutines that call CellLog.Append
          Deadline,     \* those whose context has a deadline
          Capacity,     \* QueueCapacity
          Window,       \* the opposability window, in periods of cutWatch
          MaxLeaves     \* bound: no new leaf is started beyond it

ASSUME DurableLogAssumption ==
  /\ Deadline \subseteq Writers
  /\ Capacity \in Nat /\ Window \in Nat /\ MaxLeaves \in Nat

VARIABLES
  size,       \* the number of leaves Add has placed
  lastLeaf,   \* the kind of the last one
  published,  \* length of the published prefix
  up,         \* whether publication makes progress
  sw,         \* [Writers -> [pc, at]]: CellLog.Append of each writer
  engaged,    \* the monitor's atomic flag
  mon,        \* engage: [pc, drained, added]; the last two are history, kept
              \* while the lock holds: the drain succeeded, the leaf has a place
  queue,      \* w.queue[w.head:]: [at, age]; at = 0 for a future with an error
  tripped, catchup,
  tr,         \* the tracker: [pc, at]
  closing     \* "open", "stop" (w.stop) or "cancelled" (trackerStop)

Storage == <<size, lastLeaf, published, up>>
Async == <<queue, tripped, catchup, tr, closing>>
vars == <<Storage, sw, engaged, mon, Async>>

InFlight == {"entered", "adding", "awaiting"}
CatchingUp == {"catchup", "ask", "leaf", "awaitLeaf", "done"}

-----------------------------------------------------------------------------
(* Tessera. *)

\* Add: the leaf gets its place, or the future will report an error.  `at' is
\* the place, 0 for the error.
Add(kind, at) ==
  /\ \/ at = size + 1 /\ size' = at /\ lastLeaf' = kind
     \/ at = 0 /\ UNCHANGED <<size, lastLeaf>>
  /\ UNCHANGED <<published, up>>

Places == {0, size + 1}
Published(at) == at # 0 /\ at <= published

Publish ==
  /\ up /\ published < size
  /\ published' = size
  /\ UNCHANGED <<size, lastLeaf, up, sw, engaged, mon, Async>>

Outage ==
  /\ up' = ~up
  /\ UNCHANGED <<size, lastLeaf, published, sw, engaged, mon, Async>>

-----------------------------------------------------------------------------
(* CellLog.Append. *)
To(w, pc, at) == sw' = [sw EXCEPT ![w] = [pc |-> pc, at |-> at]]

\* First check of Engaged().
Ask(w) ==
  /\ sw[w].pc = "idle" /\ ~engaged /\ size < MaxLeaves
  /\ To(w, "asked", 0)
  /\ UNCHANGED <<Storage, engaged, mon, Async>>

\* inflightEnter.
Enter(w) ==
  /\ sw[w].pc = "asked"
  /\ To(w, "entered", 0)
  /\ UNCHANGED <<Storage, engaged, mon, Async>>

AskAgain_Skipped(w) ==
  /\ sw[w].pc = "entered"
  /\ To(w, "adding", 0)
  /\ UNCHANGED <<Storage, engaged, mon, Async>>

\* Second check: refuse (inflightExit) or go on.
AskAgain(w) ==
  /\ sw[w].pc = "entered"
  /\ To(w, IF engaged THEN "idle" ELSE "adding", 0)
  /\ UNCHANGED <<Storage, engaged, mon, Async>>

\* appendInternal: Add, then wait for the publication.
AddLeaf(w) ==
  /\ sw[w].pc = "adding"
  /\ \E at \in Places : Add("sync", at) /\ To(w, "awaiting", at)
  /\ UNCHANGED <<engaged, mon, Async>>

\* Await returns: published, the future's error, or the caller's deadline.
Return(w) ==
  /\ sw[w].pc = "awaiting"
  /\ Published(sw[w].at) \/ sw[w].at = 0 \/ w \in Deadline
  /\ To(w, "idle", 0)
  /\ UNCHANGED <<Storage, engaged, mon, Async>>

-----------------------------------------------------------------------------
(* AsyncWriter. *)

\* Append, accepted: the checks and the Add are under w.mu.
AsyncAppend ==
  /\ closing = "open" /\ ~engaged /\ ~tripped
  /\ Len(queue) < Capacity /\ size < MaxLeaves
  /\ \E at \in Places : Add("async", at) /\ queue' = Append(queue, [at |-> at, age |-> 0])
  /\ UNCHANGED <<sw, engaged, mon, tripped, catchup, tr, closing>>

Older(n) == IF n <= Window THEN n + 1 ELSE n

\* cutWatch, once in a period: the oldest unconfirmed leaf is past the window.
CutWatch ==
  /\ queue' = [i \in 1..Len(queue) |-> [queue[i] EXCEPT !.age = Older(@)]]
  /\ tripped' = \/ tripped
                \/ closing = "open" /\ queue # <<>> /\ queue'[1].age > Window
  /\ UNCHANGED <<Storage, sw, engaged, mon, catchup, tr, closing>>

TrackerTo(pc, at) == tr' = [pc |-> pc, at |-> at]

\* tracker: takes the head, or leaves when the writer is closed.
Take ==
  /\ tr.pc = "wait"
  /\ \/ queue # <<>> /\ TrackerTo("await", queue[1].at)
     \/ queue = <<>> /\ closing # "open" /\ TrackerTo("exited", 0)
  /\ UNCHANGED <<Storage, sw, engaged, mon, queue, tripped, catchup, closing>>

Confirm_Forgets ==
  /\ tr.pc = "await" /\ Published(tr.at)
  /\ queue' = Tail(queue)
  /\ TrackerTo("wait", 0)
  /\ UNCHANGED <<Storage, sw, engaged, mon, tripped, catchup, closing>>

\* tracker, after a successful Await: advance; drained in a cut means catch up.
Confirm ==
  /\ tr.pc = "await" /\ Published(tr.at)
  /\ queue' = Tail(queue)
  /\ catchup' = (tripped /\ Tail(queue) = <<>>)
  /\ TrackerTo(IF catchup' THEN "catchup" ELSE "wait", 0)
  /\ UNCHANGED <<Storage, sw, engaged, mon, tripped, closing>>

\* tracker: any error of Await ends it.
Abandon ==
  /\ tr.pc = "await" /\ (tr.at = 0 \/ closing = "cancelled")
  /\ TrackerTo("exited", 0)
  /\ UNCHANGED <<Storage, sw, engaged, mon, queue, tripped, catchup, closing>>

\* writeCatchup: the cut is lifted,
Uncut ==
  /\ tr.pc = "catchup"
  /\ tripped' = FALSE
  /\ TrackerTo("ask", 0)
  /\ UNCHANGED <<Storage, sw, engaged, mon, queue, catchup, closing>>

\* the episode has no leaf once the backpressure is engaged,
AskEngaged ==
  /\ tr.pc = "ask"
  /\ TrackerTo(IF engaged THEN "done" ELSE "leaf", 0)
  /\ UNCHANGED <<Storage, sw, engaged, mon, queue, tripped, catchup, closing>>

\* otherwise it is written and awaited for at most 30 s,
EpisodeLeaf ==
  /\ tr.pc = "leaf"
  /\ \E at \in Places : Add("episode", at) /\ TrackerTo("awaitLeaf", 0)
  /\ UNCHANGED <<sw, engaged, mon, queue, tripped, catchup, closing>>

\* (published, in error, or out of time)
EpisodeEnds ==
  /\ tr.pc = "awaitLeaf"
  /\ TrackerTo("done", 0)
  /\ UNCHANGED <<Storage, sw, engaged, mon, queue, tripped, catchup, closing>>

CaughtUp_Lifts ==
  /\ tr.pc = "done"
  /\ catchup' = FALSE /\ tripped' = FALSE
  /\ TrackerTo("wait", 0)
  /\ UNCHANGED <<Storage, sw, engaged, mon, queue, closing>>

\* catchup is over, and OnClear is called.
CaughtUp ==
  /\ tr.pc = "done"
  /\ catchup' = FALSE
  /\ TrackerTo("wait", 0)
  /\ UNCHANGED <<Storage, sw, engaged, mon, queue, tripped, closing>>

\* Close, and the end of its context.
Close ==
  /\ \/ closing = "open" /\ closing' = "stop"
     \/ closing = "stop" /\ tr.pc # "exited" /\ closing' = "cancelled"
  /\ UNCHANGED <<Storage, sw, engaged, mon, queue, tripped, catchup, tr>>

-----------------------------------------------------------------------------
(* Monitor. *)

MonTo(pc) == mon' = [mon EXCEPT !.pc = pc]

\* check: over the threshold, the host's floor, or a failed sample; engage
\* locks first.
Engage ==
  /\ mon.pc = "idle" /\ ~engaged /\ size < MaxLeaves
  /\ engaged' = TRUE
  /\ mon' = [pc |-> "inflight", drained |-> FALSE, added |-> FALSE]
  /\ UNCHANGED <<Storage, sw, Async>>

\* waitInflight: no deadline of its own.
WaitInflight ==
  /\ mon.pc = "inflight"
  /\ \A w \in Writers : sw[w].pc \notin InFlight
  /\ MonTo("drain")
  /\ UNCHANGED <<Storage, sw, engaged, Async>>

\* WaitOutstanding.
Outstanding == queue # <<>> \/ catchup

Drained ==
  /\ mon.pc = "drain" /\ ~Outstanding
  /\ mon' = [mon EXCEPT !.pc = "leaf", !.drained = engaged]
  /\ UNCHANGED <<Storage, sw, engaged, Async>>

DrainTimeout_Never == FALSE /\ UNCHANGED vars

\* engageIOBudget is spent.
DrainTimeout ==
  /\ mon.pc = "drain"
  /\ MonTo("leaf")
  /\ UNCHANGED <<Storage, sw, engaged, Async>>

\* The stop leaf.
StopLeaf ==
  /\ mon.pc = "leaf"
  /\ \E at \in Places :
       /\ Add("stop", at)
       /\ mon' = [mon EXCEPT !.pc = "await", !.added = (engaged /\ at # 0)]
  /\ UNCHANGED <<sw, engaged, Async>>

\* Its Await ends: published, in error, or out of budget.
StopLeafEnds ==
  /\ mon.pc = "await"
  /\ MonTo("alarm")
  /\ UNCHANGED <<Storage, sw, engaged, Async>>

\* onTrip, onAlarm.
OnAlarm ==
  /\ mon.pc = "alarm"
  /\ MonTo("idle")
  /\ UNCHANGED <<Storage, sw, engaged, Async>>

\* Disengage, by the operator, at any time.
Disengage ==
  /\ engaged /\ engaged' = FALSE
  /\ mon' = [mon EXCEPT !.drained = FALSE, !.added = FALSE]
  /\ UNCHANGED <<Storage, sw, Async>>

-----------------------------------------------------------------------------
Init ==
  /\ size = 0 /\ lastLeaf = "none" /\ published = 0 /\ up = TRUE
  /\ sw = [w \in Writers |-> [pc |-> "idle", at |-> 0]]
  /\ engaged = FALSE
  /\ mon = [pc |-> "idle", drained |-> FALSE, added |-> FALSE]
  /\ queue = <<>> /\ tripped = FALSE /\ catchup = FALSE
  /\ tr = [pc |-> "wait", at |-> 0]
  /\ closing = "open"

Writer(w) == Enter(w) \/ AskAgain(w) \/ AddLeaf(w) \/ Return(w)
Tracker ==
  \/ Take \/ Confirm \/ Abandon \/ Uncut \/ AskEngaged
  \/ EpisodeLeaf \/ EpisodeEnds \/ CaughtUp
Monitor ==
  \/ WaitInflight \/ Drained \/ DrainTimeout
  \/ StopLeaf \/ StopLeafEnds \/ OnAlarm

Next ==
  \/ Publish \/ Outage \/ AsyncAppend \/ CutWatch
  \/ \E w \in Writers : Ask(w) \/ Writer(w)
  \/ Tracker \/ Close \/ Monitor \/ Engage \/ Disengage

Spec == Init /\ [][Next]_vars

\* Goroutines run, budgets and deadlines pass, Tessera publishes while it is up.
Fairness ==
  /\ WF_vars(Publish) /\ WF_vars(CutWatch)
  /\ WF_vars(Tracker) /\ WF_vars(Monitor)
  /\ \A w \in Writers : WF_vars(Writer(w))

FairSpec == Spec /\ Fairness

-----------------------------------------------------------------------------
(* Properties. *)

MonPC == {"idle", "inflight", "drain", "leaf", "await", "alarm"}

\* Types of the log, the writers and the monitor.
TypeOK ==
  /\ size \in Nat
  /\ sw \in [Writers -> [pc : {"idle", "asked"} \cup InFlight, at : Nat]]
  /\ mon \in [pc : MonPC, drained : BOOLEAN, added : BOOLEAN]
  /\ engaged \in BOOLEAN /\ catchup \in BOOLEAN

\* "la feuille KindBackpressure est litteralement la DERNIERE feuille": while the
\* lock of an engagement whose drain succeeded holds, nothing follows its leaf,
\* whatever writers, tracker and catch-up were doing when it was taken (engage).
StopIsLast ==
  /\ engaged /\ mon.drained /\ mon.added
  /\ mon.pc \in {"await", "alarm", "idle"}
  => lastLeaf = "stop"

\* "la fenetre borne la perte": a decision is never accepted while a leaf has
\* waited longer than the window, counted in periods of cutWatch.
AcceptedInWindow ==
  [][Len(queue') > Len(queue) /\ queue # <<>> => queue[1].age <= Window]_vars

\* "quand la publication reprend et que la file se vide": a cut ends once
\* publication is back for good, unless the writer is being closed or a failed leaf
\* has ended the tracker, the only goroutine that lifts it.
CutEnds ==
  <>[]up => (tripped ~> (~tripped \/ closing # "open" \/ tr.pc = "exited"))

\* engage never freezes on a publication that stays down: as long as its lock
\* holds, the alarm (onTrip, onAlarm) is reached.
AlarmFires == mon.pc # "idle" ~> (mon.pc = "idle" \/ ~engaged)
=============================================================================
