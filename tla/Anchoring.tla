------------------------------ MODULE Anchoring ------------------------------
(***************************************************************************)
(* The anchorer of a cell (registry/anchor.go): one cycle at a time reads  *)
(* the head of the cell's chain, has it dated by the first TSA that        *)
(* answers (registry/tsa.go) and appends it to the master chain, through a *)
(* bounded backlog while that chain is out of reach.  Check, called at the *)
(* emission of every epoch token, runs beside it without its lock.         *)
(*                                                                         *)
(* A record is the size of the head it anchors, its genTime and, as a      *)
(* history, the time its token was received.  A TSA is up to MaxTSASkew    *)
(* ahead of the cell's clock or behind it.                                 *)
(***************************************************************************)
EXTENDS Integers, Sequences

CONSTANTS Checkers,         \* goroutines that call Check
          FutureSkew,       \* maxTSFutureSkew
          AnchorMaxLag,     \* MaxLag
          AnchorBacklog,    \* MaxBacklog
          MaxTSASkew, MaxHead, MaxAnchorTime, MaxAnchors

ASSUME AnchorAssumption ==
  /\ {FutureSkew, MaxTSASkew, MaxHead, MaxAnchorTime, MaxAnchors} \subseteq Nat
  /\ {AnchorMaxLag, AnchorBacklog} \subseteq Nat \ {0}

VARIABLES
  time, head,               \* the clock, the size of the cell's chain
  chain,                    \* the anchors on the master chain, in order
  last,                     \* last anchor verified, or NoAnchor
  backlog, overflowAlarmed,
  cycle,                    \* AnchorOnce: [pc, rec]
  anchorTripped,            \* tripped
  check                     \* [Checkers -> {"idle", "passed", "stale"}]

anchorer == <<chain, last, backlog, overflowAlarmed, cycle>>
anchorVars == <<time, head, anchorer, anchorTripped, check>>

NoAnchor == [size |-> 0, at |-> -1, received |-> -1]
Resting == [pc |-> "rest", rec |-> NoAnchor]
Lag(a) == IF time > a.at THEN time - a.at ELSE 0
Overdue(a) == a = NoAnchor \/ Lag(a) > AnchorMaxLag

-----------------------------------------------------------------------------
(* AnchorOnce, under anchorMu. *)

AfterFlush(waiting) == IF waiting = <<>> THEN "head" ELSE "flush"

Begin ==
  /\ cycle.pc = "rest" /\ Len(chain) < MaxAnchors
  /\ cycle' = [cycle EXCEPT !.pc = AfterFlush(backlog)]
  /\ UNCHANGED <<time, head, chain, last, backlog, overflowAlarmed, anchorTripped, check>>

\* updateLast, first half: never back to an older genTime.
Newer(rec) == rec.at > last.at
StoreLast(rec, pc) ==
  /\ last' = IF Newer(rec) THEN rec ELSE last
  /\ cycle' = [pc |-> pc, rec |-> IF Newer(rec) THEN rec ELSE NoAnchor]

\* updateLast, second half, on its own reading of the clock: an anchor that is
\* itself within the bound ends the episode.
Recovered == anchorTripped' = (anchorTripped /\ (cycle.rec = NoAnchor \/ Lag(cycle.rec) > AnchorMaxLag))

\* master.Append: done; refused; or done and reported as failed.
Written(rec, outcome) == chain' = IF outcome = "refused" THEN chain ELSE Append(chain, rec)

FlushOne(outcome) ==
  /\ cycle.pc = "flush"
  /\ Written(Head(backlog), outcome)
  /\ IF outcome = "done"
     THEN StoreLast(Head(backlog), "flushed")
     ELSE cycle' = [cycle EXCEPT !.pc = "head"] /\ UNCHANGED last
  /\ UNCHANGED <<time, head, backlog, overflowAlarmed, anchorTripped, check>>

Flushed ==
  /\ cycle.pc = "flushed"
  /\ Recovered
  /\ backlog' = Tail(backlog)
  /\ overflowAlarmed' = (overflowAlarmed /\ Len(backlog') >= AnchorBacklog)
  /\ cycle' = [Resting EXCEPT !.pc = AfterFlush(backlog')]
  /\ UNCHANGED <<time, head, chain, last, check>>

ReadHead ==
  /\ cycle.pc = "head"
  /\ cycle' = [pc |-> "stamp", rec |-> [NoAnchor EXCEPT !.size = head]]
  /\ UNCHANGED <<time, head, chain, last, backlog, overflowAlarmed, anchorTripped, check>>

\* FallbackTSA.Timestamp: the first TSA that gives a token bound to the
\* request; none, and the cycle ends.
Accepts_Any(genTime) == TRUE
Accepts(genTime) == genTime <= time + FutureSkew

Stamp(genTime) ==
  /\ cycle.pc = "stamp"
  /\ cycle' = IF Accepts(genTime)
              THEN [pc |-> "append", rec |-> [cycle.rec EXCEPT !.at = genTime, !.received = time]]
              ELSE Resting
  /\ UNCHANGED <<time, head, chain, last, backlog, overflowAlarmed, anchorTripped, check>>

NoStamp ==
  /\ cycle.pc = "stamp"
  /\ cycle' = Resting
  /\ UNCHANGED <<time, head, chain, last, backlog, overflowAlarmed, anchorTripped, check>>

\* pushBacklog: beyond the bound the newest is given up, with one alarm.
Push(rec) ==
  IF Len(backlog) >= AnchorBacklog
  THEN overflowAlarmed' = TRUE /\ UNCHANGED backlog
  ELSE backlog' = Append(backlog, rec) /\ UNCHANGED overflowAlarmed

Deferred_Never == FALSE
Deferred == backlog # <<>>

Defer ==
  /\ cycle.pc = "append" /\ Deferred
  /\ Push(cycle.rec)
  /\ cycle' = Resting
  /\ UNCHANGED <<time, head, chain, last, anchorTripped, check>>

AppendAnchor(outcome) ==
  /\ cycle.pc = "append" /\ ~Deferred
  /\ Written(cycle.rec, outcome)
  /\ IF outcome = "done"
     THEN StoreLast(cycle.rec, "appended") /\ UNCHANGED <<backlog, overflowAlarmed>>
     ELSE Push(cycle.rec) /\ cycle' = Resting /\ UNCHANGED last
  /\ UNCHANGED <<time, head, anchorTripped, check>>

Appended ==
  /\ cycle.pc = "appended"
  /\ Recovered
  /\ cycle' = Resting
  /\ UNCHANGED <<time, head, chain, last, backlog, overflowAlarmed, check>>

-----------------------------------------------------------------------------
(* Check: one reading of last and of the clock, then fireTrip. *)

CheckLag(c) ==
  /\ check[c] = "idle"
  /\ check' = [check EXCEPT ![c] = IF Overdue(last) THEN "stale" ELSE "passed"]
  /\ UNCHANGED <<time, head, anchorer, anchorTripped>>

FireTrip(c) ==
  /\ check[c] = "stale"
  /\ anchorTripped' = TRUE
  /\ check' = [check EXCEPT ![c] = "idle"]
  /\ UNCHANGED <<time, head, anchorer>>

Emits(c) ==
  /\ check[c] = "passed"
  /\ check' = [check EXCEPT ![c] = "idle"]
  /\ UNCHANGED <<time, head, anchorer, anchorTripped>>

CellGrows ==
  /\ head < MaxHead
  /\ head' = head + 1
  /\ UNCHANGED <<time, anchorer, anchorTripped, check>>

AnchorTime ==
  /\ time < MaxAnchorTime
  /\ time' = time + 1
  /\ UNCHANGED <<head, anchorer, anchorTripped, check>>

AnchorInit ==
  /\ time = 0 /\ head = 1 /\ chain = <<>> /\ last = NoAnchor
  /\ backlog = <<>> /\ overflowAlarmed = FALSE /\ cycle = Resting
  /\ anchorTripped = FALSE /\ check = [c \in Checkers |-> "idle"]

Outcomes == {"done", "refused", "unknown"}
GenTimes == {t \in (time - MaxTSASkew)..(time + MaxTSASkew) : t >= 0}

AnchorNext ==
  \/ Begin \/ Flushed \/ ReadHead \/ NoStamp \/ Defer \/ Appended
  \/ \E o \in Outcomes : FlushOne(o)
  \/ \E o \in Outcomes : AppendAnchor(o)
  \/ \E t \in GenTimes : Stamp(t)
  \/ \E c \in Checkers : CheckLag(c)
  \/ \E c \in Checkers : FireTrip(c)
  \/ \E c \in Checkers : Emits(c)
  \/ CellGrows \/ AnchorTime

AnchorSpec == AnchorInit /\ [][AnchorNext]_anchorVars

-----------------------------------------------------------------------------
(* Properties. *)

\* "l'ordre est la preuve de continuite": whatever appends fail, or fail after
\* they were done, the master chain never anchors a shorter head after a longer
\* one (flushBacklog, and the deferral of step 4 of AnchorOnce).
AnchorsInOrder == \A i \in 1..(Len(chain) - 1) : chain[i].size <= chain[i + 1].size

\* An epoch token passes Check only if the master chain holds an anchor whose
\* token was received at most MaxLag and the tolerated skew ago: neither a TSA ahead
\* of the clock nor a replayed backlog widens the window (Check, updateLast).
FreshMeansAnchored ==
  [][\A c \in Checkers : check[c] = "idle" /\ check'[c] = "passed" =>
       \E i \in DOMAIN chain : time - chain[i].received <= AnchorMaxLag + FutureSkew]_anchorVars
=============================================================================
