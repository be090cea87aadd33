---------------------------- MODULE Arbitration ----------------------------
(***************************************************************************)
(* Human arbitration of the requests that reach a degraded translator: the *)
(* queue (arbiter/arbiter.go), the degradation controller                  *)
(* (translator/degradation.go), the gate of brokerd that consults them     *)
(* (brokerd/translator_guard.go) and the restoration of the queue from the *)
(* journal after a restart (brokerd/persistence.go).                       *)
(*                                                                         *)
(* An id stands for SHA-256(subject, intent); a ticket is the number of an *)
(* enqueueing.  Each critical section of q.mu is one step, the leaf it     *)
(* writes included; Restore is one step per record of the journal.         *)
(***************************************************************************)
EXTENDS Integers, Sequences, FiniteSets

CONSTANTS Reqs, IdOf,      \* agents presenting a request, and its id
          Critical,        \* requests of critical systems
          Ids, None,
          EntryTTL, MinDecision, PresenceTTL, Skew,
          MaxEntries,
          \* bounds:
          MaxTime, MaxTickets, MaxSigned, MaxRecords, MaxFaults, MaxRestarts

ASSUME ArbitrationAssumption ==
  /\ IdOf \in [Reqs -> Ids] /\ Critical \subseteq Reqs
  /\ EntryTTL \in Nat /\ MinDecision \in Nat /\ PresenceTTL \in Nat /\ Skew \in Nat
  /\ MaxEntries \in Nat /\ MaxTickets \in Nat /\ MaxSigned \in Nat /\ MaxRecords \in Nat
  /\ MaxTime \in Nat /\ MaxFaults \in Nat /\ MaxRestarts \in Nat

VARIABLES
  now,
  up,        \* the controller's view of the translator
  lastHB,    \* signed time of the last heartbeat, or None
  pc,        \* [Reqs -> {"idle", "take", "accept", "enqueue"}]
  entries,   \* [Ids -> entry or None]
  tickets,   \* tickets drawn
  journal,   \* records, in order
  signed,    \* decisions operators have signed
  cursor,    \* the next record to replay; Len(journal) + 1 while serving
  faults, restarts,
  uses       \* history: admissions by ticket

queue == <<entries, tickets, journal, cursor, faults>>
vars == <<now, up, lastHB, pc, queue, signed, restarts, uses>>

Tickets == 1..MaxTickets
Serving == cursor = Len(journal) + 1
Empty == [id \in Ids |-> None]

-----------------------------------------------------------------------------
(* The queue. *)

Live(es) == {id \in Ids : es[id] # None}

Full(es) == Cardinality(Live(es)) >= MaxEntries

\* pruneLocked.
Pruned(es) == [id \in Ids |-> IF es[id] # None /\ now < es[id].expires
                              THEN es[id] ELSE None]

\* leafLocked, the journal first and then the log.  `ok' is what the caller is
\* told: a leaf that reaches the log after the caller's context ended is not ok.
Leaf(act, id, ticket, expires, ok) ==
  LET Write(inLog) ==
        /\ Len(journal) < MaxRecords
        /\ journal' = Append(journal, [act |-> act, id |-> id, ticket |-> ticket,
                                       expires |-> expires, inLog |-> inLog])
        /\ cursor' = cursor + 1
  IN \/ ok /\ Write(TRUE) /\ UNCHANGED faults
     \/ /\ ~ok /\ faults < MaxFaults /\ faults' = faults + 1
        /\ \/ \E inLog \in BOOLEAN : Write(inLog)
           \/ UNCHANGED <<journal, cursor>>     \* the journal refused

Put(es, id, e) == [es EXCEPT ![id] = e]
Entry(ticket, expires, status) == [ticket |-> ticket, expires |-> expires, status |-> status]

Goto(r, where) == pc' = [pc EXCEPT ![r] = where]

\* Enqueue: nothing for a pending entry, a refusal when full.
Enqueue(r) ==
  LET id == IdOf[r]
      es == Pruned(entries)
      t == tickets + 1
  IN /\ Serving /\ pc[r] = "enqueue" /\ Goto(r, "idle")
     /\ IF (es[id] # None /\ es[id].status = "pending") \/ Full(es)
        THEN entries' = es /\ UNCHANGED <<tickets, journal, cursor, faults>>
        ELSE /\ tickets < MaxTickets /\ tickets' = t
             /\ \E ok \in BOOLEAN :
                  /\ Leaf("enqueue", id, t, now + EntryTTL, ok)
                  /\ entries' = IF ok THEN Put(es, id, Entry(t, now + EntryTTL, "pending"))
                                      ELSE es
     /\ UNCHANGED <<now, up, lastHB, signed, restarts, uses>>

\* An operator reads the queue (Snapshot) and signs for what it shows.
Sign(id) ==
  LET e == entries[id] IN
  /\ Serving /\ e # None /\ now < e.expires /\ e.status = "pending"
  /\ Cardinality(signed) < MaxSigned
  /\ \E v \in {"approve", "refuse"}, x \in (now + MinDecision)..(now + EntryTTL) :
       signed' = signed \cup {[id |-> id, ticket |-> e.ticket, verdict |-> v, expires |-> x]}
  /\ UNCHANGED <<now, up, lastHB, pc, queue, restarts, uses>>

\* DecisionMessage: the signature is on the ticket of the entry.
Matches(d, e) == e.status = "pending" /\ d.ticket = e.ticket

Status(v) == IF v = "approve" THEN "approved" ELSE "refused"

\* Decide: a signed decision, submitted once or again, now or later.
Decide(d) ==
  LET es == Pruned(entries)
      e == es[d.id]
  IN /\ Serving /\ e # None /\ Matches(d, e)
     /\ now + MinDecision <= d.expires /\ d.expires <= now + EntryTTL
     /\ \E ok \in BOOLEAN :
          /\ Leaf(d.verdict, d.id, e.ticket, d.expires, ok)
          /\ entries' = IF ok THEN Put(es, d.id, Entry(e.ticket, d.expires, Status(d.verdict)))
                              ELSE es
     /\ UNCHANGED <<now, up, lastHB, pc, tickets, signed, restarts, uses>>

\* Take, on a decided entry: the decision is consumed and the agent answered.
Consume(r) ==
  LET id == IdOf[r]
      es == Pruned(entries)
      e == es[id]
      act == IF e.status = "approved" THEN "consume" ELSE "consumeRefused"
  IN /\ Serving /\ pc[r] = "take" /\ Goto(r, "idle")
     /\ e # None /\ e.status \in {"approved", "refused"}
     /\ \E ok \in BOOLEAN :
          /\ Leaf(act, id, e.ticket, e.expires, ok)
          /\ entries' = IF ok THEN Put(es, id, None) ELSE es
          /\ uses' = IF ok /\ act = "consume" THEN [uses EXCEPT ![e.ticket] = @ + 1] ELSE uses
     /\ UNCHANGED <<now, up, lastHB, tickets, signed, restarts>>

\* Take, otherwise: pending is an answer, nothing found goes on.
Take(r) ==
  LET e == Pruned(entries)[IdOf[r]] IN
  /\ Serving /\ pc[r] = "take"
  /\ e # None => e.status = "pending"
  /\ Goto(r, IF e = None THEN "accept" ELSE "idle")
  /\ entries' = Pruned(entries)
  /\ UNCHANGED <<now, up, lastHB, tickets, journal, cursor, faults, signed, restarts, uses>>

\* Heartbeat: fresh and strictly increasing.
Heartbeat(at) ==
  /\ Serving /\ now - Skew <= at /\ at <= now + Skew
  /\ lastHB # None => at > lastHB
  /\ lastHB' = at
  /\ UNCHANGED <<now, up, pc, queue, signed, restarts, uses>>

Reachable == lastHB # None /\ now - lastHB <= PresenceTTL

-----------------------------------------------------------------------------
(* The gate and the controller. *)

\* Admit: a decision already given is looked for first, if the translator is down.
Admit(r) ==
  /\ Serving /\ pc[r] = "idle"
  /\ Goto(r, IF ~up /\ r \notin Critical THEN "take" ELSE "accept")
  /\ UNCHANGED <<now, up, lastHB, queue, signed, restarts, uses>>

\* Accept: admitted (normal, or the mirror's failover), refused, or escalated.
Accept(r) ==
  /\ Serving /\ pc[r] = "accept"
  /\ Goto(r, IF ~up /\ r \notin Critical /\ Reachable THEN "enqueue" ELSE "idle")
  /\ UNCHANGED <<now, up, lastHB, queue, signed, restarts, uses>>

\* CheckHealth: the probe's outcome becomes the state.
CheckHealth ==
  /\ Serving /\ up' = ~up
  /\ UNCHANGED <<now, lastHB, pc, queue, signed, restarts, uses>>

-----------------------------------------------------------------------------
(* Restart. *)

\* brokerd stops; the journal and the log remain.  Stopping between the write of
\* a record and its effect is the failed leaf of Leaf, then this.
Restart ==
  /\ restarts < MaxRestarts /\ restarts' = restarts + 1
  /\ entries' = Empty
  /\ cursor' = 1
  /\ up' = FALSE /\ lastHB' = None
  /\ pc' = [r \in Reqs |-> "idle"]
  /\ UNCHANGED <<now, tickets, journal, faults, signed, uses>>

Replayed_KeepsConsumed(es, rec) ==
  LET e == es[rec.id]
      same == e # None /\ e.ticket = rec.ticket
      pending == same /\ e.status = "pending"
  IN CASE rec.act = "enqueue" /\ e = None /\ ~Full(es) ->
            Put(es, rec.id, Entry(rec.ticket, rec.expires, "pending"))
       [] rec.act = "approve" /\ pending /\ rec.inLog ->
            Put(es, rec.id, Entry(rec.ticket, rec.expires, "approved"))
       [] OTHER -> es

\* Restore, the effect of one record.
Replayed(es, rec) ==
  LET e == es[rec.id]
      same == e # None /\ e.ticket = rec.ticket
      pending == same /\ e.status = "pending"
  IN CASE rec.act = "enqueue" /\ e = None /\ ~Full(es) ->
            Put(es, rec.id, Entry(rec.ticket, rec.expires, "pending"))
       [] rec.act = "approve" /\ pending /\ rec.inLog ->
            Put(es, rec.id, Entry(rec.ticket, rec.expires, "approved"))
       [] rec.act = "refuse" /\ pending ->
            Put(es, rec.id, Entry(rec.ticket, rec.expires, "refused"))
       [] rec.act \in {"consume", "consumeRefused"} /\ same -> Put(es, rec.id, None)
       [] OTHER -> es

Restore ==
  /\ ~Serving
  /\ cursor' = cursor + 1
  /\ LET es == Replayed(entries, journal[cursor])
     IN entries' = IF cursor = Len(journal) THEN Pruned(es) ELSE es
  /\ UNCHANGED <<now, up, lastHB, pc, tickets, journal, faults, signed, restarts, uses>>

Tick ==
  /\ Serving /\ now < MaxTime /\ now' = now + 1
  /\ UNCHANGED <<up, lastHB, pc, queue, signed, restarts, uses>>

-----------------------------------------------------------------------------
Init ==
  /\ now = 0 /\ up = FALSE /\ lastHB = None
  /\ pc = [r \in Reqs |-> "idle"]
  /\ entries = Empty /\ tickets = 0 /\ journal = <<>> /\ cursor = 1 /\ faults = 0
  /\ signed = {} /\ restarts = 0
  /\ uses = [t \in Tickets |-> 0]

Next ==
  \/ \E r \in Reqs : Admit(r) \/ Take(r) \/ Consume(r) \/ Accept(r) \/ Enqueue(r)
  \/ \E id \in Ids : Sign(id)
  \/ \E d \in signed : Decide(d)
  \/ \E at \in 0..(MaxTime + Skew) : Heartbeat(at)
  \/ CheckHealth \/ Restart \/ Restore \/ Tick

Spec == Init /\ [][Next]_vars

-----------------------------------------------------------------------------
Acts == {"enqueue", "approve", "refuse", "consume", "consumeRefused"}
Entries == [ticket : Tickets, expires : Nat, status : {"pending", "approved", "refused"}]

Records == [act : Acts, id : Ids, ticket : Tickets, expires : Nat, inLog : BOOLEAN]

\* Types of the queue, the journal and the replay cursor.
TypeOK ==
  /\ now \in Nat
  /\ entries \in [Ids -> Entries \cup {None}]
  /\ tickets \in 0..MaxTickets
  /\ journal \in Seq(Records)
  /\ cursor \in 1..(Len(journal) + 1)
  /\ uses \in [Tickets -> Nat]
  /\ signed \subseteq [id : Ids, ticket : Tickets, verdict : {"approve", "refuse"}, expires : Nat]

\* "une approbation est a usage UNIQUE": one enqueueing admits at most once, across
\* failed leaves, replayed signatures and restarts between any two writes.
UsedOnce == \A t \in Tickets : uses[t] <= 1
=============================================================================
