--------------------------- MODULE ApprovalProofs ---------------------------
(***************************************************************************)
(* Proofs about what people approve.  Arbitration: an approval admits      *)
(* once, for any number of agents, entries, failed leaves and restarts.    *)
(* PlanContract: what is approved, revoked, expired or run, for any        *)
(* contents, keys, quotas and leaf failures.                               *)
(***************************************************************************)
EXTENDS Arbitration, PlanContract, FiniteSetTheorems, TLAPS

\* A leaf goes to Zenon first and, if that does not find it soon, to the SMT solver.
USE ZenonT(2), SMTT(30)

-----------------------------------------------------------------------------
(* The arbitration queue: every ticket is used once. *)

\* A ticket belongs to one id, its enqueueing is its first record, and it was drawn.
Orderly ==
  \A a, b \in 1..Len(journal) :
    /\ journal[a].ticket <= tickets
    /\ journal[a].ticket = journal[b].ticket =>
         /\ journal[a].id = journal[b].id
         /\ journal[b].act = "enqueue" /\ a # b => b < a

\* A live entry was enqueued by a record already replayed.
Enqueued ==
  \A id \in Ids : entries[id] # None =>
    \E a \in 1..Len(journal) :
      /\ a < cursor
      /\ journal[a].act = "enqueue" /\ journal[a].id = id
      /\ journal[a].ticket = entries[id].ticket

Consumption(b, t) == b \in 1..Len(journal) /\ journal[b].act = "consume" /\ journal[b].ticket = t

\* An admission left its record.
Recorded == \A t \in Tickets : uses[t] > 0 => \E b \in Nat : Consumption(b, t)

\* An entry whose ticket was used has its consumption still to be replayed.
NotForgotten ==
  \A id \in Ids : entries[id] # None /\ uses[entries[id].ticket] > 0 =>
    \E b \in Nat : b >= cursor /\ Consumption(b, entries[id].ticket)

IInv == TypeOK /\ Orderly /\ Enqueued /\ Recorded /\ NotForgotten /\ UsedOnce

-----------------------------------------------------------------------------
\* What a leaf, written or not, does to the journal.
Grown(act, id, ticket) ==
  \/ UNCHANGED <<journal, cursor>>
  \/ \E rec \in Records :
       /\ rec.act = act /\ rec.id = id /\ rec.ticket = ticket
       /\ journal' = Append(journal, rec) /\ cursor' = cursor + 1

LEMMA LeafGrows ==
  ASSUME NEW act \in Acts, NEW id \in Ids, NEW t \in Tickets, NEW x \in Nat,
         NEW ok \in BOOLEAN, Leaf(act, id, t, x, ok)
  PROVE  /\ Grown(act, id, t)
         /\ ok => \E rec \in Records :
                    /\ rec.act = act /\ rec.id = id /\ rec.ticket = t
                    /\ journal' = Append(journal, rec) /\ cursor' = cursor + 1
<1> DEFINE R(inLog) == [act |-> act, id |-> id, ticket |-> t, expires |-> x, inLog |-> inLog]
<1>1. \A inLog \in BOOLEAN : R(inLog) \in Records
  BY DEF Records
<1>2. \/ ok /\ journal' = Append(journal, R(TRUE)) /\ cursor' = cursor + 1
      \/ ~ok /\ \E inLog \in BOOLEAN : journal' = Append(journal, R(inLog)) /\ cursor' = cursor + 1
      \/ ~ok /\ UNCHANGED <<journal, cursor>>
  BY Zenon DEF Leaf
<1>3. CASE ok /\ journal' = Append(journal, R(TRUE)) /\ cursor' = cursor + 1
  <2>1. R(TRUE) \in Records /\ R(TRUE).act = act /\ R(TRUE).id = id /\ R(TRUE).ticket = t
    BY <1>1, Zenon
  <2> QED BY <1>3, <2>1 DEF Grown
<1>4. CASE ~ok /\ \E inLog \in BOOLEAN : journal' = Append(journal, R(inLog)) /\ cursor' = cursor + 1
  <2>1. PICK inLog \in BOOLEAN : journal' = Append(journal, R(inLog)) /\ cursor' = cursor + 1
    BY <1>4
  <2>2. R(inLog) \in Records /\ R(inLog).act = act /\ R(inLog).id = id /\ R(inLog).ticket = t
    BY <1>1
  <2> QED BY <1>4, <2>1, <2>2 DEF Grown
<1>5. CASE ~ok /\ UNCHANGED <<journal, cursor>>
  BY <1>5 DEF Grown
<1> QED BY <1>2, <1>3, <1>4, <1>5, Zenon

LEMMA PrunedKeeps ==
  ASSUME entries \in [Ids -> Entries \cup {None}]
  PROVE  /\ Pruned(entries) \in [Ids -> Entries \cup {None}]
         /\ \A id \in Ids : Pruned(entries)[id] \in {entries[id], None}
BY DEF Pruned

Extended == Len(journal') >= Len(journal) /\ \A a \in 1..Len(journal) : journal'[a] = journal[a]

\* A record of a live ticket, or the first one of a new ticket, keeps the journal
\* orderly.
LEMMA GrowthKeeps ==
  ASSUME TypeOK, Orderly, Serving,
         NEW act \in Acts, NEW id \in Ids, NEW t \in Tickets, Grown(act, id, t),
         tickets' \in 0..MaxTickets, tickets <= tickets', t <= tickets',
         \/ /\ act # "enqueue"
            /\ \E a \in 1..Len(journal) : journal[a].id = id /\ journal[a].ticket = t
         \/ act = "enqueue" /\ t = tickets + 1
  PROVE  /\ journal' \in Seq(Records) /\ Serving' /\ Extended /\ Orderly'
         /\ cursor' \in 1..(Len(journal') + 1)
<1>0. \A a \in 1..Len(journal) : journal[a].ticket \in Nat /\ journal[a].ticket <= tickets
  <2> TAKE a \in 1..Len(journal)
  <2>1. journal[a] \in Records
    BY SMTT(30) DEF TypeOK
  <2>2. journal[a].ticket \in Nat
    BY <2>1, SMTT(30) DEF Records, Tickets
  <2> QED BY <2>2 DEF Orderly
<1>1. CASE UNCHANGED <<journal, cursor>>
  <2>1. journal' = journal /\ cursor' = cursor
    BY <1>1
  <2>2. \A a \in 1..Len(journal) : journal[a].ticket <= tickets'
    BY <1>0 DEF TypeOK
  <2>3. Orderly'
    BY <2>1, <2>2, SMTT(30) DEF Orderly
  <2> QED BY <2>1, <2>3 DEF TypeOK, Serving, Extended
<1>2. CASE \E rec \in Records :
             /\ rec.act = act /\ rec.id = id /\ rec.ticket = t
             /\ journal' = Append(journal, rec) /\ cursor' = cursor + 1
  <2>1. PICK rec \in Records :
          /\ rec.act = act /\ rec.id = id /\ rec.ticket = t
          /\ journal' = Append(journal, rec) /\ cursor' = cursor + 1
    BY <1>2
  <2>2. /\ journal' \in Seq(Records) /\ Len(journal') = Len(journal) + 1
        /\ journal'[Len(journal) + 1] = rec
        /\ \A a \in 1..Len(journal) : journal'[a] = journal[a]
        /\ Len(journal) \in Nat
    BY <2>1, SMTT(30) DEF TypeOK
  <2>3. Serving' /\ Extended /\ cursor' \in 1..(Len(journal') + 1)
    BY <2>1, <2>2, SMTT(30) DEF Serving, Extended, TypeOK
  <2>4. \A a \in 1..Len(journal) :
          /\ journal[a].ticket \in Nat /\ journal[a].ticket <= tickets
          /\ journal[a].ticket <= tickets'
    BY <1>0 DEF TypeOK
  <2>5. \A a \in 1..Len(journal) : journal[a].ticket = t => journal[a].id = id /\ act # "enqueue"
    <3>1. CASE act = "enqueue" /\ t = tickets + 1
      BY <2>4, <3>1 DEF TypeOK
    <3>2. CASE /\ act # "enqueue"
               /\ \E a \in 1..Len(journal) : journal[a].id = id /\ journal[a].ticket = t
      BY <3>2 DEF Orderly
    <3> QED BY <3>1, <3>2
  <2>6. Orderly'
    <3> SUFFICES ASSUME NEW a \in 1..Len(journal'), NEW b \in 1..Len(journal')
                 PROVE  /\ journal'[a].ticket <= tickets'
                        /\ journal'[a].ticket = journal'[b].ticket =>
                             /\ journal'[a].id = journal'[b].id
                             /\ journal'[b].act = "enqueue" /\ a # b => b < a
      BY DEF Orderly
    <3>1. CASE a <= Len(journal) /\ b <= Len(journal)
      <4>1. a \in 1..Len(journal) /\ b \in 1..Len(journal)
        BY <2>2, <3>1
      <4>2. journal'[a] = journal[a] /\ journal'[b] = journal[b] /\ journal'[a].ticket <= tickets'
        BY <2>2, <2>4, <4>1
      <4> QED BY <4>1, <4>2 DEF Orderly
    <3>2. CASE a = Len(journal) + 1 /\ b = Len(journal) + 1
      BY <2>1, <2>2, <3>2
    <3>3. CASE a = Len(journal) + 1 /\ b <= Len(journal)
      <4>1. b \in 1..Len(journal) /\ journal'[b] = journal[b] /\ journal'[a] = rec /\ b < a
        BY <2>2, <3>3
      <4>2. journal[b].ticket = t => journal[b].id = id
        BY <2>5, <4>1
      <4> QED BY <2>1, <4>1, <4>2
    <3>4. CASE a <= Len(journal) /\ b = Len(journal) + 1
      <4>1. a \in 1..Len(journal) /\ journal'[a] = journal[a] /\ journal'[b] = rec
        BY <2>2, <3>4
      <4>2. journal[a].ticket = t => journal[a].id = id /\ act # "enqueue"
        BY <2>5, <4>1
      <4> QED BY <2>1, <2>4, <4>1, <4>2
    <3> QED BY <2>2, <3>1, <3>2, <3>3, <3>4
  <2> QED BY <2>2, <2>3, <2>6
<1> QED BY <1>1, <1>2 DEF Grown

\* While brokerd serves, the ticket of a live entry is unused, and known to the
\* journal.
LEMMA LiveIsUnused ==
  ASSUME IInv, Serving, NEW id \in Ids, entries[id] # None
  PROVE  /\ entries[id] \in Entries /\ entries[id].ticket \in Tickets
         /\ uses[entries[id].ticket] = 0
         /\ entries[id].ticket <= tickets
         /\ \E a \in 1..Len(journal) : journal[a].id = id /\ journal[a].ticket = entries[id].ticket
<1>1. entries[id] \in Entries /\ entries[id].ticket \in Tickets
  BY DEF IInv, TypeOK, Entries
<1>2. ~\E b \in Nat : b >= cursor /\ Consumption(b, entries[id].ticket)
  BY DEF IInv, TypeOK, Serving, Consumption
<1>3. uses[entries[id].ticket] = 0
  BY <1>1, <1>2 DEF IInv, TypeOK, NotForgotten
<1>4. \E a \in 1..Len(journal) : journal[a].id = id /\ journal[a].ticket = entries[id].ticket
  BY DEF IInv, Enqueued
<1>5. entries[id].ticket <= tickets
  BY <1>4 DEF IInv, Orderly
<1> QED BY <1>1, <1>3, <1>4, <1>5

LEMMA StillEnqueued ==
  ASSUME IInv, Serving, Serving', Extended, journal' \in Seq(Records),
         \A id \in Ids : entries'[id] # None =>
           entries[id] # None /\ entries'[id].ticket = entries[id].ticket
  PROVE  Enqueued'
<1>1. Len(journal) \in Nat /\ Len(journal') \in Nat /\ Len(journal) <= Len(journal')
  BY SMTT(30) DEF IInv, TypeOK, Extended
<1> QED BY <1>1, SMTT(30) DEF IInv, TypeOK, Enqueued, Serving, Extended

\* A step of the serving broker that adds no entry and admits nobody.
LEMMA NothingNew ==
  ASSUME IInv, Serving, Serving', Extended, uses' = uses, journal' \in Seq(Records),
         \A id \in Ids : entries'[id] # None =>
           entries[id] # None /\ entries'[id].ticket = entries[id].ticket
  PROVE  Enqueued' /\ Recorded' /\ NotForgotten' /\ UsedOnce'
<1>1. Len(journal) \in Nat /\ Len(journal') \in Nat /\ Len(journal) <= Len(journal')
  BY SMTT(30) DEF IInv, TypeOK, Extended
<1>2. Enqueued'
  BY StillEnqueued
<1>3. \A b, t : Consumption(b, t) => Consumption(b, t)'
  BY <1>1, SMTT(30) DEF Consumption, Extended
<1>4. Recorded'
  BY <1>3 DEF IInv, Recorded
<1>5. NotForgotten'
  BY LiveIsUnused, SMTT(30) DEF NotForgotten
<1> QED BY <1>2, <1>4, <1>5 DEF IInv, UsedOnce

-----------------------------------------------------------------------------
LEMMA InitInv == Init => IInv
<1> SUFFICES ASSUME Init PROVE IInv
  OBVIOUS
<1>1. /\ entries = [id \in Ids |-> None] /\ journal = <<>> /\ cursor = 1 /\ tickets = 0
      /\ uses = [t \in Tickets |-> 0] /\ signed = {} /\ now = 0
  BY DEF Init, Empty
<1>2. TypeOK
  BY <1>1, ArbitrationAssumption DEF TypeOK
<1>3. Orderly /\ Enqueued /\ NotForgotten
  BY <1>1 DEF Orderly, Enqueued, NotForgotten
<1>4. Recorded /\ UsedOnce
  BY <1>1 DEF Recorded, UsedOnce
<1> QED BY <1>2, <1>3, <1>4 DEF IInv

\* Steps of the gate, the controller, operators and time leave the queue alone.
LEMMA IdleKeepsInv ==
  ASSUME IInv, UNCHANGED <<queue, uses>>, now' \in Nat,
         signed' \subseteq [id : Ids, ticket : Tickets, verdict : {"approve", "refuse"}, expires : Nat]
  PROVE  IInv'
BY SMTT(30) DEF IInv, TypeOK, Orderly, Enqueued, Recorded, NotForgotten, UsedOnce, Consumption, queue

LEMMA TakeKeepsInv == ASSUME IInv, NEW r \in Reqs, Take(r) PROVE IInv'
<1>1. /\ Serving /\ entries' = Pruned(entries)
      /\ UNCHANGED <<now, tickets, journal, cursor, signed, uses>>
  BY Zenon DEF Take
<1>2. /\ entries' \in [Ids -> Entries \cup {None}]
      /\ \A id \in Ids : entries'[id] \in {entries[id], None}
  BY <1>1, PrunedKeeps DEF IInv, TypeOK
<1>3. TypeOK' /\ Orderly'
  <2>1. TypeOK'
    BY <1>1, <1>2 DEF IInv, TypeOK
  <2> QED
    BY <1>1, <2>1, SMTT(30) DEF IInv, Orderly
<1>4. Serving' /\ Extended
  BY <1>1 DEF Serving, Extended, IInv, TypeOK
<1> QED BY <1>1, <1>2, <1>3, <1>4, NothingNew DEF IInv, TypeOK

LEMMA EnqueueKeepsInv == ASSUME IInv, NEW r \in Reqs, Enqueue(r) PROVE IInv'
<1> DEFINE id == IdOf[r]
           t == tickets + 1
           new == Entry(t, now + EntryTTL, "pending")
<1>1. Serving /\ id \in Ids /\ UNCHANGED <<now, signed, uses>>
  BY ArbitrationAssumption, Zenon DEF Enqueue
<1>2. /\ Pruned(entries) \in [Ids -> Entries \cup {None}]
      /\ \A i \in Ids : Pruned(entries)[i] \in {entries[i], None}
  BY PrunedKeeps DEF IInv, TypeOK
<1>3. \/ entries' = Pruned(entries) /\ UNCHANGED <<tickets, journal, cursor>>
      \/ /\ tickets < MaxTickets /\ tickets' = t
         /\ \E ok \in BOOLEAN :
              /\ Leaf("enqueue", id, t, now + EntryTTL, ok)
              /\ entries' = IF ok THEN Put(Pruned(entries), id, new) ELSE Pruned(entries)
  BY Zenon DEF Enqueue
<1>4. CASE entries' = Pruned(entries) /\ UNCHANGED <<tickets, journal, cursor>>
  <2>1. TypeOK' /\ Orderly'
    <3>1. TypeOK'
      BY <1>1, <1>2, <1>4 DEF IInv, TypeOK
    <3> QED
      BY <1>1, <1>4, <3>1, SMTT(30) DEF IInv, Orderly
  <2>2. Serving' /\ Extended
    BY <1>1, <1>4 DEF Serving, Extended, IInv, TypeOK
  <2> QED BY <1>1, <1>2, <1>4, <2>1, <2>2, NothingNew DEF IInv, TypeOK
<1>5. ASSUME tickets < MaxTickets, tickets' = t, NEW ok \in BOOLEAN,
             Leaf("enqueue", id, t, now + EntryTTL, ok),
             entries' = IF ok THEN Put(Pruned(entries), id, new) ELSE Pruned(entries)
      PROVE  IInv'
  <2>1. /\ t \in Tickets /\ now + EntryTTL \in Nat /\ "enqueue" \in Acts
        /\ tickets' \in 0..MaxTickets /\ tickets <= tickets' /\ t <= tickets'
    BY <1>5, ArbitrationAssumption, SMTT(30) DEF IInv, TypeOK, Tickets, Acts
  <2>2. /\ Grown("enqueue", id, t)
        /\ ok => \E rec \in Records :
                   /\ rec.act = "enqueue" /\ rec.id = id /\ rec.ticket = t
                   /\ journal' = Append(journal, rec) /\ cursor' = cursor + 1
    BY <1>1, <1>5, <2>1, LeafGrows, SMTT(30)
  <2>3. /\ journal' \in Seq(Records) /\ Serving' /\ Extended /\ Orderly'
        /\ cursor' \in 1..(Len(journal') + 1)
    BY <1>1, <2>1, <2>2, GrowthKeeps DEF IInv
  <2>4. new \in Entries /\ new.ticket = t
    BY <2>1 DEF Entry, Entries
  <2>5. entries' \in [Ids -> Entries \cup {None}]
    BY <1>1, <1>2, <1>5, <2>4 DEF Put
  <2>6. TypeOK'
    BY <1>1, <2>1, <2>3, <2>5 DEF IInv, TypeOK
  <2>7. CASE ~ok
    BY <1>1, <1>2, <1>5, <2>3, <2>6, <2>7, NothingNew DEF IInv
  <2>8. CASE ok
    <3>1. \A i \in Ids : entries'[i] = IF i = id THEN new ELSE Pruned(entries)[i]
      BY <1>2, <1>5, <2>8 DEF Put
    <3>2. PICK rec \in Records :
            /\ rec.act = "enqueue" /\ rec.id = id /\ rec.ticket = t
            /\ journal' = Append(journal, rec) /\ cursor' = cursor + 1
      BY <2>2, <2>8
    <3>3. /\ Len(journal) \in Nat /\ Len(journal') = Len(journal) + 1
          /\ journal'[Len(journal) + 1] = rec
      BY <3>2 DEF IInv, TypeOK
    <3>4. uses[t] = 0
      <4>1. \A b \in Nat : ~Consumption(b, t)
        BY <2>1 DEF IInv, TypeOK, Orderly, Consumption
      <4> QED BY <2>1, <4>1 DEF IInv, TypeOK, Recorded
    <3>5. Enqueued'
      <4> SUFFICES ASSUME NEW i \in Ids, entries'[i] # None
                   PROVE  \E a \in 1..Len(journal') :
                            /\ a < cursor'
                            /\ journal'[a].act = "enqueue" /\ journal'[a].id = i
                            /\ journal'[a].ticket = entries'[i].ticket
        BY DEF Enqueued
      <4>1. CASE i = id
        <5>1. Len(journal) + 1 \in 1..Len(journal') /\ Len(journal) + 1 < cursor'
          BY <1>1, <3>2, <3>3 DEF Serving
        <5> QED BY <2>4, <3>1, <3>2, <3>3, <4>1, <5>1
      <4>2. CASE i # id
        <5>1. entries'[i] = entries[i]
          BY <1>2, <3>1, <4>2
        <5>2. PICK a \in 1..Len(journal) :
                /\ a < cursor /\ journal[a].act = "enqueue" /\ journal[a].id = i
                /\ journal[a].ticket = entries[i].ticket
          BY <5>1 DEF IInv, Enqueued
        <5>3. a \in 1..Len(journal') /\ journal'[a] = journal[a] /\ a < cursor'
          BY <2>3, <3>2, <3>3, <5>2, SMTT(30) DEF Extended, IInv, TypeOK
        <5> QED BY <5>1, <5>2, <5>3
      <4> QED BY <4>1, <4>2
    <3>6. NotForgotten'
      <4> SUFFICES ASSUME NEW i \in Ids, entries'[i] # None
                   PROVE  uses[entries'[i].ticket] = 0
        BY <1>1 DEF NotForgotten
      <4>1. CASE i = id
        BY <2>4, <3>1, <3>4, <4>1
      <4>2. CASE i # id
        BY <1>1, <1>2, <3>1, <4>2, LiveIsUnused, SMTT(30)
      <4> QED BY <4>1, <4>2
    <3>7. Recorded'
      <4>1. \A b, u : Consumption(b, u) => Consumption(b, u)'
        BY <2>3, <3>3 DEF Consumption, Extended
      <4> QED BY <1>1, <4>1 DEF IInv, Recorded
    <3> QED BY <1>1, <2>3, <2>6, <3>5, <3>6, <3>7 DEF IInv, UsedOnce
  <2> QED BY <2>7, <2>8
<1> QED BY <1>3, <1>4, <1>5

LEMMA DecideKeepsInv == ASSUME IInv, NEW d \in signed, Decide(d) PROVE IInv'
<1> DEFINE es == Pruned(entries)
           e == es[d.id]
           new == Entry(e.ticket, d.expires, Status(d.verdict))
<1>1. /\ Serving /\ e # None /\ UNCHANGED <<now, tickets, signed, uses>>
      /\ \E ok \in BOOLEAN :
           /\ Leaf(d.verdict, d.id, e.ticket, d.expires, ok)
           /\ entries' = IF ok THEN Put(es, d.id, new) ELSE es
  BY Zenon DEF Decide
<1>2. d.id \in Ids /\ d.verdict \in {"approve", "refuse"} /\ d.expires \in Nat
  BY DEF IInv, TypeOK
<1>3. /\ es \in [Ids -> Entries \cup {None}]
      /\ \A i \in Ids : es[i] \in {entries[i], None}
  BY PrunedKeeps DEF IInv, TypeOK
<1>4. /\ e = entries[d.id] /\ entries[d.id] # None
      /\ e.ticket \in Tickets /\ e.ticket <= tickets
      /\ \E a \in 1..Len(journal) : journal[a].id = d.id /\ journal[a].ticket = e.ticket
  BY <1>1, <1>2, <1>3, LiveIsUnused, SMTT(30)
<1>5. PICK ok \in BOOLEAN :
        /\ Leaf(d.verdict, d.id, e.ticket, d.expires, ok)
        /\ entries' = IF ok THEN Put(es, d.id, new) ELSE es
  BY <1>1
<1> HIDE DEF e, es
<1>6. d.verdict \in Acts /\ d.verdict # "enqueue"
  BY <1>2 DEF Acts
<1>7. Grown(d.verdict, d.id, e.ticket)
  BY <1>2, <1>4, <1>5, <1>6, LeafGrows, SMTT(30)
<1>8. tickets' \in 0..MaxTickets /\ tickets <= tickets' /\ e.ticket <= tickets'
  BY <1>1, <1>4, SMTT(30) DEF IInv, TypeOK
<1>9. /\ journal' \in Seq(Records) /\ Serving' /\ Extended /\ Orderly'
      /\ cursor' \in 1..(Len(journal') + 1)
  BY <1>1, <1>2, <1>4, <1>6, <1>7, <1>8, GrowthKeeps DEF IInv
<1>10. new \in Entries /\ new.ticket = e.ticket
  BY <1>2, <1>4 DEF Entry, Entries, Status
<1>11. /\ entries' \in [Ids -> Entries \cup {None}]
       /\ \A i \in Ids : entries'[i] # None =>
            entries[i] # None /\ entries'[i].ticket = entries[i].ticket
  BY <1>2, <1>3, <1>4, <1>5, <1>10 DEF Put
<1>12. TypeOK'
  BY <1>1, <1>8, <1>9, <1>11 DEF IInv, TypeOK
<1> QED BY <1>1, <1>9, <1>11, <1>12, NothingNew DEF IInv

LEMMA ConsumeKeepsInv == ASSUME IInv, NEW r \in Reqs, Consume(r) PROVE IInv'
<1> DEFINE id == IdOf[r]
           es == Pruned(entries)
           e == es[id]
           act == IF e.status = "approved" THEN "consume" ELSE "consumeRefused"
<1>1. /\ Serving /\ e # None /\ UNCHANGED <<now, tickets, signed>>
      /\ \E ok \in BOOLEAN :
           /\ Leaf(act, id, e.ticket, e.expires, ok)
           /\ entries' = IF ok THEN Put(es, id, None) ELSE es
           /\ uses' = IF ok /\ act = "consume" THEN [uses EXCEPT ![e.ticket] = @ + 1] ELSE uses
  BY Zenon DEF Consume
<1>2. id \in Ids
  BY ArbitrationAssumption
<1>3. /\ es \in [Ids -> Entries \cup {None}]
      /\ \A i \in Ids : es[i] \in {entries[i], None}
  BY PrunedKeeps DEF IInv, TypeOK
<1>4. /\ e = entries[id] /\ entries[id] # None
      /\ e.ticket \in Tickets /\ e.ticket <= tickets /\ uses[e.ticket] = 0
      /\ \E a \in 1..Len(journal) : journal[a].id = id /\ journal[a].ticket = e.ticket
  BY <1>1, <1>2, <1>3, LiveIsUnused, SMTT(30)
<1>5. e.expires \in Nat
  BY <1>1, <1>2, <1>3 DEF Entries
<1>6. act \in Acts /\ act # "enqueue"
  BY DEF Acts
<1>7. PICK ok \in BOOLEAN :
        /\ Leaf(act, id, e.ticket, e.expires, ok)
        /\ entries' = IF ok THEN Put(es, id, None) ELSE es
        /\ uses' = IF ok /\ act = "consume" THEN [uses EXCEPT ![e.ticket] = @ + 1] ELSE uses
  BY <1>1
<1> HIDE DEF act, e, es
<1>8. /\ Grown(act, id, e.ticket)
      /\ ok => \E rec \in Records :
                 /\ rec.act = act /\ rec.id = id /\ rec.ticket = e.ticket
                 /\ journal' = Append(journal, rec) /\ cursor' = cursor + 1
  BY <1>2, <1>4, <1>5, <1>6, <1>7, LeafGrows, SMTT(30)
<1>9. tickets' \in 0..MaxTickets /\ tickets <= tickets' /\ e.ticket <= tickets'
  BY <1>1, <1>4, SMTT(30) DEF IInv, TypeOK
<1>10. /\ journal' \in Seq(Records) /\ Serving' /\ Extended /\ Orderly'
       /\ cursor' \in 1..(Len(journal') + 1)
  BY <1>1, <1>2, <1>4, <1>6, <1>8, <1>9, GrowthKeeps DEF IInv
<1>11. /\ entries' \in [Ids -> Entries \cup {None}]
       /\ \A i \in Ids : entries'[i] \in {entries[i], None}
       /\ ok => entries'[id] = None
  BY <1>2, <1>3, <1>7 DEF Put
<1>12. uses' \in [Tickets -> Nat]
  BY <1>4, <1>7, SMTT(30) DEF IInv, TypeOK
<1>13. TypeOK'
  BY <1>1, <1>9, <1>10, <1>11, <1>12 DEF IInv, TypeOK
<1>14. CASE ~(ok /\ act = "consume")
  BY <1>1, <1>7, <1>10, <1>11, <1>13, <1>14, NothingNew DEF IInv
<1>15. CASE ok /\ act = "consume"
  <2>1. \A t \in Tickets : uses'[t] = IF t = e.ticket THEN 1 ELSE uses[t]
    BY <1>4, <1>7, <1>15, SMTT(30) DEF IInv, TypeOK
  <2>2. UsedOnce'
    BY <2>1, SMTT(30) DEF IInv, UsedOnce
  <2>3. Enqueued'
    BY <1>1, <1>10, <1>11, StillEnqueued
  <2>4. PICK rec \in Records :
          /\ rec.act = act /\ rec.id = id /\ rec.ticket = e.ticket
          /\ journal' = Append(journal, rec) /\ cursor' = cursor + 1
    BY <1>8, <1>15
  <2>5. /\ Len(journal) + 1 \in 1..Len(journal') /\ journal'[Len(journal) + 1] = rec
        /\ Len(journal) + 1 \in Nat
    BY <2>4, SMTT(30) DEF IInv, TypeOK
  <2>6. \A t \in Tickets : t = e.ticket => \E b \in Nat : Consumption(b, t)'
    <3> SUFFICES ASSUME NEW t \in Tickets, t = e.ticket, NEW b \in Nat, b = Len(journal) + 1
                 PROVE  Consumption(b, t)'
      BY <2>5
    <3> QED BY <1>15, <2>4, <2>5 DEF Consumption
  <2>7. \A b, t : Consumption(b, t) => Consumption(b, t)'
    BY <1>10, <2>5, SMTT(30) DEF Consumption, Extended, IInv, TypeOK
  <2>8. Recorded'
    BY <2>1, <2>5, <2>6, <2>7 DEF IInv, Recorded
  <2>9. \A i \in Ids : entries'[i] # None =>
          i # id /\ entries'[i] = entries[i] /\ entries[i] # None
    BY <1>11, <1>15
  <2>10. ASSUME NEW i \in Ids, entries'[i] # None
         PROVE  uses'[entries'[i].ticket] = 0
    <3>1. /\ uses[entries[i].ticket] = 0 /\ entries[i].ticket \in Tickets
          /\ \E a \in 1..Len(journal) : journal[a].id = i /\ journal[a].ticket = entries[i].ticket
      BY <1>1, <2>9, <2>10, LiveIsUnused
    <3>2. entries[i].ticket # e.ticket
      BY <1>4, <2>9, <2>10, <3>1, SMTT(30) DEF IInv, Orderly
    <3> QED BY <2>1, <2>9, <2>10, <3>1, <3>2
  <2>11. NotForgotten'
    BY <2>10 DEF NotForgotten
  <2> QED BY <1>10, <1>13, <2>2, <2>3, <2>8, <2>11 DEF IInv
<1> QED BY <1>14, <1>15

LEMMA RestartKeepsInv == ASSUME IInv, Restart PROVE IInv'
<1>1. /\ entries' = [id \in Ids |-> None] /\ cursor' = 1
      /\ UNCHANGED <<now, tickets, journal, signed, uses>>
  BY DEF Restart, Empty
<1>2. TypeOK'
  BY <1>1, SMTT(30) DEF IInv, TypeOK
<1>3. Orderly' /\ Recorded' /\ UsedOnce'
  BY <1>1, SMTT(30) DEF IInv, Orderly, Recorded, Consumption, UsedOnce
<1>4. Enqueued' /\ NotForgotten'
  BY <1>1 DEF Enqueued, NotForgotten
<1> QED BY <1>2, <1>3, <1>4 DEF IInv

\* What the replay of a record does to the queue: it enqueues, decides, or deletes.
LEMMA ReplayedEffect ==
  ASSUME entries \in [Ids -> Entries \cup {None}], NEW rec \in Records
  PROVE  LET es == Replayed(entries, rec)
             e == entries[rec.id]
         IN /\ es \in [Ids -> Entries \cup {None}]
            /\ \A i \in Ids : i # rec.id => es[i] = entries[i]
            /\ es[rec.id] # None =>
                 \/ rec.act = "enqueue" /\ es[rec.id].ticket = rec.ticket
                 \/ /\ e # None /\ es[rec.id].ticket = e.ticket
                    /\ ~(rec.act = "consume" /\ rec.ticket = e.ticket)
<1> DEFINE e == entries[rec.id]
           E(status) == Entry(rec.ticket, rec.expires, status)
           Result(x) == Replayed(entries, rec) = [entries EXCEPT ![rec.id] = x]
<1>1. /\ rec.id \in Ids /\ rec.ticket \in Tickets /\ rec.expires \in Nat
  BY DEF Records
<1>2. \/ rec.act = "enqueue" /\ Result(E("pending"))
      \/ rec.act = "approve" /\ e # None /\ e.ticket = rec.ticket /\ Result(E("approved"))
      \/ rec.act = "refuse" /\ e # None /\ e.ticket = rec.ticket /\ Result(E("refused"))
      \/ Result(None)
      \/ /\ Replayed(entries, rec) = entries
         /\ ~(rec.act = "consume" /\ e # None /\ e.ticket = rec.ticket)
  BY DEF Replayed, Put
<1>3. \A status \in {"pending", "approved", "refused"} :
        E(status) \in Entries /\ E(status).ticket = rec.ticket
  BY <1>1 DEF Entry, Entries
<1> HIDE DEF E
<1>4. \A x \in Entries \cup {None} : Result(x) =>
        /\ Replayed(entries, rec) \in [Ids -> Entries \cup {None}]
        /\ Replayed(entries, rec)[rec.id] = x
        /\ \A i \in Ids : i # rec.id => Replayed(entries, rec)[i] = entries[i]
  BY <1>1
<1> HIDE DEF Result
<1> QED BY <1>1, <1>2, <1>3, <1>4

LEMMA RestoreKeepsInv == ASSUME IInv, Restore PROVE IInv'
<1> DEFINE rec == journal[cursor]
           es == Replayed(entries, rec)
<1>1. /\ ~Serving /\ cursor' = cursor + 1
      /\ UNCHANGED <<now, tickets, journal, signed, uses>>
      /\ entries' = es \/ entries' = Pruned(es)
  BY Zenon DEF Restore
<1>2. /\ cursor \in 1..Len(journal) /\ cursor' \in 1..(Len(journal) + 1)
      /\ rec \in Records /\ rec.id \in Ids /\ rec.ticket \in Tickets
  <2>1. cursor \in 1..Len(journal) /\ cursor' \in 1..(Len(journal) + 1)
    BY <1>1, SMTT(30) DEF IInv, TypeOK, Serving
  <2>2. rec \in Records
    BY <2>1, SMTT(30) DEF IInv, TypeOK
  <2> QED BY <2>1, <2>2 DEF Records
<1>3. /\ es \in [Ids -> Entries \cup {None}]
      /\ \A i \in Ids : i # rec.id => es[i] = entries[i]
      /\ es[rec.id] # None =>
           \/ rec.act = "enqueue" /\ es[rec.id].ticket = rec.ticket
           \/ /\ entries[rec.id] # None /\ es[rec.id].ticket = entries[rec.id].ticket
              /\ ~(rec.act = "consume" /\ rec.ticket = entries[rec.id].ticket)
  BY <1>2, ReplayedEffect DEF IInv, TypeOK
<1> HIDE DEF es
<1>4. /\ entries' \in [Ids -> Entries \cup {None}]
      /\ \A i \in Ids : entries'[i] \in {es[i], None}
  BY <1>1, <1>3 DEF Pruned
<1>5. TypeOK'
  BY <1>1, <1>2, <1>4 DEF IInv, TypeOK
<1>6. Orderly' /\ Recorded' /\ UsedOnce'
  <2>1. Orderly'
    BY <1>1, SMTT(30) DEF IInv, Orderly
  <2>2. Recorded'
    BY <1>1 DEF IInv, Recorded, Consumption
  <2>3. UsedOnce'
    BY <1>1 DEF IInv, UsedOnce
  <2> QED
    BY <2>1, <2>2, <2>3
<1>7. ASSUME NEW i \in Ids, entries'[i] # None
      PROVE  \/ rec.act = "enqueue" /\ rec.id = i /\ entries'[i].ticket = rec.ticket
             \/ /\ entries[i] # None /\ entries'[i].ticket = entries[i].ticket
                /\ ~(rec.act = "consume" /\ rec.ticket = entries[i].ticket)
  <2>1. entries'[i] = es[i] /\ es[i] # None
    BY <1>4, <1>7
  <2>2. CASE i = rec.id
    BY <1>3, <2>1, <2>2
  <2>3. CASE i # rec.id
    <3>1. entries[i] = es[i]
      BY <1>3, <2>3
    <3>2. PICK a \in 1..Len(journal) :
            /\ journal[a].id = i /\ journal[a].ticket = entries[i].ticket
      BY <2>1, <3>1 DEF IInv, Enqueued
    <3>3. rec.ticket # entries[i].ticket
      BY <1>2, <2>3, <3>2 DEF IInv, Orderly
    <3> QED BY <2>1, <3>1, <3>3
  <2> QED BY <2>2, <2>3
<1>8. Enqueued'
  <2> SUFFICES ASSUME NEW i \in Ids, entries'[i] # None
               PROVE  \E a \in 1..Len(journal) :
                        /\ a < cursor + 1
                        /\ journal[a].act = "enqueue" /\ journal[a].id = i
                        /\ journal[a].ticket = entries'[i].ticket
    BY <1>1 DEF Enqueued
  <2>1. CASE rec.act = "enqueue" /\ rec.id = i /\ entries'[i].ticket = rec.ticket
    BY <1>2, <2>1, SMTT(30)
  <2>2. CASE entries[i] # None /\ entries'[i].ticket = entries[i].ticket
    BY <1>2, <2>2, SMTT(30) DEF IInv, Enqueued
  <2> QED BY <1>7, <2>1, <2>2
<1>9. ASSUME NEW i \in Ids, entries'[i] # None, uses[entries'[i].ticket] > 0
      PROVE  \E b \in Nat : b >= cursor + 1 /\ Consumption(b, entries'[i].ticket)
  <2>1. CASE rec.act = "enqueue" /\ entries'[i].ticket = rec.ticket
    <3>1. PICK b \in Nat : Consumption(b, rec.ticket)
      BY <1>2, <1>9, <2>1 DEF IInv, Recorded
    <3>2. b \in 1..Len(journal) /\ journal[b].ticket = rec.ticket /\ b # cursor
      BY <2>1, <3>1 DEF Consumption
    <3>3. cursor < b
      BY <1>2, <2>1, <3>2 DEF IInv, Orderly
    <3> QED BY <1>2, <2>1, <3>1, <3>3
  <2>2. CASE /\ entries[i] # None /\ entries'[i].ticket = entries[i].ticket
             /\ ~(rec.act = "consume" /\ rec.ticket = entries[i].ticket)
    <3>1. PICK b \in Nat : b >= cursor /\ Consumption(b, entries[i].ticket)
      BY <1>9, <2>2 DEF IInv, NotForgotten
    <3>2. b # cursor
      BY <2>2, <3>1 DEF Consumption
    <3> QED BY <1>2, <2>2, <3>1, <3>2
  <2> QED BY <1>7, <1>9, <2>1, <2>2
<1>10. NotForgotten'
  <2> SUFFICES ASSUME NEW i \in Ids, entries'[i] # None, uses'[entries'[i].ticket] > 0
               PROVE  \E b \in Nat : b >= cursor' /\ Consumption(b, entries[i].ticket)'
    BY DEF NotForgotten
  <2>1. PICK b \in Nat : b >= cursor + 1 /\ Consumption(b, entries'[i].ticket)
    BY <1>1, <1>9
  <2> QED BY <1>1, <2>1 DEF Consumption
<1> QED BY <1>5, <1>6, <1>8, <1>10 DEF IInv

-----------------------------------------------------------------------------
LEMMA StepKeepsInv == IInv /\ [Next]_vars => IInv'
<1> SUFFICES ASSUME IInv, [Next]_vars PROVE IInv'
  OBVIOUS
<1>1. ASSUME UNCHANGED <<now, queue, signed, uses>> PROVE IInv'
  BY <1>1, IdleKeepsInv DEF IInv, TypeOK
<1>2. CASE \E r \in Reqs : Admit(r) \/ Take(r) \/ Consume(r) \/ Accept(r) \/ Enqueue(r)
  <2> PICK r \in Reqs : Admit(r) \/ Take(r) \/ Consume(r) \/ Accept(r) \/ Enqueue(r)
    BY <1>2
  <2>1. CASE Admit(r) \/ Accept(r)
    BY <1>1, <2>1 DEF Admit, Accept
  <2> QED BY <2>1, TakeKeepsInv, ConsumeKeepsInv, EnqueueKeepsInv
<1>3. ASSUME NEW id \in Ids, Sign(id) PROVE IInv'
  <2>1. /\ Serving /\ entries[id] # None /\ UNCHANGED <<now, queue, uses>>
        /\ \E v \in {"approve", "refuse"}, x \in (now + MinDecision)..(now + EntryTTL) :
             signed' = signed \cup {[id |-> id, ticket |-> entries[id].ticket,
                                     verdict |-> v, expires |-> x]}
    BY <1>3, Zenon DEF Sign
  <2>2. PICK v \in {"approve", "refuse"}, x \in (now + MinDecision)..(now + EntryTTL) :
          signed' = signed \cup {[id |-> id, ticket |-> entries[id].ticket,
                                  verdict |-> v, expires |-> x]}
    BY <2>1
  <2>3. x \in Nat
    BY ArbitrationAssumption, SMTT(30) DEF IInv, TypeOK
  <2>4. entries[id].ticket \in Tickets
    BY <2>1, LiveIsUnused
  <2>5. signed' \subseteq [id : Ids, ticket : Tickets, verdict : {"approve", "refuse"}, expires : Nat]
    BY <2>2, <2>3, <2>4, SMTT(30) DEF IInv, TypeOK
  <2>6. now' \in Nat
    BY <2>1 DEF IInv, TypeOK
  <2> QED BY <2>1, <2>5, <2>6, IdleKeepsInv
<1>4. CASE CheckHealth \/ \E at \in 0..(MaxTime + Skew) : Heartbeat(at)
  BY <1>1, <1>4 DEF CheckHealth, Heartbeat
<1>5. CASE Tick
  <2>1. UNCHANGED <<queue, uses, signed>> /\ now' \in Nat
    BY <1>5, SMTT(30) DEF Tick, IInv, TypeOK
  <2> QED BY <2>1, IdleKeepsInv DEF IInv, TypeOK
<1>6. CASE UNCHANGED vars
  BY <1>1, <1>6 DEF vars
<1> QED BY <1>2, <1>3, <1>4, <1>5, <1>6, DecideKeepsInv, RestartKeepsInv, RestoreKeepsInv DEF Next

\* Take hands an approval to one agent only: for any agents and ids, any failed
\* leaf and any restart of brokerd, between any two records replayed by Restore
\* included, a ticket admits at most once.
THEOREM ApprovalsAreUsedOnce == Spec => []UsedOnce
<1>1. IInv => UsedOnce
  BY DEF IInv
<1> QED BY <1>1, InitInv, StepKeepsInv, PTL DEF Spec

-----------------------------------------------------------------------------
(* The plan store: the argument rests on what a sweep may do to one plan. *)

\* Every approved plan in the store has the leaves it needs.
PlanInv == PlanTypeOK /\ ApprovedIsProved

\* A sweep leaves a plan alone, marks it expired or forgets it.
LEMMA SweepEffect ==
  ASSUME PlanTypeOK, NEW s \in Swept
  PROVE  /\ s[1] \in [Hashes -> PlanEntry \cup {NoPlan}] /\ s[2] \in {0, 1}
         /\ \A h \in Hashes :
              s[1][h] # NoPlan =>
                /\ plans[h] # NoPlan
                /\ s[1][h] \in {plans[h], [plans[h] EXCEPT !.expired = TRUE]}
<1>0. PICK failed \in Failing :
        \E gone \in Evictions(MarkExpired(plans, failed)) :
          s = <<Evict(MarkExpired(plans, failed), gone), IF failed = {} THEN 0 ELSE 1>>
  BY SMTT(30) DEF Swept
<1>1. PICK gone \in Evictions(MarkExpired(plans, failed)) :
        s[1] = Evict(MarkExpired(plans, failed), gone) /\ s[2] \in {0, 1}
  BY <1>0
<1> DEFINE q == MarkExpired(plans, failed)
<1>2. \A h \in Hashes : q[h] \in {plans[h], [plans[h] EXCEPT !.expired = TRUE]}
  BY DEF MarkExpired
<1>3. \A h \in Hashes : plans[h] = NoPlan => q[h] = NoPlan
  BY DEF MarkExpired, Due, Present
<1>4. ASSUME NEW h \in Hashes, plans[h] # NoPlan
      PROVE  [plans[h] EXCEPT !.expired = TRUE] \in PlanEntry
  BY <1>4, Zenon DEF PlanTypeOK, PlanEntry
<1>5. q \in [Hashes -> PlanEntry \cup {NoPlan}]
  <2>1. ASSUME NEW h \in Hashes PROVE q[h] \in PlanEntry \cup {NoPlan}
    BY <1>2, <1>3, <1>4 DEF PlanTypeOK
  <2> QED
    BY <2>1 DEF MarkExpired
<1> HIDE DEF q
<1>6. s[1] \in [Hashes -> PlanEntry \cup {NoPlan}]
  BY <1>1, <1>5 DEF Evict, q
<1>7. \A h \in Hashes : s[1][h] # NoPlan => s[1][h] = q[h]
  BY <1>1 DEF Evict, q
<1> QED
  BY <1>1, <1>2, <1>3, <1>6, <1>7

\* A sweep whose leaves are all written leaves no overdue plan unmarked.
LEMMA SweepIsComplete ==
  ASSUME PlanTypeOK, NEW s \in Swept, s[2] = 0, NEW h \in Hashes,
         s[1][h] # NoPlan, ~s[1][h].expired
  PROVE  s[1][h] = plans[h] /\ plans[h] # NoPlan /\ clock <= plans[h].expires
<1>1. PICK gone \in Evictions(MarkExpired(plans, {})) :
        s[1] = Evict(MarkExpired(plans, {}), gone)
  <2>1. PICK failed \in Failing : \E gone \in Evictions(MarkExpired(plans, failed)) :
          s = <<Evict(MarkExpired(plans, failed), gone), IF failed = {} THEN 0 ELSE 1>>
    BY DEF Swept
  <2> QED BY <2>1
<1>2. s[1][h] = MarkExpired(plans, {})[h]
  BY <1>1 DEF Evict
<1>3. plans[h] \in PlanEntry
  BY <1>2 DEF PlanTypeOK, MarkExpired, Due, Present
<1>4. h \notin Due(plans)
  BY <1>2, <1>3 DEF MarkExpired, PlanEntry
<1>5. s[1][h] = plans[h]
  BY <1>2, <1>4 DEF MarkExpired
<1>6. plans[h] # NoPlan /\ ~(clock > plans[h].expires)
  BY <1>4, <1>5 DEF Due, Present
<1> QED
  BY <1>3, <1>5, <1>6, SMTT(30) DEF PlanTypeOK, PlanEntry

-----------------------------------------------------------------------------

\* What makes one approved plan proved.
Proved(e, h, lv) ==
  e.status = "approved" =>
    \E sigs \in SUBSET (Approvers \ {e.submitter}) :
      /\ Cardinality(sigs) >= e.required
      /\ \A k \in sigs : <<h, k>> \in lv

LEMMA ProvedPlans ==
  ApprovedIsProved <=> \A h \in Hashes : plans[h] # NoPlan => Proved(plans[h], h, approveLeaves)
BY DEF ApprovedIsProved, Proved, Present

LEMMA ProvedPlansNext ==
  ApprovedIsProved' <=> \A h \in Hashes : plans'[h] # NoPlan => Proved(plans'[h], h, approveLeaves')
BY DEF ApprovedIsProved, Proved, Present

\* More leaves, and the mark of a sweep, keep a plan proved.
LEMMA SweptPlansAreProved ==
  ASSUME PlanInv, NEW s \in Swept, NEW lv, approveLeaves \subseteq lv,
         NEW h \in Hashes, s[1][h] # NoPlan
  PROVE  Proved(s[1][h], h, lv) /\ s[1][h] \in PlanEntry
<1>1. /\ plans[h] \in PlanEntry /\ Proved(plans[h], h, approveLeaves)
      /\ s[1][h] \in {plans[h], [plans[h] EXCEPT !.expired = TRUE]}
      /\ s[1][h] \in PlanEntry
  BY SweepEffect, ProvedPlans, SMTT(30) DEF PlanInv, PlanTypeOK
<1>2. /\ s[1][h].status = plans[h].status /\ s[1][h].required = plans[h].required
      /\ s[1][h].submitter = plans[h].submitter
  BY <1>1, SMTT(30) DEF PlanEntry
<1> QED
  BY <1>1, <1>2 DEF Proved

LEMMA PlanNextInv ==
  ASSUME PlanInv, [PlanNext]_planVars
  PROVE  PlanInv'
<1> USE DEF PlanInv
<1>1. ASSUME NEW s \in Swept, plans' = s[1], clock' = clock, approveLeaves \subseteq approveLeaves'
      PROVE  PlanInv'
  BY <1>1, SweepEffect, SweptPlansAreProved, ProvedPlansNext, Zenon DEF PlanTypeOK
<1>2. ASSUME NEW s \in Swept, NEW c \in Contents, NEW k \in Keys \cup {NoKey},
             SubmitInto(s[1], c, k), clock' = clock, approveLeaves' = approveLeaves
      PROVE  PlanInv'
  <2>1. CASE plans' = s[1]
    BY <1>1, <1>2, <2>1
  <2>2. CASE plans' = [s[1] EXCEPT ![<<c, clock>>] = NewEntry(c, k)]
    <3>1. NewEntry(c, k) \in PlanEntry /\ NewEntry(c, k).status = "pending"
      BY ConstantsAssumption, TTLAssumption, SMTT(30) DEF NewEntry, PlanEntry, PlanTypeOK
    <3>2. \A h \in Hashes : plans'[h] = s[1][h] \/ plans'[h] = NewEntry(c, k)
      BY <2>2, SweepEffect
    <3>3. PlanTypeOK'
      BY <1>2, <2>2, <3>1, SweepEffect, Zenon DEF PlanTypeOK
    <3>4. Proved(NewEntry(c, k), <<c, clock>>, approveLeaves)
      BY <3>1 DEF Proved
    <3>5. \A h \in Hashes : Proved(NewEntry(c, k), h, approveLeaves)
      BY <3>1 DEF Proved
    <3> QED
      BY <1>2, <3>2, <3>3, <3>5, SweptPlansAreProved, ProvedPlansNext
  <2> QED
    BY <1>2, <2>1, <2>2 DEF SubmitInto
<1>3. ASSUME NEW s \in Swept, NEW h \in Hashes, NEW exp \in Nat, NEW sigs \in SUBSET Keys,
             ApproveAll(s, h, exp, sigs)
      PROVE  PlanInv'
  <2> DEFINE e == [s[1][h] EXCEPT !.status = "approved", !.expires = exp, !.cursor = 0]
  <2>1. /\ s[1][h] # NoPlan /\ sigs \subseteq Approvers /\ s[1][h].submitter \notin sigs
        /\ Cardinality(sigs) >= s[1][h].required
        /\ approveLeaves' = approveLeaves \cup {<<h, k>> : k \in sigs}
        /\ clock' = clock
        /\ plans' = [s[1] EXCEPT ![h].status = "approved", ![h].expires = exp, ![h].cursor = 0]
    BY <1>3 DEF ApproveAll, Approvable
  <2>2. s[1][h] \in PlanEntry /\ s[1] \in [Hashes -> PlanEntry \cup {NoPlan}]
    BY <2>1, SweepEffect, SMTT(30)
  <2>3. /\ e \in PlanEntry /\ e.submitter = s[1][h].submitter /\ e.required = s[1][h].required
    BY <2>2, Zenon DEF PlanEntry
  <2>4. plans' = [s[1] EXCEPT ![h] = e]
    BY <2>1, <2>2, Zenon
  <2>5. Proved(e, h, approveLeaves')
    BY <2>1, <2>3 DEF Proved
  <2> HIDE DEF e
  <2>6. PlanTypeOK'
    BY <2>1, <2>2, <2>3, <2>4, SMTT(30) DEF PlanTypeOK
  <2>7. \A g \in Hashes : plans'[g] # NoPlan => Proved(plans'[g], g, approveLeaves')
    BY <2>1, <2>2, <2>4, <2>5, SweptPlansAreProved, Zenon
  <2> QED
    BY <2>6, <2>7, ProvedPlansNext
<1>4. ASSUME NEW s \in Swept, NEW h \in Hashes, NEW exp, NEW sigs, ApproveFails(s, h, exp, sigs)
      PROVE  PlanInv'
  BY <1>1, <1>4 DEF ApproveFails
<1>5. ASSUME NEW s \in Swept, NEW h \in Hashes, NEW e \in PlanEntry, s[1][h] # NoPlan,
             Proved(e, h, approveLeaves),
             plans' = [s[1] EXCEPT ![h] = e], clock' = clock, approveLeaves' = approveLeaves
      PROVE  PlanInv'
  <2>1. PlanTypeOK'
    BY <1>5, SweepEffect DEF PlanTypeOK
  <2>2. \A g \in Hashes : plans'[g] # NoPlan => Proved(plans'[g], g, approveLeaves')
    BY <1>5, SweepEffect, SweptPlansAreProved, Zenon
  <2> QED
    BY <2>1, <2>2, ProvedPlansNext
<1>6. ASSUME NEW s \in Swept, NEW h \in Hashes, NEW exp, NEW k, Revoke(s, h, exp, k)
      PROVE  PlanInv'
  <2> DEFINE e == [s[1][h] EXCEPT !.status = "revoked"]
  <2>1. s[1][h] # NoPlan /\ clock' = clock /\ approveLeaves' = approveLeaves
    BY <1>6 DEF Revoke
  <2>2. s[1][h] \in PlanEntry /\ s[1] \in [Hashes -> PlanEntry \cup {NoPlan}]
    BY <2>1, SweepEffect, SMTT(30)
  <2>3. e \in PlanEntry /\ e.status = "revoked"
    BY <2>2 DEF PlanEntry
  <2>4. plans' = [s[1] EXCEPT ![h] = e]
    BY <1>6, <2>2 DEF Revoke
  <2>5. Proved(e, h, approveLeaves)
    BY <2>3 DEF Proved
  <2> HIDE DEF e
  <2> QED
    BY <1>5, <2>1, <2>3, <2>4, <2>5
<1>7. ASSUME NEW s \in Swept, NEW h \in Hashes, NEW subject, NEW step,
             VerifyStep(s, h, subject, step)
      PROVE  PlanInv'
  <2> DEFINE e == [s[1][h] EXCEPT !.cursor = @ + 1]
  <2>1. s[1][h] # NoPlan /\ clock' = clock /\ approveLeaves' = approveLeaves
    BY <1>7 DEF VerifyStep, Executable
  <2>2. s[1][h] \in PlanEntry /\ s[1] \in [Hashes -> PlanEntry \cup {NoPlan}]
        /\ Proved(s[1][h], h, approveLeaves)
    BY <2>1, SweepEffect, SweptPlansAreProved
  <2>3. /\ e \in PlanEntry /\ e.status = s[1][h].status
        /\ e.submitter = s[1][h].submitter /\ e.required = s[1][h].required
    BY <2>2, SMTT(30) DEF PlanEntry
  <2>4. plans' = [s[1] EXCEPT ![h] = e]
    BY <1>7, <2>2 DEF VerifyStep
  <2>5. Proved(e, h, approveLeaves)
    BY <2>2, <2>3 DEF Proved
  <2> HIDE DEF e
  <2> QED
    BY <1>5, <2>1, <2>3, <2>4, <2>5
<1>8. ASSUME PlanRestart
      PROVE  PlanInv'
  BY <1>8, ProvedPlansNext DEF PlanRestart, PlanTypeOK
<1>9. ASSUME clock' \in Nat, UNCHANGED <<plans, approveLeaves>>
      PROVE  PlanInv'
  BY <1>9, ProvedPlans, ProvedPlansNext DEF PlanTypeOK
<1>10. ASSUME NEW s \in Swept, Operation(s)
       PROVE  PlanInv'
  <2>1. ASSUME NEW c \in Contents, Submit(s, c) PROVE PlanInv'
    BY <1>2, <2>1 DEF Submit, history
  <2>2. ASSUME NEW m \in Messages, NEW k \in Keys, SubmitSigned(s, m[1], m[2], k) PROVE PlanInv'
    BY <1>2, <2>2 DEF SubmitSigned, Messages
  <2>3. ASSUME Refused(s) PROVE PlanInv'
    BY <1>1, <2>3 DEF Refused, history
  <2>4. Expiries \subseteq Nat
    BY TTLAssumption DEF Expiries, PlanTypeOK
  <2> QED
    BY <1>3, <1>4, <1>6, <1>7, <1>10, <2>1, <2>2, <2>3, <2>4 DEF Operation
<1> QED
  BY <1>8, <1>9, <1>10 DEF PlanNext, PlanTick, planVars, history, PlanTypeOK

LEMMA PlanInvariance == PlanSpec => []PlanInv
<1>1. PlanInit => PlanInv
  BY ConstantsAssumption, SMTT(30) DEF PlanInit, PlanInv, PlanTypeOK, ApprovedIsProved, Present
<1>2. PlanInv /\ [PlanNext]_planVars => PlanInv'
  BY PlanNextInv
<1> QED
  BY <1>1, <1>2, PTL DEF PlanSpec

LEMMA FaultsAreCounted == PlanSpec => [](planFaults \in Nat)
<1>1. PlanInit => planFaults \in Nat
  BY DEF PlanInit
<1>2. ASSUME PlanInv, planFaults \in Nat, [PlanNext]_planVars
      PROVE  planFaults' \in Nat
  <2>1. ASSUME NEW s \in Swept, Operation(s)
        PROVE  planFaults' \in Nat
    <3>1. s[2] \in {0, 1}
      BY <1>2, SweepEffect DEF PlanInv
    <3>2. planFaults' \in {planFaults + s[2], planFaults + s[2] + 1}
      BY <2>1, ZenonT(40)
         DEF Operation, Submit, SubmitSigned, ApproveAll, ApproveFails, Revoke, VerifyStep, Refused
    <3> QED
      BY <1>2, <3>1, <3>2
  <2> QED
    BY <1>2, <2>1 DEF PlanNext, PlanTick, PlanRestart, planVars
<1>3. PlanInv /\ planFaults \in Nat /\ [PlanNext]_planVars => (planFaults \in Nat)'
  BY <1>2
<1> QED
  BY <1>1, <1>3, PlanInvariance, PTL DEF PlanSpec

\* Only VerifyStep consumes steps.
LEMMA StepsMoveRan ==
  ASSUME [PlanNext]_planVars
  PROVE  \/ ran' = ran
         \/ \E s \in Swept, g \in Hashes : \E subject, step : VerifyStep(s, g, subject, step)
<1>1. ASSUME NEW s \in Swept, Operation(s)
      PROVE  \/ ran' = ran
             \/ \E g \in Hashes : \E subject, step : VerifyStep(s, g, subject, step)
  BY <1>1, ZenonT(40)
     DEF Operation, Submit, SubmitSigned, ApproveAll, ApproveFails, Revoke, Refused, history
<1> QED
  BY <1>1 DEF PlanNext, PlanTick, PlanRestart, history, planVars

-----------------------------------------------------------------------------

\* No contract without proof: every approved plan has the leaves of enough
\* distinct approvers other than its recorded submitter (ApproveAll).
THEOREM ApprovalsAreProved == PlanSpec => []ApprovedIsProved
BY PlanInvariance, PTL DEF PlanInv

\* No step is consumed after the date of its plan: the sweep that precedes
\* VerifyStep has marked it, or failed to write a leaf (expireLocked).
THEOREM NoLateSteps == PlanSpec => NoStepAfterExpiry
<1>1. ASSUME PlanInv, planFaults \in Nat, [PlanNext]_planVars
      PROVE  [\A h \in Hashes : ran'[h] # ran[h] =>
                clock <= plans[h].expires \/ planFaults' > planFaults]_planVars
  <2>1. ASSUME NEW s \in Swept, NEW g \in Hashes, NEW subject, NEW step,
               VerifyStep(s, g, subject, step), NEW h \in Hashes, ran'[h] # ran[h]
        PROVE  clock <= plans[h].expires \/ planFaults' > planFaults
    <3>1. h = g
      BY <2>1 DEF VerifyStep
    <3>2. s[1][g] # NoPlan /\ ~s[1][g].expired
      BY <2>1 DEF VerifyStep, Executable
    <3>3. CASE s[2] = 0
      BY <1>1, <3>1, <3>2, <3>3, SweepIsComplete DEF PlanInv
    <3>4. CASE s[2] # 0
      BY <1>1, <2>1, <3>4, SweepEffect, SMTT(30) DEF VerifyStep, PlanInv, PlanTypeOK
    <3> QED
      BY <3>3, <3>4
  <2>2. ASSUME UNCHANGED ran
        PROVE  \A h \in Hashes : ran'[h] # ran[h] =>
                 clock <= plans[h].expires \/ planFaults' > planFaults
    BY <2>2
  <2>3. \/ ran' = ran
        \/ \E s \in Swept, g \in Hashes : \E subject, step : VerifyStep(s, g, subject, step)
    BY <1>1, StepsMoveRan
  <2> QED
    BY <2>1, <2>2, <2>3
<1> QED
  BY <1>1, PlanInvariance, FaultsAreCounted, PTL DEF PlanSpec, NoStepAfterExpiry

-----------------------------------------------------------------------------
(***************************************************************************)
(* The life of a seal.  A plan that is forgotten can come back only in the *)
(* second of its submission, and no tombstone is evicted in that second:   *)
(* the steps consumed under a seal are the cursor of its only plan.        *)
(***************************************************************************)

\* One seal h: its entry e, the steps n it consumed, the revocations rev, the time c.
SealState(e, h, n, rev, c) ==
  /\ n \in Nat /\ n <= Len(Steps[h[1]])
  /\ e = NoPlan => (n = 0 /\ h \notin rev) \/ h[2] < c
  /\ e # NoPlan =>
       /\ h[2] <= c /\ h[2] <= e.expires
       /\ e.expired => h[2] < c
       /\ e.status = "pending" => n = 0 /\ h \notin rev
       /\ e.status = "approved" => n = e.cursor /\ h \notin rev

SealInv ==
  /\ PlanTypeOK
  /\ ran \in [Hashes -> Nat]
  /\ \A h \in Hashes : SealState(plans[h], h, ran[h], revokedEver, clock)

\* evictTombstonesLocked forgets the oldest: never a tombstone of this second.
LEMMA EvictedAreOlder ==
  ASSUME PlanTypeOK, NEW p, \A h \in Present(p) : h[2] <= clock,
         NEW gone \in Evictions(p), NEW g \in gone
  PROVE  g[2] < clock
<1> SUFFICES ASSUME ~(g[2] < clock) PROVE FALSE
  OBVIOUS
<1> DEFINE T == Tombs(p)
           K == T \ gone
           Second == Contents \X {clock}
<1>1. /\ gone \subseteq T /\ \A k \in K : g[2] <= k[2]
      /\ Cardinality(K) = IF Cardinality(T) <= MaxTombstones THEN Cardinality(T) ELSE MaxTombstones
  BY DEF Evictions
<1>2. T \subseteq Hashes /\ \A h \in T : h[2] <= clock /\ h[2] \in Nat /\ h = <<h[1], h[2]>> /\ h[1] \in Contents
  BY DEF Tombs, Present, Hashes
<1>3. K \cup {g} \subseteq Second
  <2>1. clock \in Nat
    BY DEF PlanTypeOK
  <2>2. ASSUME NEW h \in K \cup {g} PROVE h[2] = clock
    BY <1>1, <1>2, <2>1, <2>2
  <2> QED
    BY <1>1, <1>2, <2>2, SMTT(30)
<1>4. IsFiniteSet(Second) /\ Cardinality(Second) = Cardinality(Contents)
  <2>1. IsFiniteSet({clock}) /\ Cardinality({clock}) = 1
    BY FS_Singleton, Zenon
  <2>2. Cardinality(Contents) \in Nat
    BY TombstoneAssumption, FS_CardinalityType
  <2>3. IsFiniteSet(Second) /\ Cardinality(Second) = Cardinality(Contents) * Cardinality({clock})
    BY <2>1, TombstoneAssumption, FS_Product, Zenon
  <2> QED
    BY <2>1, <2>2, <2>3
<1>5. IsFiniteSet(K \cup {g}) /\ Cardinality(K \cup {g}) <= Cardinality(Contents)
  BY <1>3, <1>4, FS_Subset
<1>6. IsFiniteSet(T)
  <2>1. IsFiniteSet(Hashes)
    <3>1. IsFiniteSet(0..MaxClock)
      BY ConstantsAssumption, FS_Interval, SMTT(30)
    <3> QED
      BY <3>1, TombstoneAssumption, FS_Product, Zenon DEF Hashes
  <2> QED
    BY <1>2, <2>1, FS_Subset
<1>7. IsFiniteSet(K) /\ Cardinality(K) \in Nat /\ Cardinality(T) \in Nat /\ Cardinality(K) < Cardinality(T)
  <2>1. K \subseteq T /\ K # T
    BY <1>1
  <2> QED
    BY <1>6, <2>1, FS_Subset, FS_CardinalityType, SMTT(30)
<1>8. Cardinality(K) = MaxTombstones
  BY <1>1, <1>7
<1>9. Cardinality(K \cup {g}) = MaxTombstones + 1
  BY <1>7, <1>8, FS_AddElement, Zenon
<1>10. Cardinality(Contents) \in Nat
  BY TombstoneAssumption, FS_CardinalityType
<1> QED
  BY <1>5, <1>9, <1>10, TombstoneAssumption

\* The sweep keeps every seal in its state.
LEMMA SweepKeepsSeals ==
  ASSUME SealInv, NEW s \in Swept, NEW h \in Hashes
  PROVE  SealState(s[1][h], h, ran[h], revokedEver, clock)
<1>0. PICK failed \in Failing :
        \E gone \in Evictions(MarkExpired(plans, failed)) :
          s = <<Evict(MarkExpired(plans, failed), gone), IF failed = {} THEN 0 ELSE 1>>
  BY SMTT(30) DEF Swept
<1>1. PICK gone \in Evictions(MarkExpired(plans, failed)) :
        s[1] = Evict(MarkExpired(plans, failed), gone)
  BY <1>0
<1> DEFINE q == MarkExpired(plans, failed)
<1>2. PlanTypeOK /\ h[2] \in Nat /\ clock \in Nat /\ \A g \in Hashes : SealState(plans[g], g, ran[g], revokedEver, clock)
  BY SMTT(30) DEF SealInv, PlanTypeOK, Hashes
<1>3. \A g \in Hashes : q[g] = IF g \in Due(plans) \ failed THEN [plans[g] EXCEPT !.expired = TRUE] ELSE plans[g]
  BY DEF MarkExpired
<1>4. \A g \in Hashes : plans[g] = NoPlan => q[g] = NoPlan
  BY <1>3, Zenon DEF Due, Present
<1>5. \A g \in Present(q) : g[2] <= clock
  BY <1>2, <1>4 DEF Present, SealState
<1> HIDE DEF q
<1>6. s[1][h] = IF h \in gone THEN NoPlan ELSE q[h]
  BY <1>1 DEF Evict, q
<1>7. CASE h \in gone
  <2>1. h[2] < clock
    BY <1>1, <1>2, <1>5, <1>7, EvictedAreOlder DEF q
  <2> QED
    BY <1>2, <1>6, <1>7, <2>1 DEF SealState
<1>8. CASE h \notin gone /\ h \in Due(plans) \ failed
  <2>1. plans[h] \in PlanEntry /\ plans[h] # NoPlan /\ clock > plans[h].expires
    BY <1>2, <1>8 DEF Due, Present, PlanTypeOK
  <2>2. plans[h].expires \in Nat /\ h[2] < clock
    BY <1>2, <2>1, SMTT(30) DEF SealState, PlanEntry
  <2>3. s[1][h] = [plans[h] EXCEPT !.expired = TRUE]
    BY <1>3, <1>6, <1>8
  <2>4. /\ s[1][h].expires = plans[h].expires /\ s[1][h].status = plans[h].status
        /\ s[1][h].cursor = plans[h].cursor
    BY <2>1, <2>3 DEF PlanEntry
  <2> QED
    BY <1>2, <2>1, <2>2, <2>4 DEF SealState
<1>9. CASE h \notin gone /\ h \notin Due(plans) \ failed
  BY <1>2, <1>3, <1>6, <1>9, Zenon
<1> QED
  BY <1>7, <1>8, <1>9

\* A step that only sweeps, or stores e under the seal g.
LEMMA OtherSealsKept ==
  ASSUME SealInv, NEW s \in Swept, NEW g \in Hashes, NEW e,
         PlanTypeOK', clock' = clock, plans' = [s[1] EXCEPT ![g] = e],
         ran' \in [Hashes -> Nat], revokedEver' \subseteq revokedEver \cup {g},
         \A h \in Hashes : h # g => ran'[h] = ran[h],
         SealState(e, g, ran'[g], revokedEver', clock)
  PROVE  SealInv'
<1>1. s[1] \in [Hashes -> PlanEntry \cup {NoPlan}]
  BY SweepEffect DEF SealInv
<1>2. ASSUME NEW h \in Hashes PROVE SealState(plans'[h], h, ran'[h], revokedEver', clock')
  <2>1. CASE h = g
    BY <1>1, <2>1
  <2>2. CASE h # g
    <3>1. SealState(s[1][h], h, ran[h], revokedEver, clock)
      BY SweepKeepsSeals
    <3>2. plans'[h] = s[1][h] /\ ran'[h] = ran[h]
      BY <1>1, <2>2
    <3>3. h \notin revokedEver => h \notin revokedEver'
      BY <2>2
    <3> QED
      BY <3>1, <3>2, <3>3 DEF SealState
  <2> QED
    BY <2>1, <2>2
<1> QED
  BY <1>2 DEF SealInv

LEMMA OnlySwept ==
  ASSUME SealInv, NEW s \in Swept, PlanTypeOK', clock' = clock, plans' = s[1],
         UNCHANGED <<ran, revokedEver>>
  PROVE  SealInv'
BY SweepKeepsSeals DEF SealInv

LEMMA NextSealInv ==
  ASSUME SealInv, PlanInv', [PlanNext]_planVars
  PROVE  SealInv'
<1>0. PlanTypeOK /\ PlanTypeOK' /\ ran \in [Hashes -> Nat] /\ clock \in Nat
  BY DEF SealInv, PlanInv, PlanTypeOK
<1>1. ASSUME NEW s \in Swept, NEW c \in Contents, NEW k \in Keys \cup {NoKey},
             SubmitInto(s[1], c, k), clock' = clock, UNCHANGED <<ran, revokedEver>>
      PROVE  SealInv'
  <2> DEFINE h == <<c, clock>>
             e == NewEntry(c, k)
  <2>1. CASE plans' = s[1]
    BY <1>0, <1>1, <2>1, OnlySwept
  <2>2. CASE plans' = [s[1] EXCEPT ![h] = e] /\ s[1][h] = NoPlan /\ h \in Hashes
    <3>1. SealState(NoPlan, h, ran[h], revokedEver, clock)
      BY <2>2, SweepKeepsSeals
    <3>2. h[2] = clock /\ h[1] = c
      OBVIOUS
    <3>3. ran[h] = 0 /\ h \notin revokedEver
      BY <1>0, <3>1, <3>2 DEF SealState
    <3>4. e.expires >= clock /\ e.expired = FALSE /\ e.status = "pending"
      BY <1>0, TTLAssumption DEF NewEntry
    <3>5. e # NoPlan
      <4>1. e \in PlanEntry
        BY <1>0, ConstantsAssumption, TTLAssumption, SMTT(30) DEF NewEntry, PlanEntry
      <4> QED
        BY <4>1, NoPlanAssumption
    <3>6. SealState(e, h, ran[h], revokedEver, clock)
      BY <1>0, <3>1, <3>2, <3>3, <3>4, <3>5, SMTT(30) DEF SealState
    <3> QED
      BY <1>0, <1>1, <2>2, <3>6, OtherSealsKept
  <2>3. CASE plans' = [s[1] EXCEPT ![h] = e] /\ h \notin Hashes
    <3>1. plans' = s[1]
      BY <1>0, <2>3, SweepEffect
    <3> QED
      BY <2>1, <3>1
  <2> QED
    BY <1>1, <2>1, <2>2, <2>3 DEF SubmitInto
<1>2. ASSUME NEW s \in Swept, NEW h \in Hashes, NEW exp \in Expiries, NEW sigs, ApproveAll(s, h, exp, sigs)
      PROVE  SealInv'
  <2> DEFINE e == [s[1][h] EXCEPT !.status = "approved", !.expires = exp, !.cursor = 0]
  <2>1. /\ s[1][h] # NoPlan /\ ~s[1][h].expired /\ s[1][h].status = "pending"
        /\ clock' = clock /\ UNCHANGED <<ran, revokedEver>>
        /\ plans' = [s[1] EXCEPT ![h].status = "approved", ![h].expires = exp, ![h].cursor = 0]
    BY <1>2 DEF ApproveAll, Approvable
  <2>2. s[1][h] \in PlanEntry /\ s[1] \in [Hashes -> PlanEntry \cup {NoPlan}]
    BY <1>0, <2>1, SweepEffect, SMTT(30)
  <2>3. e \in PlanEntry /\ e.expired = s[1][h].expired /\ e.status = "approved" /\ e.expires = exp /\ e.cursor = 0
    <3>1. exp \in Nat
      BY <1>0, TTLAssumption DEF Expiries
    <3> QED
      BY <2>2, <3>1, Zenon DEF PlanEntry
  <2>4. plans' = [s[1] EXCEPT ![h] = e]
    BY <2>1, <2>2, Zenon
  <2>5. SealState(s[1][h], h, ran[h], revokedEver, clock)
    BY SweepKeepsSeals
  <2>6. e # NoPlan
    BY <2>3, NoPlanAssumption
  <2>7. exp > clock /\ exp \in Nat /\ h[2] \in Nat
    BY <1>0, TTLAssumption DEF Expiries, Hashes
  <2> HIDE DEF e
  <2>8. SealState(e, h, ran[h], revokedEver, clock)
    BY <1>0, <2>1, <2>3, <2>5, <2>6, <2>7 DEF SealState
  <2> QED
    BY <1>0, <2>1, <2>4, <2>8, OtherSealsKept
<1>3. ASSUME NEW s \in Swept, NEW h \in Hashes, NEW exp, NEW k, Revoke(s, h, exp, k)
      PROVE  SealInv'
  <2> DEFINE e == [s[1][h] EXCEPT !.status = "revoked"]
  <2>1. /\ s[1][h] # NoPlan /\ clock' = clock /\ ran' = ran /\ revokedEver' = revokedEver \cup {h}
        /\ plans' = [s[1] EXCEPT ![h].status = "revoked"]
    BY <1>3 DEF Revoke
  <2>2. s[1][h] \in PlanEntry /\ s[1] \in [Hashes -> PlanEntry \cup {NoPlan}]
    BY <1>0, <2>1, SweepEffect, SMTT(30)
  <2>3. e \in PlanEntry /\ e.expired = s[1][h].expired /\ e.status = "revoked" /\ e.expires = s[1][h].expires
    BY <2>2 DEF PlanEntry
  <2>4. plans' = [s[1] EXCEPT ![h] = e]
    BY <2>1, <2>2
  <2>5. SealState(s[1][h], h, ran[h], revokedEver, clock)
    BY SweepKeepsSeals
  <2>6. e # NoPlan
    BY <2>3, NoPlanAssumption
  <2> HIDE DEF e
  <2>7. SealState(e, h, ran[h], revokedEver', clock)
    BY <2>1, <2>3, <2>5, <2>6 DEF SealState
  <2> QED
    BY <1>0, <2>1, <2>4, <2>7, OtherSealsKept
<1>4. ASSUME NEW s \in Swept, NEW h \in Hashes, NEW subject, NEW step, VerifyStep(s, h, subject, step)
      PROVE  SealInv'
  <2> DEFINE e == [s[1][h] EXCEPT !.cursor = @ + 1]
  <2>1. /\ s[1][h] # NoPlan /\ s[1][h].status = "approved" /\ s[1][h].cursor < Len(Steps[h[1]])
        /\ clock' = clock /\ revokedEver' = revokedEver /\ ran' = [ran EXCEPT ![h] = @ + 1]
        /\ plans' = [s[1] EXCEPT ![h].cursor = @ + 1]
    BY <1>4 DEF VerifyStep, Executable
  <2>2. s[1][h] \in PlanEntry /\ s[1] \in [Hashes -> PlanEntry \cup {NoPlan}]
    BY <1>0, <2>1, SweepEffect, SMTT(30)
  <2>3. /\ e \in PlanEntry /\ e.expired = s[1][h].expired /\ e.status = "approved"
        /\ e.expires = s[1][h].expires /\ e.cursor = s[1][h].cursor + 1
    BY <2>1, <2>2, SMTT(30) DEF PlanEntry
  <2>4. plans' = [s[1] EXCEPT ![h] = e]
    BY <2>1, <2>2
  <2>5. SealState(s[1][h], h, ran[h], revokedEver, clock)
    BY SweepKeepsSeals
  <2>6. e # NoPlan
    BY <2>3, NoPlanAssumption
  <2>7. Len(Steps[h[1]]) \in Nat
    BY ConstantsAssumption DEF Hashes
  <2>8. ran' \in [Hashes -> Nat] /\ ran'[h] = ran[h] + 1 /\ \A g \in Hashes : g # h => ran'[g] = ran[g]
    BY <1>0, <2>1, SMTT(30)
  <2> HIDE DEF e
  <2>9. SealState(e, h, ran'[h], revokedEver, clock)
    BY <2>1, <2>3, <2>5, <2>6, <2>7, <2>8, SMTT(30) DEF SealState
  <2> QED
    BY <1>0, <2>1, <2>4, <2>8, <2>9, OtherSealsKept
<1>5. ASSUME PlanRestart
      PROVE  SealInv'
  <2>1. ASSUME NEW h \in Hashes PROVE SealState(NoPlan, h, ran[h], revokedEver, clock + 1)
    <3>1. SealState(plans[h], h, ran[h], revokedEver, clock) /\ h[2] \in Nat
      BY SMTT(30) DEF SealInv, Hashes
    <3> QED
      BY <1>0, <3>1, SMTT(30) DEF SealState
  <2> QED
    BY <1>0, <1>5, <2>1 DEF PlanRestart, SealInv
<1>6. ASSUME PlanTick
      PROVE  SealInv'
  <2>1. ASSUME NEW h \in Hashes PROVE SealState(plans[h], h, ran[h], revokedEver, clock + 1)
    <3>1. SealState(plans[h], h, ran[h], revokedEver, clock) /\ h[2] \in Nat
      BY DEF SealInv, Hashes
    <3> QED
      BY <1>0, <3>1, SMTT(30) DEF SealState
  <2> QED
    BY <1>0, <1>6, <2>1 DEF PlanTick, SealInv, history
<1>7. ASSUME NEW s \in Swept, Operation(s)
      PROVE  SealInv'
  <2>1. ASSUME NEW c \in Contents, Submit(s, c) PROVE SealInv'
    BY <1>1, <2>1 DEF Submit, history
  <2>2. ASSUME NEW m \in Messages, NEW k \in Keys, SubmitSigned(s, m[1], m[2], k) PROVE SealInv'
    BY <1>1, <2>2 DEF SubmitSigned, Messages
  <2>3. ASSUME NEW h, NEW exp, NEW sigs, ApproveFails(s, h, exp, sigs) PROVE SealInv'
    BY <1>0, <2>3, OnlySwept DEF ApproveFails
  <2>4. ASSUME Refused(s) PROVE SealInv'
    BY <1>0, <2>4, OnlySwept DEF Refused, history
  <2> QED
    BY <1>2, <1>3, <1>4, <1>7, <2>1, <2>2, <2>3, <2>4 DEF Operation
<1>8. ASSUME UNCHANGED planVars
      PROVE  SealInv'
  BY <1>0, <1>8 DEF planVars, history, SealInv
<1> QED
  BY <1>5, <1>6, <1>7, <1>8 DEF PlanNext

LEMMA SealInvariance == PlanSpec => []SealInv
<1>1. PlanInit => SealInv
  <2> SUFFICES ASSUME PlanInit PROVE SealInv
    OBVIOUS
  <2>1. PlanTypeOK /\ ran \in [Hashes -> Nat]
    BY DEF PlanInit, PlanTypeOK
  <2>2. ASSUME NEW h \in Hashes PROVE SealState(plans[h], h, ran[h], revokedEver, clock)
    <3>1. plans[h] = NoPlan /\ ran[h] = 0 /\ h \notin revokedEver
      BY DEF PlanInit
    <3>2. Len(Steps[h[1]]) \in Nat
      BY ConstantsAssumption DEF Hashes
    <3> QED
      BY <3>1, <3>2 DEF SealState
  <2> QED
    BY <2>1, <2>2 DEF SealInv
<1>2. PlanInv /\ PlanInv' /\ SealInv /\ [PlanNext]_planVars => SealInv'
  BY NextSealInv
<1> QED
  BY <1>1, <1>2, PlanInvariance, PTL DEF PlanSpec

\* The steps of a sealed plan are consumed at most once each, across approvals,
\* evictions, resubmissions and restarts (VerifyStep, evictTombstonesLocked).
THEOREM StepsRunOnce == PlanSpec => []EachStepOnce
<1>1. SealInv => EachStepOnce
  BY DEF SealInv, SealState, EachStepOnce
<1> QED
  BY <1>1, SealInvariance, PTL

\* No step of a revoked plan is consumed, even after its tombstone is evicted
\* (Revoke, VerifyStep, evictTombstonesLocked).
THEOREM RevocationHolds == PlanSpec => RevokedNeverRuns
<1>1. ASSUME SealInv, [PlanNext]_planVars
      PROVE  [\A h \in revokedEver : ran'[h] = ran[h]]_planVars
  <2>1. ASSUME NEW s \in Swept, NEW g \in Hashes, NEW subject, NEW step,
               VerifyStep(s, g, subject, step), NEW h \in revokedEver
        PROVE  ran'[h] = ran[h]
    <3>1. s[1][g] # NoPlan /\ s[1][g].status = "approved" /\ ran' = [ran EXCEPT ![g] = @ + 1]
      BY <2>1 DEF VerifyStep, Executable
    <3>2. SealState(s[1][g], g, ran[g], revokedEver, clock)
      BY <1>1, SweepKeepsSeals
    <3>3. g # h
      BY <3>1, <3>2 DEF SealState
    <3> QED
      BY <3>1, <3>3
  <2>2. \/ ran' = ran
        \/ \E s \in Swept, g \in Hashes : \E subject, step : VerifyStep(s, g, subject, step)
    BY <1>1, StepsMoveRan
  <2> QED
    BY <2>1, <2>2
<1>2. SealInv /\ [PlanNext]_planVars => [\A h \in revokedEver : ran'[h] = ran[h]]_planVars
  BY <1>1
<1> QED
  BY <1>2, SealInvariance, PTL DEF PlanSpec, RevokedNeverRuns
=============================================================================
