-------------------------- MODULE AnonymiserProofs --------------------------
(***************************************************************************)
(* Proofs about the anonymising proxy, for any number of requests, leaves, *)
(* rules, exchanges, handlers and restarts.  A token TBP_VAR_n names a     *)
(* place in a table, so what a caller gets back is right only if the table *)
(* a response is resolved in is the one its request was masked with: the   *)
(* argument is OneHome below.                                              *)
(***************************************************************************)
EXTENDS Anonymiser, TLAPS

\* A leaf goes to Zenon first and, if that does not find it soon, to the SMT solver.
USE ZenonT(2), SMTT(30)

\* The proxy's places, what is written for a leaf, and the server's data.
Stages == {"new", "body", "query", "masked", "sent", "unmask", "restored", "refused", "close",
           "over", "gone"}
Pieces == [val : STRING, tok : Nat]
Texts == STRING \cup {Wiped}
Exchanges == [until : Nat, table : Seq(Texts)]
HandlerSet == [req : AnoReqs, op : MaskOps \cup {"unmask", "close"},
               at : {"arrived", "open", "leaf"}, ex : MaskOps \cup {None}, out : Seq(Pieces)]

\* The types the arguments below need.
AnoTypeOK ==
  /\ anoClock \in Nat /\ anoCrashes \in Nat
  /\ exchange \in [AnoReqs -> [MaskOps -> Exchanges]]
  /\ vault \in [AnoReqs -> MaskOps \cup {None}]
  /\ handlers \subseteq HandlerSet
  /\ stage \in [AnoReqs -> Stages]
  /\ rewritten \in [AnoReqs -> [MaskOps -> Seq(Pieces)]]
  /\ reply \in [AnoReqs -> Nat]
  /\ DOMAIN rendered = AnoReqs /\ DOMAIN audited = AnoReqs

\* A call in progress has written its first leaves, and not yet the last one.
Begun(h) ==
  IF h.op \in MaskOps
  THEN /\ Len(h.out) < Len(Leaves(h.req, h.op))
       /\ \A i \in 1..Len(h.out) : Fits(h.out[i], Leaves(h.req, h.op), h.op, i)
       /\ h.at = "arrived" => h.out = <<>>
       /\ h.at = "leaf" => h.ex \in MaskOps
  ELSE h = Call(h.req, h.op)

\* How far the rewriting is, by stage.
WroteBody == {"query", "masked", "sent", "unmask", "restored"}
WroteQuery == WroteBody \ {"query"}
Progress(r) ==
  /\ stage[r] \in {"new", "body"} => rewritten[r]["body"] = <<>>
  /\ stage[r] \in {"new", "body", "query"} => rewritten[r]["query"] = <<>>
  /\ stage[r] \in WroteBody => Covers(rewritten[r]["body"], Body[r], "body")
  /\ stage[r] \in WroteQuery => Covers(rewritten[r]["query"], Query[r], "query")
  /\ stage[r] \in {"sent", "unmask", "restored"} => "mask" \in audited[r]
  /\ stage[r] # "new" => anoClock >= TokenIat[r]

\* The values of a request's own leaves, and a table that holds no other.
Own(r) == Values(Body[r]) \cup Values(Query[r])
OwnTable(r, table) == \A n \in DOMAIN table : table[n] \in Own(r) \cup {Wiped}

\* Requests whose masks may still be resolved.
Going == {"new", "body", "query", "masked", "sent", "unmask"}
Home(r) == IF Body[r] = <<>> THEN "query" ELSE "body"
HomeTable(r) == exchange[r][Home(r)].table
\* A token written for a leaf stands in the table for that leaf's value, or is
\* wiped: it never stands for another one.
Stands(piece, table) ==
  piece.tok # NoMask => piece.tok \in DOMAIN table /\ table[piece.tok] \in {piece.val, Wiped}
AllStand(out, table) == \A i \in DOMAIN out : Stands(out[i], table)
\* The exchange a fresh token opened is still the one in the vault.
HomeHeld(r) ==
  \/ anoClock >= TokenExp[r]
  \/ vault[r] = Home(r) /\ exchange[r][Home(r)].until >= TokenExp[r]
\* The one exchange of a request outlives its token.
Outlives(r) ==
  vault[r] = None \/ (vault[r] = Home(r) /\ exchange[r][Home(r)].until >= TokenExp[r])
\* While anod has not restarted, all the masks of a request come from one
\* exchange: the proxy has one call at a time in anod, every one after the first
\* finds the exchange of the first as long as the token is fresh, and no masking
\* is taken up without a fresh token.
OneHome(r) ==
  /\ Outlives(r)
  /\ \A h \in handlers : h.req = r =>
       /\ h.op = stage[r] /\ h.ex \in {None, Home(r)}
       /\ h.at # "arrived" => HomeHeld(r)
       /\ AllStand(h.out, HomeTable(r))
       /\ \A g \in handlers : g.req = r => g = h
  /\ \A op \in MaskOps : AllStand(rewritten[r][op], HomeTable(r))
  /\ stage[r] = "query" /\ Body[r] # <<>> => HomeHeld(r)

\* What the caller received is a value of the request, in the mask's place.
Resolved(r) ==
  /\ rendered[r] \in Own(r) \cup {NoReply, Plain}
  /\ rendered[r] # NoReply => stage[r] \in {"restored", "close", "over", "gone"}
  /\ rendered[r] \notin {NoReply, Plain} /\ anoCrashes = 0 =>
       \A op \in MaskOps : RightValue(r, rewritten[r][op])

\* The inductive invariant: of each request, and of the calls inside anod.
PerRequest(r) ==
  /\ Progress(r)
  /\ \A op \in MaskOps : OwnTable(r, exchange[r][op].table)
  /\ anoCrashes = 0 /\ stage[r] \in Going => OneHome(r)
  /\ Resolved(r)

AnoInv == AnoTypeOK /\ (\A h \in handlers : Begun(h)) /\ \A r \in AnoReqs : PerRequest(r)

\* A table that went on: entries were added, or wiped.
Carries(t, u) == \A n \in DOMAIN t : n \in DOMAIN u /\ u[n] \in {t[n], Wiped}

\* What the vault may do to the exchanges of a request it is not asked about.
Purges(r) ==
  /\ vault'[r] = vault[r] \/ (vault'[r] = None /\ ~Live(r))
  /\ \A op \in MaskOps : /\ exchange'[r][op].until = exchange[r][op].until
                         /\ Carries(exchange[r][op].table, exchange'[r][op].table)
                         /\ OwnTable(r, exchange'[r][op].table)

\* The clock stands.
LEMMA ClockStays ==
  ASSUME AnoInv \/ AnoTypeOK, UNCHANGED anoClock
  PROVE  anoClock' \in Nat /\ anoClock <= anoClock'
BY SMTT(30) DEF AnoInv, AnoTypeOK

\* The empty sequence.
LEMMA NoElement ==
  ASSUME NEW S
  PROVE  <<>> \in Seq(S) /\ Len(<<>>) = 0 /\ DOMAIN <<>> = {}
BY SMTT(30)

\* An output without leaves stands in every table.
LEMMA NothingWritten ==
  ASSUME NEW table
  PROVE  AllStand(<<>>, table)
BY NoElement DEF AllStand

\* Facts about sequences.
LEMMA SeqLen ==
  ASSUME NEW S, NEW t \in Seq(S)
  PROVE  /\ Len(t) \in Nat /\ DOMAIN t = 1..Len(t) /\ Len(t) <= Len(t)
         /\ \A n \in DOMAIN t : n \in Nat \ {0} /\ t[n] \in S
BY SMTT(30)

\* What stands in a table stands in one that went on.
LEMMA StandsOn ==
  ASSUME NEW out, NEW t, NEW u, AllStand(out, t), Carries(t, u)
  PROVE  AllStand(out, u)
BY DEF AllStand, Stands, Carries

\* Facts about the names of the masking calls.
LEMMA HomeIs ==
  ASSUME NEW r \in AnoReqs
  PROVE  Home(r) \in MaskOps /\ Home(r) # None /\ None \notin MaskOps
BY DEF Home, MaskOps, None

\* A purge takes the exchange of a request only once its token has expired.
LEMMA HomeHeldOn ==
  ASSUME AnoTypeOK, NEW r \in AnoReqs, HomeHeld(r), Purges(r), anoClock' \in Nat,
         anoClock <= anoClock'
  PROVE  HomeHeld(r)'
<1>1. TokenExp[r] \in Nat /\ Home(r) \in MaskOps /\ Home(r) # None
  BY AnoAssumption, HomeIs
<1>2. exchange[r][Home(r)].until \in Nat /\ anoClock \in Nat
  BY <1>1 DEF AnoTypeOK, Exchanges
<1>3. CASE anoClock >= TokenExp[r]
  BY <1>1, <1>2, <1>3, SMTT(30) DEF HomeHeld
<1>4. CASE vault[r] = Home(r) /\ exchange[r][Home(r)].until >= TokenExp[r]
  <2>1. exchange'[r][Home(r)].until = exchange[r][Home(r)].until
    BY <1>1 DEF Purges
  <2>2. CASE vault'[r] = vault[r]
    BY <1>4, <2>1, <2>2 DEF HomeHeld, Home
  <2>3. CASE ~Live(r)
    <3>1. ~(exchange[r][Home(r)].until > anoClock)
      BY <1>1, <1>4, <2>3 DEF Live
    <3>2. anoClock' >= TokenExp[r]
      BY <1>1, <1>2, <1>4, <3>1, SMTT(30)
    <3> QED BY <3>2 DEF HomeHeld
  <2> QED BY <2>2, <2>3 DEF Purges
<1> QED BY <1>3, <1>4 DEF HomeHeld

\* A request that a step of another one, or the clock, passes by.
Same(r) ==
  /\ stage'[r] = stage[r] /\ reply'[r] = reply[r] /\ rendered'[r] = rendered[r]
  /\ audited'[r] = audited[r]
  /\ \A op \in MaskOps : rewritten'[r][op] = rewritten[r][op]

\* The invariant of a request survives what others do and what the purge does.
LEMMA PassedBy ==
  ASSUME AnoTypeOK, NEW r \in AnoReqs, PerRequest(r), Same(r), Purges(r),
         anoClock' \in Nat, anoClock <= anoClock', anoCrashes' = anoCrashes,
         anoCrashes = 0 /\ stage[r] \in Going =>
           \A h : h.req = r => (h \in handlers' <=> h \in handlers)
  PROVE  PerRequest(r)'
<1>1. TokenIat[r] \in Nat /\ anoClock \in Nat /\ "body" \in MaskOps /\ "query" \in MaskOps
  BY AnoAssumption DEF AnoTypeOK, MaskOps
<1>2. Progress(r)'
  <2>1. anoClock >= TokenIat[r] => anoClock' >= TokenIat[r]
    BY <1>1, SMTT(30)
  <2> QED BY <1>1, <2>1 DEF PerRequest, Progress, Same
<1>3. \A op \in MaskOps : OwnTable(r, exchange'[r][op].table)
  BY DEF Purges
<1>4. ASSUME anoCrashes' = 0, stage'[r] \in Going PROVE OneHome(r)'
  <2>1. OneHome(r) /\ stage[r] \in Going
    BY <1>4 DEF PerRequest, Same
  <2>2. \A h : h.req = r => (h \in handlers' <=> h \in handlers)
    BY <1>4, <2>1
  <2>3. Carries(HomeTable(r), HomeTable(r)')
    BY HomeIs DEF Purges, HomeTable, Home
  <2>4. HomeHeld(r) => HomeHeld(r)'
    BY HomeHeldOn
  <2>5. Outlives(r)'
    BY <2>1, HomeIs, SMTT(30) DEF Purges, OneHome, Outlives, Home
  <2>6. \A out : AllStand(out, HomeTable(r)) => AllStand(out, HomeTable(r)')
    BY <2>3, StandsOn
  <2> QED BY <2>1, <2>2, <2>4, <2>5, <2>6 DEF OneHome, Same, Home
<1>5. Resolved(r)'
  BY DEF PerRequest, Resolved, Same, RightValue, Own
<1> QED BY <1>2, <1>3, <1>4, <1>5 DEF PerRequest, OwnTable, Own

\* wipe keeps the life and the count of an exchange, and no value.
LEMMA WipeEffect ==
  ASSUME NEW x \in Exchanges
  PROVE  /\ wipe(x) \in Exchanges /\ wipe(x).until = x.until
         /\ DOMAIN wipe(x).table = DOMAIN x.table
         /\ \A n \in DOMAIN x.table : wipe(x).table[n] = Wiped
<1>1. x.table \in Seq(Texts) /\ x.until \in Nat
  BY DEF Exchanges
<1> DEFINE t == [n \in DOMAIN x.table |-> Wiped]
<1>2. t \in Seq(Texts)
  <2>1. Len(x.table) \in Nat /\ DOMAIN x.table = 1..Len(x.table)
    BY <1>1, SeqLen
  <2>2. t \in [1..Len(x.table) -> Texts]
    BY <2>1 DEF Texts
  <2> HIDE DEF t
  <2> QED BY <2>1, <2>2, SMTT(30)
<1>3. wipe(x) = [until |-> x.until, table |-> t]
  BY DEF wipe, Exchanges
<1> QED BY <1>1, <1>2, <1>3 DEF Exchanges

\* Exchanges that leave the vault are wiped, the others stay as they are.
LEMMA WipingEffect ==
  ASSUME AnoTypeOK, \A r \in AnoReqs, op \in MaskOps : OwnTable(r, exchange[r][op].table),
         NEW v
  PROVE  /\ Wiping(v) \in [AnoReqs -> [MaskOps -> Exchanges]]
         /\ \A r \in AnoReqs, op \in MaskOps :
              /\ Wiping(v)[r][op].until = exchange[r][op].until
              /\ Carries(exchange[r][op].table, Wiping(v)[r][op].table)
              /\ OwnTable(r, Wiping(v)[r][op].table)
              /\ vault[r] # op \/ v[r] = op => Wiping(v)[r][op] = exchange[r][op]
<1>1. \A r \in AnoReqs, op \in MaskOps : exchange[r][op] \in Exchanges
  BY DEF AnoTypeOK
<1>2. \A r \in AnoReqs, op \in MaskOps :
        \/ Wiping(v)[r][op] = wipe(exchange[r][op]) /\ vault[r] = op /\ v[r] # op
        \/ Wiping(v)[r][op] = exchange[r][op]
  BY DEF Wiping
<1>3. \A r \in AnoReqs, op \in MaskOps : Wiping(v)[r][op] \in Exchanges
  BY <1>1, <1>2, WipeEffect
<1>4. Wiping(v) \in [AnoReqs -> [MaskOps -> Exchanges]]
  BY <1>3 DEF Wiping
<1>5. ASSUME NEW r \in AnoReqs, NEW op \in MaskOps
      PROVE  /\ Wiping(v)[r][op].until = exchange[r][op].until
             /\ Carries(exchange[r][op].table, Wiping(v)[r][op].table)
             /\ OwnTable(r, Wiping(v)[r][op].table)
             /\ vault[r] # op \/ v[r] = op => Wiping(v)[r][op] = exchange[r][op]
  <2>1. CASE Wiping(v)[r][op] = exchange[r][op]
    BY <2>1 DEF Carries
  <2>2. CASE Wiping(v)[r][op] = wipe(exchange[r][op]) /\ vault[r] = op /\ v[r] # op
    BY <1>1, <2>2, WipeEffect, SMTT(30) DEF Carries, OwnTable
  <2> QED BY <1>2, <2>1, <2>2
<1> QED BY <1>4, <1>5

\* purgeLocked keeps exactly the exchanges that live.
LEMMA PurgedVault ==
  ASSUME AnoTypeOK
  PROVE  /\ purgeLocked \in [AnoReqs -> MaskOps \cup {None}]
         /\ \A r \in AnoReqs : /\ Live(r) => purgeLocked[r] = vault[r] /\ vault[r] # None
                               /\ ~Live(r) => purgeLocked[r] = None
BY DEF AnoTypeOK, purgeLocked, Live

\* A purge disturbs no request beyond what Purges says.
LEMMA PurgedExchanges ==
  ASSUME AnoInv, vault' = purgeLocked, exchange' = Wiping(vault')
  PROVE  /\ vault' \in [AnoReqs -> MaskOps \cup {None}]
         /\ exchange' \in [AnoReqs -> [MaskOps -> Exchanges]]
         /\ \A r \in AnoReqs : Purges(r)
<1>1. AnoTypeOK /\ \A r \in AnoReqs, op \in MaskOps : OwnTable(r, exchange[r][op].table)
  BY DEF AnoInv, PerRequest
<1>2. /\ vault' \in [AnoReqs -> MaskOps \cup {None}]
      /\ \A r \in AnoReqs : vault'[r] = vault[r] \/ (vault'[r] = None /\ ~Live(r))
  BY <1>1, PurgedVault
<1> QED BY <1>1, <1>2, WipingEffect, SMTT(30) DEF Purges

\* The exchanges of a request stay as they are.
LEMMA Undisturbed ==
  ASSUME AnoInv, NEW r \in AnoReqs, vault'[r] = vault[r], exchange'[r] = exchange[r]
  PROVE  Purges(r)
BY DEF AnoInv, PerRequest, Purges, Carries

\* A request that has come to its end.
LEMMA Ended ==
  ASSUME AnoTypeOK, NEW r \in AnoReqs, PerRequest(r), stage[r] # "new",
         stage'[r] \in {"refused", "close", "over", "gone"}, reply'[r] = reply[r],
         rewritten'[r] = rewritten[r],
         rendered'[r] \in {rendered[r], NoReply}, anoCrashes' = anoCrashes,
         stage'[r] = "refused" => rendered'[r] = NoReply,
         anoClock' = anoClock,
         \A op \in MaskOps : OwnTable(r, exchange'[r][op].table)
  PROVE  PerRequest(r)'
<1>1. Progress(r)'
  BY DEF PerRequest, Progress, WroteBody, WroteQuery
<1>2. stage'[r] \notin Going
  BY DEF Going
<1>3. Resolved(r)'
  BY DEF PerRequest, Resolved, RightValue, Own
<1> QED BY <1>1, <1>2, <1>3 DEF PerRequest, OwnTable, Own

\* A call that has just arrived.
LEMMA CallFacts ==
  ASSUME NEW r \in AnoReqs, NEW op \in MaskOps \cup {"unmask", "close"}
  PROVE  /\ Call(r, op) \in HandlerSet
         /\ Call(r, op).req = r /\ Call(r, op).op = op /\ Call(r, op).at = "arrived"
         /\ Call(r, op).ex = None /\ Call(r, op).out = <<>>
         /\ op \notin MaskOps => Begun(Call(r, op))
         /\ op \in MaskOps /\ Leaves(r, op) # <<>> => Begun(Call(r, op))
<1>1. <<>> \in Seq(Pieces) /\ Len(<<>>) = 0
  BY NoElement
<1>2. /\ Call(r, op).req = r /\ Call(r, op).op = op /\ Call(r, op).at = "arrived"
      /\ Call(r, op).ex = None /\ Call(r, op).out = <<>>
  BY DEF Call
<1>3. Call(r, op) \in HandlerSet
  BY <1>1 DEF Call, HandlerSet
<1>4. op \notin MaskOps => Begun(Call(r, op))
  BY <1>2 DEF Begun
<1>5. ASSUME op \in MaskOps, Leaves(r, op) # <<>> PROVE Begun(Call(r, op))
  <2>1. Leaves(r, op) \in Seq(Leaf)
    BY AnoAssumption DEF Leaves
  <2>2. Len(<<>>) < Len(Leaves(r, op)) /\ 1..Len(<<>>) = {}
    BY <1>1, <1>5, <2>1, SMTT(30)
  <2> QED BY <1>2, <1>5, <2>2 DEF Begun
<1> QED BY <1>2, <1>3, <1>4, <1>5

\* Done: the request is over for the proxy, whatever the outcome.
LEMMA DoneStep ==
  ASSUME AnoInv, NEW r \in AnoReqs, Done(r), stage[r] # "new",
         rendered' \in {rendered, [rendered EXCEPT ![r] = NoReply]},
         audited' \in {audited, [audited EXCEPT ![r] = @ \cup {"unmask"}]}
  PROVE  AnoInv'
<1>1. /\ UNCHANGED <<anoClock, exchange, vault, classifying, rewritten, reply, anoCrashes>>
      /\ stage' = [stage EXCEPT ![r] = "close"]
      /\ handlers' = handlers \cup {Call(r, "close")}
  BY DEF Done
<1>2. AnoTypeOK'
  <2>1. AnoTypeOK
    BY DEF AnoInv
  <2>2. DOMAIN rendered' = AnoReqs
    BY <2>1 DEF AnoTypeOK
  <2>3. DOMAIN audited' = AnoReqs
    BY <2>1 DEF AnoTypeOK
  <2>4. stage' \in [AnoReqs -> Stages] /\ handlers' \subseteq HandlerSet
    BY <1>1, <2>1, CallFacts, SMTT(30) DEF AnoTypeOK, Stages
  <2> QED BY <1>1, <2>1, <2>2, <2>3, <2>4 DEF AnoTypeOK
<1>3. \A h \in handlers' : Begun(h)
  BY <1>1, CallFacts, SMTT(30) DEF AnoInv, MaskOps
<1>4. ASSUME NEW q \in AnoReqs PROVE PerRequest(q)'
  <2>1. Purges(q) /\ AnoTypeOK /\ PerRequest(q)
    BY <1>1, Undisturbed DEF AnoInv
  <2>2. CASE q = r
    <3>1. stage'[r] = "close" /\ rendered'[r] \in {rendered[r], NoReply}
      BY <1>1 DEF AnoInv, AnoTypeOK
    <3> QED BY <1>1, <2>1, <2>2, <3>1, Ended DEF Purges
  <2>3. CASE q # r
    <3>1. Same(q)
      BY <1>1, <2>3 DEF Same, AnoInv, AnoTypeOK
    <3>2. \A h : h.req = q => (h \in handlers' <=> h \in handlers)
      BY <1>1, <2>3, CallFacts, SMTT(30)
    <3>3. anoClock' \in Nat /\ anoClock <= anoClock'
      BY <1>1, ClockStays
    <3> QED BY <1>1, <2>1, <3>1, <3>2, <3>3, PassedBy
  <2> QED BY <2>2, <2>3
<1> QED BY <1>2, <1>3, <1>4 DEF AnoInv

\* A call that fails for the client alone changes nothing in anod.
LEMMA CallFailsStep ==
  ASSUME AnoInv, NEW r \in AnoReqs, CallFails(r)
  PROVE  AnoInv'
<1>1. /\ UNCHANGED <<anoClock, exchange, vault, handlers, rewritten, reply, rendered, audited,
                     anoCrashes>>
      /\ stage[r] \in {"body", "query", "unmask", "close"}
      /\ \/ stage[r] = "close" /\ stage' = [stage EXCEPT ![r] = "over"]
         \/ stage[r] # "close" /\ stage' = [stage EXCEPT ![r] = "refused"]
  BY DEF CallFails, server
<1>2. AnoTypeOK'
  BY <1>1 DEF AnoInv, AnoTypeOK, Stages
<1>4. ASSUME NEW q \in AnoReqs PROVE PerRequest(q)'
  <2>1. Purges(q) /\ AnoTypeOK /\ PerRequest(q)
    BY <1>1, Undisturbed DEF AnoInv
  <2>2. CASE q = r
    <3>1. stage'[r] \in {"over", "refused"} /\ (stage'[r] = "refused" => rendered[r] = NoReply)
      BY <1>1, <2>1, <2>2 DEF AnoTypeOK, PerRequest, Resolved
    <3> QED BY <1>1, <2>1, <2>2, <3>1, Ended DEF Purges
  <2>3. CASE q # r
    <3>1. Same(q)
      BY <1>1, <2>3 DEF Same, AnoInv, AnoTypeOK
    <3>3. anoClock' \in Nat /\ anoClock <= anoClock'
      BY <1>1, ClockStays
    <3> QED BY <1>1, <2>1, <3>1, <3>3, PassedBy
  <2> QED BY <2>2, <2>3
<1> QED BY <1>1, <1>2, <1>4 DEF AnoInv

\* A request without a call goes on to the next stage, and asks for it.
LEMMA NextStage ==
  ASSUME AnoInv, NEW r \in AnoReqs, stage[r] \in {"new", "masked", "sent"},
         NEW next \in Going \ {"new"}, stage' = [stage EXCEPT ![r] = next],
         NEW ask \in SUBSET {Call(r, next)}, ask # {} => next \in MaskOps \cup {"unmask"},
         ask # {} /\ next \in MaskOps => Leaves(r, next) # <<>>,
         next = "query" => Body[r] = <<>>,
         handlers' = handlers \cup ask,
         UNCHANGED <<anoClock, exchange, vault, rewritten, rendered, anoCrashes>>,
         \A q \in AnoReqs : q # r => reply'[q] = reply[q] /\ audited'[q] = audited[q],
         reply' \in [AnoReqs -> Nat], DOMAIN audited' = AnoReqs,
         Progress(r)'
  PROVE  AnoInv'
<1>1. next \in Stages /\ stage'[r] = next /\ AnoTypeOK /\ next # "restored"
  BY DEF AnoInv, AnoTypeOK, Stages, Going
<1>2. AnoTypeOK'
  BY <1>1, CallFacts, SMTT(30) DEF AnoTypeOK
<1>3. \A h \in handlers' : Begun(h)
  BY CallFacts, SMTT(30) DEF AnoInv, MaskOps
<1>4. ASSUME NEW q \in AnoReqs PROVE PerRequest(q)'
  <2>1. Purges(q) /\ PerRequest(q)
    BY Undisturbed DEF AnoInv
  <2>2. CASE q = r
    <3>1. rendered[r] = NoReply
      BY <2>1, <2>2 DEF PerRequest, Resolved
    <3>2. Resolved(r)'
      BY <3>1 DEF Resolved
    <3>3. ASSUME anoCrashes' = 0 PROVE OneHome(r)'
      <4>1. OneHome(r)
        BY <2>1, <2>2, <3>3 DEF PerRequest, Going
      <4>2. \A h \in handlers : h.req # r
        BY <4>1 DEF OneHome, AnoInv, AnoTypeOK, HandlerSet, MaskOps
      <4>3. \A h \in handlers' : h.req = r => h = Call(r, next) /\ next \in MaskOps \cup {"unmask"}
        BY <4>2
      <4>4. \A h \in handlers' : h.req = r =>
              /\ h.op = next /\ h.ex = None /\ h.at = "arrived"
              /\ AllStand(h.out, HomeTable(r)')
        <5>1. \A u : AllStand(<<>>, u)
          BY NothingWritten
        <5> QED BY <4>3, <5>1, CallFacts, SMTT(30)
      <4>5. \A g, h \in handlers' : g.req = r /\ h.req = r => g = h
        BY <4>3
      <4>6. Outlives(r)' /\ \A op \in MaskOps : AllStand(rewritten'[r][op], HomeTable(r)')
        BY <4>1 DEF OneHome, HomeTable, Home, Outlives
      <4> QED BY <1>1, <4>4, <4>5, <4>6 DEF OneHome, Home
    <3> QED BY <2>1, <2>2, <3>2, <3>3 DEF PerRequest, OwnTable, Own
  <2>3. CASE q # r
    <3>1. Same(q)
      BY <2>3 DEF Same, AnoInv, AnoTypeOK
    <3>2. \A h : h.req = q => (h \in handlers' <=> h \in handlers)
      <4>1. ASSUME NEW h \in ask PROVE h.req = r
        BY <4>1, CallFacts, SMTT(30)
      <4> QED BY <2>3, <4>1
    <3>3. anoClock' \in Nat /\ anoClock <= anoClock'
      BY ClockStays
    <3> QED BY <1>1, <2>1, <3>1, <3>2, <3>3, PassedBy
  <2> QED BY <2>2, <2>3
<1> QED BY <1>2, <1>3, <1>4 DEF AnoInv

\* Nothing to mask is masked by nothing.
LEMMA EmptyCovers ==
  ASSUME NEW op PROVE Covers(<<>>, <<>>, op)
BY SMTT(30) DEF Covers

\* ServeHTTP begins with the first call there is to make.
LEMMA ServeStep ==
  ASSUME AnoInv, NEW r \in AnoReqs, ServeHTTP(r)
  PROVE  AnoInv'
<1> DEFINE first == IF Body[r] = <<>> THEN AfterBody(r) ELSE "body"
<1>1. /\ stage[r] = "new" /\ anoClock >= TokenIat[r] /\ stage' = [stage EXCEPT ![r] = first]
      /\ handlers' = handlers \cup Asks(r, first)
      /\ UNCHANGED <<anoClock, exchange, vault, rewritten, reply, rendered, audited, anoCrashes>>
  BY DEF ServeHTTP
<1>2. /\ first \in {"body", "query", "masked"}
      /\ first = "body" => Body[r] # <<>>
      /\ first = "query" => Body[r] = <<>> /\ Query[r] # <<>>
      /\ first = "masked" => Body[r] = <<>> /\ Query[r] = <<>>
  BY DEF AfterBody
<1> HIDE DEF first
<1>3. first \in Going \ {"new"}
  BY <1>2 DEF Going
<1>4. /\ Asks(r, first) \in SUBSET {Call(r, first)}
      /\ Asks(r, first) # {} => first \in MaskOps \cup {"unmask"} /\ Leaves(r, first) # <<>>
  BY <1>2 DEF Asks, Leaves, MaskOps
<1>5. Progress(r)'
  <2>1. rewritten[r]["body"] = <<>> /\ rewritten[r]["query"] = <<>> /\ stage'[r] = first
    BY <1>1 DEF AnoInv, AnoTypeOK, PerRequest, Progress
  <2> QED BY <1>1, <1>2, <2>1, EmptyCovers DEF Progress, WroteBody, WroteQuery
<1>6. reply' \in [AnoReqs -> Nat] /\ DOMAIN audited' = AnoReqs
  BY <1>1 DEF AnoInv, AnoTypeOK
<1> QED BY <1>1, <1>2, <1>3, <1>4, <1>5, <1>6, NextStage

\* Nothing is sent before its audit leaf.
LEMMA TransmitStep ==
  ASSUME AnoInv, NEW r \in AnoReqs, Transmit(r)
  PROVE  AnoInv'
<1>1. /\ stage[r] = "masked" /\ stage' = [stage EXCEPT ![r] = "sent"]
      /\ audited' = [audited EXCEPT ![r] = @ \cup {"mask"}]
      /\ UNCHANGED <<anoClock, exchange, vault, handlers, rewritten, reply, rendered, anoCrashes>>
  BY DEF Transmit, server
<1>2. /\ "sent" \in Going \ {"new"} /\ handlers' = handlers \cup {} /\ "sent" # "query"
      /\ {} \in SUBSET {Call(r, "sent")}
  BY <1>1 DEF Going
<1>3. DOMAIN audited = AnoReqs /\ DOMAIN stage = AnoReqs /\ reply \in [AnoReqs -> Nat]
  BY DEF AnoInv, AnoTypeOK
<1>4. "mask" \in audited'[r] /\ stage'[r] = "sent"
  BY <1>1, <1>3
<1>5. Progress(r)'
  BY <1>1, <1>4 DEF AnoInv, PerRequest, Progress, WroteBody, WroteQuery
<1>6. reply' \in [AnoReqs -> Nat] /\ DOMAIN audited' = AnoReqs
      /\ \A q \in AnoReqs : q # r => reply'[q] = reply[q] /\ audited'[q] = audited[q]
  BY <1>1, <1>3
<1> QED BY <1>1, <1>2, <1>5, <1>6, NextStage

\* The answer of the backend opens the unmask call.
LEMMA BackendAnswersStep ==
  ASSUME AnoInv, NEW r \in AnoReqs, NEW n \in NoMask..MaxMasks, BackendAnswers(r, n)
  PROVE  AnoInv'
<1>1. /\ stage[r] = "sent" /\ stage' = [stage EXCEPT ![r] = "unmask"]
      /\ reply' = [reply EXCEPT ![r] = n]
      /\ handlers' = handlers \cup {Call(r, "unmask")}
      /\ UNCHANGED <<anoClock, exchange, vault, rewritten, rendered, audited, anoCrashes>>
  BY DEF BackendAnswers
<1>2. /\ "unmask" \in Going \ {"new"} /\ "unmask" # "query" /\ "unmask" \notin MaskOps
      /\ {Call(r, "unmask")} \in SUBSET {Call(r, "unmask")}
  BY DEF Going, MaskOps
<1>3. DOMAIN audited = AnoReqs /\ DOMAIN stage = AnoReqs /\ reply \in [AnoReqs -> Nat]
  BY DEF AnoInv, AnoTypeOK
<1>4. n \in Nat /\ stage'[r] = "unmask"
  BY <1>1, <1>3, AnoAssumption, SMTT(30) DEF NoMask
<1>5. Progress(r)'
  BY <1>1, <1>4 DEF AnoInv, PerRequest, Progress, WroteBody, WroteQuery
<1>6. reply' \in [AnoReqs -> Nat] /\ DOMAIN audited' = AnoReqs
      /\ \A q \in AnoReqs : q # r => reply'[q] = reply[q] /\ audited'[q] = audited[q]
  BY <1>1, <1>3, <1>4
<1> QED BY <1>1, <1>2, <1>5, <1>6, NextStage

\* A response without a body has nothing to restore.
LEMMA BackendEmptyStep ==
  ASSUME AnoInv, NEW r \in AnoReqs, BackendEmpty(r)
  PROVE  AnoInv'
<1>1. /\ stage[r] = "sent" /\ stage' = [stage EXCEPT ![r] = "restored"]
      /\ rendered' = [rendered EXCEPT ![r] = Plain]
      /\ UNCHANGED <<anoClock, exchange, vault, handlers, rewritten, reply, audited, anoCrashes>>
  BY DEF BackendEmpty, server
<1>2. AnoTypeOK'
  BY <1>1 DEF AnoInv, AnoTypeOK, Stages
<1>3. ASSUME NEW q \in AnoReqs PROVE PerRequest(q)'
  <2>1. Purges(q) /\ AnoTypeOK /\ PerRequest(q)
    BY <1>1, Undisturbed DEF AnoInv
  <2>2. CASE q = r
    <3>1. stage'[r] = "restored" /\ rendered'[r] = Plain
      BY <1>1, <2>1 DEF AnoTypeOK
    <3>2. Progress(r)'
      BY <1>1, <2>1, <2>2, <3>1 DEF PerRequest, Progress, WroteBody, WroteQuery
    <3>3. Resolved(r)'
      BY <3>1 DEF Resolved
    <3> QED BY <2>1, <2>2, <3>1, <3>2, <3>3 DEF PerRequest, OwnTable, Own, Going, Purges
  <2>3. CASE q # r
    <3>1. Same(q)
      BY <1>1, <2>3 DEF Same, AnoInv, AnoTypeOK
    <3>2. anoClock' \in Nat /\ anoClock <= anoClock'
      BY <1>1, ClockStays
    <3> QED BY <1>1, <2>1, <3>1, <3>2, PassedBy
  <2> QED BY <2>2, <2>3
<1> QED BY <1>1, <1>2, <1>3 DEF AnoInv

\* A restart of pepd leaves its exchanges in anod.
LEMMA PepCrashStep ==
  ASSUME AnoInv, PepCrash
  PROVE  AnoInv'
<1>1. /\ UNCHANGED <<anoClock, exchange, vault, handlers, rewritten, reply, rendered, audited,
                     anoCrashes>>
      /\ DOMAIN stage' = AnoReqs
      /\ \A q \in AnoReqs : \/ stage'[q] = stage[q]
                            \/ stage'[q] = "gone" /\ stage[q] # "new"
  BY DEF PepCrash, server
<1>2. AnoTypeOK'
  <2>1. stage' \in [AnoReqs -> Stages]
    BY DEF PepCrash, Stages, AnoInv, AnoTypeOK
  <2> QED BY <1>1, <2>1 DEF AnoInv, AnoTypeOK
<1>3. anoClock' \in Nat /\ anoClock <= anoClock'
  BY <1>1, ClockStays
<1>4. ASSUME NEW q \in AnoReqs PROVE PerRequest(q)'
  <2>1. Purges(q) /\ AnoTypeOK /\ PerRequest(q)
    BY <1>1, Undisturbed DEF AnoInv
  <2>2. CASE stage'[q] = stage[q]
    <3>1. Same(q)
      BY <1>1, <2>2 DEF Same
    <3> QED BY <1>1, <1>3, <2>1, <3>1, PassedBy
  <2>3. CASE stage'[q] = "gone" /\ stage[q] # "new"
    BY <1>1, <2>1, <2>3, Ended DEF Purges
  <2> QED BY <1>1, <2>2, <2>3
<1> QED BY <1>1, <1>2, <1>4 DEF AnoInv

\* Time only lets exchanges and tokens expire.
LEMMA ClockStep ==
  ASSUME AnoInv, AnoTick \/ ClassifierReturns
  PROVE  AnoInv'
<1>1. /\ UNCHANGED <<exchange, vault, handlers, stage, rewritten, reply, rendered, audited,
                     anoCrashes>>
      /\ anoClock' \in {anoClock, anoClock + 1}
  BY DEF AnoTick, ClassifierReturns, server, proxy
<1>2. anoClock' \in Nat /\ anoClock <= anoClock'
  BY <1>1, SMTT(30) DEF AnoInv, AnoTypeOK
<1>3. AnoTypeOK'
  BY <1>1, <1>2 DEF AnoInv, AnoTypeOK
<1>4. ASSUME NEW q \in AnoReqs PROVE PerRequest(q)'
  <2>1. Purges(q) /\ AnoTypeOK /\ PerRequest(q)
    BY <1>1, Undisturbed DEF AnoInv
  <2>2. Same(q)
    BY <1>1 DEF Same
  <2> QED BY <1>1, <1>2, <2>1, <2>2, PassedBy
<1> QED BY <1>1, <1>3, <1>4 DEF AnoInv

\* A restart of anod empties its tables.
LEMMA AnoCrashStep ==
  ASSUME AnoInv, AnoCrash
  PROVE  AnoInv'
<1>1. /\ UNCHANGED <<anoClock, stage, rewritten, reply, rendered, audited>>
      /\ anoCrashes' = anoCrashes + 1 /\ handlers' \subseteq handlers
      /\ vault' = [r \in AnoReqs |-> None]
      /\ exchange' = [r \in AnoReqs |-> [op \in MaskOps |-> [until |-> 0, table |-> <<>>]]]
  BY DEF AnoCrash, proxy
<1>2. anoCrashes' \in Nat /\ anoCrashes' # 0 /\ <<>> \in Seq(Texts) /\ DOMAIN <<>> = {}
  BY <1>1, SMTT(30) DEF AnoInv, AnoTypeOK
<1>3. AnoTypeOK'
  <2>1. exchange' \in [AnoReqs -> [MaskOps -> Exchanges]]
    BY <1>1, <1>2 DEF Exchanges
  <2> QED BY <1>1, <1>2, <2>1 DEF AnoInv, AnoTypeOK
<1>4. ASSUME NEW q \in AnoReqs PROVE PerRequest(q)'
  <2>1. \A op \in MaskOps : OwnTable(q, exchange'[q][op].table)
    BY <1>1, <1>2 DEF OwnTable
  <2>2. Progress(q)'
    BY <1>1 DEF AnoInv, PerRequest, Progress
  <2>3. Resolved(q)'
    BY <1>1, <1>2 DEF AnoInv, PerRequest, Resolved, Own
  <2> QED BY <1>2, <2>1, <2>2, <2>3 DEF PerRequest, OwnTable, Own
<1> QED BY <1>1, <1>3, <1>4 DEF AnoInv

\* What a handler's step leaves alone, whatever it does to its own request.
Served(h) ==
  /\ UNCHANGED <<anoClock, anoCrashes, reply, audited>>
  /\ vault' \in [AnoReqs -> MaskOps \cup {None}]
  /\ exchange' \in [AnoReqs -> [MaskOps -> Exchanges]]
  /\ \A q \in AnoReqs : q # h.req => Purges(q)
  /\ \A op \in MaskOps : OwnTable(h.req, exchange'[h.req][op].table)

\* A handler's step keeps the invariant of the other requests.
LEMMA OthersServed ==
  ASSUME AnoInv, NEW h \in handlers, Served(h),
         NEW q \in AnoReqs, q # h.req,
         stage'[q] = stage[q], rendered'[q] = rendered[q], rewritten'[q] = rewritten[q],
         \A g : g.req # h.req => (g \in handlers' <=> g \in handlers)
  PROVE  PerRequest(q)'
<1>1. Purges(q) /\ AnoTypeOK /\ PerRequest(q) /\ Same(q)
  BY DEF Served, AnoInv, Same
<1>2. anoClock' \in Nat /\ anoClock <= anoClock' /\ anoCrashes' = anoCrashes
  BY ClockStays DEF Served
<1> QED BY <1>1, <1>2, PassedBy

\* The answer to a call the proxy no longer waits for is lost.
LEMMA NobodyWaits ==
  ASSUME AnoInv, NEW h \in handlers, Served(h), Purges(h.req), ~Waits(h.req, h.op),
         handlers' = handlers \ {h}, UNCHANGED <<stage, rewritten, rendered>>
  PROVE  AnoInv'
<1>1. h.req \in AnoReqs /\ AnoTypeOK
  BY DEF AnoInv, AnoTypeOK, HandlerSet
<1>2. AnoTypeOK'
  BY DEF AnoInv, AnoTypeOK, Served
<1>3. ASSUME NEW q \in AnoReqs PROVE PerRequest(q)'
  <2>1. CASE q # h.req
    BY <2>1, OthersServed
  <2>2. CASE q = h.req
    <3>1. Same(q) /\ PerRequest(q) /\ Purges(q)
      BY <2>2 DEF Same, Served, AnoInv
    <3>2. ~(anoCrashes = 0 /\ stage[q] \in Going)
      BY <2>2, <3>1 DEF PerRequest, OneHome, Waits
    <3>3. anoClock' \in Nat /\ anoClock <= anoClock' /\ anoCrashes' = anoCrashes
      BY ClockStays DEF Served
    <3> QED BY <1>1, <3>1, <3>2, <3>3, PassedBy
  <2> QED BY <2>1, <2>2
<1> QED BY <1>2, <1>3 DEF AnoInv

\* A masking handler that gives up: nothing of it is sent.
LEMMA RefusedStep ==
  ASSUME AnoInv, NEW h \in handlers, h.op \in MaskOps, Served(h), Purges(h.req), Refused(h),
         UNCHANGED rendered
  PROVE  AnoInv'
<1>1. h.req \in AnoReqs /\ AnoTypeOK
  BY DEF AnoInv, AnoTypeOK, HandlerSet
<1>2. CASE ~Waits(h.req, h.op)
  BY <1>2, NobodyWaits DEF Refused
<1>3. CASE Waits(h.req, h.op)
  <2>1. /\ stage' = [stage EXCEPT ![h.req] = "refused"] /\ handlers' = handlers \ {h}
        /\ UNCHANGED rewritten /\ stage[h.req] \in MaskOps
    BY <1>3 DEF Refused, Waits
  <2>2. AnoTypeOK'
    BY <1>1, <2>1 DEF AnoTypeOK, Served, Stages
  <2>3. ASSUME NEW q \in AnoReqs PROVE PerRequest(q)'
    <3>1. CASE q # h.req
      BY <1>1, <2>1, <3>1, OthersServed DEF AnoTypeOK
    <3>2. CASE q = h.req
      <4>1. stage'[q] = "refused" /\ PerRequest(q)
        BY <1>1, <2>1, <3>2 DEF AnoInv, AnoTypeOK
      <4>2. stage[q] # "new" /\ rendered[q] = NoReply
        BY <2>1, <3>2, <4>1 DEF PerRequest, Resolved, MaskOps
      <4> QED BY <1>1, <2>1, <3>2, <4>1, <4>2, Ended DEF Served
    <3> QED BY <3>1, <3>2
  <2> QED BY <2>1, <2>2, <2>3 DEF AnoInv
<1> QED BY <1>2, <1>3

\* A masking handler that goes on.
LEMMA GoesStep ==
  ASSUME AnoInv, NEW h \in handlers, h.op \in MaskOps, Served(h),
         NEW at \in {"open", "leaf"}, NEW ex \in MaskOps \cup {None}, NEW out \in Seq(Pieces),
         Goes(h, at, ex, out), UNCHANGED rendered,
         Len(out) < Len(Leaves(h.req, h.op)),
         \A i \in 1..Len(out) : Fits(out[i], Leaves(h.req, h.op), h.op, i),
         at = "leaf" => ex \in MaskOps,
         anoCrashes = 0 /\ stage[h.req] \in Going =>
           /\ Outlives(h.req)' /\ ex \in {None, Home(h.req)}
           /\ HomeHeld(h.req)' /\ AllStand(out, HomeTable(h.req)')
           /\ \A op \in MaskOps : AllStand(rewritten[h.req][op], HomeTable(h.req)')
  PROVE  AnoInv'
<1> DEFINE r == h.req
           g == [req |-> h.req, op |-> h.op, at |-> at, ex |-> ex, out |-> out]
<1>1. h.req \in AnoReqs /\ AnoTypeOK
  BY DEF AnoInv, AnoTypeOK, HandlerSet
<1>2. g \in HandlerSet
  BY <1>1 DEF HandlerSet
<1>3. /\ g.req = r /\ g.op = h.op /\ g.at = at /\ g.ex = ex /\ g.out = out
      /\ handlers' = (handlers \ {h}) \cup {g} /\ UNCHANGED <<stage, rewritten>>
  BY DEF Goes
<1> HIDE DEF g
<1>4. AnoTypeOK'
  BY <1>1, <1>2, <1>3 DEF AnoTypeOK, Served
<1>5. \A k \in handlers' : Begun(k)
  <2>1. Begun(g)
    BY <1>3 DEF Begun
  <2> QED BY <1>3, <2>1 DEF AnoInv
<1>6. ASSUME NEW q \in AnoReqs PROVE PerRequest(q)'
  <2>1. CASE q # r
    BY <1>3, <2>1, OthersServed
  <2>2. CASE q = r
    <3>1. PerRequest(r)
      BY <1>1 DEF AnoInv
    <3>2. Progress(r)'
      BY <1>3, <3>1 DEF PerRequest, Progress, Served
    <3>3. Resolved(r)'
      BY <1>3, <3>1 DEF PerRequest, Resolved, RightValue, Own, Served
    <3>4. ASSUME anoCrashes' = 0, stage'[r] \in Going PROVE OneHome(r)'
      <4>1. anoCrashes = 0 /\ stage[r] \in Going /\ OneHome(r)
        BY <1>3, <3>1, <3>4 DEF Served, PerRequest
      <4>2. \A k \in handlers' : k.req = r => k = g
        BY <1>3, <4>1 DEF OneHome
      <4>3. h.op = stage[r]
        BY <4>1 DEF OneHome
      <4>4. /\ Outlives(r)' /\ ex \in {None, Home(r)}
            /\ HomeHeld(r)' /\ AllStand(out, HomeTable(r)')
            /\ \A op \in MaskOps : AllStand(rewritten'[r][op], HomeTable(r)')
        BY <1>3, <4>1
      <4> QED BY <1>3, <4>2, <4>3, <4>4 DEF OneHome, Home
    <3> QED BY <2>2, <3>2, <3>3, <3>4 DEF PerRequest, Served, OwnTable, Own
  <2> QED BY <2>1, <2>2
<1> QED BY <1>4, <1>5, <1>6 DEF AnoInv

\* A masking handler that answers: the proxy asks for the next one.
LEMMA AnsweredStep ==
  ASSUME AnoInv, NEW h \in handlers, h.op \in MaskOps, h.at # "arrived", Served(h),
         Purges(h.req), NEW out \in Seq(Pieces), Covers(out, Leaves(h.req, h.op), h.op),
         Answered(h, out), UNCHANGED rendered,
         anoCrashes = 0 /\ stage[h.req] \in Going => AllStand(out, HomeTable(h.req)')
  PROVE  AnoInv'
<1> DEFINE r == h.req
           next == IF h.op = "body" THEN AfterBody(r) ELSE "masked"
<1>1. r \in AnoReqs /\ AnoTypeOK /\ PerRequest(r)
  BY DEF AnoInv, AnoTypeOK, HandlerSet
<1>2. CASE ~Waits(r, h.op)
  BY <1>2, NobodyWaits DEF Answered
<1>3. CASE Waits(r, h.op)
  <2>1. /\ handlers' = (handlers \ {h}) \cup Asks(r, next)
        /\ stage' = [stage EXCEPT ![r] = next]
        /\ rewritten' = [rewritten EXCEPT ![r][h.op] = out] /\ stage[r] = h.op
    BY <1>3 DEF Answered, Waits
  <2>2. /\ next \in {"query", "masked"}
        /\ next = "query" => h.op = "body" /\ Query[r] # <<>>
        /\ next = "masked" /\ h.op = "body" => Query[r] = <<>>
    BY DEF AfterBody
  <2> HIDE DEF next
  <2>3. /\ Asks(r, next) \subseteq {Call(r, next)}
        /\ Asks(r, next) # {} => next = "query" /\ Leaves(r, next) # <<>>
    BY <2>2 DEF Asks, MaskOps, Leaves
  <2>4. \A k \in Asks(r, next) :
          /\ k \in HandlerSet /\ Begun(k) /\ k.req = r /\ k.op = next /\ k.at = "arrived"
          /\ k.ex = None /\ k.out = <<>> /\ k = Call(r, next)
    BY <1>1, <2>3, CallFacts, SMTT(30) DEF MaskOps
  <2>5. AnoTypeOK'
    <3>1. stage' \in [AnoReqs -> Stages]
      BY <1>1, <2>1, <2>2 DEF AnoTypeOK, Stages
    <3>2. rewritten' \in [AnoReqs -> [MaskOps -> Seq(Pieces)]]
      BY <1>1, <2>1 DEF AnoTypeOK
    <3> QED BY <1>1, <2>1, <2>4, <3>1, <3>2 DEF AnoTypeOK, Served
  <2>6. \A k \in handlers' : Begun(k)
    BY <2>1, <2>4 DEF AnoInv
  <2>7. ASSUME NEW q \in AnoReqs PROVE PerRequest(q)'
    <3>1. CASE q # r
      BY <1>1, <2>1, <2>4, <3>1, OthersServed DEF AnoTypeOK
    <3>2. CASE q = r
      <4>1. /\ stage'[r] = next /\ rewritten'[r][h.op] = out
            /\ \A op \in MaskOps : op # h.op => rewritten'[r][op] = rewritten[r][op]
        BY <1>1, <2>1 DEF AnoTypeOK
      <4>2. Progress(r)'
        <5>1. anoClock' >= TokenIat[r]
          BY <1>1, <2>1 DEF PerRequest, Progress, MaskOps, Served
        <5>2. CASE h.op = "body"
          <6>1. rewritten'[r]["query"] = <<>> /\ Covers(rewritten'[r]["body"], Body[r], "body")
            BY <1>1, <2>1, <4>1, <5>2 DEF PerRequest, Progress, MaskOps, Leaves
          <6> QED BY <2>2, <4>1, <5>1, <5>2, <6>1, EmptyCovers DEF Progress, WroteBody, WroteQuery
        <5>3. CASE h.op = "query"
          <6>1. /\ Covers(rewritten'[r]["query"], Query[r], "query")
                /\ Covers(rewritten'[r]["body"], Body[r], "body")
            BY <1>1, <2>1, <4>1, <5>3 DEF PerRequest, Progress, MaskOps, Leaves, WroteBody
          <6>2. stage'[r] = "masked"
            BY <2>2, <4>1, <5>3
          <6> QED BY <5>1, <6>1, <6>2 DEF Progress, WroteBody, WroteQuery
        <5> QED BY <5>2, <5>3 DEF MaskOps
      <4>3. Resolved(r)'
        <5>1. rendered[r] = NoReply
          BY <1>1, <2>1 DEF PerRequest, Resolved, MaskOps
        <5> QED BY <5>1 DEF Resolved
      <4>4. ASSUME anoCrashes' = 0 PROVE OneHome(r)'
        <5>1. OneHome(r) /\ AllStand(out, HomeTable(r)')
          BY <1>1, <2>1, <4>4 DEF PerRequest, Served, Going, MaskOps
        <5>2. \A k \in handlers' : k.req = r => k \in Asks(r, next)
          BY <2>1, <5>1 DEF OneHome
        <5>3. Carries(HomeTable(r), HomeTable(r)')
          BY <1>1, HomeIs DEF Purges, HomeTable, Home
        <5>4. \A op \in MaskOps : AllStand(rewritten'[r][op], HomeTable(r)')
          <6>1. ASSUME NEW op \in MaskOps PROVE AllStand(rewritten'[r][op], HomeTable(r)')
            <7>1. CASE op = h.op
              BY <4>1, <5>1, <7>1
            <7>2. CASE op # h.op
              BY <4>1, <5>1, <5>3, <7>2, StandsOn DEF OneHome
            <7> QED BY <7>1, <7>2
          <6> QED BY <6>1
        <5>5. HomeHeld(r)'
          <6>1. HomeHeld(r)
            BY <5>1 DEF OneHome
          <6>2. anoClock' \in Nat /\ anoClock <= anoClock'
            BY ClockStays DEF Served
          <6> QED BY <1>1, <6>1, <6>2, HomeHeldOn
        <5>6. Outlives(r)'
          BY <1>1, <5>1, HomeIs DEF Purges, OneHome, Outlives, Home
        <5>7. \A k \in handlers' : k.req = r =>
                /\ k.op = stage'[r] /\ k.ex = None /\ AllStand(k.out, HomeTable(r)')
                /\ k = Call(r, next)
          <6>1. \A u : AllStand(<<>>, u)
            BY NothingWritten
          <6> QED BY <2>4, <4>1, <5>2, <6>1
        <5> QED BY <5>4, <5>5, <5>6, <5>7 DEF OneHome, Home
      <4> QED BY <3>2, <4>2, <4>3, <4>4 DEF PerRequest, OwnTable, Own, Served
    <3> QED BY <3>1, <3>2
  <2> QED BY <2>5, <2>6, <2>7 DEF AnoInv
<1> QED BY <1>2, <1>3

\* One leaf more.
LEMMA WrittenStep ==
  ASSUME AnoInv, NEW h \in handlers, h.op \in MaskOps, h.at = "leaf", Served(h), Purges(h.req),
         NEW val \in STRING, NEW tok \in Nat, Written(h, val, tok), UNCHANGED rendered,
         Fits([val |-> val, tok |-> tok], Leaves(h.req, h.op), h.op, Len(h.out) + 1),
         anoCrashes = 0 /\ stage[h.req] \in Going =>
           Stands([val |-> val, tok |-> tok], HomeTable(h.req)')
  PROVE  AnoInv'
<1> DEFINE r == h.req
           leaves == Leaves(r, h.op)
           piece == [val |-> val, tok |-> tok]
<1>1. r \in AnoReqs /\ AnoTypeOK /\ PerRequest(r) /\ Begun(h) /\ h.out \in Seq(Pieces)
      /\ h.ex \in MaskOps
  BY DEF AnoInv, AnoTypeOK, HandlerSet, Begun
<1>2. leaves \in Seq(Leaf) /\ piece \in Pieces
  BY <1>1, AnoAssumption DEF Leaves, Pieces
<1> HIDE DEF piece
<1> DEFINE out == Append(h.out, piece)
<1>3. /\ out \in Seq(Pieces) /\ Len(out) = Len(h.out) + 1 /\ Len(h.out) \in Nat
      /\ DOMAIN out = 1..Len(out) /\ DOMAIN h.out = 1..Len(h.out)
      /\ out[Len(h.out) + 1] = piece
      /\ \A i \in 1..Len(h.out) : out[i] = h.out[i]
  BY <1>1, <1>2, SMTT(30)
<1>4. \/ Len(out) = Len(leaves) /\ Answered(h, out)
      \/ Len(out) # Len(leaves) /\ h.op = "body" /\ Goes(h, "leaf", h.ex, out)
      \/ Len(out) # Len(leaves) /\ h.op # "body" /\ Goes(h, "open", None, out)
  BY DEF Written, piece
<1> HIDE DEF out
<1>5. Len(h.out) < Len(leaves)
  BY <1>1 DEF Begun
<1>6. Len(leaves) \in Nat /\ DOMAIN leaves = 1..Len(leaves)
  BY <1>2, SeqLen
<1>7. \A i \in 1..Len(out) : i = Len(h.out) + 1 \/ i \in 1..Len(h.out)
  BY <1>3, SMTT(30)
<1>8. \A i \in 1..Len(out) : Fits(out[i], leaves, h.op, i)
  BY <1>1, <1>3, <1>7 DEF Begun, piece
<1>9. ASSUME anoCrashes = 0, stage[r] \in Going
      PROVE  /\ OneHome(r) /\ AllStand(out, HomeTable(r)') /\ Carries(HomeTable(r), HomeTable(r)')
             /\ Outlives(r)' /\ HomeHeld(r)'
  <2>1. OneHome(r)
    BY <1>1, <1>9 DEF PerRequest
  <2>2. Carries(HomeTable(r), HomeTable(r)')
    BY <1>1, HomeIs DEF Purges, HomeTable, Home
  <2>3. AllStand(h.out, HomeTable(r)')
    BY <2>1, <2>2, StandsOn DEF OneHome
  <2>4. AllStand(out, HomeTable(r)')
    BY <1>3, <1>7, <1>9, <2>3 DEF AllStand, piece
  <2>5. Outlives(r)'
    BY <1>1, <2>1, HomeIs DEF Purges, OneHome, Outlives, Home
  <2>6. HomeHeld(r)'
    <3>1. HomeHeld(r)
      BY <2>1 DEF OneHome
    <3>2. anoClock' \in Nat /\ anoClock <= anoClock'
      BY ClockStays DEF Served
    <3> QED BY <1>1, <3>1, <3>2, HomeHeldOn
  <2> QED BY <2>1, <2>2, <2>4, <2>5, <2>6
<1>10. CASE Len(out) = Len(leaves) /\ Answered(h, out)
  <2>1. Covers(out, leaves, h.op)
    BY <1>6, <1>8, <1>10 DEF Covers
  <2> QED BY <1>3, <1>9, <1>10, <2>1, AnsweredStep
<1>11. ASSUME NEW at \in {"open", "leaf"}, NEW ex \in {None, h.ex}, at = "leaf" => ex = h.ex,
              Goes(h, at, ex, out), Len(out) # Len(leaves)
       PROVE  AnoInv'
  <2>1. Len(out) < Len(leaves)
    BY <1>3, <1>5, <1>6, <1>11, SMTT(30)
  <2>2. ASSUME anoCrashes = 0, stage[r] \in Going
        PROVE  /\ Outlives(r)' /\ ex \in {None, Home(r)}
               /\ HomeHeld(r)' /\ AllStand(out, HomeTable(r)')
               /\ \A op \in MaskOps : AllStand(rewritten[r][op], HomeTable(r)')
    BY <1>9, <2>2, StandsOn DEF OneHome
  <2> QED BY <1>1, <1>3, <1>8, <1>11, <2>1, <2>2, GoesStep
<1> QED BY <1>4, <1>10, <1>11

\* Facts about Append.
LEMMA AppendFacts ==
  ASSUME NEW S, NEW t \in Seq(S), NEW x \in S
  PROVE  /\ Append(t, x) \in Seq(S) /\ Len(t) <= Len(Append(t, x))
         /\ Len(t) + 1 \in DOMAIN Append(t, x) /\ Append(t, x)[Len(t) + 1] = x
         /\ \A n \in DOMAIN t : n \in DOMAIN Append(t, x) /\ Append(t, x)[n] = t[n]
         /\ \A n \in DOMAIN Append(t, x) : n \in Nat \ {0} /\ (n = Len(t) + 1 \/ n \in DOMAIN t)
<1>1. Len(t) \in Nat /\ DOMAIN t = 1..Len(t)
  BY SeqLen
<1>2. /\ Append(t, x) \in Seq(S) /\ Len(Append(t, x)) = Len(t) + 1
      /\ DOMAIN Append(t, x) = 1..(Len(t) + 1) /\ Append(t, x)[Len(t) + 1] = x
      /\ \A n \in 1..Len(t) : Append(t, x)[n] = t[n]
  BY <1>1, SMTT(30)
<1> QED BY <1>1, <1>2, SMTT(30)

\* intern: the table goes on, and the value has its token in it.
LEMMA InternFacts ==
  ASSUME NEW t \in Seq(Texts), NEW val \in STRING
  PROVE  /\ intern(t, val) \in Seq(Texts) /\ Len(t) <= Len(intern(t, val))
         /\ \A n \in DOMAIN t : n \in DOMAIN intern(t, val) /\ intern(t, val)[n] = t[n]
         /\ \A n \in DOMAIN intern(t, val) : n \in Nat \ {0} /\ intern(t, val)[n] \in {val} \cup {t[m] : m \in DOMAIN t}
         /\ TokenOf(intern(t, val), val) \in DOMAIN intern(t, val)
         /\ intern(t, val)[TokenOf(intern(t, val), val)] = val
<1>1. Len(t) \in Nat /\ DOMAIN t = 1..Len(t)
  BY SeqLen
<1>2. CASE Knows(t, val)
  <2>1. intern(t, val) = t
    BY <1>2 DEF intern
  <2>2. Len(t) <= Len(t) /\ \A n \in DOMAIN t : n \in Nat \ {0}
    BY SeqLen
  <2> QED BY <1>2, <2>1, <2>2 DEF TokenOf, Knows
<1>3. CASE ~Knows(t, val)
  <2> DEFINE u == Append(t, val)
  <2>1. intern(t, val) = u
    BY <1>3 DEF intern
  <2>2. /\ u \in Seq(Texts) /\ Len(t) <= Len(u) /\ Len(t) + 1 \in DOMAIN u
        /\ u[Len(t) + 1] = val
        /\ \A n \in DOMAIN t : n \in DOMAIN u /\ u[n] = t[n]
        /\ \A n \in DOMAIN u : n \in Nat \ {0} /\ (n = Len(t) + 1 \/ n \in DOMAIN t)
    <3>1. val \in Texts
      BY DEF Texts
    <3> QED BY <3>1, AppendFacts
  <2> HIDE DEF u
  <2>3. \A n \in DOMAIN u : u[n] \in {val} \cup {t[m] : m \in DOMAIN t}
    BY <2>2
  <2>4. TokenOf(u, val) \in DOMAIN u /\ u[TokenOf(u, val)] = val
    BY <2>2 DEF TokenOf
  <2> QED BY <2>1, <2>2, <2>3, <2>4
<1> QED BY <1>2, <1>3

\* Rules.decide and the classifier's verdict: what is written in clear fits.
LEMMA SparedFits ==
  ASSUME NEW leaves, NEW op, NEW i, NEW verdict \in Verdicts(leaves, op, i),
         leaves[i].val # Reserved, Spared(leaves[i].val, verdict)
  PROVE  Fits([val |-> leaves[i].val, tok |-> NoMask], leaves, op, i)
<1>1. verdict = "keep" /\ leaves[i].val \notin Patterned \cup {Reserved}
  BY DEF Spared
<1>2. CASE decide(leaves[i].path) # "none"
  BY <1>1, <1>2 DEF Verdicts, Fits
<1>3. CASE decide(leaves[i].path) = "none"
  BY <1>1, <1>3 DEF Verdicts, Fits
<1> QED BY <1>2, <1>3

\* Only the masking handlers take more than one step.
LEMMA Masking ==
  ASSUME AnoInv, NEW h \in handlers, h.at # "arrived"
  PROVE  h.op \in MaskOps
<1>1. h \in HandlerSet /\ Begun(h)
  BY DEF AnoInv, AnoTypeOK
<1>2. ASSUME h.op \notin MaskOps PROVE FALSE
  <2>1. h = Call(h.req, h.op)
    BY <1>1, <1>2 DEF Begun
  <2>2. h.req \in AnoReqs /\ h.op \in MaskOps \cup {"unmask", "close"}
    BY <1>1 DEF HandlerSet
  <2>3. Call(h.req, h.op).at = "arrived"
    BY <2>2, CallFacts
  <2> QED BY <2>1, <2>3
<1> QED BY <1>2

\* maskLeaf, of one leaf.
LEMMA LeafStep ==
  ASSUME AnoInv, NEW h \in handlers, HandleLeaf(h)
  PROVE  AnoInv'
<1> DEFINE r == h.req
           leaves == Leaves(r, h.op)
           i == Len(h.out) + 1
           val == leaves[i].val
           table == exchange[r][h.ex].table
<1>1. /\ h.at = "leaf" /\ UNCHANGED <<anoClock, vault, reply, rendered, audited, anoCrashes>>
      /\ \/ Refused(h) /\ UNCHANGED exchange
         \/ /\ val # Reserved
            /\ \E verdict \in Verdicts(leaves, h.op, i) :
                 \/ /\ Spared(val, verdict)
                    /\ Written(h, val, NoMask) /\ UNCHANGED exchange
                 \/ Refused(h) /\ UNCHANGED exchange
                 \/ /\ exchange' = [exchange EXCEPT ![r][h.ex].table = intern(table, val)]
                    /\ Written(h, val, TokenOf(intern(table, val), val))
  BY DEF HandleLeaf
<1>2. r \in AnoReqs /\ AnoTypeOK /\ PerRequest(r) /\ Begun(h) /\ h.out \in Seq(Pieces)
  BY DEF AnoInv, AnoTypeOK, HandlerSet
<1>3. h.op \in MaskOps /\ h.ex \in MaskOps
  <2>1. h.op \in MaskOps
    BY <1>1, Masking
  <2> QED BY <1>1, <1>2, <2>1 DEF Begun
<1>4. leaves \in Seq(Leaf)
  BY <1>2, AnoAssumption DEF Leaves
<1>5. i \in DOMAIN leaves
  <2>1. Len(h.out) < Len(leaves)
    BY <1>2, <1>3 DEF Begun
  <2> QED BY <1>2, <1>4, <2>1, SMTT(30)
<1>6. leaves[i] \in Leaf
  BY <1>4, <1>5, SeqLen
<1> HIDE DEF i, leaves
<1>7. val \in STRING /\ val # Wiped /\ val \in Own(r)
  <2>1. val \in STRING /\ val # Wiped
    BY <1>6 DEF Leaf
  <2>2. val \in Values(leaves)
    BY <1>5 DEF Values
  <2> QED BY <2>1, <2>2 DEF leaves, Leaves, Own
<1> HIDE DEF val
<1>8. ASSUME UNCHANGED exchange PROVE Served(h) /\ Purges(r)
  <2>1. \A q \in AnoReqs : Purges(q)
    BY <1>1, <1>8, Undisturbed
  <2> QED BY <1>1, <1>2, <1>8, <2>1 DEF Served, AnoTypeOK, Purges
<1>9. CASE Refused(h) /\ UNCHANGED exchange
  BY <1>1, <1>3, <1>8, <1>9, RefusedStep
<1>10. ASSUME NEW verdict \in Verdicts(leaves, h.op, i), val # Reserved, Spared(val, verdict),
              Written(h, val, NoMask), UNCHANGED exchange
       PROVE  AnoInv'
  <2>1. Fits([val |-> val, tok |-> NoMask], leaves, h.op, i)
    BY <1>10, SparedFits DEF val
  <2>2. NoMask \in Nat /\ Stands([val |-> val, tok |-> NoMask], HomeTable(r)')
    BY DEF NoMask, Stands
  <2> QED BY <1>1, <1>3, <1>7, <1>8, <1>10, <2>1, <2>2, WrittenStep DEF i, leaves
<1>11. ASSUME exchange' = [exchange EXCEPT ![r][h.ex].table = intern(table, val)],
              Written(h, val, TokenOf(intern(table, val), val))
       PROVE  AnoInv'
  <2>1. exchange[r][h.ex] \in Exchanges /\ table \in Seq(Texts) /\ DOMAIN exchange = AnoReqs
        /\ exchange[r] \in [MaskOps -> Exchanges]
    BY <1>2, <1>3 DEF AnoTypeOK, Exchanges
  <2> DEFINE new == intern(table, val)
             tok == TokenOf(new, val)
  <2>2. /\ new \in Seq(Texts)
        /\ \A n \in DOMAIN table : n \in DOMAIN new /\ new[n] = table[n]
        /\ \A n \in DOMAIN new : n \in Nat \ {0} /\ new[n] \in {val} \cup {table[m] : m \in DOMAIN table}
        /\ tok \in DOMAIN new /\ new[tok] = val
    BY <1>7, <2>1, InternFacts
  <2>3. Written(h, val, tok)
    BY <1>11
  <2>4. /\ exchange'[r][h.ex] = [exchange[r][h.ex] EXCEPT !.table = new]
        /\ \A op \in MaskOps : op # h.ex => exchange'[r][op] = exchange[r][op]
        /\ \A q \in AnoReqs : q # r => exchange'[q] = exchange[q]
        /\ exchange' = [exchange EXCEPT ![r] = [exchange[r] EXCEPT ![h.ex] = [exchange[r][h.ex] EXCEPT !.table = new]]]
    BY <1>2, <1>3, <1>11, <2>1
  <2> HIDE DEF tok, new
  <2>5. /\ exchange'[r][h.ex].table = new /\ exchange'[r][h.ex].until = exchange[r][h.ex].until
        /\ exchange'[r][h.ex] \in Exchanges
    BY <2>1, <2>2, <2>4, SMTT(30) DEF Exchanges
  <2>6. exchange' \in [AnoReqs -> [MaskOps -> Exchanges]]
    BY <1>2, <1>3, <2>1, <2>4, <2>5 DEF AnoTypeOK
  <2>7. OwnTable(r, new)
    BY <1>2, <1>3, <1>7, <2>2, SMTT(30) DEF PerRequest, OwnTable
  <2>8. Purges(r)
    <3>1. ASSUME NEW op \in MaskOps
          PROVE  /\ exchange'[r][op].until = exchange[r][op].until
                 /\ Carries(exchange[r][op].table, exchange'[r][op].table)
                 /\ OwnTable(r, exchange'[r][op].table)
      <4>1. CASE op = h.ex
        BY <2>2, <2>5, <2>7, <4>1 DEF Carries
      <4>2. CASE op # h.ex
        BY <1>2, <2>4, <4>2 DEF Carries, PerRequest
      <4> QED BY <4>1, <4>2
    <3> QED BY <1>1, <3>1 DEF Purges
  <2>9. Served(h)
    <3>1. \A q \in AnoReqs : q # r => Purges(q)
      BY <1>1, <2>4, Undisturbed
    <3> QED BY <1>1, <1>2, <2>6, <2>8, <3>1 DEF Served, AnoTypeOK, Purges
  <2>10. tok \in Nat /\ tok # NoMask
    BY <2>2 DEF NoMask
  <2>11. Fits([val |-> val, tok |-> tok], leaves, h.op, i)
    BY <2>10 DEF Fits, val
  <2>12. ASSUME anoCrashes = 0, stage[r] \in Going
         PROVE  Stands([val |-> val, tok |-> tok], HomeTable(r)')
    <3>1. h.ex = Home(r)
      BY <1>2, <1>3, <2>12, HomeIs DEF PerRequest, OneHome
    <3>2. HomeTable(r)' = new
      BY <2>5, <3>1 DEF HomeTable, Home
    <3> QED BY <2>2, <3>2 DEF Stands
  <2> QED BY <1>1, <1>3, <1>7, <2>3, <2>8, <2>9, <2>10, <2>11, <2>12, WrittenStep DEF i, leaves
<1> QED BY <1>1, <1>9, <1>10, <1>11

\* The vault is purged and nothing else happens to it.
LEMMA PurgeServed ==
  ASSUME AnoInv, NEW h \in handlers, vault' = purgeLocked, exchange' = Wiping(vault'),
         UNCHANGED <<anoClock, anoCrashes, reply, audited>>
  PROVE  Served(h) /\ Purges(h.req)
<1>1. h.req \in AnoReqs
  BY DEF AnoInv, AnoTypeOK, HandlerSet
<1> QED BY <1>1, PurgedExchanges DEF Served, Purges

\* What OneHome says of a purged request.
LEMMA HomePurged ==
  ASSUME AnoTypeOK, NEW r \in AnoReqs, OneHome(r), Purges(r)
  PROVE  /\ Outlives(r)' /\ Carries(HomeTable(r), HomeTable(r)')
         /\ \A out : AllStand(out, HomeTable(r)) => AllStand(out, HomeTable(r)')
<1>1. Outlives(r)'
  BY HomeIs DEF Purges, OneHome, Outlives, Home
<1>2. Carries(HomeTable(r), HomeTable(r)')
  BY HomeIs DEF Purges, HomeTable, Home
<1> QED BY <1>1, <1>2, StandsOn

\* get: the handler takes up the exchange in the vault, or gives up.
LEMMA GetStep ==
  ASSUME AnoInv, NEW h \in handlers, HandleGet(h)
  PROVE  AnoInv'
<1> DEFINE r == h.req
<1>1. /\ h.at = "open" /\ vault' = purgeLocked /\ exchange' = Wiping(vault')
      /\ UNCHANGED <<anoClock, reply, rendered, audited, anoCrashes>>
      /\ \/ vault'[r] # None /\ Goes(h, "leaf", vault'[r], h.out)
         \/ Refused(h)
  BY DEF HandleGet
<1>2. r \in AnoReqs /\ AnoTypeOK /\ PerRequest(r) /\ Begun(h) /\ h.out \in Seq(Pieces)
  BY DEF AnoInv, AnoTypeOK, HandlerSet
<1>3. Served(h) /\ Purges(r) /\ h.op \in MaskOps
  BY <1>1, PurgeServed, Masking
<1>4. CASE Refused(h)
  BY <1>1, <1>3, <1>4, RefusedStep
<1>5. CASE vault'[r] # None /\ Goes(h, "leaf", vault'[r], h.out)
  <2>1. vault'[r] \in MaskOps
    BY <1>2, <1>3, <1>5 DEF Served
  <2>2. ASSUME anoCrashes = 0, stage[r] \in Going
        PROVE  /\ Outlives(r)' /\ vault'[r] \in {None, Home(r)}
               /\ HomeHeld(r)' /\ AllStand(h.out, HomeTable(r)')
               /\ \A op \in MaskOps : AllStand(rewritten[r][op], HomeTable(r)')
    <3>1. OneHome(r)
      BY <1>2, <2>2 DEF PerRequest
    <3>2. HomeHeld(r) /\ AllStand(h.out, HomeTable(r))
      BY <1>1, <3>1 DEF OneHome
    <3>3. anoClock' \in Nat /\ anoClock <= anoClock'
      BY <1>1, ClockStays
    <3>4. HomeHeld(r)'
      BY <1>2, <1>3, <3>2, <3>3, HomeHeldOn
    <3>5. Outlives(r)' /\ \A out : AllStand(out, HomeTable(r)) => AllStand(out, HomeTable(r)')
      BY <1>2, <1>3, <3>1, HomePurged
    <3> QED BY <3>1, <3>2, <3>4, <3>5 DEF OneHome, Outlives, Home
  <2>3. /\ Len(h.out) < Len(Leaves(h.req, h.op))
        /\ \A i \in 1..Len(h.out) : Fits(h.out[i], Leaves(h.req, h.op), h.op, i)
    BY <1>2, <1>3 DEF Begun
  <2> QED BY <1>1, <1>2, <1>3, <1>5, <2>1, <2>2, <2>3, GoesStep
<1> QED BY <1>1, <1>4, <1>5

\* A masking call whose token has expired is refused.
LEMMA ExpiredStep ==
  ASSUME AnoInv, NEW h \in handlers, HandleExpired(h)
  PROVE  AnoInv'
<1>1. /\ h.op \in MaskOps /\ Refused(h)
      /\ UNCHANGED <<anoClock, exchange, vault, reply, rendered, audited, anoCrashes>>
  BY DEF HandleExpired
<1>2. h.req \in AnoReqs /\ AnoTypeOK /\ \A q \in AnoReqs : Purges(q)
  BY <1>1, Undisturbed DEF AnoInv, AnoTypeOK, HandlerSet
<1>3. Served(h) /\ Purges(h.req)
  BY <1>1, <1>2 DEF Served, AnoTypeOK, Purges
<1> QED BY <1>1, <1>3, RefusedStep

\* Unmask: a token resolves to what it stands for in the request's exchange.
LEMMA UnmaskStep ==
  ASSUME AnoInv, NEW h \in handlers, HandleUnmask(h)
  PROVE  AnoInv'
<1> DEFINE r == h.req
           val == Resolve(purgeLocked, r, reply[r])
<1>1. /\ h.op = "unmask" /\ vault' = purgeLocked /\ exchange' = Wiping(vault')
      /\ handlers' = handlers \ {h}
      /\ UNCHANGED <<anoClock, rewritten, reply, audited, anoCrashes>>
      /\ \/ ~Waits(r, h.op) /\ UNCHANGED <<stage, rendered>>
         \/ /\ stage[r] = "unmask" /\ val # NoReply
            /\ stage' = [stage EXCEPT ![r] = "restored"] /\ rendered' = [rendered EXCEPT ![r] = val]
         \/ /\ stage[r] = "unmask" /\ stage' = [stage EXCEPT ![r] = "refused"]
            /\ UNCHANGED rendered
  BY DEF HandleUnmask, Waits
<1>2. r \in AnoReqs /\ AnoTypeOK /\ PerRequest(r)
  BY DEF AnoInv, AnoTypeOK, HandlerSet
<1>3. Served(h) /\ Purges(r)
  BY <1>1, PurgeServed
<1> HIDE DEF val
<1>4. CASE ~Waits(r, h.op) /\ UNCHANGED <<stage, rendered>>
  BY <1>1, <1>3, <1>4, NobodyWaits
<1>5. ASSUME stage[r] = "unmask", NEW s \in {"restored", "refused"},
             stage' = [stage EXCEPT ![r] = s],
             \/ s = "refused" /\ UNCHANGED rendered
             \/ s = "restored" /\ val # NoReply /\ rendered' = [rendered EXCEPT ![r] = val]
      PROVE  AnoInv'
  <2>1. AnoTypeOK'
    <3>1. stage' \in [AnoReqs -> Stages]
      BY <1>2, <1>5 DEF AnoTypeOK, Stages
    <3>2. DOMAIN rendered' = AnoReqs
      BY <1>2, <1>5 DEF AnoTypeOK
    <3> QED BY <1>1, <1>2, <1>3, <3>1, <3>2 DEF AnoTypeOK, Served
  <2>2. ASSUME NEW q \in AnoReqs PROVE PerRequest(q)'
    <3>1. CASE q # r
      BY <1>1, <1>2, <1>3, <1>5, <3>1, OthersServed DEF AnoTypeOK
    <3>2. CASE q = r /\ s = "refused"
      <4>1. rendered[r] = NoReply /\ stage'[r] = "refused"
        BY <1>2, <1>5, <3>2 DEF PerRequest, Resolved, AnoTypeOK
      <4> QED BY <1>1, <1>2, <1>3, <1>5, <3>2, <4>1, Ended DEF Purges
    <3>3. CASE q = r /\ s = "restored"
      <4>1. rendered'[r] = val /\ stage'[r] = "restored" /\ val # NoReply
        BY <1>2, <1>5, <3>3 DEF AnoTypeOK
      <4>2. Progress(r)'
        BY <1>1, <1>2, <1>5, <4>1 DEF PerRequest, Progress, WroteBody, WroteQuery
      <4>3. CASE val = Plain
        <5>1. Resolved(r)'
          BY <4>1, <4>3 DEF Resolved
        <5> QED BY <1>3, <3>3, <4>1, <4>2, <5>1 DEF PerRequest, OwnTable, Own, Going, Purges
      <4>4. CASE val # Plain
        <5> DEFINE table == exchange[r][purgeLocked[r]].table
        <5>1. /\ purgeLocked[r] # None /\ reply[r] # NoMask /\ reply[r] \in DOMAIN table
              /\ table[reply[r]] # Wiped /\ val = table[reply[r]]
          BY <4>1, <4>4 DEF val, Resolve
        <5>2. purgeLocked[r] = vault[r] /\ vault[r] \in MaskOps
          BY <1>2, <5>1, PurgedVault
        <5>3. val \in Own(r)
          BY <1>2, <5>1, <5>2 DEF PerRequest, OwnTable
        <5>4. ASSUME anoCrashes = 0, NEW op \in MaskOps PROVE RightValue(r, rewritten[r][op])'
          <6>1. OneHome(r)
            BY <1>2, <1>5, <5>4 DEF PerRequest, Going
          <6>2. AllStand(rewritten[r][op], table)
            BY <5>1, <5>2, <6>1 DEF OneHome, Outlives, HomeTable
          <6> QED BY <1>1, <4>1, <5>1, <6>2 DEF RightValue, AllStand, Stands
        <5>5. Resolved(r)'
          BY <1>1, <4>1, <5>3, <5>4 DEF Resolved, Own
        <5> QED BY <1>3, <3>3, <4>1, <4>2, <5>5 DEF PerRequest, OwnTable, Own, Going, Purges
      <4> QED BY <4>3, <4>4
    <3> QED BY <3>1, <3>2, <3>3
  <2> QED BY <1>1, <2>1, <2>2 DEF AnoInv
<1> QED BY <1>1, <1>4, <1>5

\* close: the exchange is wiped, and its request is past its masks.
LEMMA CloseStep ==
  ASSUME AnoInv, NEW h \in handlers, HandleClose(h)
  PROVE  AnoInv'
<1> DEFINE r == h.req
<1>1. /\ h.op = "close" /\ vault' = [vault EXCEPT ![r] = None] /\ exchange' = Wiping(vault')
      /\ handlers' = handlers \ {h}
      /\ UNCHANGED <<anoClock, rewritten, reply, rendered, audited, anoCrashes>>
      /\ \/ stage[r] # "close" /\ stage' = stage
         \/ stage[r] = "close" /\ stage' = [stage EXCEPT ![r] = "over"]
  BY DEF HandleClose, Waits
<1>2. r \in AnoReqs /\ AnoTypeOK /\ PerRequest(r)
  BY DEF AnoInv, AnoTypeOK, HandlerSet
<1>3. \A q \in AnoReqs, op \in MaskOps : OwnTable(q, exchange[q][op].table)
  BY DEF AnoInv, PerRequest
<1>4. /\ vault' \in [AnoReqs -> MaskOps \cup {None}]
      /\ \A q \in AnoReqs : q # r => vault'[q] = vault[q]
  BY <1>1, <1>2 DEF AnoTypeOK
<1>5. /\ exchange' \in [AnoReqs -> [MaskOps -> Exchanges]]
      /\ \A q \in AnoReqs, op \in MaskOps :
           /\ exchange'[q][op].until = exchange[q][op].until
           /\ Carries(exchange[q][op].table, exchange'[q][op].table)
           /\ OwnTable(q, exchange'[q][op].table)
  BY <1>1, <1>2, <1>3, WipingEffect, SMTT(30)
<1>6. Served(h)
  BY <1>1, <1>2, <1>4, <1>5 DEF Served, Purges
<1>7. AnoTypeOK'
  <2>1. stage' \in [AnoReqs -> Stages]
    BY <1>1, <1>2 DEF AnoTypeOK, Stages
  <2> QED BY <1>1, <1>2, <1>4, <1>5, <2>1 DEF AnoTypeOK
<1>8. ASSUME NEW q \in AnoReqs PROVE PerRequest(q)'
  <2>1. CASE q # r
    BY <1>1, <1>2, <1>6, <2>1, OthersServed DEF AnoTypeOK
  <2>2. CASE q = r /\ stage[r] = "close"
    <3>1. stage'[r] = "over"
      BY <1>1, <1>2, <2>2 DEF AnoTypeOK
    <3> QED BY <1>1, <1>2, <1>5, <2>2, <3>1, Ended
  <2>3. CASE q = r /\ stage[r] # "close"
    <3>1. ~(anoCrashes' = 0 /\ stage'[r] \in Going)
      BY <1>1, <1>2, <2>3 DEF PerRequest, OneHome
    <3>2. Progress(r)' /\ Resolved(r)'
      BY <1>1, <1>2, <2>3 DEF PerRequest, Progress, Resolved, RightValue, Own
    <3> QED BY <1>5, <2>3, <3>1, <3>2 DEF PerRequest, OwnTable, Own
  <2> QED BY <2>1, <2>2, <2>3
<1> QED BY <1>1, <1>7, <1>8 DEF AnoInv

\* open changes the vault for its own request only, and only if nothing lives.
LEMMA OpenFacts ==
  ASSUME AnoTypeOK, NEW r \in AnoReqs, NEW op \in MaskOps
  PROVE  \/ open(purgeLocked, r, op) = purgeLocked
         \/ /\ purgeLocked[r] = None
            /\ open(purgeLocked, r, op) = [purgeLocked EXCEPT ![r] = op]
            /\ open(purgeLocked, r, op)[r] = op
            /\ open(purgeLocked, r, op) \in [AnoReqs -> MaskOps \cup {None}]
            /\ \A q \in AnoReqs : q # r => open(purgeLocked, r, op)[q] = purgeLocked[q]
BY PurgedVault DEF open

\* The life of a new exchange is not cut before its token's.
LEMMA NewFacts ==
  ASSUME AnoTypeOK, NEW r \in AnoReqs
  PROVE  /\ newExchange(r) \in Exchanges /\ newExchange(r).table = <<>>
         /\ anoClock >= TokenIat[r] => newExchange(r).until >= TokenExp[r]
<1>1. /\ TokenIat[r] \in Nat /\ TokenExp[r] \in Nat /\ TokenExp[r] - TokenIat[r] <= AnoTTL
      /\ Grace \in Nat /\ AnoTTL \in Nat /\ anoClock \in Nat
  BY AnoAssumption DEF AnoTypeOK
<1> DEFINE u == Least(TokenExp[r] + Grace, anoClock + AnoTTL)
<1>2. u \in Nat /\ (anoClock >= TokenIat[r] => u >= TokenExp[r])
  BY <1>1, SMTT(30) DEF Least
<1>3. newExchange(r).until = u /\ newExchange(r).table = <<>> /\ newExchange(r) = [until |-> u, table |-> <<>>]
  BY DEF newExchange
<1>4. <<>> \in Seq(Texts)
  BY NoElement
<1> HIDE DEF u
<1> QED BY <1>2, <1>3, <1>4 DEF Exchanges

\* open: a second exchange of one request never meets masks of the first.
LEMMA OpenStep ==
  ASSUME AnoInv, NEW h \in handlers, HandleOpen(h)
  PROVE  AnoInv'
<1> DEFINE r == h.req
<1>1. /\ h.op \in MaskOps /\ h.at = "arrived" /\ anoClock < TokenExp[r]
      /\ vault' = open(purgeLocked, r, h.op)
      /\ UNCHANGED <<anoClock, reply, rendered, audited, anoCrashes>>
      /\ purgeLocked[r] = None /\ vault'[r] # None =>
           exchange' = [Wiping(vault') EXCEPT ![r][h.op] = newExchange(r)]
      /\ ~(purgeLocked[r] = None /\ vault'[r] # None) => exchange' = Wiping(vault')
      /\ vault'[r] # None => Goes(h, "open", None, <<>>)
      /\ vault'[r] = None => Refused(h)
  BY DEF HandleOpen
<1>2. r \in AnoReqs /\ AnoTypeOK /\ PerRequest(r) /\ Begun(h)
  BY DEF AnoInv, AnoTypeOK, HandlerSet
<1>3. /\ Len(<<>>) < Len(Leaves(r, h.op)) /\ <<>> \in Seq(Pieces) /\ h.out = <<>>
      /\ \A i \in 1..Len(<<>>) : Fits(<<>>[i], Leaves(r, h.op), h.op, i)
  BY <1>1, <1>2, SMTT(30) DEF Begun
<1>4. \A u : AllStand(<<>>, u)
  BY NothingWritten
<1>5. None \notin MaskOps
  BY <1>2, HomeIs
<1>6. CASE vault' = purgeLocked
  <2>1. exchange' = Wiping(vault')
    BY <1>1, <1>6
  <2>2. Served(h) /\ Purges(r)
    BY <1>1, <1>6, <2>1, PurgeServed
  <2>3. CASE vault'[r] = None
    BY <1>1, <2>2, <2>3, RefusedStep
  <2>4. CASE vault'[r] # None
    <3>1. ASSUME anoCrashes = 0, stage[r] \in Going
          PROVE  /\ Outlives(r)' /\ HomeHeld(r)'
                 /\ \A op \in MaskOps : AllStand(rewritten[r][op], HomeTable(r)')
      <4>1. OneHome(r)
        BY <1>2, <3>1 DEF PerRequest
      <4>2. Outlives(r)' /\ \A out : AllStand(out, HomeTable(r)) => AllStand(out, HomeTable(r)')
        BY <1>2, <2>2, <4>1, HomePurged
      <4>3. HomeHeld(r)'
        BY <2>4, <4>2 DEF Outlives, HomeHeld
      <4> QED BY <4>1, <4>2, <4>3 DEF OneHome
    <3> QED BY <1>1, <1>3, <1>4, <2>2, <2>4, <3>1, GoesStep
  <2> QED BY <2>3, <2>4
<1>7. CASE /\ purgeLocked[r] = None /\ vault'[r] = h.op
           /\ vault' \in [AnoReqs -> MaskOps \cup {None}]
           /\ \A q \in AnoReqs : q # r => vault'[q] = purgeLocked[q]
  <2>1. /\ exchange' = [Wiping(vault') EXCEPT ![r][h.op] = newExchange(r)]
        /\ Goes(h, "open", None, <<>>) /\ vault'[r] # None
    BY <1>1, <1>5, <1>7
  <2>2. PICK w : w = Wiping(vault')
    OBVIOUS
  <2>3. /\ w \in [AnoReqs -> [MaskOps -> Exchanges]]
        /\ \A q \in AnoReqs, op \in MaskOps :
             /\ w[q][op].until = exchange[q][op].until
             /\ Carries(exchange[q][op].table, w[q][op].table)
             /\ OwnTable(q, w[q][op].table)
    BY <1>2, <2>2, WipingEffect, SMTT(30) DEF AnoInv, PerRequest
  <2>4. PICK x \in Exchanges : x = newExchange(r)
    BY <1>2, NewFacts
  <2>5. exchange' = [w EXCEPT ![r][h.op] = x]
    BY <2>1, <2>2, <2>4
  <2>6. /\ exchange'[r][h.op] = x
        /\ \A op \in MaskOps : op # h.op => exchange'[r][op] = w[r][op]
        /\ \A q \in AnoReqs : q # r => exchange'[q] = w[q]
        /\ exchange' \in [AnoReqs -> [MaskOps -> Exchanges]]
    BY <1>1, <1>2, <2>3, <2>4, <2>5
  <2>7. x.table = <<>> /\ DOMAIN <<>> = {} /\ (anoClock >= TokenIat[r] => x.until >= TokenExp[r])
    BY <1>2, <2>4, NewFacts
  <2>8. Served(h)
    <3>1. \A q \in AnoReqs : q # r => Purges(q)
      BY <1>2, <1>7, <2>3, <2>6, PurgedVault, SMTT(30) DEF Purges
    <3>2. \A op \in MaskOps : OwnTable(r, exchange'[r][op].table)
      BY <1>2, <2>3, <2>6, <2>7 DEF OwnTable
    <3> QED BY <1>1, <1>7, <2>6, <3>1, <3>2 DEF Served
  <2>9. ASSUME anoCrashes = 0, stage[r] \in Going
        PROVE  /\ Outlives(r)' /\ HomeHeld(r)'
               /\ \A op \in MaskOps : AllStand(rewritten[r][op], HomeTable(r)')
    <3>1. OneHome(r) /\ stage[r] = h.op
      BY <1>2, <2>9 DEF PerRequest, OneHome
    <3>2. h.op = Home(r)
      <4>1. ASSUME h.op = "query", Body[r] # <<>> PROVE FALSE
        <5>1. HomeHeld(r)
          BY <3>1, <4>1 DEF OneHome
        <5>2. TokenExp[r] \in Nat /\ anoClock \in Nat /\ exchange[r][Home(r)].until \in Nat
          BY <1>2, AnoAssumption, HomeIs, SMTT(30) DEF AnoTypeOK, Exchanges
        <5>3. ~(anoClock >= TokenExp[r])
          BY <1>1, <5>2, SMTT(30)
        <5>4. vault[r] = Home(r) /\ exchange[r][Home(r)].until >= TokenExp[r]
          BY <5>1, <5>3 DEF HomeHeld
        <5>5. exchange[r][Home(r)].until > anoClock
          BY <1>1, <5>2, <5>4, SMTT(30)
        <5>6. Live(r)
          BY <1>2, <5>4, <5>5, HomeIs DEF Live
        <5> QED BY <1>2, <1>7, <5>6, PurgedVault
      <4>2. ASSUME h.op = "body" PROVE Body[r] # <<>>
        BY <1>3, <4>2, SMTT(30) DEF Leaves
      <4> QED BY <1>1, <4>1, <4>2 DEF Home, MaskOps
    <3>3. anoClock >= TokenIat[r]
      BY <1>1, <1>2, <3>1 DEF PerRequest, Progress, MaskOps
    <3>4. vault'[r] = Home(r) /\ exchange'[r][Home(r)].until >= TokenExp[r]
      BY <1>7, <2>6, <2>7, <3>2, <3>3
    <3>5. Outlives(r)' /\ HomeHeld(r)'
      BY <3>4 DEF Outlives, HomeHeld, Home
    <3>6. \A op \in MaskOps : DOMAIN rewritten[r][op] = {}
      <4>1. rewritten[r]["query"] = <<>>
        BY <1>1, <1>2, <3>1 DEF PerRequest, Progress, MaskOps
      <4>2. CASE h.op = "body"
        <5>1. rewritten[r]["body"] = <<>>
          BY <1>2, <3>1, <4>2 DEF PerRequest, Progress
        <5> QED BY <2>7, <4>1, <5>1 DEF MaskOps
      <4>3. CASE h.op = "query"
        <5>1. Body[r] = <<>>
          BY <3>2, <4>3 DEF Home
        <5>2. Covers(rewritten[r]["body"], Body[r], "body")
          BY <1>2, <3>1, <4>3 DEF PerRequest, Progress, WroteBody
        <5>3. rewritten[r]["body"] \in Seq(Pieces) /\ Len(rewritten[r]["body"]) = Len(<<>>)
          BY <1>2, <5>1, <5>2 DEF Covers, AnoTypeOK, MaskOps
        <5>4. DOMAIN rewritten[r]["body"] = {}
          BY <5>3, SMTT(30)
        <5> QED BY <2>7, <4>1, <5>4 DEF MaskOps
      <4> QED BY <1>1, <4>2, <4>3 DEF MaskOps
    <3> QED BY <3>5, <3>6 DEF AllStand
  <2> QED BY <1>1, <1>3, <1>4, <2>1, <2>8, <2>9, GoesStep
<1> QED BY <1>1, <1>2, <1>6, <1>7, OpenFacts, SMTT(30)

\* Nothing has begun.
LEMMA AnoInitInv ==
  ASSUME AnoInit PROVE AnoInv
<1>1. <<>> \in Seq(Texts) /\ <<>> \in Seq(Pieces) /\ DOMAIN <<>> = {} /\ 0 \in Nat
  BY NoElement
<1>2. AnoTypeOK
  <2>1. exchange \in [AnoReqs -> [MaskOps -> Exchanges]]
    BY <1>1 DEF AnoInit, Exchanges
  <2>2. rewritten \in [AnoReqs -> [MaskOps -> Seq(Pieces)]] /\ reply \in [AnoReqs -> Nat]
    BY <1>1 DEF AnoInit, NoMask
  <2>3. stage \in [AnoReqs -> Stages] /\ vault \in [AnoReqs -> MaskOps \cup {None}]
    BY DEF AnoInit, Stages
  <2> QED BY <1>1, <2>1, <2>2, <2>3 DEF AnoInit, AnoTypeOK
<1>3. ASSUME NEW r \in AnoReqs PROVE PerRequest(r)
  <2>1. /\ stage[r] = "new" /\ vault[r] = None /\ handlers = {} /\ rendered[r] = NoReply
        /\ \A op \in MaskOps : rewritten[r][op] = <<>> /\ exchange[r][op].table = <<>>
    BY DEF AnoInit
  <2>2. Progress(r)
    BY <2>1 DEF Progress, WroteBody, WroteQuery, MaskOps
  <2>3. OneHome(r)
    BY <1>1, <2>1 DEF OneHome, Outlives, AllStand
  <2>4. Resolved(r)
    BY <2>1 DEF Resolved
  <2> QED BY <1>1, <2>1, <2>2, <2>3, <2>4 DEF PerRequest, OwnTable
<1> QED BY <1>2, <1>3 DEF AnoInit, AnoInv

\* Every step of anod, of the proxy and of the clock keeps the invariant.
LEMMA AnoNextInv ==
  ASSUME AnoInv, [AnoNext]_anoVars PROVE AnoInv'
<1>1. ASSUME NEW h \in handlers, ServerStep(h) PROVE AnoInv'
  BY <1>1, OpenStep, ExpiredStep, GetStep, LeafStep, UnmaskStep, CloseStep DEF ServerStep
<1>2. ASSUME NEW r \in AnoReqs, ProxyStep(r) PROVE AnoInv'
  <2>1. CASE ServeHTTP(r)
    BY <2>1, ServeStep
  <2>2. CASE CallFails(r)
    BY <2>2, CallFailsStep
  <2>3. CASE Refuse(r) \/ MaskUnaudited(r) \/ BackendFails(r)
    BY <2>3, DoneStep DEF Refuse, MaskUnaudited, BackendFails
  <2>4. CASE Transmit(r)
    BY <2>4, TransmitStep
  <2>5. CASE \E n \in NoMask..MaxMasks : BackendAnswers(r, n)
    BY <2>5, BackendAnswersStep
  <2>6. CASE Render(r)
    BY <2>6, DoneStep DEF Render
  <2>7. CASE UnmaskUnaudited(r)
    BY <2>7, DoneStep DEF UnmaskUnaudited
  <2>8. CASE BackendEmpty(r)
    BY <2>8, BackendEmptyStep
  <2> QED BY <1>2, <2>1, <2>2, <2>3, <2>4, <2>5, <2>6, <2>7, <2>8 DEF ProxyStep
<1>3. CASE UNCHANGED anoVars
  <2>1. UNCHANGED <<anoClock, exchange, vault, handlers, stage, rewritten, reply, rendered, audited, anoCrashes>>
    BY <1>3 DEF anoVars, server, proxy
  <2>2. AnoTypeOK'
    BY <2>1 DEF AnoInv, AnoTypeOK
  <2>3. anoClock' \in Nat /\ anoClock <= anoClock'
    BY <2>1, ClockStays
  <2>4. ASSUME NEW q \in AnoReqs PROVE PerRequest(q)'
    <3>1. Same(q) /\ Purges(q) /\ PerRequest(q) /\ AnoTypeOK
      BY <2>1, Undisturbed DEF Same, AnoInv
    <3> QED BY <2>1, <2>3, <3>1, PassedBy
  <2> QED BY <2>1, <2>2, <2>4 DEF AnoInv
<1> QED BY <1>1, <1>2, <1>3, ClockStep, AnoCrashStep, PepCrashStep DEF AnoNext

\* The inductive invariant of the anonymising proxy.
THEOREM AnoInvariant == AnoSpec => []AnoInv
<1>1. AnoInit => AnoInv
  BY AnoInitInv
<1>2. AnoInv /\ [AnoNext]_anoVars => AnoInv'
  BY AnoNextInv
<1> QED BY <1>1, <1>2, PTL DEF AnoSpec

\* What leaves the cell is audited, whole and masked where a rule, a pattern or
\* the lack of a verdict says so, for every request and rule set (maskLeaf,
\* MaskField, RewriteRequest).
THEOREM OnlyMaskedLeaves == AnoSpec => []LeavesMasked
<1>1. AnoInv => LeavesMasked
  <2>1. ASSUME AnoInv, NEW r \in AnoReqs, stage[r] \in {"sent", "unmask", "restored"}
        PROVE  /\ "mask" \in audited[r]
               /\ \A op \in MaskOps : Covers(rewritten[r][op], Leaves(r, op), op)
    BY <2>1 DEF AnoInv, PerRequest, Progress, WroteBody, WroteQuery, Leaves, MaskOps
  <2> QED BY <2>1 DEF LeavesMasked
<1> QED BY <1>1, AnoInvariant, PTL

\* A caller receives values of their own request only, and in the place of the
\* mask that stood for them unless anod restarted (open, intern, Unmask), however
\* many requests share the vault and whatever it wipes under a handler.
THEOREM CallersGetTheirOwn == AnoSpec => []OnlyOwnValues
<1>1. AnoInv => OnlyOwnValues
  <2>1. ASSUME AnoInv, NEW r \in AnoReqs, rendered[r] \notin {NoReply, Plain}
        PROVE  /\ \E op \in MaskOps : rendered[r] \in Values(Leaves(r, op))
               /\ anoCrashes = 0 => \A op \in MaskOps : RightValue(r, rewritten[r][op])
    <3>1. Resolved(r)
      BY <2>1 DEF AnoInv, PerRequest
    <3>2. rendered[r] \in Values(Leaves(r, "body")) \/ rendered[r] \in Values(Leaves(r, "query"))
      BY <2>1, <3>1 DEF Resolved, Own, Leaves
    <3> QED BY <2>1, <3>1, <3>2 DEF Resolved, MaskOps
  <2> QED BY <2>1 DEF OnlyOwnValues
<1> QED BY <1>1, AnoInvariant, PTL

\* An exchange that lives is not touched by the purge, nor by another opening.
LEMMA VaultKeeps ==
  ASSUME AnoInv, NEW q \in AnoReqs, Live(q), vault'[q] = vault[q],
         exchange'[q][vault[q]] = exchange[q][vault[q]]
  PROVE  KeepsMeaning(q)
<1>1. vault[q] \in MaskOps /\ exchange[q][vault[q]] \in Exchanges
  BY DEF AnoInv, AnoTypeOK, Live
<1>2. exchange[q][vault[q]].table \in Seq(Texts)
  BY <1>1 DEF Exchanges
<1>3. Len(exchange[q][vault[q]].table) <= Len(exchange[q][vault[q]].table)
  BY <1>2, SeqLen, SMTT(30)
<1> QED BY <1>3 DEF KeepsMeaning

\* What a step may do to an exchange that lives.
Meant(q) ==
  KeepsMeaning(q) \/ Call(q, "close") \in handlers \ handlers' \/ anoCrashes' > anoCrashes

\* open closes nothing that lives.
LEMMA OpenKeeps ==
  ASSUME AnoInv, NEW h \in handlers, HandleOpen(h), NEW q \in AnoReqs, Live(q)
  PROVE  Meant(q)
<1>1. h.req \in AnoReqs /\ h.op \in MaskOps /\ AnoTypeOK /\ vault[q] \in MaskOps
  BY DEF AnoInv, AnoTypeOK, HandlerSet, HandleOpen, Live
<1>2. purgeLocked[q] = vault[q] /\ purgeLocked[q] # None
  BY <1>1, PurgedVault
<1>3. vault'[q] = vault[q]
  BY <1>1, <1>2, OpenFacts, SMTT(30) DEF HandleOpen
<1>4. Wiping(vault')[q][vault[q]] = exchange[q][vault[q]]
  BY <1>1, <1>3, WipingEffect, SMTT(30) DEF AnoInv, PerRequest
<1>5. exchange'[q][vault[q]] = Wiping(vault')[q][vault[q]]
  <2>1. CASE exchange' = Wiping(vault')
    BY <2>1
  <2>2. CASE h.req # q /\ exchange' = [Wiping(vault') EXCEPT ![h.req][h.op] = newExchange(h.req)]
    BY <2>2 DEF Wiping
  <2> QED BY <1>2, <2>1, <2>2 DEF HandleOpen
<1> QED BY <1>3, <1>4, <1>5, VaultKeeps DEF Meant

\* The purge closes nothing that lives.
LEMMA PurgeKeeps ==
  ASSUME AnoInv, vault' = purgeLocked, exchange' = Wiping(vault'), NEW q \in AnoReqs, Live(q)
  PROVE  Meant(q)
<1>1. AnoTypeOK /\ vault[q] \in MaskOps
  BY DEF AnoInv, AnoTypeOK, Live
<1>2. vault'[q] = vault[q]
  BY <1>1, PurgedVault
<1>3. exchange'[q][vault[q]] = exchange[q][vault[q]]
  BY <1>1, <1>2, WipingEffect DEF AnoInv, PerRequest
<1> QED BY <1>2, <1>3, VaultKeeps DEF Meant

\* intern adds to a table and changes no entry.
LEMMA LeafKeeps ==
  ASSUME AnoInv, NEW h \in handlers, HandleLeaf(h), NEW q \in AnoReqs, Live(q)
  PROVE  Meant(q)
<1> DEFINE r == h.req
           val == Leaves(r, h.op)[Len(h.out) + 1].val
           table == exchange[r][h.ex].table
<1>1. /\ h.at = "leaf" /\ vault' = vault
      /\ \/ exchange' = exchange
         \/ exchange' = [exchange EXCEPT ![r][h.ex].table = intern(table, val)]
  BY DEF HandleLeaf
<1>2. r \in AnoReqs /\ AnoTypeOK /\ Begun(h) /\ h.op \in MaskOps /\ h.out \in Seq(Pieces)
      /\ vault[q] \in MaskOps
  BY <1>1, Masking DEF AnoInv, AnoTypeOK, HandlerSet, Live
<1>3. CASE exchange' = exchange
  BY <1>1, <1>3, VaultKeeps DEF Meant
<1>4. CASE exchange' = [exchange EXCEPT ![r][h.ex].table = intern(table, val)]
  <2>1. h.ex \in MaskOps
    BY <1>1, <1>2 DEF Begun
  <2>2. CASE r # q \/ h.ex # vault[q]
    <3>1. exchange'[q][vault[q]] = exchange[q][vault[q]]
      BY <1>2, <1>4, <2>1, <2>2 DEF AnoTypeOK
    <3> QED BY <1>1, <3>1, VaultKeeps DEF Meant
  <2>3. CASE r = q /\ h.ex = vault[q]
    <3>1. table \in Seq(Texts) /\ exchange[r][h.ex] \in Exchanges
      BY <1>2, <2>1, SMTT(30) DEF AnoTypeOK, Exchanges
    <3>2. val \in STRING
      <4>1. Leaves(r, h.op) \in Seq(Leaf) /\ Len(h.out) < Len(Leaves(r, h.op))
        BY <1>2, AnoAssumption DEF Leaves, Begun
      <4>2. Leaves(r, h.op)[Len(h.out) + 1] \in Leaf
        BY <1>2, <4>1, SMTT(30)
      <4> QED BY <4>2 DEF Leaf
    <3> DEFINE new == intern(table, val)
    <3>3. Len(table) <= Len(new) /\ \A n \in DOMAIN table : new[n] = table[n]
      <4> HIDE DEF table, val
      <4> QED BY <3>1, <3>2, InternFacts, SMTT(30)
    <3>4. exchange'[r][h.ex] = [exchange[r][h.ex] EXCEPT !.table = new]
      BY <1>2, <1>4, <2>1 DEF AnoTypeOK
    <3> HIDE DEF new
    <3>5. exchange'[r][h.ex].table = new /\ exchange'[r][h.ex].until = exchange[r][h.ex].until
      BY <3>1, <3>4 DEF Exchanges
    <3> QED BY <1>1, <2>3, <3>3, <3>5 DEF Meant, KeepsMeaning
  <2> QED BY <2>2, <2>3
<1> QED BY <1>1, <1>3, <1>4

\* close ends its own exchange alone.
LEMMA CloseKeeps ==
  ASSUME AnoInv, NEW h \in handlers, HandleClose(h), NEW q \in AnoReqs, Live(q)
  PROVE  Meant(q)
<1>1. /\ h.op = "close" /\ vault' = [vault EXCEPT ![h.req] = None]
      /\ exchange' = Wiping(vault') /\ handlers' = handlers \ {h}
  BY DEF HandleClose
<1>2. AnoTypeOK /\ vault[q] \in MaskOps /\ Begun(h)
  BY DEF AnoInv, AnoTypeOK, Live
<1>3. CASE q = h.req
  BY <1>1, <1>2, <1>3 DEF Begun, Meant, MaskOps
<1>4. CASE q # h.req
  <2>1. vault'[q] = vault[q]
    BY <1>1, <1>2, <1>4 DEF AnoTypeOK
  <2>2. \A r \in AnoReqs, op \in MaskOps : OwnTable(r, exchange[r][op].table)
    BY DEF AnoInv, PerRequest
  <2>3. \A v : v[q] = vault[q] => Wiping(v)[q][vault[q]] = exchange[q][vault[q]]
    BY <1>2, <2>2, WipingEffect, SMTT(30)
  <2> QED BY <1>1, <2>1, <2>3, VaultKeeps DEF Meant
<1> QED BY <1>3, <1>4

\* While an exchange lives its tokens keep their values: only its own close and a
\* restart of anod end it before its time, never a full vault (open, purgeLocked).
THEOREM MasksKeepMeaning == AnoSpec => TokensKeepMeaning
<1>1. ASSUME AnoInv, AnoNext, NEW q \in AnoReqs, Live(q) PROVE Meant(q)
  <2>1. ASSUME UNCHANGED <<exchange, vault>> PROVE Meant(q)
    BY <1>1, <2>1, VaultKeeps DEF Meant
  <2>2. ASSUME NEW h \in handlers, ServerStep(h) PROVE Meant(q)
    <3>1. CASE HandleExpired(h)
      BY <2>1, <3>1 DEF HandleExpired
    <3>2. CASE HandleGet(h) \/ HandleUnmask(h)
      BY <1>1, <3>2, PurgeKeeps DEF HandleGet, HandleUnmask
    <3> QED BY <1>1, <2>2, <3>1, <3>2, OpenKeeps, LeafKeeps, CloseKeeps DEF ServerStep
  <2>3. ASSUME NEW r \in AnoReqs, ProxyStep(r) PROVE Meant(q)
    <3>1. UNCHANGED <<exchange, vault>>
      BY <2>3 DEF ProxyStep, ServeHTTP, CallFails, Refuse, Transmit, MaskUnaudited, BackendAnswers,
                  BackendEmpty, BackendFails, Render, UnmaskUnaudited, Done, server
    <3> QED BY <2>1, <3>1
  <2>4. CASE AnoTick \/ PepCrash \/ ClassifierReturns
    BY <2>1, <2>4 DEF AnoTick, PepCrash, ClassifierReturns, server
  <2>5. CASE AnoCrash
    <3>1. anoCrashes' > anoCrashes
      BY <1>1, <2>5, SMTT(30) DEF AnoCrash, AnoInv, AnoTypeOK
    <3> QED BY <3>1 DEF Meant
  <2> QED BY <1>1, <2>2, <2>3, <2>4, <2>5 DEF AnoNext
<1>2. AnoInv /\ [AnoNext]_anoVars =>
        [\A r \in AnoReqs : Live(r) =>
            \/ KeepsMeaning(r)
            \/ Call(r, "close") \in handlers \ handlers'
            \/ anoCrashes' > anoCrashes]_anoVars
  BY <1>1 DEF Meant
<1> QED BY <1>2, AnoInvariant, PTL DEF AnoSpec, TokensKeepMeaning
=============================================================================
