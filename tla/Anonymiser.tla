----------------------------- MODULE Anonymiser -----------------------------
(***************************************************************************)
(* The blocking proxy of pepd in front of a destination outside the cell,  *)
(* and anod, the process that masks what leaves and restores what comes    *)
(* back.  The table from tokens to values is a vault in anod's memory: one *)
(* exchange per broker token (its jti), bounded, never persisted, opened   *)
(* by the masking calls, erased by close, by expiry or by a restart.       *)
(*                                                                         *)
(* The proxy makes one call after the other (mask the body, mask the query *)
(* string, unmask the response, close) and gives up on a call at any time: *)
(* the handler may still run in anod after that.  A masking handler takes  *)
(* its leaves one by one; between two steps it holds no lock, only a       *)
(* reference to its exchange, which may be wiped meanwhile.                *)
(*                                                                         *)
(* A leaf of a payload is a record [path, val]; what is written for it is  *)
(* [val, tok], tok the number of its token TBP_VAR_n, or NoMask in clear.  *)
(* Texts, JSON and HTTP are left out: a value either carries a pattern of  *)
(* the rules or not.                                                       *)
(***************************************************************************)
EXTENDS Integers, FiniteSets, FiniteSetsExt, Sequences

CONSTANTS AnoReqs,         \* requests through the proxy, one broker token each
          Body, Query,     \* the leaves of each: functions from AnoReqs to sequences
          KeepPaths, MaskPaths, \* the rules' paths; "*" stands for any segment
          Patterned,       \* values in which a pattern of the rules is found
          Reserved,        \* a value that already reads TBP_VAR_n
          TokenIat, TokenExp, \* issue and expiry of each request's token
          Grace,           \* ResponseGrace: life of an exchange after that
          AnoTTL,          \* MaxTTL: longest life of an exchange
          MaxExchanges, MaxEntries, MaxClassifierCalls, MaxCalls,
          MaxMasks,        \* bound: the highest token of an answer
          MaxAnoClock, MaxAnoCrashes, MaxPepCrashes

None == "none"
NoReply == "none"
Plain == "plain"   \* a response without any token
Wiped == "wiped"
Empty == ""
NoMask == 0

Leaf == [path : Seq(STRING), val : STRING \ {NoReply, Plain, Wiped}]

(***************************************************************************)
(* New, NewServer: bounds are positive.  A token lives 60 s at most        *)
(* (validator.go:453), an exchange up to 24 h: anod sets no other MaxTTL.  *)
(***************************************************************************)
ASSUME AnoAssumption ==
    /\ \A r \in AnoReqs : /\ TokenIat[r] \in Nat /\ TokenExp[r] \in Nat
                          /\ TokenExp[r] - TokenIat[r] <= AnoTTL
                          /\ {Body[r], Query[r]} \subseteq Seq(Leaf)
    /\ {Grace, MaxAnoClock, MaxAnoCrashes, MaxPepCrashes, MaxClassifierCalls, MaxMasks}
          \subseteq Nat
    /\ {AnoTTL, MaxExchanges, MaxEntries, MaxCalls} \subseteq Nat \ {0}

VARIABLES anoClock,
          exchange,        \* [until, table] of each exchange, known by the request
                           \* and the call that opened it; e.n is Len(table)
          vault,           \* vault.ex: the call whose exchange is in it, or None
          classifying,     \* classifier calls that have not come back
          handlers,        \* calls inside anod: [req, op, at, ex, out]
          stage,           \* where the proxy is with each request
          rewritten,       \* what the masking of each body and query string gave
          reply,           \* the token the backend put in its response, or NoMask
          rendered,        \* what the caller received: a value, Plain or NoReply
          audited,         \* operations of each request with an audit leaf
          anoCrashes, pepCrashes

server == <<exchange, vault, classifying, handlers>>
proxy == <<stage, rewritten, reply, rendered, audited>>
anoVars == <<anoClock, server, proxy, anoCrashes, pepCrashes>>

MaskOps == {"body", "query"}
Leaves(r, op) == IF op = "body" THEN Body[r] ELSE Query[r]
Least(a, b) == IF a <= b THEN a ELSE b

(***************************************************************************)
(* The vault.  wipe empties an exchange and keeps its count: what a        *)
(* handler that still holds it interns is numbered on.  Every entry into   *)
(* the vault first wipes what has expired (purgeLocked).                   *)
(***************************************************************************)
wipe(x) == [x EXCEPT !.table = [n \in DOMAIN @ |-> Wiped]]

Live(r) == vault[r] # None /\ exchange[r][vault[r]].until > anoClock
purgeLocked == [r \in AnoReqs |-> IF Live(r) THEN vault[r] ELSE None]

\* The exchanges when the vault becomes v: those that leave it are wiped.
Wiping(v) ==
    [r \in AnoReqs |-> [op \in MaskOps |->
        IF vault[r] = op /\ v[r] # op THEN wipe(exchange[r][op]) ELSE exchange[r][op]]]

Opened(v) == {r \in AnoReqs : v[r] # None}

\* intern: a value has one token in an exchange, and a full exchange refuses.
Knows(table, val) == \E n \in DOMAIN table : table[n] = val
Full(table, val) ==
    /\ ~Knows(table, val)
    /\ Cardinality({n \in DOMAIN table : table[n] # Wiped}) >= MaxEntries
intern(table, val) == IF Knows(table, val) THEN table ELSE Append(table, val)
TokenOf(table, val) == CHOOSE n \in DOMAIN table : table[n] = val

(***************************************************************************)
(* Rules.decide: the longest matching prefix wins, masking wins a tie.     *)
(***************************************************************************)
matches(rule, path) ==
    /\ Len(rule) <= Len(path)
    /\ \A i \in DOMAIN rule : rule[i] \in {"*", path[i]}

matchLen(rules, path) == Max({-1} \cup {Len(p) : p \in {q \in rules : matches(q, path)}})

decide(path) ==
    LET keep == matchLen(KeepPaths, path)
        mask == matchLen(MaskPaths, path)
    IN  IF mask >= 0 /\ mask >= keep THEN "mask"
        ELSE IF keep >= 0 THEN "keep" ELSE "none"

(***************************************************************************)
(* classify: the leaves no rule decides are asked of the classifier unless *)
(* they are empty, the first MaxClassifierCalls of a body (the fields of a *)
(* query string are counted one by one).  A call that times out masks the leaf and keeps    *)
(* its place in inflight until the classifier comes back; a call that      *)
(* finds no place, or gets an error, masks.                                *)
(***************************************************************************)
Asked(leaves, op) ==
    LET ambiguous == {i \in DOMAIN leaves :
                        decide(leaves[i].path) = "none" /\ leaves[i].val # Empty}
        Before(i) == IF op = "body" THEN {j \in ambiguous : j < i} ELSE {}
    IN  {i \in ambiguous : Cardinality(Before(i)) < MaxClassifierCalls}

\* The verdicts leaf i can get.
Verdicts(leaves, op, i) ==
    IF decide(leaves[i].path) # "none" THEN {decide(leaves[i].path)}
    ELSE IF leaves[i].val = Empty THEN {"keep"}
    ELSE IF i \in Asked(leaves, op) /\ classifying < MaxCalls THEN {"keep", "mask", "late"}
    ELSE {"mask"}

\* "keep" spares the patterns too.
SparedWhole(val, verdict) == verdict = "keep"

\* emitKept: "keep" spares the classifier, never the patterns.
Spared(val, verdict) == verdict = "keep" /\ val \notin Patterned

-----------------------------------------------------------------------------
(***************************************************************************)
(* The server's handlers.  The answer to a call counts only while the      *)
(* proxy waits for it.                                                     *)
(***************************************************************************)
Waits(r, op) == stage[r] = op
Call(r, op) == [req |-> r, op |-> op, at |-> "arrived", ex |-> None, out |-> <<>>]
Asks(r, op) == IF op \in MaskOps THEN {Call(r, op)} ELSE {}

\* RewriteRequest: the body first, then the query string, if there is one.
AfterBody(r) == IF Query[r] = <<>> THEN "masked" ELSE "query"

Goes(h, at, ex, out) ==
    /\ handlers' = (handlers \ {h}) \cup
           {[req |-> h.req, op |-> h.op, at |-> at, ex |-> ex, out |-> out]}
    /\ UNCHANGED <<stage, rewritten>>

Refused(h) ==
    /\ handlers' = handlers \ {h}
    /\ stage' = IF Waits(h.req, h.op) THEN [stage EXCEPT ![h.req] = "refused"] ELSE stage
    /\ UNCHANGED rewritten

Answered(h, out) ==
    LET next == IF h.op = "body" THEN AfterBody(h.req) ELSE "masked"
    IN  IF Waits(h.req, h.op)
        THEN /\ handlers' = (handlers \ {h}) \cup Asks(h.req, next)
             /\ stage' = [stage EXCEPT ![h.req] = next]
             /\ rewritten' = [rewritten EXCEPT ![h.req][h.op] = out]
        ELSE /\ handlers' = handlers \ {h}
             /\ UNCHANGED <<stage, rewritten>>

\* A vault that makes room by closing another exchange.
openEvicts(v, r, op) ==
    LET room == IF Cardinality(Opened(v)) < MaxExchanges THEN v
                ELSE [v EXCEPT ![CHOOSE x \in Opened(v) : x # r] = None]
    IN  IF v[r] # None THEN v ELSE [room EXCEPT ![r] = op]

\* open: an exchange that lives is found again with its expiry; a new one is
\* refused when the vault is full, and its life is capped.
open(v, r, op) ==
    IF v[r] = None /\ TokenExp[r] + Grace > anoClock /\ Cardinality(Opened(v)) < MaxExchanges
      THEN [v EXCEPT ![r] = op] ELSE v

newExchange(r) ==
    [until |-> Least(TokenExp[r] + Grace, anoClock + AnoTTL), table |-> <<>>]

\* auth and open of /v1/mask and /v1/mask-query: the token must be fresh.
HandleOpen(h) ==
    LET r == h.req
    IN  /\ h.op \in MaskOps /\ h.at = "arrived"
        /\ anoClock < TokenExp[r]
        /\ vault' = open(purgeLocked, r, h.op)
        /\ exchange' = IF purgeLocked[r] = None /\ vault'[r] # None
                       THEN [Wiping(vault') EXCEPT ![r][h.op] = newExchange(r)]
                       ELSE Wiping(vault')
        /\ IF vault'[r] # None THEN Goes(h, "open", None, <<>>) ELSE Refused(h)
        /\ UNCHANGED <<anoClock, classifying, reply, rendered, audited, anoCrashes, pepCrashes>>

HandleExpired(h) ==
    /\ h.op \in MaskOps /\ h.at = "arrived"
    /\ anoClock >= TokenExp[h.req]
    /\ Refused(h)
    /\ UNCHANGED <<anoClock, exchange, vault, classifying, reply, rendered, audited,
                   anoCrashes, pepCrashes>>

\* get of MaskJSON, once, and of MaskField, for each field: the exchange may
\* be gone again.
HandleGet(h) ==
    /\ h.at = "open"
    /\ vault' = purgeLocked
    /\ exchange' = Wiping(vault')
    /\ IF vault'[h.req] # None THEN Goes(h, "leaf", vault'[h.req], h.out) ELSE Refused(h)
    /\ UNCHANGED <<anoClock, classifying, reply, rendered, audited, anoCrashes, pepCrashes>>

\* The output of one leaf, and the answer after the last one.
Written(h, val, tok) ==
    LET out == Append(h.out, [val |-> val, tok |-> tok])
    IN  IF Len(out) = Len(Leaves(h.req, h.op)) THEN Answered(h, out)
        ELSE IF h.op = "body" THEN Goes(h, "leaf", h.ex, out)
        ELSE Goes(h, "open", None, out)

\* maskLeaf: a value that reads like a token stops the payload, and so does a
\* full exchange; what was interned before stays.
HandleLeaf(h) ==
    LET leaves == Leaves(h.req, h.op)
        i == Len(h.out) + 1
        val == leaves[i].val
        table == exchange[h.req][h.ex].table
    IN  /\ h.at = "leaf"
        /\ \/ /\ val = Reserved
              /\ Refused(h)
              /\ UNCHANGED <<exchange, classifying>>
           \/ /\ val # Reserved
              /\ \E verdict \in Verdicts(leaves, h.op, i) :
                   /\ classifying' = classifying + IF verdict = "late" THEN 1 ELSE 0
                   /\ \/ /\ Spared(val, verdict)
                         /\ Written(h, val, NoMask)
                         /\ UNCHANGED exchange
                      \/ /\ ~Spared(val, verdict) /\ Full(table, val)
                         /\ Refused(h)
                         /\ UNCHANGED exchange
                      \/ /\ ~Spared(val, verdict) /\ ~Full(table, val)
                         /\ exchange' = [exchange EXCEPT
                                ![h.req][h.ex].table = intern(table, val)]
                         /\ Written(h, val, TokenOf(intern(table, val), val))
        /\ UNCHANGED <<anoClock, vault, reply, rendered, audited, anoCrashes, pepCrashes>>

\* A search of the whole vault for a token of that name.
ResolveAnywhere(v, r, n) ==
    IF n = NoMask THEN Plain
    ELSE IF \E x \in Opened(v) : n \in DOMAIN exchange[x][v[x]].table
         THEN LET x == CHOOSE y \in Opened(v) : n \in DOMAIN exchange[y][v[y]].table
              IN  exchange[x][v[x]].table[n]
    ELSE NoReply

\* Unmask: a token the exchange does not know is refused.
Resolve(v, r, n) ==
    IF v[r] = None THEN NoReply
    ELSE IF n = NoMask THEN Plain
    ELSE LET table == exchange[r][v[r]].table
         IN  IF n \in DOMAIN table /\ table[n] # Wiped THEN table[n] ELSE NoReply

HandleUnmask(h) ==
    LET r == h.req
        val == Resolve(purgeLocked, r, reply[r])
    IN  /\ h.op = "unmask"
        /\ handlers' = handlers \ {h}
        /\ vault' = purgeLocked
        /\ exchange' = Wiping(vault')
        /\ IF Waits(r, "unmask")
           THEN \/ /\ val # NoReply
                   /\ stage' = [stage EXCEPT ![r] = "restored"]
                   /\ rendered' = [rendered EXCEPT ![r] = val]
                \/ val = NoReply /\ stage' = [stage EXCEPT ![r] = "refused"] /\ UNCHANGED rendered
           ELSE UNCHANGED <<stage, rendered>>
        /\ UNCHANGED <<anoClock, classifying, rewritten, reply, audited, anoCrashes, pepCrashes>>

HandleClose(h) ==
    /\ h.op = "close"
    /\ handlers' = handlers \ {h}
    /\ vault' = [vault EXCEPT ![h.req] = None]
    /\ exchange' = Wiping(vault')
    /\ stage' = IF Waits(h.req, "close") THEN [stage EXCEPT ![h.req] = "over"] ELSE stage
    /\ UNCHANGED <<anoClock, classifying, rewritten, reply, rendered, audited,
                   anoCrashes, pepCrashes>>

ClassifierReturns ==
    /\ classifying > 0
    /\ classifying' = classifying - 1
    /\ UNCHANGED <<anoClock, exchange, vault, handlers, proxy, anoCrashes, pepCrashes>>

-----------------------------------------------------------------------------
(***************************************************************************)
(* ServeHTTP.  The decision itself (Listener.evaluate) is modelled by      *)
(* Validator and Passports: here a request starts when it was let through, *)
(* not before its token's iat.                                             *)
(***************************************************************************)
ServeHTTP(r) ==
    /\ stage[r] = "new"
    /\ anoClock >= TokenIat[r]
    /\ LET first == IF Body[r] = <<>> THEN AfterBody(r) ELSE "body"
       IN  /\ stage' = [stage EXCEPT ![r] = first]
           /\ handlers' = handlers \cup Asks(r, first)
    /\ UNCHANGED <<anoClock, exchange, vault, classifying, rewritten, reply, rendered, audited,
                   anoCrashes, pepCrashes>>

\* A call that fails for the client alone: timeout, anod out of reach, an
\* encoded or oversized payload, an upgrade.
CallFails(r) ==
    /\ stage[r] \in {"body", "query", "unmask", "close"}
    /\ stage' = [stage EXCEPT ![r] = IF @ = "close" THEN "over" ELSE "refused"]
    /\ UNCHANGED <<anoClock, server, rewritten, reply, rendered, audited, anoCrashes, pepCrashes>>

\* Done: the exchange is closed, best effort, whatever the outcome.
Done(r) ==
    /\ stage' = [stage EXCEPT ![r] = "close"]
    /\ handlers' = handlers \cup {Call(r, "close")}
    /\ UNCHANGED <<anoClock, exchange, vault, classifying, rewritten, reply,
                   anoCrashes, pepCrashes>>

\* A rewriting that failed is audited too; the outcome of that leaf is ignored.
Refuse(r) == stage[r] = "refused" /\ Done(r) /\ UNCHANGED <<rendered, audited>>

\* audited, then the transmission: no leaf, nothing leaves.
Transmit(r) ==
    /\ stage[r] = "masked"
    /\ stage' = [stage EXCEPT ![r] = "sent"]
    /\ audited' = [audited EXCEPT ![r] = @ \cup {"mask"}]
    /\ UNCHANGED <<anoClock, server, rewritten, reply, rendered, anoCrashes, pepCrashes>>

MaskUnaudited(r) == stage[r] = "masked" /\ Done(r) /\ UNCHANGED <<rendered, audited>>

\* The backend answers with any token, known to the exchange or not, or none.
BackendAnswers(r, n) ==
    /\ stage[r] = "sent"
    /\ reply' = [reply EXCEPT ![r] = n]
    /\ stage' = [stage EXCEPT ![r] = "unmask"]
    /\ handlers' = handlers \cup {Call(r, "unmask")}
    /\ UNCHANGED <<anoClock, exchange, vault, classifying, rewritten, rendered, audited,
                   anoCrashes, pepCrashes>>

\* RewriteResponse: a response without a body needs no anod.
BackendEmpty(r) ==
    /\ stage[r] = "sent"
    /\ stage' = [stage EXCEPT ![r] = "restored"]
    /\ rendered' = [rendered EXCEPT ![r] = Plain]
    /\ UNCHANGED <<anoClock, server, rewritten, reply, audited, anoCrashes, pepCrashes>>

BackendFails(r) == stage[r] = "sent" /\ Done(r) /\ UNCHANGED <<rendered, audited>>

\* ModifyResponse: no leaf, the response is not rendered.
Render(r) ==
    /\ stage[r] = "restored"
    /\ audited' = [audited EXCEPT ![r] = @ \cup {"unmask"}]
    /\ Done(r)
    /\ UNCHANGED rendered

UnmaskUnaudited(r) ==
    /\ stage[r] = "restored"
    /\ rendered' = [rendered EXCEPT ![r] = NoReply]
    /\ Done(r)
    /\ UNCHANGED audited

\* anod restarts: the table is lost, and so are the calls inside; a call the
\* client has not sent yet reaches the new process.
AnoCrash ==
    /\ anoCrashes < MaxAnoCrashes
    /\ anoCrashes' = anoCrashes + 1
    /\ vault' = [r \in AnoReqs |-> None]
    /\ exchange' = [r \in AnoReqs |-> [op \in MaskOps |-> [until |-> 0, table |-> <<>>]]]
    /\ classifying' = 0
    /\ handlers' \in SUBSET {h \in handlers : h.at = "arrived"}
    /\ UNCHANGED <<anoClock, proxy, pepCrashes>>

\* pepd restarts: its requests are gone, their exchanges live on in anod.
PepCrash ==
    /\ pepCrashes < MaxPepCrashes
    /\ pepCrashes' = pepCrashes + 1
    /\ stage' = [r \in AnoReqs |-> IF stage[r] \in {"new", "over"} THEN stage[r] ELSE "gone"]
    /\ UNCHANGED <<anoClock, server, rewritten, reply, rendered, audited, anoCrashes>>

AnoTick ==
    /\ anoClock < MaxAnoClock
    /\ anoClock' = anoClock + 1
    /\ UNCHANGED <<server, proxy, anoCrashes, pepCrashes>>

AnoInit ==
    /\ anoClock = 0
    /\ exchange = [r \in AnoReqs |-> [op \in MaskOps |-> [until |-> 0, table |-> <<>>]]]
    /\ vault = [r \in AnoReqs |-> None]
    /\ classifying = 0
    /\ handlers = {}
    /\ stage = [r \in AnoReqs |-> "new"]
    /\ rewritten = [r \in AnoReqs |-> [op \in MaskOps |-> <<>>]]
    /\ reply = [r \in AnoReqs |-> NoMask]
    /\ rendered = [r \in AnoReqs |-> NoReply]
    /\ audited = [r \in AnoReqs |-> {}]
    /\ anoCrashes = 0
    /\ pepCrashes = 0

ServerStep(h) ==
    \/ HandleOpen(h) \/ HandleExpired(h) \/ HandleGet(h) \/ HandleLeaf(h)
    \/ HandleUnmask(h) \/ HandleClose(h)

ProxyStep(r) ==
    \/ ServeHTTP(r) \/ CallFails(r) \/ Refuse(r) \/ Transmit(r) \/ MaskUnaudited(r)
    \/ \E n \in NoMask..MaxMasks : BackendAnswers(r, n)
    \/ BackendEmpty(r) \/ BackendFails(r) \/ Render(r) \/ UnmaskUnaudited(r)

AnoNext ==
    \/ \E h \in handlers : ServerStep(h)
    \/ \E r \in AnoReqs : ProxyStep(r)
    \/ ClassifierReturns
    \/ AnoCrash
    \/ PepCrash
    \/ AnoTick

AnoSpec == AnoInit /\ [][AnoNext]_anoVars

-----------------------------------------------------------------------------
\* What may be written for leaf i.
Fits(piece, leaves, op, i) ==
    /\ piece.val = leaves[i].val
    /\ piece.tok = NoMask =>
         /\ decide(leaves[i].path) # "mask"
         /\ leaves[i].val \notin Patterned \cup {Reserved}
         /\ decide(leaves[i].path) = "none" =>
              leaves[i].val = Empty \/ i \in Asked(leaves, op)

Covers(out, leaves, op) ==
    /\ Len(out) = Len(leaves)
    /\ \A i \in DOMAIN leaves : Fits(out[i], leaves, op, i)

(***************************************************************************)
(* What is sent outside the cell has an audit leaf and is the whole        *)
(* request: every leaf of the body and of the query string in its place,   *)
(* masked if a rule says so or a pattern is found in it, and in clear      *)
(* without a rule only if it is empty or the classifier was asked          *)
(* (ano.go:331-374, 438; proxy.go:306-323).                                *)
(***************************************************************************)
LeavesMasked ==
    \A r \in AnoReqs :
        stage[r] \in {"sent", "unmask", "restored"} =>
            /\ "mask" \in audited[r]
            /\ \A op \in MaskOps : Covers(rewritten[r][op], Leaves(r, op), op)

RightValue(r, out) ==
    \A i \in DOMAIN out :
        out[i].tok # NoMask /\ out[i].tok = reply[r] => out[i].val = rendered[r]

Values(leaves) == {leaves[i].val : i \in DOMAIN leaves}

(***************************************************************************)
(* A caller never receives a value another request had masked: an exchange *)
(* is reached with the token that opened it alone, through late handlers,  *)
(* expiry, saturation and restarts (server.go:18-19; vault.go:183).  And   *)
(* the value is the one the mask stood for in the request ("jamais une     *)
(* reconstitution approximative", vault.go:8-9), even if its exchange was  *)
(* wiped under the masking handler; unless anod restarted: a restart       *)
(* between the two maskings of a request numbers its masks twice.          *)
(***************************************************************************)
OnlyOwnValues ==
    \A r \in AnoReqs : rendered[r] \notin {NoReply, Plain} =>
        /\ \E op \in MaskOps : rendered[r] \in Values(Leaves(r, op))
        /\ anoCrashes = 0 => \A op \in MaskOps : RightValue(r, rewritten[r][op])

(***************************************************************************)
(* While an exchange lives its tokens keep their values, and it ends by    *)
(* its own close, by its expiry or by a restart: a full vault refuses and  *)
(* never evicts (vault.go:12-15, 165-170).                                 *)
(***************************************************************************)
KeepsMeaning(r) ==
    LET old == exchange[r][vault[r]]
        new == exchange'[r][vault[r]]
    IN  /\ vault'[r] = vault[r] /\ new.until = old.until
        /\ Len(old.table) <= Len(new.table)
        /\ \A n \in DOMAIN old.table : new.table[n] = old.table[n]

TokensKeepMeaning ==
    [][\A r \in AnoReqs : Live(r) =>
          \/ KeepsMeaning(r)
          \/ Call(r, "close") \in handlers \ handlers'
          \/ anoCrashes' > anoCrashes]_anoVars
=============================================================================
