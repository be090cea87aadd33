----------------------------- MODULE Passports ------------------------------
(***************************************************************************)
(* The quota passports of the PEP: the decision chain of pep/listener.go   *)
(* that opens them, the bounded ledger and the counters of pep/quota.go,   *)
(* the posture of pep/mode.go and the exporter of telemetry/exporter.go    *)
(* that turns the counters into records.                                   *)
(*                                                                         *)
(* A passport is the jti of a token with a quota vector.  The validator    *)
(* lets a token pass once (module Validator), so that one evaluation of    *)
(* each token can open its counter.  Handlers of /v1/consume keep the      *)
(* pointer they looked up, so that a counter outlives its entry of the     *)
(* ledger.  Leaves and alarms are left out; the gate that the alarm of a   *)
(* saturated ledger closes is part of the validator, whose verdict is a    *)
(* choice here.                                                            *)
(***************************************************************************)
EXTENDS Integers, FiniteSets, FiniteSetsExt

CONSTANTS
  Passports,      \* jtis, numbered in the order of bytes.Compare
  Exp,            \* [Passports -> Nat]: end of the token
  DryRun,         \* passports of a class other than Out: they have a dry run
  VolumeMax, WindowS,
  Consumers,      \* handlers of /v1/consume
  Quanta,         \* volumes they take
  MaxPassports,   \* capacity of the ledger, and of evicted
  MaxClock,       \* bound of the clock
  NoCounter

\* PassportCounter
Counters ==
  [from : Nat, opened : Nat, remaining : Nat, consumed : Nat, closed : BOOLEAN]

ASSUME PassportsAssumption ==
  /\ Passports \subseteq Nat /\ Exp \in [Passports -> Nat] /\ DryRun \subseteq Passports
  /\ VolumeMax \in Nat /\ WindowS \in Nat \ {0} /\ Quanta \subseteq Nat
  /\ MaxPassports \in Nat \ {0} /\ MaxClock \in Nat
  /\ NoCounter \notin Counters

VARIABLES
  clock,
  mode,        \* "monitor", "closed" or "refused"
  req,         \* [Passports -> [pc, now, allow]]: the evaluation of the token
  forwarded,   \* tokens whose action was let through
  live,        \* keys of QuotaLedger.counters
  counter,     \* [Passports -> PassportCounter or NoCounter], entry purged or not
  evicted,     \* QuotaLedger.evicted: final totals by passport
  con,         \* [Consumers -> [pc, p, now]]
  export,      \* ExportOnce: [pc, now, totals], at most once per unit of time
  last,        \* Exporter.last, 0 for a jti it does not hold
  recorded,    \* [Passports -> Nat]: volume in the records made so far
  late,        \* [Passports -> Nat]: volume accepted after the purge of the counter
  missed       \* passports purged while evicted was full

requests == <<req, forwarded>>
ledgerVars == <<live, counter, evicted, late, missed>>
exporter == <<export, last, recorded>>
passVars == <<clock, mode, requests, ledgerVars, con, exporter>>

Opened == {p \in Passports : counter[p] # NoCounter}

NotConsuming == [pc |-> "idle", p |-> 0, now |-> 0]

\* The mutex of the ledger: Snapshot holds it while it reads the counters.
LedgerFree == export.pc # "flags"

-----------------------------------------------------------------------------
(* The ledger and its counters. *)

\* purgeLocked: a counter past its date leaves the ledger at once; its total
\* waits in evicted for the next Snapshot, if there is room.
Expired(now) == {p \in live : now > Exp[p]}

Purge_NoLastLook(now) == UNCHANGED <<evicted, missed>>
Purge(now) ==
  LET room == MaxPassports - Cardinality(DOMAIN evicted)
      n == Cardinality(Expired(now))
  IN \E kept \in kSubset(IF n <= room THEN n ELSE room, Expired(now)) :
       /\ evicted' = [p \in DOMAIN evicted \cup kept |->
                        IF p \in kept THEN counter[p].consumed ELSE evicted[p]]
       /\ missed' = missed \cup (Expired(now) \ kept)

\* QuotaLedger.Open refuses a jti that is counted already and a full ledger.
Admits(p, now) ==
  LET left == live \ Expired(now) IN p \notin left /\ Cardinality(left) # MaxPassports

NewCounter(now) ==
  [from |-> now, opened |-> now, remaining |-> VolumeMax, consumed |-> 0, closed |-> FALSE]

Open(p, now) ==
  /\ Purge(now)
  /\ live' = (live \ Expired(now)) \cup (IF Admits(p, now) THEN {p} ELSE {})
  /\ counter' = IF Admits(p, now) THEN [counter EXCEPT ![p] = NewCounter(now)] ELSE counter
  /\ UNCHANGED late

\* A window that is over gives the volume back.  The reading of the clock may be
\* older than the window: elapsed is then negative, and nothing is given back.
WindowOver_Unsigned(c, now) == now - c.from < 0 \/ now - c.from >= WindowS
WindowOver(c, now) == now - c.from >= WindowS

\* PassportCounter.Consume after its reading of the clock: the counter that the
\* quantum n leaves behind.
Recharged(c, now) ==
  IF WindowOver(c, now) THEN [c EXCEPT !.from = now, !.remaining = VolumeMax] ELSE c

Taken(c, n) == [c EXCEPT !.remaining = @ - n, !.consumed = @ + n]

AfterConsume(p, n, now) ==
  LET c == counter[p]
      r == Recharged(c, now)
  IN CASE c.closed -> c
       [] ~c.closed /\ now > Exp[p] -> [c EXCEPT !.closed = TRUE]
       [] ~c.closed /\ now <= Exp[p] /\ n > r.remaining -> [r EXCEPT !.closed = TRUE]
       [] OTHER -> Taken(r, n)

-----------------------------------------------------------------------------
(* Listener.evaluate. *)

ReqStep(p, from, to, allow) ==
  /\ req[p].pc = from
  /\ req' = [req EXCEPT ![p] = [pc |-> to, allow |-> allow,
                                    now |-> IF to = "open" THEN clock ELSE 0]]

\* Validate, whose allow is for a token that is still fresh.  A denied request skips
\* what follows up to the posture.
Validate(p) ==
  /\ \/ clock <= Exp[p] /\ ReqStep(p, "new", "dryrun", TRUE)
     \/ ReqStep(p, "new", "policy", FALSE)
  /\ UNCHANGED <<clock, mode, forwarded, ledgerVars, con, exporter>>

\* The dry run of a class other than Out, whose failure is a deny; then Open reads
\* the clock.
Execute(p) ==
  /\ \/ ReqStep(p, "dryrun", "open", TRUE)
     \/ p \in DryRun /\ ReqStep(p, "dryrun", "policy", FALSE)
  /\ UNCHANGED <<clock, mode, forwarded, ledgerVars, con, exporter>>

\* The passport of the request, or a deny.
OpenPassport_ErrorIgnored(p) ==
  /\ LedgerFree
  /\ ReqStep(p, "open", "policy", TRUE)
  /\ Open(p, req[p].now)
  /\ UNCHANGED <<clock, mode, forwarded, con, exporter>>
OpenPassport(p) ==
  /\ LedgerFree
  /\ ReqStep(p, "open", "policy", Admits(p, req[p].now))
  /\ Open(p, req[p].now)
  /\ UNCHANGED <<clock, mode, forwarded, con, exporter>>

\* ModeController.Allows
Allows(allow) == mode = "monitor" \/ (mode = "closed" /\ allow)

\* OPA has the last word on an allowed request; the posture, read after it, decides
\* what is let through.
Forward(p) ==
  /\ \E allow \in {FALSE, req[p].allow} :
       /\ ReqStep(p, "policy", "done", allow)
       /\ forwarded' = IF Allows(allow) THEN forwarded \cup {p} ELSE forwarded
  /\ UNCHANGED <<clock, mode, ledgerVars, con, exporter>>

Evaluate(p) == Validate(p) \/ Execute(p) \/ OpenPassport(p) \/ Forward(p)

\* SetMode with an accepted proof of quorum; "refused" is only a start posture.
SetMode(m) ==
  /\ mode # m
  /\ mode' = m
  /\ UNCHANGED <<clock, requests, ledgerVars, con, exporter>>

-----------------------------------------------------------------------------
(* handleConsume. *)

\* The counter is looked up, then Consume reads the clock: a purge between the two
\* needs a clock past the end of the token, and the reading is then past it too.
Lookup(c, p) ==
  /\ con[c].pc = "idle" /\ LedgerFree /\ p \in live
  /\ con' = [con EXCEPT ![c] = [pc |-> "consume", p |-> p, now |-> clock]]
  /\ UNCHANGED <<clock, mode, requests, ledgerVars, exporter>>

Consume(c, n) ==
  LET p == con[c].p IN
  /\ con[c].pc = "consume"
  /\ counter' = [counter EXCEPT ![p] = AfterConsume(p, n, con[c].now)]
  /\ late' = IF p \in live THEN late
             ELSE [late EXCEPT ![p] = @ + counter'[p].consumed - counter[p].consumed]
  /\ con' = [con EXCEPT ![c] = NotConsuming]
  /\ UNCHANGED <<clock, mode, requests, live, evicted, missed, exporter>>

-----------------------------------------------------------------------------
(* Exporter.ExportOnce over QuotaLedger.Snapshot. *)

\* The ticker fires; Snapshot reads the clock.
ExportBegin ==
  /\ export.pc = "idle" /\ export.now < clock
  /\ export' = [export EXCEPT !.pc = "totals", !.now = clock]
  /\ UNCHANGED <<clock, mode, requests, ledgerVars, con, last, recorded>>

\* Under the mutex: the purge, and the total of every counter left.  Each total is
\* read under the mutex of its counter, as is its closed flag after it.
ReadTotals ==
  /\ export.pc = "totals"
  /\ Purge(export.now)
  /\ live' = live \ Expired(export.now)
  /\ export' = [export EXCEPT !.pc = "flags",
                              !.totals = [p \in live' |-> counter[p].consumed]]
  /\ UNCHANGED <<clock, mode, requests, counter, late, con, last, recorded>>

\* The closed flags, the purged counters, and the records: what each session has
\* consumed since it was last seen.  A closed session and one that the snapshot no
\* longer holds are forgotten.  Records beyond maxRecordsPerMsg, and those that the
\* collector or the sink refuses, are counted and not tried again.
Sessions == DOMAIN export.totals \cup DOMAIN evicted
Total(p) == IF p \in DOMAIN evicted THEN evicted[p] ELSE export.totals[p]
Closed(p) == p \in DOMAIN evicted \/ counter[p].closed

Export ==
  /\ export.pc = "flags"
  /\ recorded' = [p \in Passports |-> IF p \in Sessions THEN recorded[p] + Total(p) - last[p]
                                      ELSE recorded[p]]
  /\ last' = [p \in Passports |-> IF p \in Sessions /\ ~Closed(p) THEN Total(p) ELSE 0]
  /\ evicted' = <<>>
  /\ export' = [export EXCEPT !.pc = "idle", !.totals = <<>>]
  /\ UNCHANGED <<clock, mode, requests, live, counter, late, missed, con>>

Tick == clock < MaxClock /\ clock' = clock + 1
        /\ UNCHANGED <<mode, requests, ledgerVars, con, exporter>>

-----------------------------------------------------------------------------
PassInit ==
  /\ clock = 1 /\ mode \in {"monitor", "refused"}
  /\ req = [p \in Passports |-> [pc |-> "new", now |-> 0, allow |-> FALSE]]
  /\ forwarded = {} /\ live = {} /\ evicted = <<>> /\ missed = {}
  /\ counter = [p \in Passports |-> NoCounter]
  /\ con = [c \in Consumers |-> NotConsuming]
  /\ export = [pc |-> "idle", now |-> 0, totals |-> <<>>]
  /\ last = [p \in Passports |-> 0] /\ late = [p \in Passports |-> 0]
  /\ recorded = [p \in Passports |-> 0]

PassNext ==
  \/ \E p \in Passports : Evaluate(p)
  \/ \E m \in {"monitor", "closed"} : SetMode(m)
  \/ \E c \in Consumers, p \in Passports : Lookup(c, p)
  \/ \E c \in Consumers, n \in Quanta : Consume(c, n)
  \/ ExportBegin \/ ReadTotals \/ Export
  \/ Tick

PassSpec == PassInit /\ [][PassNext]_passVars

-----------------------------------------------------------------------------
(* Properties. *)

\* "quota = debit par fenetre": whatever handlers overlap, and however old their
\* readings of the clock, a passport is let through at most one volume per window
\* since it was opened.
QuotaPerWindow ==
  \A p \in Opened :
    counter[p].consumed <= VolumeMax * (1 + (clock - counter[p].opened) \div WindowS)

\* "Chaque porte ouverte nait avec son compteur": in posture closed an action is let
\* through only on an allow whose passport is open, in posture refused never; only
\* monitor lets anything else through.
OpenDoorsAreMetered ==
  [][\A p \in forwarded' \ forwarded :
       mode = "monitor" \/ (mode = "closed" /\ req'[p].allow /\ p \in Opened)]_passVars

\* "Dernier regard garanti sur les compteurs purges": when a passport has left the
\* ledger and its last total has been collected, its records hold all that was
\* consumed, and hold it once if it was never cut.  Excepted are the totals for which
\* evicted had no room and what a handler took with a reading older than the purge.
RecordsComplete ==
  \A p \in Opened \ (live \cup missed \cup DOMAIN evicted) :
    LET taken == counter[p].consumed - late[p] IN
    /\ recorded[p] >= taken
    /\ ~counter[p].closed => recorded[p] = taken

\* "dernier record possible", "derniere mesure de la session": the records of a
\* passport never hold more than it consumed.  They do for a counter that is cut: it
\* stays in the ledger until its date, and each export then reports its whole total.
RecordedOnce == \A p \in Opened : recorded[p] <= counter[p].consumed
=============================================================================
