---------------------------- MODULE Supervision ----------------------------
(***************************************************************************)
(* supervision.Monitor and its driver supervisord: read-only watchers of   *)
(* the cells' chains and of the master chain, the freshness of anchors,    *)
(* the published manifests, and the bounded reaction to a fallen cell.     *)
(*                                                                         *)
(* CheckOnce holds the monitor's mutex: a pass is sequential.  The world   *)
(* it reads is not: cells write, anchor and die, files become unreadable   *)
(* or diverge, and time passes between two reads of m.now().  Instants are *)
(* kept as ages, capped where no comparison can tell them apart; `leaf`    *)
(* says whether the monitor's own log takes the leaves of a step.          *)
(***************************************************************************)
EXTENDS Naturals, Sequences, Functions

CONSTANTS WatchedCells,      \* sequence: m.cells, in configuration order
          Master,            \* the master chain
          MaxAnchorLag, FallDelay, FailoverWindow, MaxTriggers,
          AnchorPeriod,      \* a live cell anchors at least this often
          MaxMonitorFaults

ASSUME SupervisionAssumption ==
  /\ {MaxAnchorLag, FallDelay, FailoverWindow, MaxTriggers, AnchorPeriod} \subseteq Nat
  /\ FallDelay > MaxAnchorLag      \* NewMonitor refuses anything else
  /\ MaxTriggers > 0 /\ AnchorPeriod <= MaxAnchorLag
  /\ Master \notin Range(WatchedCells)

WCells == Range(WatchedCells)
Chains == WCells \cup {Master}
Oldest == FallDelay + 1
Never  == Oldest + 1
Older(age) == IF age < Oldest THEN age + 1 ELSE age
Elapsed(times) == [i \in DOMAIN times |->
                     IF times[i] < FailoverWindow THEN times[i] + 1 ELSE times[i]]

VARIABLES
  alive,       \* [WCells -> BOOLEAN]
  anchored,    \* [WCells -> age of its newest anchor in the master chain]
  unread,      \* [Chains -> BOOLEAN]: longer than its watcher's verified size
  readable,    \* [Chains -> {"yes", "checkpoint", "tiles", "diverged"}]
  running,     \* the monitor process
  wired,       \* whether MonitorOptions.Trigger is set
  fault,       \* [Chains -> BOOLEAN]: ChainWatcher.fault
  lastAnchor,  \* [WCells -> age or Never]
  grown,       \* [WCells -> BOOLEAN]: Size() differs from fallState.lastSize
  stillFor,    \* [WCells -> age of fallState.lastProgress]
  handled,     \* [WCells -> BOOLEAN]: fallState.episodeHandled
  triggerTimes,\* sequence of ages
  pass,        \* <<0, _>> between passes, <<i, "watch" or "fall">> at cell i
  monitorFaults,
  masterRead,  \* history: age of the last successful read of the master chain
  checked,     \* history: age of the freshness check of the current cell
  warned       \* history, [WCells -> BOOLEAN]: anchor alarm leafed, none fresh since

world == <<alive, anchored, unread, readable>>
monitorMemory == <<fault, lastAnchor, grown, stillFor, handled, triggerTimes>>
traces == <<masterRead, checked, warned>>
supVars == <<world, running, wired, monitorMemory, pass, monitorFaults, traces>>

Idle == <<0, "watch">>
Next1(i) == IF i = Len(WatchedCells) THEN Idle ELSE <<i + 1, "watch">>

(***************************************************************************)
(* The watched cells.  Anchoring is driven by time: an idle cell writes no *)
(* leaf in its own chain and still anchors.                                *)
(***************************************************************************)
CellWrites(c) ==
  /\ alive[c] /\ ~unread[c]
  /\ unread' = [unread EXCEPT ![c] = TRUE]
  /\ UNCHANGED <<alive, anchored, readable, running, wired, monitorMemory, pass, monitorFaults, traces>>

CellAnchors(c) ==
  /\ alive[c] /\ anchored[c] > 0
  /\ anchored' = [anchored EXCEPT ![c] = 0]
  /\ unread' = [unread EXCEPT ![Master] = TRUE]
  /\ UNCHANGED <<alive, readable, running, wired, monitorMemory, pass, monitorFaults, traces>>

CellDies(c) ==
  /\ alive[c]
  /\ alive' = [alive EXCEPT ![c] = FALSE]
  /\ UNCHANGED <<anchored, unread, readable, running, wired, monitorMemory, pass, monitorFaults, traces>>

CellReturns(c) ==
  /\ ~alive[c]
  /\ alive' = [alive EXCEPT ![c] = TRUE]
  /\ anchored' = [anchored EXCEPT ![c] = 0]
  /\ unread' = [unread EXCEPT ![Master] = TRUE]
  /\ UNCHANGED <<readable, running, wired, monitorMemory, pass, monitorFaults, traces>>

ReadingFails(x, how) ==
  /\ readable[x] = "yes" /\ monitorFaults < MaxMonitorFaults
  /\ readable' = [readable EXCEPT ![x] = how]
  /\ monitorFaults' = monitorFaults + 1
  /\ UNCHANGED <<alive, anchored, unread, running, wired, monitorMemory, pass, traces>>

ReadingWorks(x) ==
  /\ readable[x] # "yes"
  /\ readable' = [readable EXCEPT ![x] = "yes"]
  /\ UNCHANGED <<alive, anchored, unread, running, wired, monitorMemory, pass, monitorFaults, traces>>

TimePasses ==
  /\ \A c \in WCells : alive[c] => anchored[c] < AnchorPeriod
  /\ anchored' = [c \in WCells |-> Older(anchored[c])]
  /\ lastAnchor' = [c \in WCells |-> Older(lastAnchor[c])]
  /\ stillFor' = [c \in WCells |-> Older(stillFor[c])]
  /\ triggerTimes' = Elapsed(triggerTimes)
  /\ masterRead' = Older(masterRead)
  /\ checked' = IF pass[2] = "fall" THEN Older(checked) ELSE 0
  /\ UNCHANGED <<alive, unread, readable, running, wired, fault, grown, handled, pass,
                 monitorFaults, warned>>

(***************************************************************************)
(* ChainWatcher.Tick.  A checkpoint that cannot be read is transient; a    *)
(* failed consistency proof, a rewind, and any failure to fetch the new    *)
(* leaves latch the watcher.  The size advances after the whole check.     *)
(***************************************************************************)
Latches(x) ==
  /\ ~fault[x]
  /\ readable[x] = "diverged" \/ (readable[x] = "tiles" /\ unread[x])

Reads(x) ==
  /\ ~fault[x]
  /\ readable[x] = "yes" \/ (readable[x] = "tiles" /\ ~unread[x])

WatcherTick(x) ==
  /\ fault' = [fault EXCEPT ![x] = @ \/ Latches(x)]
  /\ unread' = [unread EXCEPT ![x] = @ /\ ~Reads(x)]

(***************************************************************************)
(* CheckOnce: the master chain first, and the anchors it holds.            *)
(***************************************************************************)
ObserveAnchors ==
  lastAnchor' = [c \in WCells |-> IF anchored[c] < lastAnchor[c]
                                  THEN anchored[c] ELSE lastAnchor[c]]

BeginPass(leaf) ==
  /\ running /\ pass[1] = 0
  /\ WatcherTick(Master)
  /\ IF Reads(Master)
     THEN /\ ObserveAnchors
          /\ masterRead' = 0
          /\ pass' = <<1, "watch">>
     ELSE /\ pass' = IF leaf THEN <<1, "watch">> ELSE Idle  \* raise aborts the pass
          /\ UNCHANGED <<lastAnchor, masterRead>>
  /\ UNCHANGED <<alive, anchored, readable, running, wired, grown, stillFor, handled,
                 triggerTimes, monitorFaults, checked, warned>>

Stale(c) == lastAnchor[c] > MaxAnchorLag

AfterAlarms_GoesOn(i, alarms, leaf) == <<i, "fall">>

\* raise: the alarm is a leaf first, and a leaf that cannot be written ends the pass.
AfterAlarms(i, alarms, leaf) == IF alarms /\ ~leaf THEN Idle ELSE <<i, "fall">>

\* The cell's chain, its anchors and its manifests.
WatchCell(i, badManifests, leaf) ==
  LET c == WatchedCells[i] IN
  /\ running /\ pass = <<i, "watch">>
  /\ WatcherTick(c)
  /\ grown' = [grown EXCEPT ![c] = @ \/ (Reads(c) /\ unread[c])]
  /\ LET alarms == ~Reads(c) \/ Stale(c) \/ badManifests IN
     /\ pass' = AfterAlarms(i, alarms, leaf)
     /\ warned' = [warned EXCEPT ![c] = Stale(c) /\ (@ \/ leaf)]
  /\ checked' = 0
  /\ UNCHANGED <<alive, anchored, readable, running, wired, lastAnchor, stillFor, handled,
                 triggerTimes, monitorFaults, masterRead>>

(***************************************************************************)
(* checkFall: both signs of life are lost, and for FallDelay.              *)
(***************************************************************************)
Anchors(c) == lastAnchor[c] <= FallDelay
Fallen_OnSilence(c) == ~grown[c] /\ stillFor[c] >= FallDelay
Fallen(c) == ~grown[c] /\ ~Anchors(c) /\ stillFor[c] >= FallDelay
EpisodeOpens(c) == Fallen(c) /\ ~handled[c]
AtFall(i) == running /\ pass = <<i, "fall">>

RecentTriggers(times) == SelectSeq(times, LAMBDA age : age < FailoverWindow)
TriggersLeft == Len(RecentTriggers(triggerTimes)) < MaxTriggers

NoFall(i) ==
  LET c == WatchedCells[i] IN
  /\ AtFall(i) /\ ~EpisodeOpens(c)
  /\ grown' = [grown EXCEPT ![c] = FALSE]
  /\ stillFor' = [stillFor EXCEPT ![c] = IF grown[c] THEN 0 ELSE @]
  /\ handled' = [handled EXCEPT ![c] = @ /\ ~grown[c] /\ ~Anchors(c)]
  /\ pass' = Next1(i)
  /\ UNCHANGED <<world, running, wired, fault, lastAnchor, triggerTimes, monitorFaults, traces>>

\* The episode is marked before its leaf: a leaf that fails is not retried.
Confirm(i, leaf) ==
  /\ AtFall(i) /\ EpisodeOpens(WatchedCells[i])
  /\ handled' = [handled EXCEPT ![WatchedCells[i]] = TRUE]
  /\ pass' = IF leaf THEN Next1(i) ELSE Idle
  /\ UNCHANGED <<world, running, wired, fault, lastAnchor, grown, stillFor, monitorFaults,
                 masterRead, checked, warned>>

\* No trigger, no budget left, or a trigger that fails.
RefuseFailover(i, leaf) ==
  /\ Confirm(i, leaf)
  /\ triggerTimes' = IF wired THEN RecentTriggers(triggerTimes) ELSE triggerTimes

TriggerFailover(i, leaf) ==
  /\ wired /\ TriggersLeft
  /\ Confirm(i, leaf)
  /\ triggerTimes' = Append(RecentTriggers(triggerTimes), 0)

(***************************************************************************)
(* supervisord.  Everything the monitor knows is in memory; a start reads  *)
(* every chain from its first leaf and fails on one it cannot verify.      *)
(***************************************************************************)
MonitorCrashes ==
  /\ running /\ monitorFaults < MaxMonitorFaults
  /\ running' = FALSE
  /\ monitorFaults' = monitorFaults + 1
  /\ fault' = [x \in Chains |-> FALSE]
  /\ lastAnchor' = [c \in WCells |-> Never]
  /\ grown' = [c \in WCells |-> FALSE]
  /\ stillFor' = [c \in WCells |-> 0]
  /\ handled' = [c \in WCells |-> FALSE]
  /\ triggerTimes' = <<>>
  /\ pass' = Idle
  /\ warned' = [c \in WCells |-> FALSE]
  /\ UNCHANGED <<world, wired, masterRead, checked>>

NewMonitor ==
  /\ ~running /\ \A x \in Chains : readable[x] = "yes"
  /\ running' = TRUE
  /\ ObserveAnchors
  /\ unread' = [x \in Chains |-> FALSE]
  /\ stillFor' = [c \in WCells |-> 0]
  /\ masterRead' = 0
  /\ UNCHANGED <<alive, anchored, readable, wired, fault, grown, handled, triggerTimes,
                 pass, monitorFaults, checked, warned>>

SupInit ==
  /\ alive = [c \in WCells |-> TRUE] /\ anchored = [c \in WCells |-> 0]
  /\ unread = [x \in Chains |-> FALSE] /\ readable = [x \in Chains |-> "yes"]
  /\ running = TRUE /\ wired \in BOOLEAN
  /\ fault = [x \in Chains |-> FALSE] /\ lastAnchor = [c \in WCells |-> 0]
  /\ grown = [c \in WCells |-> FALSE] /\ stillFor = [c \in WCells |-> 0]
  /\ handled = [c \in WCells |-> FALSE] /\ triggerTimes = <<>>
  /\ pass = Idle /\ monitorFaults = 0
  /\ masterRead = 0 /\ checked = 0
  /\ warned = [c \in WCells |-> FALSE]

CheckOnce ==
  \/ \E leaf \in BOOLEAN : BeginPass(leaf)
  \/ \E i \in DOMAIN WatchedCells, leaf \in BOOLEAN :
       \/ \E bad \in BOOLEAN : WatchCell(i, bad, leaf)
       \/ RefuseFailover(i, leaf) \/ TriggerFailover(i, leaf)
  \/ \E i \in DOMAIN WatchedCells : NoFall(i)

SupNext ==
  \/ \E c \in WCells : CellWrites(c) \/ CellAnchors(c) \/ CellDies(c) \/ CellReturns(c)
  \/ \E x \in Chains, how \in {"checkpoint", "tiles", "diverged"} : ReadingFails(x, how)
  \/ \E x \in Chains : ReadingWorks(x)
  \/ TimePasses \/ CheckOnce \/ MonitorCrashes \/ NewMonitor

SupSpec == SupInit /\ [][SupNext]_supVars

(***************************************************************************)
(* Properties                                                              *)
(***************************************************************************)
ActsOn(c) == ~handled[c] /\ handled'[c]
Triggers(c) == ActsOn(c) /\ triggerTimes' = Append(RecentTriggers(triggerTimes), 0)

\* checkFall acts on a cell only if no anchor of it was in the master chain in
\* the last FallDelay, except one written after the monitor's last successful
\* read of that chain.
ActsOnWhatItRead ==
  [][\A c \in WCells : ActsOn(c) =>
       anchored[c] > FallDelay \/ anchored[c] <= masterRead]_supVars

\* "L'alarme anchor-stale precede toujours une bascule automatique": a
\* failover is triggered on a cell only after an anchor alarm about it was
\* leafed and with no fresh anchor since, unless the pass itself stalled
\* between the two checks for the difference of the delays.
WarnedBeforeFailover ==
  [][\A c \in WCells : Triggers(c) =>
       warned[c] \/ checked >= FallDelay - MaxAnchorLag]_supVars
=============================================================================
