---------------------------- MODULE OPAWatchdog ----------------------------
(***************************************************************************)
(* opawatchdog: the process that reads how each user of OPA sees it and    *)
(* restarts the OPA unit when all of them have heard nothing for long,     *)
(* within an hourly budget, each restart recorded by a leaf first.         *)
(*                                                                         *)
(* A source's report is its own memory: "stalled" lasts until OPA answers  *)
(* that source, so it may outlive the stall.  The sources are read one     *)
(* after the other.  Instants are kept as ages.                            *)
(***************************************************************************)
EXTENDS Naturals, Sequences, SequencesExt

CONSTANTS Sources,         \* sequence: Settings.Sources
          ConfirmRuns, RestDelay, MaxPerHour, BudgetHour,
          MaxStalls, MaxDown, MaxLeafFaults, MaxDogCrashes

ASSUME WatchdogAssumption ==
  /\ {ConfirmRuns, RestDelay, MaxPerHour} \subseteq Nat \ {0}
  /\ {BudgetHour, MaxStalls, MaxDown, MaxLeafFaults, MaxDogCrashes} \subseteq Nat

Users == ToSet(Sources)

VARIABLES
  opa,          \* "ok" or "stuck"
  dryRun,       \* Settings.DryRun
  report,       \* [Users -> {"healthy", "stalled", "unreadable"}]
  dogLog,       \* whether the watchdog's log takes a leaf
  poll,         \* [at, readable, stalled]: Tick's loop over the sources
  polled,       \* a poll has ended in this unit of time
  stalledRuns,  \* up to ConfirmRuns
  attempts,     \* sequence of ages
  resting,      \* time left until cooldownTill
  escalated,
  stalls, downs, leafFaults, dogCrashes

dogEnv == <<dryRun, stalls, downs, leafFaults, dogCrashes>>
dogMemory == <<stalledRuns, attempts, resting, escalated>>
dogVars == <<opa, report, dogLog, poll, polled, dogMemory, dogEnv>>

NewPoll == [at |-> 1, readable |-> 0, stalled |-> 0]
WithinHour(ages) == SelectSeq(ages, LAMBDA a : a < BudgetHour)
Aged(ages) == [i \in DOMAIN ages |-> IF ages[i] < BudgetHour THEN ages[i] + 1 ELSE ages[i]]

(***************************************************************************)
(* OPA and its users (pep.OPAClient)                                       *)
(***************************************************************************)
OPASticks ==
  /\ opa = "ok" /\ stalls < MaxStalls
  /\ opa' = "stuck" /\ stalls' = stalls + 1
  /\ UNCHANGED <<report, dogLog, poll, polled, dogMemory, dryRun, downs, leafFaults,
                 dogCrashes>>

\* A request is answered, or the silence reaches the stall window.
Contact(u) ==
  /\ report[u] = IF opa = "ok" THEN "stalled" ELSE "healthy"
  /\ report' = [report EXCEPT ![u] = IF opa = "ok" THEN "healthy" ELSE "stalled"]
  /\ UNCHANGED <<opa, dogLog, poll, polled, dogMemory, dogEnv>>

UserStops(u) ==
  /\ report[u] # "unreadable" /\ downs < MaxDown
  /\ report' = [report EXCEPT ![u] = "unreadable"] /\ downs' = downs + 1
  /\ UNCHANGED <<opa, dogLog, poll, polled, dogMemory, dryRun, stalls, leafFaults,
                 dogCrashes>>

UserStarts(u) ==
  /\ report[u] = "unreadable"
  /\ report' = [report EXCEPT ![u] = "healthy"]
  /\ UNCHANGED <<opa, dogLog, poll, polled, dogMemory, dogEnv>>

DogLogFails ==
  /\ dogLog /\ leafFaults < MaxLeafFaults
  /\ dogLog' = FALSE /\ leafFaults' = leafFaults + 1
  /\ UNCHANGED <<opa, report, poll, polled, dogMemory, dryRun, stalls, downs, dogCrashes>>

DogLogWorks ==
  /\ ~dogLog /\ dogLog' = TRUE
  /\ UNCHANGED <<opa, report, poll, polled, dogMemory, dogEnv>>

(***************************************************************************)
(* Watchdog.Tick                                                           *)
(***************************************************************************)
ReadSource ==
  LET r == report[Sources[poll.at]] IN
  /\ poll.at <= Len(Sources)
  /\ poll' = [at |-> poll.at + 1,
              readable |-> poll.readable + (IF r = "unreadable" THEN 0 ELSE 1),
              stalled |-> poll.stalled + (IF r = "stalled" THEN 1 ELSE 0)]
  /\ UNCHANGED <<opa, report, dogLog, polled, dogMemory, dogEnv>>

AllRead == poll.at > Len(Sources)
Common == poll.readable > 0 /\ poll.stalled = poll.readable
Runs == IF stalledRuns < ConfirmRuns THEN stalledRuns + 1 ELSE stalledRuns
EndPoll == AllRead /\ poll' = NewPoll /\ polled' = TRUE
Confirmed == Common /\ Runs = ConfirmRuns /\ resting = 0
InBudget == Len(WithinHour(attempts)) < MaxPerHour

\* blind, healthy
NoStall ==
  /\ EndPoll /\ ~Common
  /\ stalledRuns' = 0 /\ escalated' = FALSE
  /\ UNCHANGED <<opa, report, dogLog, attempts, resting, dogEnv>>

\* suspect, cooldown
Wait ==
  /\ EndPoll /\ Common /\ ~Confirmed
  /\ stalledRuns' = Runs /\ escalated' = FALSE
  /\ UNCHANGED <<opa, report, dogLog, attempts, resting, dogEnv>>

\* The escalation leaf is written once per episode, tried again until it is.
Exhausted ==
  /\ EndPoll /\ Confirmed /\ ~InBudget
  /\ stalledRuns' = Runs /\ attempts' = WithinHour(attempts)
  /\ escalated' = (escalated \/ dogLog)
  /\ UNCHANGED <<opa, report, dogLog, resting, dogEnv>>

\* No leaf, no restart, and no attempt spent.
Untraced ==
  /\ EndPoll /\ Confirmed /\ InBudget /\ ~dryRun /\ ~dogLog
  /\ stalledRuns' = Runs /\ attempts' = WithinHour(attempts) /\ escalated' = FALSE
  /\ UNCHANGED <<opa, report, dogLog, resting, dogEnv>>

SpendAttempt_Uncounted ==
  /\ attempts' = WithinHour(attempts)
  /\ resting' = RestDelay /\ stalledRuns' = 0 /\ escalated' = FALSE

SpendAttempt ==
  /\ attempts' = Append(WithinHour(attempts), 0)
  /\ resting' = RestDelay /\ stalledRuns' = 0 /\ escalated' = FALSE

\* Calibration: an attempt is spent, nothing is leafed or executed.
DryRun ==
  /\ EndPoll /\ Confirmed /\ InBudget /\ dryRun
  /\ SpendAttempt
  /\ UNCHANGED <<opa, report, dogLog, dogEnv>>

\* Leaf, then the attempt is spent, then systemctl, which may fail; a restart
\* may leave OPA as stuck as it was.
RestartOPA(after) ==
  /\ EndPoll /\ Confirmed /\ InBudget /\ ~dryRun /\ dogLog
  /\ SpendAttempt
  /\ after \in {opa, "ok"} /\ opa' = after
  /\ UNCHANGED <<report, dogLog, dogEnv>>

\* The ticker: at least one poll ends in every unit of time.
DogTime ==
  /\ polled /\ polled' = FALSE
  /\ attempts' = Aged(attempts)
  /\ resting' = IF resting = 0 THEN 0 ELSE resting - 1
  /\ UNCHANGED <<opa, report, dogLog, poll, stalledRuns, escalated, dogEnv>>

DogCrash ==
  /\ dogCrashes < MaxDogCrashes /\ dogCrashes' = dogCrashes + 1
  /\ poll' = NewPoll /\ polled' = FALSE /\ stalledRuns' = 0 /\ attempts' = <<>> /\ resting' = 0
  /\ escalated' = FALSE
  /\ UNCHANGED <<opa, report, dogLog, dryRun, stalls, downs, leafFaults>>

DogInit ==
  /\ opa = "ok" /\ dryRun \in BOOLEAN /\ report = [u \in Users |-> "healthy"] /\ dogLog = TRUE
  /\ poll = NewPoll /\ polled = FALSE /\ stalledRuns = 0 /\ attempts = <<>> /\ resting = 0
  /\ escalated = FALSE
  /\ stalls = 0 /\ downs = 0 /\ leafFaults = 0 /\ dogCrashes = 0

DogTick ==
  \/ ReadSource \/ NoStall \/ Wait \/ Exhausted \/ Untraced \/ DryRun
  \/ \E after \in {"ok", "stuck"} : RestartOPA(after)

DogNext ==
  \/ OPASticks \/ DogLogFails \/ DogLogWorks \/ DogTick \/ DogTime \/ DogCrash
  \/ \E u \in Users : Contact(u) \/ UserStops(u) \/ UserStarts(u)

DogSpec == DogInit /\ [][DogNext]_dogVars

\* The poll loop and the clock go on; users keep asking OPA, come back when
\* they stop, and the log is repaired.
DogFairness ==
  /\ WF_dogVars(DogTick) /\ WF_dogVars(DogTime) /\ WF_dogVars(DogLogWorks)
  /\ \A u \in Users : WF_dogVars(Contact(u)) /\ WF_dogVars(UserStarts(u))

DogFairSpec == DogSpec /\ DogFairness

(***************************************************************************)
(* Properties                                                              *)
(***************************************************************************)
\* An OPA that stays stuck is restarted into health, or a human is told: the
\* escalation leaf is in the watchdog's log.  This needs settings that reach the
\* budget: MaxPerHour restarts must fit in an hour with their rests and
\* confirmations, which loadConfig does not check.
NoSilentOutage == (opa = "stuck") ~> (opa = "ok" \/ escalated)
=============================================================================
