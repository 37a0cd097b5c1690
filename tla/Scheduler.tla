----------------------------- MODULE Scheduler -----------------------------
(***************************************************************************)
(* The scheduler of internal/scheduler/scheduler.go: one goroutine that    *)
(* wakes up on a ticker, works out under its lock which items are due,     *)
(* runs RunBackup on them without the lock, and records the outcome under  *)
(* the lock again.  Users edit the configuration at any moment, and the    *)
(* process may be restarted, which loses all it remembers.                 *)
(*                                                                         *)
(* A unit of time is the ticker's period, one minute (cmd/pterobackup).    *)
(* The scheduler's four maps are functions on subsets of Ids, the          *)
(* configuration a function from the configured ids to their intervals;    *)
(* Position is the order of the items in the configuration.                *)
(***************************************************************************)
EXTENDS Naturals

CONSTANTS
  Ids,         \* ids of backup items
  Position,    \* id -> its place in the configuration
  Configs,     \* the configurations users save
  Horizon,     \* bound: the clock stops there, the ticker goes on
  Sick,        \* the items whose backup always fails
  Outages,     \* may the connection or the loading of the configuration fail?
  MayRestart   \* may the process be restarted?

\* f is a function from some of the ids to T.
Partial(f, T) == DOMAIN f \subseteq Ids /\ f \in [DOMAIN f -> T]

ASSUME SchedulerAssumption ==
  /\ Position \in [Ids -> Nat]
  /\ \A i, j \in Ids : Position[i] = Position[j] => i = j
  /\ \A c \in Configs : Partial(c, Nat \ {0})
  /\ Configs # {}
  /\ Horizon \in Nat
  /\ Sick \subseteq Ids
  /\ Outages \in BOOLEAN /\ MayRestart \in BOOLEAN

VARIABLES
  now,           \* the clock
  config,        \* what Load returns: id -> intervalMinutes
  nextRun,       \* nextRunByItem
  lastSuccess,
  lastError,     \* the ids with an error text
  lastInterval,  \* lastIntervalByItem
  ticked,        \* is a tick waiting in the ticker's channel?
  phase,         \* "waiting" in Start's select, or "running" RunBackup
  at,            \* runOnce's now
  due,           \* runOnce's dueItems: id -> intervalMinutes
  left,          \* the due items RunBackup has not come to yet
  lastDone       \* history: id -> at of the last run that backed it up, since the
                 \* process was started and the item was new to it

maps == <<nextRun, lastSuccess, lastError, lastInterval>>
run == <<phase, at, due, left>>
vars == <<now, config, maps, ticked, run, lastDone>>

TypeOK ==
  /\ now \in Nat /\ at \in Nat
  /\ config \in Configs
  /\ Partial(nextRun, Nat)
  /\ Partial(lastSuccess, Nat)
  /\ lastError \subseteq Ids
  /\ Partial(lastInterval, Nat)
  /\ ticked \in BOOLEAN
  /\ phase \in {"waiting", "running"}
  /\ phase = "running" => DOMAIN due # {}
  /\ Partial(due, Nat \ {0})
  /\ left \subseteq DOMAIN due
  /\ Partial(lastDone, Nat)

Nothing == [i \in {} |-> 0]

\* Start calls runOnce at once, as if a tick were waiting.
Init ==
  /\ now = 0 /\ at = 0
  /\ config \in Configs
  /\ nextRun = Nothing /\ lastSuccess = Nothing /\ lastInterval = Nothing
  /\ lastError = {}
  /\ ticked = TRUE
  /\ phase = "waiting" /\ due = Nothing /\ left = {}
  /\ lastDone = Nothing

\* f with the values of g on g's domain.
Update(f, g) ==
  [i \in DOMAIN f \cup DOMAIN g |-> IF i \in DOMAIN g THEN g[i] ELSE f[i]]

\* Mutant: the lock section does not look at the interval.
NextOfIgnoringEdits(i) == IF i \in DOMAIN nextRun THEN nextRun[i] ELSE now

\* Mutant: an item whose interval has changed runs at once.
NextOfEditedNow(i) ==
  IF i \in DOMAIN nextRun /\ i \in DOMAIN lastInterval /\ lastInterval[i] = config[i]
  THEN nextRun[i] ELSE now

\* Mutant: every evaluation plans the item anew.
NextOfPostponed(i) == now + config[i]

\* When item i is to run next, as runOnce finds it: a new item now, an item
\* whose interval has changed an interval after its last success.
NextOf(i) ==
  IF i \notin DOMAIN nextRun THEN now
  ELSE IF i \in DOMAIN lastInterval /\ lastInterval[i] # config[i]
       THEN IF i \in DOMAIN lastSuccess THEN lastSuccess[i] + config[i] ELSE now
       ELSE nextRun[i]

\* Mutant: the cleanup deletes nothing.
ForgottenNone == {}

\* The ids the cleanup deletes from every map.
Forgotten == DOMAIN nextRun \ DOMAIN config

Without(f, S) == [i \in DOMAIN f \ S |-> f[i]]

\* Mutant: RunBackup is called even if nothing is due.
PhaseAfterAlways(ids) == "running"

\* runOnce returns where no item is due.
PhaseAfter(ids) == IF ids = {} THEN "waiting" ELSE "running"

\* The first lock section of runOnce, after a successful Load.
Begin ==
  LET dueIds == {i \in DOMAIN config : NextOf(i) <= now} IN
  /\ phase = "waiting" /\ ticked
  /\ ticked' = FALSE
  /\ at' = now
  /\ nextRun' = [i \in DOMAIN config |-> NextOf(i)]
  /\ lastInterval' = Without(Update(lastInterval, config), Forgotten)
  /\ lastSuccess' = Without(lastSuccess, Forgotten)
  /\ lastError' = lastError \ Forgotten
  /\ due' = [i \in dueIds |-> config[i]]
  /\ left' = dueIds
  /\ phase' = PhaseAfter(dueIds)
  /\ lastDone' = Without(lastDone, Forgotten)
  /\ UNCHANGED <<now, config>>

\* Load returns an error: runOnce logs it and waits for the next tick.
LoadFails ==
  /\ phase = "waiting" /\ ticked /\ Outages
  /\ ticked' = FALSE
  /\ UNCHANGED <<now, config, maps, run, lastDone>>

IsFirst(i) == i \in left /\ \A j \in left \ {i} : Position[i] < Position[j]

\* RunBackup backs up the next due item.
BackUp(i) ==
  /\ phase = "running" /\ IsFirst(i) /\ i \notin Sick
  /\ left' = left \ {i}
  /\ lastDone' = Update(lastDone, [j \in {i} |-> at])
  /\ UNCHANGED <<now, config, maps, ticked, phase, at, due>>

\* Mutant: the next run is an interval after the end of this one.
FollowingFromEnd == [i \in DOMAIN due |-> now + due[i]]

\* now.Add(interval), now being when runOnce began.
Following == [i \in DOMAIN due |-> at + due[i]]

\* RunBackup returns results: the last lock section of runOnce.
Succeed ==
  /\ phase = "running" /\ left = {}
  /\ nextRun' = Update(nextRun, Following)
  /\ lastSuccess' = Update(lastSuccess, [i \in DOMAIN due |-> at])
  /\ lastError' = lastError \ DOMAIN due
  /\ phase' = "waiting"
  /\ UNCHANGED <<now, config, lastInterval, ticked, at, due, left, lastDone>>

\* Mutant: only the items that were not backed up get the error.
RunFailsForTheRest ==
  /\ phase = "running"
  /\ Outages \/ \E i \in Sick : IsFirst(i)
  /\ lastError' = lastError \cup left
  /\ phase' = "waiting"
  /\ left' = {}
  /\ UNCHANGED <<now, config, nextRun, lastSuccess, lastInterval, ticked, at, due, lastDone>>

\* RunBackup returns an error, that of its first failing item or of the
\* connection: every due item gets it, none is rescheduled.
RunFails ==
  /\ phase = "running"
  /\ Outages \/ \E i \in Sick : IsFirst(i)
  /\ lastError' = lastError \cup DOMAIN due
  /\ phase' = "waiting"
  /\ left' = {}
  /\ UNCHANGED <<now, config, nextRun, lastSuccess, lastInterval, ticked, at, due, lastDone>>

\* A minute passes.  The ticker's channel holds one tick, more are dropped.
Tick ==
  /\ now' = IF now < Horizon THEN now + 1 ELSE now
  /\ ticked' = TRUE
  /\ UNCHANGED <<config, maps, run, lastDone>>

\* Another configuration is saved.
Edit(c) ==
  /\ c # config
  /\ config' = c
  /\ UNCHANGED <<now, maps, ticked, run, lastDone>>

\* The process ends and is started again.
Restart ==
  /\ MayRestart
  /\ nextRun' = Nothing /\ lastSuccess' = Nothing /\ lastInterval' = Nothing
  /\ lastError' = {}
  /\ ticked' = TRUE
  /\ phase' = "waiting" /\ at' = 0 /\ due' = Nothing /\ left' = {}
  /\ lastDone' = Nothing
  /\ UNCHANGED <<now, config>>

Work == Begin \/ LoadFails \/ Succeed \/ RunFails \/ \E i \in Ids : BackUp(i)

Next ==
  \/ Work
  \/ Tick
  \/ \E c \in Configs : Edit(c)
  \/ Restart

Spec == Init /\ [][Next]_vars

\* The ticker ticks, the goroutine goes on, and RunBackup returns.
FairSpec == Spec /\ WF_vars(Tick) /\ WF_vars(Work)

-----------------------------------------------------------------------------
(* Properties.                                                             *)

\* Snapshot walks over nextRunByItem: whatever the other maps know of an item
\* is shown, and nothing of a removed item outlives the next evaluation.
NoOrphans ==
  /\ DOMAIN lastSuccess \cup lastError \cup DOMAIN lastInterval \subseteq DOMAIN nextRun
  /\ phase = "running" => DOMAIN due \subseteq DOMAIN nextRun

\* An item that has succeeded runs next one interval later, the interval being
\* the one the scheduler last saw, however it was edited in between.
Cadence ==
  \A i \in DOMAIN lastSuccess :
    /\ i \in DOMAIN nextRun /\ i \in DOMAIN lastInterval
    /\ nextRun[i] = lastSuccess[i] + lastInterval[i]

\* What RunBackup works on is what the maps were brought up to date with.
RunUpToDate ==
  phase = "running" => \A i \in DOMAIN due : i \in DOMAIN lastInterval /\ lastInterval[i] = due[i]

\* RunBackup only gets items whose interval has passed since their last success.
NotEarly ==
  phase = "running" =>
    \A i \in DOMAIN due \cap DOMAIN lastSuccess : lastSuccess[i] + due[i] <= at

\* Interval changed (scheduler.go:113): the evaluation after an edit plans every
\* item that has succeeded by its new interval.
EditTakesEffect ==
  [][Begin => \A i \in DOMAIN config \cap DOMAIN lastSuccess :
                 nextRun'[i] = lastSuccess[i] + config[i]]_vars

\* An item is backed up again before its interval is over only while the
\* schedule shows an error for it: an early repetition is the retry of a run that
\* failed, and users can tell (scheduler.go:151).
EarlyShowsError ==
  [][\A i \in Ids :
        BackUp(i) /\ i \in DOMAIN lastDone /\ lastDone[i] + due[i] > at => i \in lastError]_vars

\* What keeps items from their backups, but for the items that always fail.
Disturbance == LoadFails \/ Restart \/ (RunFails /\ ~\E i \in Sick : IsFirst(i))

\* An item that is configured for good and whose backups do not fail comes to be
\* backed up and is not forgotten, once disturbances are over, whatever becomes of
\* the other items and however often intervals are edited (Service,
\* scheduler.go:22).
HealthyItemsRun ==
  \A i \in Ids \ Sick :
    <>[](i \in DOMAIN config) /\ <>[][~Disturbance]_vars => <>[](i \in DOMAIN lastSuccess)
=============================================================================
