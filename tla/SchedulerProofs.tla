-------------------------- MODULE SchedulerProofs --------------------------
(***************************************************************************)
(* Proofs about Scheduler, for any set of items and of configurations,     *)
(* with and without failures and restarts.                                 *)
(***************************************************************************)
EXTENDS Scheduler, TLAPS

-----------------------------------------------------------------------------
(* Partial functions.                                                      *)

LEMMA NothingPartial ==
  ASSUME NEW T
  PROVE  Partial(Nothing, T) /\ DOMAIN Nothing = {}
  BY DEF Nothing, Partial

LEMMA UpdatePartial ==
  ASSUME NEW T, NEW f, NEW g, Partial(f, T), Partial(g, T)
  PROVE  /\ Partial(Update(f, g), T)
         /\ DOMAIN Update(f, g) = DOMAIN f \cup DOMAIN g
         /\ \A i \in DOMAIN f \cup DOMAIN g :
               Update(f, g)[i] = IF i \in DOMAIN g THEN g[i] ELSE f[i]
  BY DEF Partial, Update

-----------------------------------------------------------------------------
(* Type correctness.                                                       *)

\* runOnce finds a time for every configured item.
LEMMA NextOfType ==
  ASSUME TypeOK, NEW i \in DOMAIN config
  PROVE  NextOf(i) \in Nat /\ i \in Ids /\ config[i] \in Nat \ {0}
  <1>1. Partial(config, Nat \ {0})
    BY SchedulerAssumption DEF SchedulerAssumption, TypeOK
  <1>2. i \in Ids /\ config[i] \in Nat \ {0}
    BY <1>1 DEF Partial
  <1>3. i \in DOMAIN nextRun => nextRun[i] \in Nat
    BY DEF TypeOK, Partial
  <1>4. i \in DOMAIN lastSuccess => lastSuccess[i] + config[i] \in Nat
    BY <1>2 DEF TypeOK, Partial
  <1> QED
    BY <1>2, <1>3, <1>4 DEF NextOf, TypeOK

\* The maps after the first lock section.
LEMMA BeginMaps ==
  ASSUME TypeOK, Begin
  PROVE  /\ Partial(nextRun', Nat) /\ DOMAIN nextRun' = DOMAIN config
         /\ \A i \in DOMAIN config : nextRun'[i] = NextOf(i)
         /\ Partial(lastInterval', Nat)
         /\ DOMAIN lastInterval' = (DOMAIN lastInterval \cup DOMAIN config) \ Forgotten
         /\ \A i \in DOMAIN config : i \in DOMAIN lastInterval' /\ lastInterval'[i] = config[i]
         /\ Partial(lastSuccess', Nat) /\ DOMAIN lastSuccess' = DOMAIN lastSuccess \ Forgotten
         /\ \A i \in DOMAIN lastSuccess' : lastSuccess'[i] = lastSuccess[i]
         /\ Partial(due', Nat \ {0}) /\ left' = DOMAIN due'
         /\ DOMAIN due' = {i \in DOMAIN config : NextOf(i) <= now}
         /\ \A i \in DOMAIN due' : due'[i] = config[i]
         /\ phase' = "running" => DOMAIN due' # {}
  <1>1. Partial(config, Nat)
    BY SchedulerAssumption DEF SchedulerAssumption, TypeOK, Partial
  <1>2. Partial(nextRun', Nat) /\ DOMAIN nextRun' = DOMAIN config /\ \A i \in DOMAIN config : nextRun'[i] = NextOf(i)
    BY NextOfType DEF Begin, Partial
  <1>3. /\ Partial(lastInterval', Nat)
        /\ DOMAIN lastInterval' = (DOMAIN lastInterval \cup DOMAIN config) \ Forgotten
        /\ \A i \in DOMAIN config : i \in DOMAIN lastInterval' /\ lastInterval'[i] = config[i]
    <2>1. /\ Partial(Update(lastInterval, config), Nat)
          /\ DOMAIN Update(lastInterval, config) = DOMAIN lastInterval \cup DOMAIN config
          /\ \A i \in DOMAIN config : Update(lastInterval, config)[i] = config[i]
      BY <1>1, UpdatePartial DEF TypeOK
    <2>2. lastInterval' = Without(Update(lastInterval, config), Forgotten)
      BY DEF Begin
    <2>3. /\ Partial(lastInterval', Nat)
          /\ DOMAIN lastInterval' = DOMAIN Update(lastInterval, config) \ Forgotten
          /\ \A i \in DOMAIN Update(lastInterval, config) \ Forgotten :
                lastInterval'[i] = Update(lastInterval, config)[i]
      BY <2>1, <2>2 DEF Partial, Without
    <2> QED
      BY <2>1, <2>3 DEF Forgotten
  <1>4. /\ Partial(lastSuccess', Nat) /\ DOMAIN lastSuccess' = DOMAIN lastSuccess \ Forgotten
        /\ \A i \in DOMAIN lastSuccess' : lastSuccess'[i] = lastSuccess[i]
    BY DEF Begin, TypeOK, Partial, Without
  <1>5. /\ Partial(due', Nat \ {0}) /\ left' = DOMAIN due'
        /\ DOMAIN due' = {i \in DOMAIN config : NextOf(i) <= now}
        /\ \A i \in DOMAIN due' : due'[i] = config[i]
        /\ phase' = "running" => DOMAIN due' # {}
    BY NextOfType DEF Begin, Partial, PhaseAfter
  <1> QED
    BY <1>2, <1>3, <1>4, <1>5

\* The maps after a successful run.
LEMMA SucceedMaps ==
  ASSUME TypeOK, Succeed
  PROVE  /\ Partial(nextRun', Nat) /\ DOMAIN nextRun' = DOMAIN nextRun \cup DOMAIN due
         /\ \A i \in DOMAIN due : nextRun'[i] = at + due[i]
         /\ \A i \in DOMAIN nextRun \ DOMAIN due : nextRun'[i] = nextRun[i]
         /\ Partial(lastSuccess', Nat) /\ DOMAIN lastSuccess' = DOMAIN lastSuccess \cup DOMAIN due
         /\ \A i \in DOMAIN due : lastSuccess'[i] = at
         /\ \A i \in DOMAIN lastSuccess \ DOMAIN due : lastSuccess'[i] = lastSuccess[i]
  <1>1. Partial(Following, Nat) /\ DOMAIN Following = DOMAIN due /\ \A i \in DOMAIN due : Following[i] = at + due[i]
    BY DEF TypeOK, Partial, Following
  <1>2. LET done == [i \in DOMAIN due |-> at] IN
        Partial(done, Nat) /\ DOMAIN done = DOMAIN due /\ \A i \in DOMAIN due : done[i] = at
    BY DEF TypeOK, Partial
  <1>3. Partial(nextRun, Nat) /\ Partial(lastSuccess, Nat)
    BY DEF TypeOK
  <1>4. nextRun' = Update(nextRun, Following) /\ lastSuccess' = Update(lastSuccess, [i \in DOMAIN due |-> at])
    BY DEF Succeed
  <1>5. /\ Partial(nextRun', Nat) /\ DOMAIN nextRun' = DOMAIN nextRun \cup DOMAIN due
        /\ \A i \in DOMAIN due : nextRun'[i] = at + due[i]
        /\ \A i \in DOMAIN nextRun \ DOMAIN due : nextRun'[i] = nextRun[i]
    BY <1>1, <1>3, <1>4 DEF Partial, Update
  <1>6. /\ Partial(lastSuccess', Nat) /\ DOMAIN lastSuccess' = DOMAIN lastSuccess \cup DOMAIN due
        /\ \A i \in DOMAIN due : lastSuccess'[i] = at
        /\ \A i \in DOMAIN lastSuccess \ DOMAIN due : lastSuccess'[i] = lastSuccess[i]
    BY <1>2, <1>3, <1>4 DEF Partial, Update
  <1> QED
    BY <1>5, <1>6

LEMMA SchedulerTypeStep ==
  ASSUME TypeOK, [Next]_vars
  PROVE  TypeOK'
  <1>1. CASE Begin
    <2>1. Partial(lastDone', Nat)
      BY <1>1 DEF TypeOK, Begin, Partial, Without
    <2> QED
      BY <1>1, <2>1, BeginMaps DEF TypeOK, Begin, PhaseAfter
  <1>2. CASE LoadFails
    BY <1>2 DEF TypeOK, LoadFails, maps, run
  <1>3. ASSUME NEW i \in Ids, BackUp(i)
        PROVE  TypeOK'
    <2>1. i \in DOMAIN due
      BY <1>3 DEF TypeOK, BackUp, IsFirst
    <2>2. Partial([j \in {i} |-> at], Nat)
      BY DEF TypeOK, Partial
    <2>3. Partial(lastDone', Nat)
      BY <1>3, <2>2, UpdatePartial DEF TypeOK, BackUp
    <2> QED
      BY <1>3, <2>3 DEF TypeOK, BackUp, maps
  <1>4. CASE Succeed
    BY <1>4, SucceedMaps DEF TypeOK, Succeed
  <1>5. CASE RunFails
    BY <1>5 DEF TypeOK, RunFails, Partial
  <1>6. CASE Tick
    BY <1>6 DEF TypeOK, Tick, maps, run
  <1>7. ASSUME NEW c \in Configs, Edit(c)
        PROVE  TypeOK'
    BY <1>7 DEF TypeOK, Edit, maps, run
  <1>8. CASE Restart
    BY <1>8, NothingPartial DEF TypeOK, Restart
  <1>9. CASE UNCHANGED vars
    BY <1>9 DEF TypeOK, vars, maps, run
  <1> QED
    BY <1>1, <1>2, <1>3, <1>4, <1>5, <1>6, <1>7, <1>8, <1>9 DEF Next, Work

\* The maps stay functions from ids to times, whatever is edited when.
THEOREM SchedulerTypeCorrect == Spec => []TypeOK
  <1>1. Init => TypeOK
    BY NothingPartial DEF Init, TypeOK
  <1>2. TypeOK /\ [Next]_vars => TypeOK'
    BY SchedulerTypeStep
  <1> QED
    BY <1>1, <1>2, PTL DEF Spec

-----------------------------------------------------------------------------
(* The plan: what the maps say of each other.                              *)

SInv == TypeOK /\ NoOrphans /\ Cadence /\ RunUpToDate /\ NotEarly

\* Whatever the last interval was, the evaluation plans an item that has
\* succeeded one of its configured intervals after that.
LEMMA PlannedByInterval ==
  ASSUME TypeOK, Cadence, NEW i \in DOMAIN config, i \in DOMAIN lastSuccess
  PROVE  NextOf(i) = lastSuccess[i] + config[i]
  <1>1. i \in DOMAIN nextRun /\ i \in DOMAIN lastInterval /\ nextRun[i] = lastSuccess[i] + lastInterval[i]
    BY DEF Cadence
  <1>2. CASE lastInterval[i] = config[i]
    BY <1>1, <1>2 DEF NextOf
  <1>3. CASE lastInterval[i] # config[i]
    BY <1>1, <1>3 DEF NextOf
  <1> QED
    BY <1>2, <1>3

LEMMA BeginInv ==
  ASSUME SInv, Begin
  PROVE  NoOrphans' /\ Cadence' /\ RunUpToDate' /\ NotEarly'
  <1> USE DEF SInv
  <1>1. TypeOK /\ NoOrphans /\ Cadence
    OBVIOUS
  <1>2. /\ DOMAIN nextRun' = DOMAIN config
        /\ \A i \in DOMAIN config : nextRun'[i] = NextOf(i)
        /\ DOMAIN lastInterval' = (DOMAIN lastInterval \cup DOMAIN config) \ Forgotten
        /\ \A i \in DOMAIN config : i \in DOMAIN lastInterval' /\ lastInterval'[i] = config[i]
        /\ DOMAIN lastSuccess' = DOMAIN lastSuccess \ Forgotten
        /\ \A i \in DOMAIN lastSuccess' : lastSuccess'[i] = lastSuccess[i]
        /\ DOMAIN due' = {i \in DOMAIN config : NextOf(i) <= now}
        /\ \A i \in DOMAIN due' : due'[i] = config[i]
    BY <1>1, BeginMaps
  <1>3. at' = now /\ lastError' = lastError \ Forgotten
    BY DEF Begin
  <1>4. DOMAIN lastSuccess' \subseteq DOMAIN config
    BY <1>1, <1>2 DEF NoOrphans, Forgotten
  <1>5. NoOrphans'
    BY <1>1, <1>2, <1>3, <1>4 DEF NoOrphans, Forgotten
  <1>6. ASSUME NEW i \in DOMAIN lastSuccess'
        PROVE  /\ i \in DOMAIN config
               /\ nextRun'[i] = lastSuccess'[i] + config[i]
    <2>1. i \in DOMAIN config /\ i \in DOMAIN lastSuccess /\ lastSuccess'[i] = lastSuccess[i]
      BY <1>2, <1>4, <1>6
    <2> QED
      BY <1>1, <1>2, <2>1, PlannedByInterval
  <1>7. Cadence'
    BY <1>2, <1>6 DEF Cadence
  <1>8. RunUpToDate'
    BY <1>2 DEF RunUpToDate
  <1>9. NotEarly'
    BY <1>2, <1>3, <1>6 DEF NotEarly
  <1> QED
    BY <1>5, <1>7, <1>8, <1>9

LEMMA SucceedInv ==
  ASSUME SInv, Succeed
  PROVE  NoOrphans' /\ Cadence' /\ RunUpToDate' /\ NotEarly'
  <1> USE DEF SInv
  <1>1. TypeOK /\ NoOrphans /\ Cadence /\ RunUpToDate
    OBVIOUS
  <1>2. /\ DOMAIN nextRun' = DOMAIN nextRun \cup DOMAIN due
        /\ \A i \in DOMAIN due : nextRun'[i] = at + due[i]
        /\ \A i \in DOMAIN nextRun \ DOMAIN due : nextRun'[i] = nextRun[i]
        /\ DOMAIN lastSuccess' = DOMAIN lastSuccess \cup DOMAIN due
        /\ \A i \in DOMAIN due : lastSuccess'[i] = at
        /\ \A i \in DOMAIN lastSuccess \ DOMAIN due : lastSuccess'[i] = lastSuccess[i]
    BY <1>1, SucceedMaps
  <1>3. /\ phase = "running" /\ phase' = "waiting"
        /\ lastError' = lastError \ DOMAIN due
        /\ lastInterval' = lastInterval
    BY DEF Succeed
  <1>4. NoOrphans'
    BY <1>1, <1>2, <1>3 DEF NoOrphans
  <1>5. ASSUME NEW i \in DOMAIN lastSuccess'
        PROVE  /\ i \in DOMAIN nextRun' /\ i \in DOMAIN lastInterval'
               /\ nextRun'[i] = lastSuccess'[i] + lastInterval'[i]
    <2>1. CASE i \in DOMAIN due
      BY <1>1, <1>2, <1>3, <2>1 DEF RunUpToDate
    <2>2. CASE i \notin DOMAIN due
      <3>1. i \in DOMAIN lastSuccess
        BY <1>2, <1>5, <2>2
      <3>2. i \in DOMAIN nextRun /\ i \in DOMAIN lastInterval /\ nextRun[i] = lastSuccess[i] + lastInterval[i]
        BY <1>1, <3>1 DEF Cadence
      <3> QED
        BY <1>2, <1>3, <2>2, <3>1, <3>2
    <2> QED
      BY <2>1, <2>2
  <1>6. Cadence'
    BY <1>5 DEF Cadence
  <1>7. RunUpToDate' /\ NotEarly'
    BY <1>3 DEF RunUpToDate, NotEarly
  <1> QED
    BY <1>4, <1>6, <1>7

LEMMA SchedulerStep ==
  ASSUME SInv, [Next]_vars
  PROVE  SInv'
  <1> USE DEF SInv
  <1>1. TypeOK'
    BY SchedulerTypeStep
  <1>2. CASE Begin
    BY <1>1, <1>2, BeginInv
  <1>3. CASE LoadFails
    BY <1>1, <1>3 DEF LoadFails, maps, run, NoOrphans, Cadence, RunUpToDate, NotEarly
  <1>4. ASSUME NEW i \in Ids, BackUp(i)
        PROVE  SInv'
    BY <1>1, <1>4 DEF BackUp, maps, NoOrphans, Cadence, RunUpToDate, NotEarly
  <1>5. CASE Succeed
    BY <1>1, <1>5, SucceedInv
  <1>6. CASE RunFails
    BY <1>1, <1>6 DEF RunFails, NoOrphans, Cadence, RunUpToDate, NotEarly
  <1>7. CASE Tick
    BY <1>1, <1>7 DEF Tick, maps, run, NoOrphans, Cadence, RunUpToDate, NotEarly
  <1>8. ASSUME NEW c \in Configs, Edit(c)
        PROVE  SInv'
    BY <1>1, <1>8 DEF Edit, maps, run, NoOrphans, Cadence, RunUpToDate, NotEarly
  <1>9. CASE Restart
    BY <1>1, <1>9, NothingPartial DEF Restart, NoOrphans, Cadence, RunUpToDate, NotEarly
  <1>10. CASE UNCHANGED vars
    BY <1>1, <1>10 DEF vars, maps, run, NoOrphans, Cadence, RunUpToDate, NotEarly
  <1> QED
    BY <1>2, <1>3, <1>4, <1>5, <1>6, <1>7, <1>8, <1>9, <1>10 DEF Next, Work

LEMMA SchedulerInvariant == Spec => []SInv
  <1>1. Init => SInv
    BY NothingPartial DEF Init, SInv, TypeOK, NoOrphans, Cadence, RunUpToDate, NotEarly
  <1>2. SInv /\ [Next]_vars => SInv'
    BY SchedulerStep
  <1> QED
    BY <1>1, <1>2, PTL DEF Spec

\* Snapshot shows whatever the scheduler remembers, and a removed item is
\* forgotten as a whole.
THEOREM NoOrphansEver == Spec => []NoOrphans
  BY SchedulerInvariant, PTL DEF SInv

\* Items that have succeeded are planned by the interval last seen.
THEOREM CadenceKept == Spec => []Cadence
  BY SchedulerInvariant, PTL DEF SInv

\* No item that has succeeded is handed to RunBackup before its interval ends,
\* whatever is edited and whatever fails.
THEOREM NeverEarly == Spec => []NotEarly
  BY SchedulerInvariant, PTL DEF SInv

\* The first evaluation after an edit plans by the new interval.
THEOREM EditsTakeEffect == Spec => EditTakesEffect
  <1>1. ASSUME SInv, [Next]_vars
        PROVE  [Begin => \A i \in DOMAIN config \cap DOMAIN lastSuccess :
                            nextRun'[i] = lastSuccess[i] + config[i]]_vars
    <2>1. ASSUME Begin, NEW i \in DOMAIN config \cap DOMAIN lastSuccess
          PROVE  nextRun'[i] = lastSuccess[i] + config[i]
      BY <1>1, <2>1, BeginMaps, PlannedByInterval DEF SInv
    <2> QED
      BY <2>1
  <1> QED
    BY <1>1, SchedulerInvariant, PTL DEF Spec, EditTakesEffect

-----------------------------------------------------------------------------
(* Early repetitions show.                                                 *)

\* Item i has been backed up in the run at hand.
JustDone(i) == phase = "running" /\ i \in DOMAIN due \ left

\* What was done for item i is the run at hand's, or the scheduler knows it as the
\* last success, or it shows an error.
Recorded(i) ==
  /\ JustDone(i) => i \in DOMAIN lastDone /\ lastDone[i] = at
  /\ ~JustDone(i) /\ i \in DOMAIN lastDone =>
       i \in lastError \/ (i \in DOMAIN lastSuccess /\ lastDone[i] = lastSuccess[i])

RecordedInv == \A i \in Ids : Recorded(i)

LEMMA RecordedStep ==
  ASSUME SInv, RecordedInv, [Next]_vars, NEW i \in Ids
  PROVE  Recorded(i)'
  <1>1. Recorded(i) /\ TypeOK /\ TypeOK'
    BY SchedulerTypeStep DEF SInv, RecordedInv
  <1>2. CASE Begin
    <2>1. phase = "waiting" /\ lastDone' = Without(lastDone, Forgotten) /\ left' = DOMAIN due'
      BY <1>1, <1>2, BeginMaps DEF Begin
    <2>2. /\ DOMAIN lastSuccess' = DOMAIN lastSuccess \ Forgotten
          /\ \A j \in DOMAIN lastSuccess' : lastSuccess'[j] = lastSuccess[j]
          /\ lastError' = lastError \ Forgotten
      BY <1>1, <1>2, BeginMaps DEF Begin
    <2>3. /\ DOMAIN lastDone' = DOMAIN lastDone \ Forgotten
          /\ \A j \in DOMAIN lastDone' : lastDone'[j] = lastDone[j]
      BY <2>1 DEF Without
    <2> QED
      BY <1>1, <2>1, <2>2, <2>3 DEF Recorded, JustDone
  <1>3. ASSUME NEW j \in Ids, BackUp(j)
        PROVE  Recorded(i)'
    <2>1. /\ phase = "running" /\ phase' = "running" /\ j \in left /\ left' = left \ {j}
          /\ UNCHANGED <<due, at, lastSuccess, lastError>>
          /\ lastDone' = Update(lastDone, [k \in {j} |-> at])
      BY <1>3 DEF BackUp, IsFirst, maps
    <2>2. j \in DOMAIN due
      BY <1>1, <2>1 DEF TypeOK
    <2>3. CASE i = j
      <3>1. lastDone'[j] = at
        BY <2>1 DEF Update
      <3>2. i \in DOMAIN lastDone' /\ lastDone'[i] = at'
        BY <2>1, <2>3, <3>1 DEF Update
      <3>3. JustDone(i)'
        BY <2>1, <2>2, <2>3 DEF JustDone
      <3> QED
        BY <3>2, <3>3 DEF Recorded
    <2>4. CASE i # j
      <3>1. /\ i \in DOMAIN lastDone' <=> i \in DOMAIN lastDone
            /\ i \in DOMAIN lastDone => lastDone'[i] = lastDone[i]
        BY <2>1, <2>4 DEF Update
      <3> QED
        BY <1>1, <2>1, <2>4, <3>1 DEF Recorded, JustDone
    <2> QED
      BY <2>3, <2>4
  <1>4. CASE Succeed
    <2>1. /\ phase = "running" /\ phase' = "waiting" /\ left = {} /\ lastDone' = lastDone
          /\ lastError' = lastError \ DOMAIN due
      BY <1>4 DEF Succeed
    <2>2. /\ DOMAIN lastSuccess' = DOMAIN lastSuccess \cup DOMAIN due
          /\ \A j \in DOMAIN due : lastSuccess'[j] = at
          /\ \A j \in DOMAIN lastSuccess \ DOMAIN due : lastSuccess'[j] = lastSuccess[j]
      BY <1>1, <1>4, SucceedMaps
    <2>3. CASE i \in DOMAIN due
      BY <1>1, <2>1, <2>2, <2>3 DEF Recorded, JustDone
    <2>4. CASE i \notin DOMAIN due
      BY <1>1, <2>1, <2>2, <2>4 DEF Recorded, JustDone
    <2> QED
      BY <2>3, <2>4
  <1>5. CASE RunFails
    <2>1. /\ phase = "running" /\ phase' = "waiting" /\ lastError' = lastError \cup DOMAIN due
          /\ UNCHANGED <<lastDone, lastSuccess>>
      BY <1>5 DEF RunFails
    <2> QED
      BY <1>1, <2>1 DEF Recorded, JustDone
  <1>6. CASE Restart
    BY <1>6, NothingPartial DEF Restart, Recorded, JustDone
  <1>7. CASE LoadFails \/ Tick \/ (\E c \in Configs : Edit(c)) \/ UNCHANGED vars
    BY <1>1, <1>7 DEF LoadFails, Tick, Edit, vars, maps, run, Recorded, JustDone
  <1> QED
    BY <1>2, <1>3, <1>4, <1>5, <1>6, <1>7 DEF Next, Work

LEMMA RecordedInvariant == Spec => []RecordedInv
  <1>1. Init => RecordedInv
    BY DEF Init, RecordedInv, Recorded, JustDone, Nothing
  <1>2. SInv /\ RecordedInv /\ [Next]_vars => RecordedInv'
    BY RecordedStep DEF RecordedInv, Recorded, JustDone
  <1> QED
    BY <1>1, <1>2, SchedulerInvariant, PTL DEF Spec

\* Whatever fails, is edited or is restarted: an item that is backed up again
\* before its interval is over shows an error.
THEOREM EarlyAlwaysShowsError == Spec => EarlyShowsError
  <1>1. ASSUME SInv, RecordedInv, NEW i \in Ids, BackUp(i), i \in DOMAIN lastDone, lastDone[i] + due[i] > at
        PROVE  i \in lastError
    <2>1. phase = "running" /\ i \in left /\ i \in DOMAIN due
      BY <1>1 DEF BackUp, IsFirst, SInv, TypeOK
    <2>2. i \in lastError \/ (i \in DOMAIN lastSuccess /\ lastDone[i] = lastSuccess[i])
      BY <1>1, <2>1 DEF RecordedInv, Recorded, JustDone
    <2>3. CASE i \in DOMAIN lastSuccess /\ lastDone[i] = lastSuccess[i]
      <3>1. lastSuccess[i] + due[i] <= at
        BY <2>1, <2>3, <1>1 DEF SInv, NotEarly
      <3>2. lastSuccess[i] + due[i] \in Nat /\ at \in Nat
        BY <2>1, <2>3, <1>1 DEF SInv, TypeOK, Partial
      <3> QED
        BY <1>1, <2>3, <3>1, <3>2
    <2> QED
      BY <2>2, <2>3
  <1>2. SInv /\ RecordedInv =>
          [\A i \in Ids :
             BackUp(i) /\ i \in DOMAIN lastDone /\ lastDone[i] + due[i] > at => i \in lastError]_vars
    BY <1>1
  <1> QED
    BY <1>2, SchedulerInvariant, RecordedInvariant, PTL DEF EarlyShowsError
=============================================================================
