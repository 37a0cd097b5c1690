------------------------- MODULE BackupOrderProofs -------------------------
(***************************************************************************)
(* What BackupService guarantees of the order and the number of artifacts, *)
(* while no two workers share a staging directory or a subdirectory.       *)
(***************************************************************************)
EXTENDS BackupNamesProofs, FiniteSetTheorems, WellFoundedInduction

-----------------------------------------------------------------------------
(* The steps as one worker and as one subdirectory see them.               *)

\* The others' steps: users delete artifacts of this worker's subdirectory at most.
Waits(w) ==
  /\ pc'[w] = pc[w] /\ todo'[w] = todo[w] /\ local'[w] = local[w]
  /\ pc[w] # "idle" => /\ disk'[Dir(w)] \subseteq disk[Dir(w)]
                       /\ Dir(w) \notin Deletable => disk'[Dir(w)] = disk[Dir(w)]

LEMMA StepOfWorker ==
  ASSUME TypeOK, Exclusive, [Next]_vars, NEW w \in Workers
  PROVE  WorkerStep(w) \/ pc'[w] \in {"idle", "stage", "pick"} \/ Waits(w)
  <1>1. ASSUME NEW v \in Workers, Start(v) \/ WorkerStep(v)
        PROVE  WorkerStep(w) \/ pc'[w] \in {"idle", "stage", "pick"} \/ Waits(w)
    <2>1. CASE v # w
      BY <1>1, <2>1, Undisturbed DEF Waits
    <2>2. CASE v = w /\ Start(v)
      <3>1. pc'[w] \in {"idle", "stage", "pick"}
        BY <2>2 DEF Start, Goto, FirstStep, TypeOK
      <3> QED
        BY <3>1
    <2> QED
      BY <1>1, <2>1, <2>2
  <1>2. ASSUME UNCHANGED <<pc, todo, local, disk>>
        PROVE  Waits(w)
    BY <1>2 DEF Waits
  <1>3. ASSUME NEW d \in Deletable, NEW f \in disk[d], DeleteFile(d, f)
        PROVE  Waits(w)
    <2>1. \A e \in Dirs : disk'[e] \subseteq disk[e] /\ (e \notin Deletable => disk'[e] = disk[e])
      BY <1>3 DEF DeleteFile, TypeOK
    <2> QED
      BY <1>3, <2>1, CurType DEF DeleteFile, Waits
  <1>4. ASSUME NEW i \in Items, NEW c \in Contents, ContainerWrite(i, c)
        PROVE  Waits(w)
    BY <1>2, <1>4 DEF ContainerWrite
  <1>5. CASE Crash
    BY <1>5 DEF Crash
  <1>6. CASE Tick
    BY <1>2, <1>6 DEF Tick
  <1>7. CASE UNCHANGED vars
    BY <1>2, <1>7 DEF vars
  <1> QED
    BY <1>1, <1>3, <1>4, <1>5, <1>6, <1>7 DEF Next

\* Who changes a subdirectory: a download begins or ends in it, or files go.
LEMMA StepOfDirectory ==
  ASSUME TypeOK, [Next]_vars, NEW d \in Dirs
  PROVE  \/ \E w \in Workers : pc[w] # "idle" /\ Dir(w) = d /\ (Open(w) \/ Receive(w))
         \/ disk'[d] \subseteq disk[d]
  <1>1. ASSUME NEW v \in Workers, Open(v) \/ Receive(v) \/ RemoveVictim(v)
        PROVE  Dir(v) = d \/ disk'[d] = disk[d]
    BY <1>1 DEF Open, Receive, RemoveVictim, TypeOK
  <1>2. ASSUME NEW v \in Workers, RemoveVictim(v)
        PROVE  disk'[d] \subseteq disk[d]
    BY <1>2 DEF RemoveVictim, TypeOK
  <1>3. ASSUME NEW v \in Workers, Open(v) \/ Receive(v)
        PROVE  pc[v] # "idle"
    BY <1>3 DEF Open, Receive
  <1>4. ASSUME NEW w \in Workers,
               \/ Start(w) \/ StageBackup(w) \/ Copy(w) \/ Detect(w) \/ Digest(w) \/ Skip(w) \/ NameArtifact(w)
               \/ Archive(w) \/ Prune(w) \/ CleanBackup(w) \/ RestoreStep(w) \/ Fail(w)
        PROVE  disk' = disk
    BY <1>4 DEF Start, StageBackup, Copy, Detect, Digest, Skip, NameArtifact, Archive, Prune, CleanBackup,
      RestoreStep, Pick, Restage, Send, Extract, Inject, CleanRestore, Fail
  <1>5. ASSUME NEW v \in Workers, Start(v) \/ WorkerStep(v)
        PROVE  \/ \E w \in Workers : pc[w] # "idle" /\ Dir(w) = d /\ (Open(w) \/ Receive(w))
               \/ disk'[d] \subseteq disk[d]
    BY <1>1, <1>2, <1>3, <1>4, <1>5 DEF WorkerStep, BackupStep
  <1>6. ASSUME NEW e \in Deletable, NEW f \in disk[e], DeleteFile(e, f)
        PROVE  disk'[d] \subseteq disk[d]
    BY <1>6 DEF DeleteFile, TypeOK
  <1>7. CASE (\E i \in Items, c \in Contents : ContainerWrite(i, c)) \/ Crash \/ Tick \/ UNCHANGED vars
    BY <1>7 DEF ContainerWrite, Crash, Tick, vars
  <1> QED
    BY <1>5, <1>6, <1>7 DEF Next

LEMMA TimePasses ==
  ASSUME TypeOK, [Next]_vars
  PROVE  now' \in {now, now + 1}
  BY DEF Next, Start, WorkerStep, BackupStep, StageBackup, Copy, Detect, Digest, Skip, NameArtifact, Archive,
    Open, Receive, Prune, RemoveVictim, CleanBackup, RestoreStep, Pick, Restage, Send, Extract, Inject,
    CleanRestore, Fail, DeleteFile, ContainerWrite, Crash, Tick, vars

\* What Open and Receive make of the subdirectory.
LEMMA DownloadFiles ==
  ASSUME TypeOK, NEW w \in Workers, pc[w] # "idle", Open(w) \/ Receive(w)
  PROVE  /\ Dir(w) \in Dirs /\ disk[Dir(w)] \in SUBSET File
         /\ Open(w) => \E new \in File :
              /\ new.name = local[w].name /\ new.mtime = now /\ ~new.full
              /\ disk'[Dir(w)] = {g \in disk[Dir(w)] : g.name # new.name} \cup {new}
         /\ Receive(w) => disk'[Dir(w)] = {Written(w, f) : f \in disk[Dir(w)]}
         /\ \A f \in disk[Dir(w)] :
              Written(w, f) = f \/ (/\ Mine(w, f) /\ Written(w, f).full /\ Written(w, f).mtime = now
                                    /\ Written(w, f).name = f.name)
  <1>1. /\ Dir(w) \in Dirs /\ disk[Dir(w)] \in SUBSET File /\ disk \in [Dirs -> SUBSET File]
        /\ local[w] \in Locals /\ now \in Nat
    BY CurType DEF TypeOK
  <1>2. ASSUME Open(w)
        PROVE  \E new \in File :
                 /\ new.name = local[w].name /\ new.mtime = now /\ ~new.full
                 /\ disk'[Dir(w)] = {g \in disk[Dir(w)] : g.name # new.name} \cup {new}
    <2> DEFINE new == [name |-> local[w].name, data |-> Source(w), full |-> FALSE, mtime |-> now]
    <2>1. disk' = [disk EXCEPT ![Dir(w)] = Put(@, new)]
      BY <1>2 DEF Open
    <2>2. Source(w) \in Data
      <3>1. staging[Stg(w)] \in StagingDir /\ Source(w) # None
        BY <1>2, CurType DEF TypeOK, Open
      <3> QED
        BY <3>1, Numbers DEF Source, StagingDir, Data, None
    <2>3. new \in File
      BY <1>1, <2>2 DEF File, Locals
    <2>4. disk'[Dir(w)] = Put(disk[Dir(w)], new)
      BY <1>1, <2>1
    <2> QED
      BY <2>3, <2>4 DEF Put
  <1>3. ASSUME NEW f \in disk[Dir(w)], Mine(w, f)
        PROVE  Written(w, f).full /\ Written(w, f).mtime = now /\ Written(w, f).name = f.name
    BY <1>1, <1>3 DEF Written, File
  <1> QED
    BY <1>1, <1>2, <1>3 DEF Receive, Written

-----------------------------------------------------------------------------
(* Names and modification times order artifacts alike, where a name's      *)
(* second is not shared by two instants.                                   *)

\* What a run has named is later than all that is there.
Latest(w) ==
  /\ pc[w] \in {"archive", "open"} =>
       /\ local[w].name.sec <= now
       /\ \A f \in disk[Dir(w)] : f.name.sec < local[w].name.sec
  /\ pc[w] = "receive" =>
       \A f \in disk[Dir(w)] : f.name # local[w].name => f.name.sec < local[w].name.sec

Ordered(files) ==
  /\ \A f \in files : f.name.sec <= f.mtime
  /\ \A f, g \in files : f.mtime < g.mtime => f.name.sec < g.name.sec
  /\ \A f, g \in files : f.mtime = g.mtime => f = g

OrderInv ==
  /\ \A d \in Dirs : Ordered(disk[d])
  /\ \A w \in Workers : Latest(w)

LEMMA LatestWaits ==
  ASSUME TypeOK, NEW w \in Workers, Latest(w), Waits(w), now' \in {now, now + 1}
  PROVE  Latest(w)'
  <1>1. Dir(w)' = Dir(w)
    BY DEF Waits, Dir, Cur
  <1>2. CASE pc[w] = "idle"
    BY <1>2 DEF Waits, Latest
  <1>3. CASE pc[w] # "idle"
    <2>1. now \in Nat /\ local[w].name.sec \in Nat
      BY DEF TypeOK, Locals, Name
    <2> QED
      BY <1>1, <1>3, <2>1 DEF Waits, Latest
  <1> QED
    BY <1>2, <1>3

LEMMA LatestOwnStep ==
  ASSUME PerSecond = 1, TypeOK, FreshInv, OrderInv, NEW w \in Workers, WorkerStep(w)
  PROVE  Latest(w)'
  <1>1. /\ pc \in [Workers -> Steps \cup {"idle"}] /\ local \in [Workers -> Locals]
        /\ disk \in [Dirs -> SUBSET File] /\ now \in Nat /\ local[w] \in Locals
        /\ \A d \in Dirs : \A f \in disk[d] : f.mtime \in Nat /\ f.name.sec \in Nat
    BY DEF TypeOK, File, Name
  <1>2. ASSUME todo' = todo
        PROVE  Dir(w)' = Dir(w)
    BY <1>2 DEF Dir, Cur
  <1>3. CASE NameArtifact(w)
    <2>1. pc'[w] \in {"archive", "open"} /\ todo' = todo /\ disk' = disk /\ now' = now /\ Dir(w) \in Dirs
      BY <1>1, <1>3, CurType DEF NameArtifact, Goto
    <2>2. local'[w].name = BaseName(w)
      BY <1>1, <1>3 DEF NameArtifact, Locals
    <2>3. BaseName(w).sec = now
      BY <1>1 DEF BaseName
    <2>4. \A f \in disk[Dir(w)] : f.name.sec < now
      BY <1>1, <2>1 DEF FreshInv, OrderInv, Ordered
    <2> QED
      BY <1>1, <1>2, <2>1, <2>2, <2>3, <2>4 DEF Latest
  <1>4. CASE Archive(w)
    <2>1. pc[w] = "archive" /\ pc'[w] = "open" /\ UNCHANGED <<todo, disk, now, local>>
      BY <1>1, <1>4 DEF Archive, Goto
    <2> QED
      BY <1>2, <2>1 DEF OrderInv, Latest
  <1>5. CASE Open(w)
    <2>1. pc[w] = "open" /\ pc'[w] = "receive" /\ todo' = todo /\ local'[w].name = local[w].name
      BY <1>1, <1>5 DEF Open, Goto, Locals
    <2>2. \A f \in disk'[Dir(w)] : f.name # local[w].name => f \in disk[Dir(w)]
      BY <1>5, <2>1, DownloadFiles
    <2> QED
      BY <1>2, <2>1, <2>2 DEF OrderInv, Latest
  <1>6. CASE \/ StageBackup(w) \/ Copy(w) \/ Detect(w) \/ Digest(w) \/ Skip(w) \/ Receive(w) \/ Prune(w)
             \/ RemoveVictim(w)
    <2>1. pc'[w] \notin {"archive", "open", "receive"}
      BY <1>1, <1>6 DEF StageBackup, Copy, Detect, Digest, Skip, Receive, Prune, RemoveVictim, Goto
    <2> QED
      BY <2>1 DEF Latest
  <1>7. CASE CleanBackup(w) \/ RestoreStep(w) \/ Fail(w)
    <2>1. pc'[w] \notin {"archive", "open", "receive"}
      BY <1>1, <1>7 DEF CleanBackup, RestoreStep, Pick, Restage, Send, Extract, Inject, CleanRestore,
        Fail, EndRun, NextItem, Goto, FirstStep
    <2> QED
      BY <2>1 DEF Latest
  <1> QED
    BY <1>3, <1>4, <1>5, <1>6, <1>7 DEF WorkerStep, BackupStep

LEMMA OrderedStep ==
  ASSUME TypeOK, FreshInv, OrderInv, [Next]_vars, NEW d \in Dirs
  PROVE  Ordered(disk'[d])
  <1>1. /\ disk[d] \in SUBSET File /\ now \in Nat
        /\ \A f \in disk[d] : /\ f.mtime \in Nat /\ f.name.sec \in Nat /\ f.mtime < now
                              /\ \A g \in disk[d] : f.name = g.name => f = g
        /\ Ordered(disk[d])
    BY DEF TypeOK, File, Name, FreshInv, OrderInv
  <1>2. CASE disk'[d] \subseteq disk[d]
    BY <1>1, <1>2 DEF Ordered
  <1>3. ASSUME NEW w \in Workers, pc[w] # "idle", Dir(w) = d, Open(w)
        PROVE  Ordered(disk'[d])
    <2>1. PICK new \in File : /\ new.name = local[w].name /\ new.mtime = now
                              /\ disk'[d] = {g \in disk[d] : g.name # new.name} \cup {new}
      BY <1>3, DownloadFiles
    <2>2. new.name.sec <= now /\ \A f \in disk[d] : f.name.sec < new.name.sec
      BY <1>3, <2>1 DEF Open, OrderInv, Latest
    <2> QED
      BY <1>1, <2>1, <2>2 DEF Ordered
  <1>4. ASSUME NEW w \in Workers, pc[w] # "idle", Dir(w) = d, Receive(w)
        PROVE  Ordered(disk'[d])
    <2>1. /\ disk'[d] = {Written(w, f) : f \in disk[d]}
          /\ \A f \in disk[d] :
               \/ Written(w, f) = f
               \/ Mine(w, f) /\ Written(w, f).mtime = now /\ Written(w, f).name = f.name
      BY <1>4, DownloadFiles
    <2>2. \A f \in disk[d] : f.name # local[w].name => f.name.sec < local[w].name.sec
      BY <1>4 DEF Receive, OrderInv, Latest
    <2>3. \A f, g \in disk[d] : Mine(w, f) /\ g # f => g.name.sec < f.name.sec /\ ~Mine(w, g)
      BY <1>1, <2>2 DEF Mine
    <2>4. \A x \in disk[d] : Written(w, x).name.sec <= Written(w, x).mtime
      BY <1>1, <2>1 DEF Ordered
    <2>5. \A x, y \in disk[d] :
            /\ Written(w, x).mtime < Written(w, y).mtime => Written(w, x).name.sec < Written(w, y).name.sec
            /\ Written(w, x).mtime = Written(w, y).mtime => x = y
      BY <1>1, <2>1, <2>3 DEF Ordered
    <2> QED
      BY <2>1, <2>4, <2>5 DEF Ordered
  <1> QED
    BY <1>2, <1>3, <1>4, StepOfDirectory

LEMMA OrderInvariant == ASSUME Exclusive, PerSecond = 1 PROVE Spec => []OrderInv
  <1>1. Init => OrderInv
    BY DEF Init, OrderInv, Ordered, Latest
  <1>2. ASSUME TypeOK, FreshInv, OrderInv, [Next]_vars
        PROVE  OrderInv'
    <2>1. ASSUME NEW w \in Workers
          PROVE  Latest(w)'
      <3>1. CASE WorkerStep(w)
        BY <1>2, <3>1, LatestOwnStep
      <3>2. CASE pc'[w] \in {"idle", "stage", "pick"}
        BY <3>2 DEF Latest
      <3>3. CASE Waits(w)
        BY <1>2, <3>3, LatestWaits, TimePasses DEF OrderInv
      <3> QED
        BY <1>2, <3>1, <3>2, <3>3, StepOfWorker
    <2> QED
      BY <1>2, <2>1, OrderedStep DEF OrderInv, Ordered
  <1> QED
    BY <1>1, <1>2, TypeCorrect, FreshInvariant, PTL DEF Spec

\* While no two workers share a directory and no two instants share the second of
\* a name, the artifact that a restore picks is the one written last.
THEOREM RestoresNewest == ASSUME Exclusive, PerSecond = 1 PROVE Spec => RestoreNewest
  <1>1. TypeOK /\ OrderInv =>
          \A w \in Workers :
            Pick(w) => \E f \in disk[Dir(w)] :
                          /\ f.name = local'[w].name
                          /\ \A g \in disk[Dir(w)] : g.full => f.mtime >= g.mtime
    <2> SUFFICES ASSUME TypeOK, OrderInv, NEW w \in Workers, Pick(w)
                 PROVE  \E f \in disk[Dir(w)] :
                           /\ f.name = local'[w].name
                           /\ \A g \in disk[Dir(w)] : g.full => f.mtime >= g.mtime
      OBVIOUS
    <2>1. /\ Dir(w) \in Dirs /\ local \in [Workers -> Locals]
          /\ \A f \in disk[Dir(w)] : f.mtime \in Nat /\ f.name.sec \in Nat
      BY CurType DEF Pick, TypeOK, File, Name
    <2>2. PICK f \in disk[Dir(w)] : /\ IsLatest(f, disk[Dir(w)])
                                    /\ local' = [local EXCEPT ![w].name = f.name]
      BY DEF Pick
    <2>3. local'[w].name = f.name
      BY <2>1, <2>2 DEF Locals
    <2>4. ASSUME NEW g \in disk[Dir(w)], g # f
          PROVE  g.mtime <= f.mtime
      <3>1. g.name.sec <= f.name.sec
        BY <2>1, <2>2, <2>4 DEF IsLatest, NameLess
      <3> QED
        BY <2>1, <3>1 DEF OrderInv, Ordered
    <2> QED
      BY <2>1, <2>3, <2>4
  <1> QED
    BY <1>1, TypeCorrect, OrderInvariant, PTL DEF RestoreNewest

-----------------------------------------------------------------------------
(* What pruning leaves behind.                                             *)

\* The artifact of the run at hand is there, and when it is pruned for it is
\* complete and newer than all others.
Kept(w) ==
  Dir(w) \notin Deletable =>
    /\ pc[w] = "receive" => \E f \in disk[Dir(w)] : Mine(w, f)
    /\ pc[w] \in {"prune", "remove"} =>
         \E f \in disk[Dir(w)] : /\ f.full /\ f.name = local[w].name
                                 /\ \A g \in disk[Dir(w)] \ {f} : g.mtime < f.mtime

KeptInv == \A w \in Workers : Kept(w)

LEMMA KeptWaits ==
  ASSUME NEW w \in Workers, Kept(w), Waits(w)
  PROVE  Kept(w)'
  <1>1. Dir(w)' = Dir(w)
    BY DEF Waits, Dir, Cur
  <1>2. CASE pc[w] = "idle"
    BY <1>2 DEF Waits, Kept
  <1>3. CASE pc[w] # "idle"
    BY <1>1, <1>3 DEF Waits, Kept, Mine
  <1> QED
    BY <1>2, <1>3

LEMMA KeptOwnStep ==
  ASSUME TypeOK, FreshInv, KeptInv, NEW w \in Workers, WorkerStep(w)
  PROVE  Kept(w)'
  <1>1. /\ pc \in [Workers -> Steps \cup {"idle"}] /\ local \in [Workers -> Locals]
        /\ disk \in [Dirs -> SUBSET File] /\ now \in Nat /\ local[w] \in Locals
        /\ \A d \in Dirs : \A f \in disk[d] : f.mtime \in Nat /\ f.mtime < now
        /\ \A d \in Dirs : \A f, g \in disk[d] : f.name = g.name => f = g
    BY DEF TypeOK, File, FreshInv
  <1>2. ASSUME todo' = todo
        PROVE  Dir(w)' = Dir(w)
    BY <1>2 DEF Dir, Cur
  <1>3. CASE Open(w)
    <2>1. pc[w] # "idle" /\ pc'[w] = "receive" /\ todo' = todo
      BY <1>1, <1>3 DEF Open, Goto
    <2>2. local'[w].name = local[w].name /\ local'[w].at = now
      BY <1>1, <1>3 DEF Open, Locals
    <2>3. \E f \in disk'[Dir(w)] : ~f.full /\ f.name = local[w].name /\ f.mtime = now
      BY <1>3, <2>1, DownloadFiles
    <2> QED
      BY <1>2, <2>1, <2>2, <2>3 DEF Kept, Mine
  <1>4. CASE Receive(w)
    <2>1. /\ pc[w] = "receive" /\ pc'[w] = "prune" /\ todo' = todo /\ local' = local /\ Dir(w) \in Dirs
      BY <1>1, <1>4, CurType DEF Receive, Goto
    <2>2. SUFFICES ASSUME Dir(w) \notin Deletable
                   PROVE  \E f \in disk'[Dir(w)] : /\ f.full /\ f.name = local[w].name
                                                   /\ \A g \in disk'[Dir(w)] \ {f} : g.mtime < f.mtime
      BY <1>2, <2>1 DEF Kept
    <2>3. PICK x \in disk[Dir(w)] : Mine(w, x)
      BY <2>1, <2>2 DEF KeptInv, Kept
    <2>4. disk'[Dir(w)] = {Written(w, f) : f \in disk[Dir(w)]}
      BY <1>4, <2>1, DownloadFiles
    <2>5. Mine(w, x) /\ x \in File /\ x.name = local[w].name
      BY <1>1, <2>1, <2>3 DEF Mine
    <2>6. Written(w, x) = [x EXCEPT !.full = TRUE, !.mtime = now]
      BY <2>5 DEF Written
    <2>7. Written(w, x).full /\ Written(w, x).mtime = now /\ Written(w, x).name = local[w].name
      BY <2>5, <2>6 DEF File
    <2>8. \A y \in disk[Dir(w)] : y # x => Written(w, y) = y
      BY <1>1, <2>1, <2>3 DEF Written, Mine
    <2> QED
      BY <1>1, <2>1, <2>4, <2>8, <2>7
  <1>5. CASE Prune(w)
    <2>1. pc[w] = "prune" /\ pc'[w] \in {"clean", "remove"} /\ todo' = todo /\ disk' = disk
      BY <1>1, <1>5 DEF Prune, Goto
    <2>2. local'[w].name = local[w].name
      BY <1>1, <1>5 DEF Prune, Locals
    <2> QED
      BY <1>2, <2>1, <2>2 DEF KeptInv, Kept
  <1>6. CASE RemoveVictim(w)
    <2>1. pc[w] = "remove" /\ pc'[w] \in {"clean", "remove"} /\ todo' = todo /\ Dir(w) \in Dirs
      BY <1>1, <1>6, CurType DEF RemoveVictim, Goto
    <2>2. local'[w].name = local[w].name
      BY <1>1, <1>6 DEF RemoveVictim, Locals
    <2>3. PICK v \in local[w].victims : disk'[Dir(w)] = {f \in disk[Dir(w)] : f.name # v.name}
      BY <1>1, <1>6, <2>1 DEF RemoveVictim
    <2>4. v.name # local[w].name
      BY <2>1, <2>3 DEF FreshInv, Fresh
    <2> QED
      BY <1>2, <2>1, <2>2, <2>3, <2>4 DEF KeptInv, Kept
  <1>7. CASE StageBackup(w) \/ Copy(w) \/ Detect(w) \/ Digest(w) \/ Skip(w) \/ NameArtifact(w) \/ Archive(w)
    <2>1. pc'[w] \notin {"receive", "prune", "remove"}
      BY <1>1, <1>7 DEF StageBackup, Copy, Detect, Digest, Skip, NameArtifact, Archive, Goto
    <2> QED
      BY <2>1 DEF Kept
  <1>8. CASE CleanBackup(w) \/ RestoreStep(w) \/ Fail(w)
    <2>1. pc'[w] \notin {"receive", "prune", "remove"}
      BY <1>1, <1>8 DEF CleanBackup, RestoreStep, Pick, Restage, Send, Extract, Inject, CleanRestore,
        Fail, EndRun, NextItem, Goto, FirstStep
    <2> QED
      BY <2>1 DEF Kept
  <1> QED
    BY <1>3, <1>4, <1>5, <1>6, <1>7, <1>8 DEF WorkerStep, BackupStep

LEMMA KeptInvariant == ASSUME Exclusive PROVE Spec => []KeptInv
  <1>1. Init => KeptInv
    BY DEF Init, KeptInv, Kept
  <1>2. ASSUME TypeOK, FreshInv, KeptInv, [Next]_vars
        PROVE  KeptInv'
    <2>1. ASSUME NEW w \in Workers
          PROVE  Kept(w)'
      <3>1. CASE WorkerStep(w)
        BY <1>2, <3>1, KeptOwnStep
      <3>2. CASE pc'[w] \in {"idle", "stage", "pick"}
        BY <3>2 DEF Kept
      <3>3. CASE Waits(w)
        BY <1>2, <3>3, KeptWaits DEF KeptInv
      <3> QED
        BY <1>2, <3>1, <3>2, <3>3, StepOfWorker
    <2> QED
      BY <2>1 DEF KeptInv
  <1> QED
    BY <1>1, <1>2, TypeCorrect, FreshInvariant, PTL DEF Spec

\* Where users delete nothing, files go only when a run removes them.
LEMMA StepOfKeptDirectory ==
  ASSUME TypeOK, [Next]_vars, NEW d \in Dirs \ Deletable
  PROVE  \/ \E w \in Workers : pc[w] # "idle" /\ Dir(w) = d /\ (Open(w) \/ Receive(w) \/ RemoveVictim(w))
         \/ disk'[d] = disk[d]
  <1>1. ASSUME NEW w \in Workers, Open(w) \/ Receive(w) \/ RemoveVictim(w)
        PROVE  pc[w] # "idle" /\ (Dir(w) = d \/ disk'[d] = disk[d])
    BY <1>1 DEF Open, Receive, RemoveVictim, TypeOK
  <1>2. ASSUME NEW w \in Workers,
               \/ Start(w) \/ StageBackup(w) \/ Copy(w) \/ Detect(w) \/ Digest(w) \/ Skip(w) \/ NameArtifact(w)
               \/ Archive(w) \/ Prune(w) \/ CleanBackup(w) \/ RestoreStep(w) \/ Fail(w)
        PROVE  disk' = disk
    BY <1>2 DEF Start, StageBackup, Copy, Detect, Digest, Skip, NameArtifact, Archive, Prune, CleanBackup,
      RestoreStep, Pick, Restage, Send, Extract, Inject, CleanRestore, Fail
  <1>3. ASSUME NEW e \in Deletable, NEW f \in disk[e], DeleteFile(e, f)
        PROVE  disk'[d] = disk[d]
    BY <1>3 DEF DeleteFile, TypeOK
  <1>4. CASE (\E i \in Items, c \in Contents : ContainerWrite(i, c)) \/ Crash \/ Tick \/ UNCHANGED vars
    BY <1>4 DEF ContainerWrite, Crash, Tick, vars
  <1> QED
    BY <1>1, <1>2, <1>3, <1>4 DEF Next, WorkerStep, BackupStep

\* While no two workers share a directory and no two instants share the second of
\* a name, a complete artifact that no user deletes goes away only while a newer
\* complete one is there.
THEOREM OlderArePruned == ASSUME Exclusive, PerSecond = 1 PROVE Spec => OnlyOlderPruned
  <1> DEFINE A == \A d \in Dirs \ Deletable : \A f \in disk[d] :
                    f.full /\ f \notin disk'[d] => \E g \in disk'[d] : g.full /\ g.mtime > f.mtime
  <1>1. ASSUME TypeOK, FreshInv, OrderInv, KeptInv, [Next]_vars
        PROVE  A
    <2> SUFFICES ASSUME NEW d \in Dirs \ Deletable, NEW x \in disk[d], x.full, x \notin disk'[d]
                 PROVE  \E g \in disk'[d] : g.full /\ g.mtime > x.mtime
      OBVIOUS
    <2>1. PICK w \in Workers : pc[w] # "idle" /\ Dir(w) = d /\ (Open(w) \/ Receive(w) \/ RemoveVictim(w))
      BY <1>1, StepOfKeptDirectory
    <2>2. /\ \A f \in disk[d] : f.mtime \in Nat /\ f.name.sec \in Nat
          /\ local[w] \in Locals /\ disk \in [Dirs -> SUBSET File]
      BY <1>1 DEF TypeOK, File, Name
    <2>3. CASE Open(w)
      <3>1. x.name = local[w].name
        BY <1>1, <2>1, <2>3, DownloadFiles
      <3>2. x.name.sec < local[w].name.sec
        BY <1>1, <2>1, <2>3 DEF Open, OrderInv, Latest
      <3> QED
        BY <2>2, <3>1, <3>2
    <2>4. CASE Receive(w)
      BY <1>1, <2>1, <2>4, DownloadFiles DEF Mine
    <2>5. CASE RemoveVictim(w)
      <3>1. PICK f \in disk[d] : /\ f.full /\ f.name = local[w].name
                                 /\ \A g \in disk[d] \ {f} : g.mtime < f.mtime
        BY <1>1, <2>1, <2>5 DEF RemoveVictim, KeptInv, Kept
      <3>2. PICK v \in local[w].victims : disk'[d] = {g \in disk[d] : g.name # v.name}
        BY <2>1, <2>2, <2>5 DEF RemoveVictim
      <3>3. v.name # local[w].name
        BY <1>1, <2>5, <3>2 DEF RemoveVictim, FreshInv, Fresh
      <3>4. f \in disk'[d] /\ x # f
        BY <3>1, <3>2, <3>3
      <3> QED
        BY <2>2, <3>1, <3>4
    <2> QED
      BY <2>1, <2>3, <2>4, <2>5
  <1> QED
    BY <1>1, TypeCorrect, FreshInvariant, OrderInvariant, KeptInvariant, PTL DEF Spec, OnlyOlderPruned
-----------------------------------------------------------------------------
(* How many artifacts pruning leaves.                                      *)

LEMMA LeastNumber ==
  ASSUME NEW S \in SUBSET Nat, S # {}
  PROVE  \E n \in S : \A m \in S : n <= m
  <1> DEFINE Less == {p \in Nat \X Nat : p[1] < p[2]}
  <1>1. IsWellFoundedOn(Less, Nat)
    BY NatLessThanWellFounded DEF OpToRel
  <1>2. PICK n \in S : \A m \in S : ~(<<m, n>> \in Less)
    <2> HIDE DEF Less
    <2> QED
      BY <1>1, WFMin
  <1>3. \A m \in S : ~(m < n)
    BY <1>2
  <1> QED
    BY <1>3

\* Apart in time, so that all but the victims number at most max.
Timed(files) == \A f, g \in files : f.mtime = g.mtime => f = g

LEMMA FewAreKept ==
  ASSUME NEW files \in SUBSET File, IsFiniteSet(files), Timed(files), NEW max \in Nat \ {0}
  PROVE  Cardinality(files \ Victims(files, max)) <= max
  <1> DEFINE kept == files \ Victims(files, max)
  <1> DEFINE newer(f) == {g \in files : Older(f, g)}
  <1>1. \A f \in kept : ~(Cardinality(newer(f)) >= max)
    BY DEF Victims
  <1>2. CASE kept = {}
    BY <1>2, FS_EmptySet
  <1>3. CASE kept # {}
    <2>1. PICK f \in kept : \A g \in kept : f.mtime <= g.mtime
      <3> DEFINE times == {g.mtime : g \in kept}
      <3>1. times \in SUBSET Nat /\ times # {}
        BY <1>3 DEF File
      <3>2. PICK n \in times : \A m \in times : n <= m
        <4> HIDE DEF times
        <4> QED
          BY <3>1, LeastNumber
      <3> QED
        BY <3>2
    <2>2. kept \ {f} \subseteq newer(f)
      <3> SUFFICES ASSUME NEW g \in kept, g # f
                   PROVE  Older(f, g)
        OBVIOUS
      <3>1. f.mtime # g.mtime /\ f.mtime <= g.mtime /\ f.mtime \in Nat /\ g.mtime \in Nat
        BY <2>1 DEF Timed, File
      <3> QED
        BY <3>1 DEF Older
    <2>3. /\ IsFiniteSet(newer(f)) /\ IsFiniteSet(kept) /\ Cardinality(newer(f)) \in Nat
          /\ Cardinality(kept) \in Nat
      <3>1. newer(f) \in SUBSET files /\ kept \in SUBSET files
        OBVIOUS
      <3> HIDE DEF newer, kept
      <3> QED
        BY <3>1, FS_Subset, FS_CardinalityType
    <2>4. Cardinality(kept \ {f}) <= Cardinality(newer(f))
      <3> HIDE DEF newer, kept
      <3> QED
        BY <2>2, <2>3, FS_Subset
    <2>5. Cardinality(kept \ {f}) = Cardinality(kept) - 1
      <3> HIDE DEF newer, kept
      <3> QED
        BY <2>1, <2>3, FS_RemoveElement
    <2>6. Cardinality(newer(f)) < max
      <3>1. ~(Cardinality(newer(f)) >= max)
        BY <1>1, <2>1
      <3> HIDE DEF newer
      <3> QED
        BY <3>1, <2>3
    <2> HIDE DEF newer, kept
    <2>7. Cardinality(kept) <= max
      BY <2>3, <2>4, <2>5, <2>6
    <2> QED
      BY <2>7 DEF kept
  <1> QED
    BY <1>2, <1>3

\* What is still to be removed is all that is too many.
Retained(w) ==
  /\ pc[w] = "remove" => Cardinality(disk[Dir(w)] \ local[w].victims) <= Keep(w)
  /\ pc[w] = "clean" /\ Keep(w) > 0 => Cardinality(disk[Dir(w)]) <= Keep(w)

RetainInv ==
  /\ \A d \in Dirs : IsFiniteSet(disk[d]) /\ Timed(disk[d])
  /\ \A w \in Workers : Retained(w)

LEMMA FewerFiles ==
  ASSUME NEW S, IsFiniteSet(S), NEW T \in SUBSET S, NEW max \in Nat, Cardinality(S) <= max
  PROVE  Cardinality(T) <= max
  <1>1. Cardinality(T) <= Cardinality(S) /\ Cardinality(S) \in Nat /\ Cardinality(T) \in Nat
    BY FS_Subset, FS_CardinalityType
  <1> QED
    BY <1>1

LEMMA TimedStep ==
  ASSUME TypeOK, FreshInv, [Next]_vars, NEW d \in Dirs, IsFiniteSet(disk[d]), Timed(disk[d])
  PROVE  IsFiniteSet(disk'[d]) /\ Timed(disk'[d])
  <1>1. /\ disk[d] \in SUBSET File /\ now \in Nat
        /\ \A f \in disk[d] : f.mtime \in Nat /\ f.mtime < now
        /\ \A f, g \in disk[d] : f.name = g.name => f = g
    BY DEF TypeOK, File, FreshInv
  <1>2. CASE disk'[d] \subseteq disk[d]
    BY <1>2, FS_Subset DEF Timed
  <1>3. ASSUME NEW x, disk'[d] \subseteq disk[d] \cup {x}, x.mtime = now
        PROVE  IsFiniteSet(disk'[d]) /\ Timed(disk'[d])
    <2>1. IsFiniteSet(disk[d] \cup {x})
      BY FS_AddElement
    <2>2. IsFiniteSet(disk'[d])
      BY <1>3, <2>1, FS_Subset
    <2>3. Timed(disk'[d])
      BY <1>1, <1>3 DEF Timed
    <2> QED
      BY <2>2, <2>3
  <1>4. ASSUME NEW w \in Workers, pc[w] # "idle", Dir(w) = d, Open(w)
        PROVE  IsFiniteSet(disk'[d]) /\ Timed(disk'[d])
    <2>1. PICK new \in File : /\ new.mtime = now
                              /\ disk'[d] = {g \in disk[d] : g.name # new.name} \cup {new}
      BY <1>4, DownloadFiles
    <2> QED
      BY <1>3, <2>1
  <1>5. ASSUME NEW w \in Workers, pc[w] # "idle", Dir(w) = d, Receive(w)
        PROVE  IsFiniteSet(disk'[d]) /\ Timed(disk'[d])
    <2>1. /\ disk'[d] = {Written(w, f) : f \in disk[d]}
          /\ \A f \in disk[d] : Written(w, f) = f \/ (Mine(w, f) /\ Written(w, f).mtime = now)
      BY <1>5, DownloadFiles
    <2>2. CASE \A f \in disk[d] : Written(w, f) = f
      BY <1>2, <2>1, <2>2
    <2>3. CASE \E f \in disk[d] : Written(w, f) # f
      <3>1. PICK x \in disk[d] : Written(w, x) # x
        BY <2>3
      <3>2. \A f \in disk[d] : f # x => Written(w, f) = f
        BY <1>1, <2>1, <3>1 DEF Mine
      <3>3. disk'[d] \subseteq disk[d] \cup {Written(w, x)} /\ Written(w, x).mtime = now
        BY <2>1, <3>1, <3>2
      <3> QED
        BY <1>3, <3>3
    <2> QED
      BY <2>2, <2>3
  <1> QED
    BY <1>2, <1>4, <1>5, StepOfDirectory

LEMMA RetainedWaits ==
  ASSUME TypeOK, RetainInv, NEW w \in Workers, Waits(w)
  PROVE  Retained(w)'
  <1>1. Dir(w)' = Dir(w) /\ Keep(w)' = Keep(w)
    BY DEF Waits, Dir, Keep, Cur
  <1>2. CASE pc[w] = "idle"
    BY <1>2 DEF Waits, Retained
  <1>3. CASE pc[w] # "idle"
    <2>1. /\ Dir(w) \in Dirs /\ Keep(w) \in Nat /\ IsFiniteSet(disk[Dir(w)])
          /\ disk'[Dir(w)] \subseteq disk[Dir(w)]
      BY <1>3, CurType DEF Waits, RetainInv
    <2>2. IsFiniteSet(disk[Dir(w)] \ local[w].victims)
      BY <2>1, FS_Subset
    <2>3. ASSUME pc[w] = "remove"
          PROVE  Cardinality(disk'[Dir(w)] \ local[w].victims) <= Keep(w)
      BY <2>1, <2>2, <2>3, FewerFiles DEF RetainInv, Retained
    <2>4. ASSUME pc[w] = "clean", Keep(w) > 0
          PROVE  Cardinality(disk'[Dir(w)]) <= Keep(w)
      BY <2>1, <2>4, FewerFiles DEF RetainInv, Retained
    <2> QED
      BY <1>1, <2>3, <2>4 DEF Waits, Retained
  <1> QED
    BY <1>2, <1>3

LEMMA RetainedOwnStep ==
  ASSUME TypeOK, RetainInv, NEW w \in Workers, WorkerStep(w)
  PROVE  Retained(w)'
  <1>1. /\ pc \in [Workers -> Steps \cup {"idle"}] /\ local \in [Workers -> Locals]
        /\ disk \in [Dirs -> SUBSET File]
    BY DEF TypeOK
  <1>2. ASSUME todo' = todo
        PROVE  Dir(w)' = Dir(w) /\ Keep(w)' = Keep(w)
    BY <1>2 DEF Dir, Keep, Cur
  <1>3. ASSUME pc[w] # "idle"
        PROVE  Dir(w) \in Dirs /\ Keep(w) \in Nat /\ IsFiniteSet(disk[Dir(w)]) /\ Timed(disk[Dir(w)])
    BY <1>3, CurType DEF RetainInv
  <1>4. CASE Prune(w)
    <2>1. /\ pc[w] = "prune" /\ todo' = todo /\ disk' = disk
          /\ local'[w].victims = Victims(disk[Dir(w)], Keep(w))
          /\ pc'[w] = IF Victims(disk[Dir(w)], Keep(w)) = {} THEN "clean" ELSE "remove"
      BY <1>1, <1>4 DEF Prune, Goto, Locals
    <2>2. ASSUME Keep(w) > 0
          PROVE  Cardinality(disk[Dir(w)] \ Victims(disk[Dir(w)], Keep(w))) <= Keep(w)
      BY <1>1, <1>3, <2>1, <2>2, FewAreKept
    <2>3. CASE Victims(disk[Dir(w)], Keep(w)) = {}
      BY <1>2, <2>1, <2>2, <2>3 DEF Retained
    <2>4. CASE Victims(disk[Dir(w)], Keep(w)) # {}
      <3>1. Keep(w) # 0
        BY <2>4 DEF Victims
      <3>2. Keep(w) > 0
        BY <1>3, <2>1, <3>1
      <3> QED
        BY <1>2, <2>1, <2>2, <2>4, <3>2 DEF Retained
    <2> QED
      BY <2>3, <2>4
  <1>5. CASE RemoveVictim(w)
    <2>1. pc[w] = "remove" /\ todo' = todo
      BY <1>5 DEF RemoveVictim
    <2>2. PICK v \in local[w].victims :
            /\ disk' = [disk EXCEPT ![Dir(w)] = {f \in @ : f.name # v.name}]
            /\ local' = [local EXCEPT ![w].victims = @ \ {v}]
            /\ Goto(w, IF local[w].victims = {v} THEN "clean" ELSE "remove")
      BY <1>5 DEF RemoveVictim
    <2>3. /\ disk'[Dir(w)] = {f \in disk[Dir(w)] : f.name # v.name}
          /\ local'[w].victims = local[w].victims \ {v}
          /\ pc'[w] = IF local[w].victims = {v} THEN "clean" ELSE "remove"
      BY <1>1, <1>3, <2>1, <2>2 DEF Goto, Locals
    <2>4. disk'[Dir(w)] \ local'[w].victims \subseteq disk[Dir(w)] \ local[w].victims
      BY <2>3
    <2>5. IsFiniteSet(disk[Dir(w)] \ local[w].victims)
      BY <1>3, <2>1, FS_Subset
    <2>6. Cardinality(disk'[Dir(w)] \ local'[w].victims) <= Keep(w)
      BY <1>3, <2>1, <2>4, <2>5, FewerFiles DEF RetainInv, Retained
    <2>7. pc'[w] = "clean" => local'[w].victims = {}
      BY <2>3
    <2> QED
      BY <1>2, <2>1, <2>3, <2>6, <2>7 DEF Retained
  <1>6. CASE \/ StageBackup(w) \/ Copy(w) \/ Detect(w) \/ Digest(w) \/ Skip(w) \/ NameArtifact(w)
             \/ Archive(w) \/ Open(w) \/ Receive(w)
    <2>1. pc'[w] \notin {"remove", "clean"}
      BY <1>1, <1>6 DEF StageBackup, Copy, Detect, Digest, Skip, NameArtifact, Archive, Open, Receive, Goto
    <2> QED
      BY <2>1 DEF Retained
  <1>7. CASE CleanBackup(w) \/ RestoreStep(w) \/ Fail(w)
    <2>1. pc'[w] \notin {"remove", "clean"}
      BY <1>1, <1>7 DEF CleanBackup, RestoreStep, Pick, Restage, Send, Extract, Inject, CleanRestore,
        Fail, EndRun, NextItem, Goto, FirstStep
    <2> QED
      BY <2>1 DEF Retained
  <1> QED
    BY <1>4, <1>5, <1>6, <1>7 DEF WorkerStep, BackupStep

LEMMA RetainInvariant == ASSUME Exclusive PROVE Spec => []RetainInv
  <1>1. Init => RetainInv
    BY FS_EmptySet DEF Init, RetainInv, Retained, Timed
  <1>2. ASSUME TypeOK, FreshInv, RetainInv, [Next]_vars
        PROVE  RetainInv'
    <2>1. ASSUME NEW d \in Dirs
          PROVE  (IsFiniteSet(disk[d]) /\ Timed(disk[d]))'
      BY <1>2, <2>1, TimedStep DEF RetainInv
    <2>2. ASSUME NEW w \in Workers
          PROVE  Retained(w)'
      <3>1. CASE WorkerStep(w)
        BY <1>2, <3>1, RetainedOwnStep
      <3>2. CASE pc'[w] \in {"idle", "stage", "pick"}
        BY <3>2 DEF Retained
      <3>3. CASE Waits(w)
        BY <1>2, <3>3, RetainedWaits
      <3> QED
        BY <1>2, <3>1, <3>2, <3>3, StepOfWorker
    <2> QED
      BY <2>1, <2>2 DEF RetainInv
  <1> QED
    BY <1>1, <1>2, TypeCorrect, FreshInvariant, PTL DEF Spec

\* While no two workers share a directory, a run of an item ends with at most
\* maxBackups files in its subdirectory, however often users delete some.
THEOREM RetentionKept == ASSUME Exclusive PROVE Spec => []RetentionHolds
  <1>1. RetainInv => RetentionHolds
    BY DEF RetainInv, Retained, RetentionHolds
  <1> QED
    BY <1>1, RetainInvariant, PTL

-----------------------------------------------------------------------------
(* What a skip relies on: where downloads complete, every artifact that no *)
(* worker is writing is complete.                                          *)

\* No download is cut short, neither by a fault nor by the end of the process.
DownloadsComplete == Faults \cap {"receive", "crash"} = {}

Receiving(w, d, f) == pc[w] = "receive" /\ Dir(w) = d /\ f.name = local[w].name

WholeInv ==
  /\ \A w \in Workers : pc[w] = "receive" => Readable(w)
  /\ \A d \in Dirs : \A f \in disk[d] : f.full \/ \E w \in Workers : Receiving(w, d, f)

\* A download under way stays so, or its last byte arrives.
LEMMA ReceiverStays ==
  ASSUME TypeOK, DownloadsComplete, [Next]_vars,
         NEW w \in Workers, pc[w] = "receive", Readable(w)
  PROVE  Receive(w) \/ (pc'[w] = pc[w] /\ todo'[w] = todo[w] /\ local'[w] = local[w])
  <1>1. ASSUME NEW v \in Workers, Start(v) \/ WorkerStep(v)
        PROVE  Receive(w) \/ (pc'[w] = pc[w] /\ todo'[w] = todo[w] /\ local'[w] = local[w])
    <2>1. CASE v # w
      BY <1>1, <2>1, OthersKeepState
    <2>2. CASE v = w
      <3>1. ~Start(w) /\ ~Fail(w)
        BY DEF Start, Fail, Broken, DownloadsComplete
      <3>2. WorkerStep(w)
        BY <1>1, <2>2, <3>1
      <3> QED
        BY <3>1, <3>2 DEF WorkerStep, BackupStep, RestoreStep, StageBackup, Copy, Detect, Digest, Skip,
          NameArtifact, Archive, Open, Prune, RemoveVictim, CleanBackup, Pick, Restage, Send, Extract,
          Inject, CleanRestore
    <2> QED
      BY <2>1, <2>2
  <1>2. ~Crash
    BY DEF Crash, DownloadsComplete
  <1>3. CASE \/ \E d \in Deletable : \E f \in disk[d] : DeleteFile(d, f)
             \/ \E i \in Items, c \in Contents : ContainerWrite(i, c)
             \/ Tick \/ UNCHANGED vars
    BY <1>3 DEF DeleteFile, ContainerWrite, Tick, vars
  <1> QED
    BY <1>1, <1>2, <1>3 DEF Next

\* Only a staged payload of the item's kind is downloaded.
LEMMA ReadableStep ==
  ASSUME TypeOK, Exclusive, NamesInv, WholeInv, [Next]_vars, NEW w \in Workers, pc'[w] = "receive"
  PROVE  Readable(w)'
  <1>1. /\ pc \in [Workers -> Steps \cup {"idle"}] /\ local \in [Workers -> Locals]
        /\ local[w] \in Locals
    BY DEF TypeOK
  <1>2. CASE Waits(w)
    BY <1>2 DEF Waits, WholeInv, Readable, Cur
  <1>3. CASE Open(w)
    <2>1. local[w].isDir = (Cur(w) \in DirItems)
      BY <1>3 DEF Open, NamesInv, Staged
    <2>2. local'[w].isDir = local[w].isDir /\ Cur(w)' = Cur(w)
      BY <1>1, <1>3 DEF Open, Locals, Cur
    <2> QED
      BY <2>1, <2>2 DEF Readable
  <1>4. CASE \/ StageBackup(w) \/ Copy(w) \/ Detect(w) \/ Digest(w) \/ Skip(w) \/ NameArtifact(w)
             \/ Archive(w) \/ Receive(w) \/ Prune(w) \/ RemoveVictim(w)
    BY <1>1, <1>4 DEF StageBackup, Copy, Detect, Digest, Skip, NameArtifact, Archive, Receive, Prune,
      RemoveVictim, Goto
  <1>5. CASE CleanBackup(w) \/ RestoreStep(w) \/ Fail(w)
    BY <1>1, <1>5 DEF CleanBackup, RestoreStep, Pick, Restage, Send, Extract, Inject, CleanRestore,
      Fail, EndRun, NextItem, Goto, FirstStep
  <1> QED
    BY <1>2, <1>3, <1>4, <1>5, StepOfWorker DEF WorkerStep, BackupStep

LEMMA WholeStep ==
  ASSUME TypeOK, Exclusive, DownloadsComplete, NamesInv, FreshInv, WholeInv, [Next]_vars
  PROVE  WholeInv'
  <1>1. ASSUME NEW d \in Dirs, NEW f \in disk'[d], ~f.full
        PROVE  \E w \in Workers : Receiving(w, d, f)'
    <2>1. ASSUME NEW w \in Workers, Receiving(w, d, f), ~Receive(w)
          PROVE  Receiving(w, d, f)'
      <3>1. pc'[w] = pc[w] /\ todo'[w] = todo[w] /\ local'[w] = local[w]
        BY <2>1, ReceiverStays DEF Receiving, WholeInv
      <3> QED
        BY <2>1, <3>1 DEF Receiving, Dir, Cur
    <2>2. ASSUME NEW v \in Workers, NEW w \in Workers, v # w, pc[v] # "idle", pc[w] # "idle"
          PROVE  Dir(v) # Dir(w)
      BY <2>2, Apart
    <2>3. CASE \E w \in Workers : pc[w] # "idle" /\ Dir(w) = d /\ Open(w)
      <3>1. PICK w \in Workers : pc[w] # "idle" /\ Dir(w) = d /\ Open(w)
        BY <2>3
      <3>2. \A v \in Workers : ~Receiving(v, d, f)
        BY <2>2, <3>1 DEF Receiving, Open
      <3>3. f \notin disk[d]
        BY <1>1, <3>2 DEF WholeInv
      <3>4. f.name = local[w].name
        BY <3>1, <3>3, DownloadFiles
      <3>5. pc'[w] = "receive" /\ local'[w].name = local[w].name /\ Dir(w)' = Dir(w)
        BY <3>1 DEF Open, Goto, TypeOK, Locals, Dir, Cur
      <3> QED
        BY <3>1, <3>4, <3>5 DEF Receiving
    <2>4. CASE \E w \in Workers : pc[w] # "idle" /\ Dir(w) = d /\ Receive(w)
      <3>1. PICK w \in Workers : pc[w] # "idle" /\ Dir(w) = d /\ Receive(w)
        BY <2>4
      <3>2. PICK g \in disk[d] : f = Written(w, g)
        BY <1>1, <3>1, DownloadFiles
      <3>3. g = f /\ ~Mine(w, f)
        <4>1. g \in File
          BY <3>1 DEF TypeOK
        <4>2. ASSUME Mine(w, g)
              PROVE  Written(w, g).full
          BY <4>1, <4>2 DEF Written, File
        <4>3. ~Mine(w, g)
          BY <1>1, <3>2, <4>2
        <4> QED
          BY <3>2, <4>3 DEF Written
      <3>4. PICK v \in Workers : Receiving(v, d, f)
        BY <1>1, <3>2, <3>3 DEF WholeInv
      <3>5. v = w
        BY <2>2, <3>1, <3>4 DEF Receiving
      <3> QED
        BY <3>1, <3>2, <3>3, <3>4, <3>5 DEF Receiving, FreshInv, Fresh
    <2>5. CASE /\ disk'[d] \subseteq disk[d]
               /\ \A w \in Workers : pc[w] # "idle" /\ Dir(w) = d => ~Receive(w)
      <3>1. PICK w \in Workers : Receiving(w, d, f)
        BY <1>1, <2>5 DEF WholeInv
      <3> QED
        BY <2>1, <2>5, <3>1 DEF Receiving
    <2> QED
      BY <2>3, <2>4, <2>5, StepOfDirectory
  <1> QED
    BY <1>1, ReadableStep DEF WholeInv

LEMMA WholeInvariant == ASSUME Exclusive, DownloadsComplete PROVE Spec => []WholeInv
  <1>1. Init => WholeInv
    BY DEF Init, WholeInv
  <1>2. TypeOK /\ NamesInv /\ FreshInv /\ WholeInv /\ [Next]_vars => WholeInv'
    BY WholeStep
  <1> QED
    BY <1>1, <1>2, TypeCorrect, NamesInvariant, FreshInvariant, PTL DEF Spec

\* While no two workers share a directory and no download is cut short, a run
\* skips an item only if a complete artifact holds the data it has staged.
THEOREM SkipsAreBackedUp == ASSUME Exclusive, DownloadsComplete PROVE Spec => SkipMeansBackedUp
  <1>1. ASSUME TypeOK, NamesInv, WholeInv, NEW w \in Workers, Skip(w)
        PROVE  \E f \in disk[Dir(w)] : f.full /\ f.data = staging[Stg(w)].payload
    <2>1. pc[w] = "decide" /\ local[w].hash # NoHash /\ Dir(w) \in Dirs
      BY <1>1, CurType DEF Skip, Unchanged
    <2>2. PICK f \in disk[Dir(w)] : f.name.hash = local[w].hash
      BY <1>1 DEF Skip, Unchanged
    <2>3. \A v \in Workers : ~Receiving(v, Dir(w), f)
      BY <1>1, <2>1, Apart DEF Receiving
    <2>4. f.full
      BY <1>1, <2>1, <2>3 DEF WholeInv
    <2>5. f.data = local[w].hash
      BY <1>1, <2>1, <2>2 DEF NamesInv, Truthful
    <2>6. local[w].hash = staging[Stg(w)].payload
      BY <1>1, <2>1 DEF NamesInv, Staged
    <2> QED
      BY <2>4, <2>5, <2>6
  <1>2. TypeOK /\ NamesInv /\ WholeInv =>
          [\A w \in Workers : Skip(w) => \E f \in disk[Dir(w)] : f.full /\ f.data = staging[Stg(w)].payload]_vars
    BY <1>1
  <1> QED
    BY <1>2, TypeCorrect, NamesInvariant, WholeInvariant, PTL DEF Spec, SkipMeansBackedUp
=============================================================================
