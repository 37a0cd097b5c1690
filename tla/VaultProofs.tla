---------------------------- MODULE VaultProofs ----------------------------
(***************************************************************************)
(* Backups and restores keep a vault, while no two workers share a staging *)
(* directory or a subdirectory and no two instants share the second of a   *)
(* name: every step of BackupService is a step of Vault, or none.          *)
(***************************************************************************)
EXTENDS BackupOrderProofs

\* What goes through the staging directories is what it is taken for: a copy
\* goes to an empty place, the file being downloaded holds the payload, what a
\* restore uploads and extracts is one artifact.
Carried(w) ==
  LET s == staging[Stg(w)]
      r == restaging[Stg(w)] IN
  /\ pc[w] = "copy" => s.payload = None
  /\ pc[w] = "receive" => \A f \in disk[Dir(w)] : Mine(w, f) => f.data = s.payload
  /\ pc[w] = "send" => r.up = {}
  /\ pc[w] \in {"extract", "inject"} =>
       \E u \in r.up : /\ r.up = {u} /\ u.name = local[w].name
                       /\ pc[w] = "inject" /\ local[w].name.gz => u.full /\ r.ext = u.data

\* The file a restore has picked is the newest one, and the files that pruning
\* has condemned are the oldest ones.
Chosen(w) ==
  LET files == disk[Dir(w)] IN
  /\ pc[w] \in {"restage", "send"} =>
       \A f \in files : f.name = local[w].name => \A g \in files \ {f} : g.mtime < f.mtime
  /\ pc[w] = "remove" =>
       \A v \in local[w].victims : \A g \in files :
         /\ g.name = v.name => g = v
         /\ g.mtime < v.mtime => g \in local[w].victims

\* Artifacts of directories, and no others, are archives.
NamedWork == {"archive", "open", "restage", "send", "extract", "inject"}
Kind(w) == pc[w] \in NamedWork => local[w].name.gz = (Cur(w) \in DirItems)
KindInv ==
  /\ \A i \in Items : \A f \in disk[DirOf[i]] : f.name.gz = (i \in DirItems)
  /\ \A w \in Workers : Kind(w)

\* Where downloads complete, a restore uploads complete artifacts.
WholeUpload(w) == pc[w] \in {"extract", "inject"} => \A u \in restaging[Stg(w)].up : u.full
WholeUploads == \A w \in Workers : WholeUpload(w)

CarriedInv == \A w \in Workers : Carried(w)
ChosenInv == \A w \in Workers : Chosen(w)

-----------------------------------------------------------------------------
(* The invariants.                                                         *)

\* The steps of the others: users delete artifacts at most.
Quiet(w) ==
  /\ Waits(w)
  /\ pc[w] # "idle" => staging'[Stg(w)] = staging[Stg(w)] /\ restaging'[Stg(w)] = restaging[Stg(w)]

LEMMA StepOfRun ==
  ASSUME TypeOK, Exclusive, [Next]_vars, NEW w \in Workers
  PROVE  WorkerStep(w) \/ pc'[w] \in {"idle", "stage", "pick"} \/ Quiet(w)
  <1>1. ASSUME NEW v \in Workers, Start(v) \/ WorkerStep(v)
        PROVE  WorkerStep(w) \/ pc'[w] \in {"idle", "stage", "pick"} \/ Quiet(w)
    <2>1. CASE v # w
      BY <1>1, <2>1, Undisturbed DEF Waits, Quiet
    <2>2. CASE v = w /\ Start(v)
      <3>1. pc'[w] \in {"idle", "stage", "pick"}
        BY <2>2 DEF Start, Goto, FirstStep, TypeOK
      <3> QED
        BY <3>1
    <2> QED
      BY <1>1, <2>1, <2>2
  <1>2. CASE Crash
    BY <1>2 DEF Crash
  <1>3. CASE \/ \E d \in Deletable : \E f \in disk[d] : DeleteFile(d, f)
             \/ \E i \in Items, c \in Contents : ContainerWrite(i, c)
             \/ Tick \/ UNCHANGED vars
    <2>1. UNCHANGED <<staging, restaging, pc, todo, local>>
      BY <1>3 DEF DeleteFile, ContainerWrite, Tick, vars, remote
    <2>2. \A d \in Dirs : disk'[d] \subseteq disk[d] /\ (d \notin Deletable => disk'[d] = disk[d])
      BY <1>3 DEF DeleteFile, ContainerWrite, Tick, vars, TypeOK
    <2> QED
      BY <2>1, <2>2, CurType DEF Waits, Quiet
  <1> QED
    BY <1>1, <1>2, <1>3 DEF Next

LEMMA CarriedQuiet ==
  ASSUME NEW w \in Workers, Carried(w), Quiet(w)
  PROVE  Carried(w)'
  <1>1. Stg(w)' = Stg(w) /\ Dir(w)' = Dir(w)
    BY DEF Quiet, Waits, Stg, Dir, Cur
  <1>2. CASE pc[w] = "idle"
    BY <1>2 DEF Carried, Quiet, Waits
  <1>3. CASE pc[w] # "idle"
    <2>1. \A f : Mine(w, f)' <=> Mine(w, f)
      BY DEF Mine, Quiet, Waits
    <2> QED
      BY <1>1, <1>3, <2>1 DEF Carried, Quiet, Waits
  <1> QED
    BY <1>2, <1>3

LEMMA ChosenQuiet ==
  ASSUME NEW w \in Workers, Chosen(w), Quiet(w)
  PROVE  Chosen(w)'
  <1>1. Dir(w)' = Dir(w)
    BY DEF Quiet, Waits, Dir, Cur
  <1>2. CASE pc[w] = "idle"
    BY <1>2 DEF Chosen, Quiet, Waits
  <1>3. CASE pc[w] # "idle"
    BY <1>1, <1>3 DEF Chosen, Quiet, Waits
  <1> QED
    BY <1>2, <1>3

LEMMA CarriedOwnStep ==
  ASSUME TypeOK, CarriedInv, NamesInv, NEW w \in Workers, WorkerStep(w)
  PROVE  Carried(w)'
  <1>1. /\ pc \in [Workers -> Steps \cup {"idle"}] /\ local \in [Workers -> Locals]
        /\ staging \in [Stagings -> StagingDir] /\ restaging \in [Stagings -> RestoreDir]
        /\ disk \in [Dirs -> SUBSET File] /\ local[w] \in Locals
    BY DEF TypeOK
  <1>2. ASSUME todo' = todo
        PROVE  Stg(w)' = Stg(w) /\ Dir(w)' = Dir(w)
    BY <1>2 DEF Stg, Dir, Cur
  <1>3. Carried(w)
    BY DEF CarriedInv
  <1>4. CASE StageBackup(w)
    <2>1. pc'[w] = "copy" /\ todo' = todo /\ Stg(w) \in Stagings
      BY <1>1, <1>4, CurType DEF StageBackup, Goto
    <2>2. staging'[Stg(w)].payload = None
      BY <1>1, <1>4, <2>1 DEF StageBackup, Emptied, Gone
    <2> QED
      BY <1>2, <2>1, <2>2 DEF Carried
  <1>5. CASE Open(w)
    <2>1. /\ pc[w] = "open" /\ pc'[w] = "receive" /\ todo' = todo /\ staging' = staging
          /\ Dir(w) \in Dirs /\ Source(w) = staging[Stg(w)].payload
      BY <1>1, <1>5, CurType DEF Open, Goto, remote, NamesInv, Staged
    <2>2. local'[w].name = local[w].name /\ local'[w].at = now
      BY <1>1, <1>5 DEF Open, Locals
    <2>3. disk'[Dir(w)] = Put(disk[Dir(w)], [name |-> local[w].name, data |-> Source(w),
                                             full |-> FALSE, mtime |-> now])
      BY <1>1, <1>5, <2>1 DEF Open
    <2>4. \A f \in disk'[Dir(w)] : f.name = local[w].name => f.data = Source(w)
      BY <2>3 DEF Put
    <2> QED
      BY <1>2, <2>1, <2>2, <2>4 DEF Carried, Mine
  <1>6. CASE Restage(w)
    <2>1. pc'[w] = "send" /\ todo' = todo /\ Stg(w) \in Stagings
      BY <1>1, <1>6, CurType DEF Restage, Goto
    <2>2. restaging'[Stg(w)].up = {}
      BY <1>1, <1>6, <2>1 DEF Restage, NoUpload
    <2> QED
      BY <1>2, <2>1, <2>2 DEF Carried
  <1>7. CASE Send(w)
    <2>1. /\ pc[w] = "send" /\ todo' = todo /\ local' = local /\ Stg(w) \in Stagings
          /\ pc'[w] = (IF local[w].name.gz THEN "extract" ELSE "inject")
      BY <1>1, <1>7, CurType DEF Send, Goto
    <2>2. PICK f \in disk[Dir(w)] :
            /\ f.name = local[w].name
            /\ restaging' = [restaging EXCEPT ![Stg(w)].up =
                 Put(@, [name |-> f.name, data |-> f.data, full |-> f.full])]
      BY <1>7 DEF Send
    <2> DEFINE u == [name |-> f.name, data |-> f.data, full |-> f.full]
    <2>3. restaging'[Stg(w)].up = Put(restaging[Stg(w)].up, u)
      BY <1>1, <2>1, <2>2 DEF RestoreDir
    <2>4. restaging'[Stg(w)].up = {u}
      BY <1>3, <2>1, <2>3 DEF Carried, Put
    <2>5. u.name = local[w].name
      BY <2>2
    <2> QED
      BY <1>2, <2>1, <2>4, <2>5 DEF Carried
  <1>8. CASE Extract(w)
    <2>1. /\ pc[w] = "extract" /\ pc'[w] = "inject" /\ todo' = todo /\ local' = local
          /\ Stg(w) \in Stagings /\ restaging[Stg(w)].ext = None
      BY <1>1, <1>8, CurType DEF Extract, Goto, NamesInv, Restaged
    <2>2. PICK u \in Extractable(w) : restaging' =
            [restaging EXCEPT ![Stg(w)].ext = IF @ \in {None, u.data} THEN u.data ELSE Torn]
      BY <1>8 DEF Extract
    <2>3. restaging'[Stg(w)].ext = u.data /\ restaging'[Stg(w)].up = restaging[Stg(w)].up
      BY <1>1, <2>1, <2>2 DEF RestoreDir
    <2>4. u.full /\ u.name = local[w].name /\ restaging[Stg(w)].up = {u}
      BY <1>3, <2>1, <2>2 DEF Extractable, Uploaded, Carried
    <2> QED
      BY <1>2, <2>1, <2>3, <2>4 DEF Carried
  <1>9. CASE \/ Copy(w) \/ Detect(w) \/ Digest(w) \/ Skip(w) \/ NameArtifact(w) \/ Archive(w) \/ Receive(w)
             \/ Prune(w) \/ RemoveVictim(w) \/ Pick(w) \/ Inject(w)
    <2>1. pc'[w] \notin {"copy", "receive", "send", "extract", "inject"}
      BY <1>1, <1>9 DEF Copy, Detect, Digest, Skip, NameArtifact, Archive, Receive, Prune, RemoveVictim,
        Pick, Inject, Goto
    <2> QED
      BY <2>1 DEF Carried
  <1>10. CASE CleanBackup(w) \/ CleanRestore(w) \/ Fail(w)
    <2>1. pc'[w] \in {"idle", "stage", "pick"}
      BY <1>1, <1>10 DEF CleanBackup, CleanRestore, Fail, EndRun, NextItem, Goto, FirstStep
    <2> QED
      BY <2>1 DEF Carried
  <1> QED
    BY <1>4, <1>5, <1>6, <1>7, <1>8, <1>9, <1>10 DEF WorkerStep, BackupStep, RestoreStep

LEMMA CarriedInvariant == ASSUME Exclusive PROVE Spec => []CarriedInv
  <1>1. Init => CarriedInv
    BY DEF Init, CarriedInv, Carried
  <1>2. ASSUME TypeOK, NamesInv, CarriedInv, [Next]_vars
        PROVE  CarriedInv'
    <2>1. ASSUME NEW w \in Workers
          PROVE  Carried(w)'
      <3>1. CASE WorkerStep(w)
        BY <1>2, <3>1, CarriedOwnStep
      <3>2. CASE pc'[w] \in {"idle", "stage", "pick"}
        BY <3>2 DEF Carried
      <3>3. CASE Quiet(w)
        BY <1>2, <3>3, CarriedQuiet DEF CarriedInv
      <3> QED
        BY <1>2, <3>1, <3>2, <3>3, StepOfRun
    <2> QED
      BY <2>1 DEF CarriedInv
  <1> QED
    BY <1>1, <1>2, TypeCorrect, NamesInvariant, PTL DEF Spec

\* What pruning condemns it condemns with all that is older.
LEMMA OlderVictims ==
  ASSUME NEW files \in SUBSET File, IsFiniteSet(files), NEW max \in Nat,
         NEW v \in Victims(files, max), NEW g \in files, g.mtime < v.mtime
  PROVE  g \in Victims(files, max)
  <1> DEFINE newer(f) == {h \in files : Older(f, h)}
  <1>1. max # 0 /\ v \in files /\ Cardinality(newer(v)) >= max
    BY DEF Victims
  <1>2. \A f \in files : f.mtime \in Nat
    BY DEF File
  <1>3. newer(v) \subseteq newer(g)
    BY <1>1, <1>2 DEF Older
  <1>4. IsFiniteSet(newer(g)) /\ IsFiniteSet(newer(v))
    BY FS_Subset
  <1>5. /\ Cardinality(newer(v)) <= Cardinality(newer(g))
        /\ Cardinality(newer(v)) \in Nat /\ Cardinality(newer(g)) \in Nat
    BY <1>3, <1>4, FS_Subset, FS_CardinalityType
  <1>6. Cardinality(newer(g)) >= max
    BY <1>1, <1>5
  <1> QED
    BY <1>1, <1>6 DEF Victims

LEMMA ChosenOwnStep ==
  ASSUME TypeOK, FreshInv, OrderInv, RetainInv, ChosenInv, NEW w \in Workers, WorkerStep(w)
  PROVE  Chosen(w)'
  <1>1. /\ pc \in [Workers -> Steps \cup {"idle"}] /\ local \in [Workers -> Locals]
        /\ disk \in [Dirs -> SUBSET File] /\ local[w] \in Locals
    BY DEF TypeOK
  <1>2. ASSUME todo' = todo
        PROVE  Dir(w)' = Dir(w)
    BY <1>2 DEF Dir, Cur
  <1>3. ASSUME pc[w] # "idle"
        PROVE  /\ Dir(w) \in Dirs /\ Keep(w) \in Nat /\ disk[Dir(w)] \in SUBSET File
               /\ IsFiniteSet(disk[Dir(w)]) /\ Ordered(disk[Dir(w)])
               /\ \A f, g \in disk[Dir(w)] : f.name = g.name => f = g
    BY <1>1, <1>3, CurType DEF RetainInv, OrderInv, FreshInv
  <1>4. CASE Pick(w)
    <2>1. pc[w] = "pick" /\ pc'[w] = "restage" /\ todo' = todo /\ disk' = disk
      BY <1>1, <1>4 DEF Pick, Goto
    <2>2. PICK f \in disk[Dir(w)] : IsLatest(f, disk[Dir(w)]) /\ local'[w].name = f.name
      BY <1>1, <1>4 DEF Pick, Locals
    <2>3. ASSUME NEW g \in disk[Dir(w)] \ {f}
          PROVE  g.mtime < f.mtime
      <3>1. f \in File /\ g \in File
        BY <1>3, <2>1
      <3>2. f.mtime \in Nat /\ g.mtime \in Nat /\ f.name.sec \in Nat /\ g.name.sec \in Nat
        BY <3>1 DEF File, Name
      <3>3. NameLess(g.name, f.name)
        BY <2>2 DEF IsLatest
      <3>4. ~(f.name.sec < g.name.sec)
        BY <3>2, <3>3 DEF NameLess
      <3>5. ~(f.mtime < g.mtime) /\ f.mtime # g.mtime
        BY <1>3, <2>1, <3>4 DEF Ordered
      <3> QED
        BY <3>2, <3>5
    <2> QED
      BY <1>2, <1>3, <2>1, <2>2, <2>3 DEF Chosen
  <1>5. CASE Restage(w)
    <2>1. pc[w] = "restage" /\ pc'[w] = "send" /\ UNCHANGED <<todo, disk, local>>
      BY <1>1, <1>5 DEF Restage, Goto
    <2> QED
      BY <1>2, <2>1 DEF ChosenInv, Chosen
  <1>6. CASE Prune(w)
    <2>1. /\ pc[w] = "prune" /\ pc'[w] \in {"clean", "remove"} /\ todo' = todo /\ disk' = disk
          /\ local'[w].victims = Victims(disk[Dir(w)], Keep(w))
      BY <1>1, <1>6 DEF Prune, Goto, Locals
    <2>2. \A v \in Victims(disk[Dir(w)], Keep(w)) : v \in disk[Dir(w)]
      BY DEF Victims
    <2>3. \A v \in Victims(disk[Dir(w)], Keep(w)) : \A g \in disk[Dir(w)] :
            g.mtime < v.mtime => g \in Victims(disk[Dir(w)], Keep(w))
      BY <1>3, <2>1, OlderVictims
    <2> QED
      BY <1>2, <1>3, <2>1, <2>2, <2>3 DEF Chosen
  <1>7. CASE RemoveVictim(w)
    <2>1. pc[w] = "remove" /\ todo' = todo
      BY <1>7 DEF RemoveVictim
    <2>2. PICK v \in local[w].victims :
            /\ disk' = [disk EXCEPT ![Dir(w)] = {f \in @ : f.name # v.name}]
            /\ local' = [local EXCEPT ![w].victims = @ \ {v}]
            /\ Goto(w, IF local[w].victims = {v} THEN "clean" ELSE "remove")
      BY <1>7 DEF RemoveVictim
    <2>3. /\ disk'[Dir(w)] = {f \in disk[Dir(w)] : f.name # v.name}
          /\ local'[w].victims = local[w].victims \ {v}
          /\ pc'[w] \in {"clean", "remove"}
      BY <1>1, <1>3, <2>1, <2>2 DEF Goto, Locals
    <2> QED
      BY <1>2, <2>1, <2>3 DEF ChosenInv, Chosen
  <1>8. CASE \/ StageBackup(w) \/ Copy(w) \/ Detect(w) \/ Digest(w) \/ Skip(w) \/ NameArtifact(w) \/ Archive(w)
             \/ Open(w) \/ Receive(w) \/ Send(w) \/ Extract(w) \/ Inject(w)
    <2>1. pc'[w] \notin {"restage", "send", "remove"}
      BY <1>1, <1>8 DEF StageBackup, Copy, Detect, Digest, Skip, NameArtifact, Archive, Open, Receive, Send,
        Extract, Inject, Goto
    <2> QED
      BY <2>1 DEF Chosen
  <1>9. CASE CleanBackup(w) \/ CleanRestore(w) \/ Fail(w)
    <2>1. pc'[w] \in {"idle", "stage", "pick"}
      BY <1>1, <1>9 DEF CleanBackup, CleanRestore, Fail, EndRun, NextItem, Goto, FirstStep
    <2> QED
      BY <2>1 DEF Chosen
  <1> QED
    BY <1>4, <1>5, <1>6, <1>7, <1>8, <1>9 DEF WorkerStep, BackupStep, RestoreStep

LEMMA ChosenInvariant == ASSUME Exclusive, PerSecond = 1 PROVE Spec => []ChosenInv
  <1>1. Init => ChosenInv
    BY DEF Init, ChosenInv, Chosen
  <1>2. ASSUME TypeOK, FreshInv, OrderInv, RetainInv, ChosenInv, [Next]_vars
        PROVE  ChosenInv'
    <2>1. ASSUME NEW w \in Workers
          PROVE  Chosen(w)'
      <3>1. CASE WorkerStep(w)
        BY <1>2, <3>1, ChosenOwnStep
      <3>2. CASE pc'[w] \in {"idle", "stage", "pick"}
        BY <3>2 DEF Chosen
      <3>3. CASE Quiet(w)
        BY <1>2, <3>3, ChosenQuiet DEF ChosenInv
      <3> QED
        BY <1>2, <3>1, <3>2, <3>3, StepOfRun
    <2> QED
      BY <2>1 DEF ChosenInv
  <1> QED
    BY <1>1, <1>2, TypeCorrect, FreshInvariant, OrderInvariant, RetainInvariant, PTL DEF Spec

\* The artifacts of a subdirectory are of one kind, its items'.
LEMMA KindOfFiles ==
  ASSUME TypeOK, KindInv, [Next]_vars, NEW i \in Items, NEW f \in disk'[DirOf[i]]
  PROVE  f.name.gz = (i \in DirItems)
  <1> DEFINE d == DirOf[i]
  <1>1. d \in Dirs
    BY ConstantsAssumption DEF ConstantsAssumption
  <1>2. \A g \in disk[d] : g.name.gz = (i \in DirItems)
    BY DEF KindInv
  <1>3. CASE disk'[d] \subseteq disk[d]
    BY <1>2, <1>3
  <1>4. ASSUME NEW w \in Workers, pc[w] # "idle", Dir(w) = d, Open(w) \/ Receive(w)
        PROVE  f.name.gz = (i \in DirItems)
    <2>1. CASE Receive(w)
      <3>1. PICK g \in disk[d] : f = Written(w, g)
        BY <1>4, <2>1, DownloadFiles
      <3>2. f.name = g.name
        BY <1>4, <3>1, DownloadFiles
      <3> QED
        BY <1>2, <3>2
    <2>2. CASE Open(w)
      <3>1. f \in disk[d] \/ f.name = local[w].name
        BY <1>4, <2>2, DownloadFiles
      <3>2. local[w].name.gz = (Cur(w) \in DirItems)
        BY <2>2 DEF Open, KindInv, Kind, NamedWork
      <3>3. Cur(w) \in Items /\ DirOf[Cur(w)] = DirOf[i]
        BY <1>4, CurType DEF Dir
      <3>4. (Cur(w) \in DirItems) = (i \in DirItems)
        BY <3>3, ConstantsAssumption DEF ConstantsAssumption
      <3> QED
        BY <1>2, <3>1, <3>2, <3>4
    <2> QED
      BY <1>4, <2>1, <2>2
  <1> QED
    BY <1>1, <1>3, <1>4, StepOfDirectory

LEMMA KindOwnStep ==
  ASSUME TypeOK, NamesInv, KindInv, NEW w \in Workers, WorkerStep(w)
  PROVE  Kind(w)'
  <1>1. /\ pc \in [Workers -> Steps \cup {"idle"}] /\ local \in [Workers -> Locals] /\ local[w] \in Locals
    BY DEF TypeOK
  <1>2. ASSUME todo' = todo
        PROVE  Cur(w)' = Cur(w)
    BY <1>2 DEF Cur
  <1>3. CASE NameArtifact(w)
    <2>1. pc[w] = "decide" /\ todo' = todo /\ local[w].isDir = (Cur(w) \in DirItems)
      BY <1>3 DEF NameArtifact, NamesInv, Staged
    <2>2. local'[w].name = BaseName(w)
      BY <1>1, <1>3 DEF NameArtifact, Locals
    <2>3. local'[w].name.gz = local[w].isDir
      BY <2>2 DEF BaseName
    <2> QED
      BY <1>2, <2>1, <2>3 DEF Kind
  <1>4. CASE Pick(w)
    <2>1. pc[w] = "pick" /\ todo' = todo
      BY <1>4 DEF Pick
    <2>2. PICK f \in disk[Dir(w)] : local'[w].name = f.name
      BY <1>1, <1>4 DEF Pick, Locals
    <2>3. f.name.gz = (Cur(w) \in DirItems)
      BY <2>1, <2>2, CurType DEF KindInv, Dir
    <2> QED
      BY <1>2, <2>1, <2>2, <2>3 DEF Kind
  <1>5. CASE Archive(w) \/ Restage(w) \/ Send(w) \/ Extract(w)
    <2>1. pc[w] \in NamedWork /\ UNCHANGED <<todo, local>>
      BY <1>5 DEF Archive, Restage, Send, Extract, NamedWork
    <2> QED
      BY <1>2, <2>1 DEF KindInv, Kind
  <1>6. CASE \/ StageBackup(w) \/ Copy(w) \/ Detect(w) \/ Digest(w) \/ Skip(w) \/ Open(w) \/ Receive(w)
             \/ Prune(w) \/ RemoveVictim(w) \/ Inject(w)
    <2>1. pc'[w] \notin NamedWork
      BY <1>1, <1>6 DEF StageBackup, Copy, Detect, Digest, Skip, Open, Receive, Prune, RemoveVictim, Inject,
        Goto, NamedWork
    <2> QED
      BY <2>1 DEF Kind
  <1>7. CASE CleanBackup(w) \/ CleanRestore(w) \/ Fail(w)
    <2>1. pc'[w] \in {"idle", "stage", "pick"}
      BY <1>1, <1>7 DEF CleanBackup, CleanRestore, Fail, EndRun, NextItem, Goto, FirstStep
    <2> QED
      BY <2>1 DEF Kind, NamedWork
  <1> QED
    BY <1>3, <1>4, <1>5, <1>6, <1>7 DEF WorkerStep, BackupStep, RestoreStep

LEMMA KindInvariant == ASSUME Exclusive PROVE Spec => []KindInv
  <1>1. Init => KindInv
    BY ConstantsAssumption DEF ConstantsAssumption, Init, KindInv, Kind, NamedWork
  <1>2. ASSUME TypeOK, NamesInv, KindInv, [Next]_vars
        PROVE  KindInv'
    <2>1. ASSUME NEW w \in Workers
          PROVE  Kind(w)'
      <3>1. CASE WorkerStep(w)
        BY <1>2, <3>1, KindOwnStep
      <3>2. CASE pc'[w] \in {"idle", "stage", "pick"}
        BY <3>2 DEF Kind, NamedWork
      <3>3. CASE Waits(w)
        BY <1>2, <3>3 DEF Waits, KindInv, Kind, Cur
      <3> QED
        BY <1>2, <3>1, <3>2, <3>3, StepOfWorker
    <2> QED
      BY <1>2, <2>1, KindOfFiles DEF KindInv
  <1> QED
    BY <1>1, <1>2, TypeCorrect, NamesInvariant, PTL DEF Spec

\* No one else is writing in the subdirectory of a worker.
LEMMA WholeFiles ==
  ASSUME TypeOK, Exclusive, WholeInv, NEW w \in Workers, pc[w] \notin {"idle", "receive"}
  PROVE  \A f \in disk[Dir(w)] : f.full
  BY CurType, Apart DEF WholeInv, Receiving

LEMMA WholeUploadOwnStep ==
  ASSUME TypeOK, Exclusive, WholeInv, CarriedInv, WholeUploads, NEW w \in Workers, WorkerStep(w)
  PROVE  WholeUpload(w)'
  <1>1. pc \in [Workers -> Steps \cup {"idle"}] /\ restaging \in [Stagings -> RestoreDir]
    BY DEF TypeOK
  <1>2. CASE Send(w)
    <2>1. /\ pc[w] = "send" /\ todo' = todo /\ Stg(w) \in Stagings
          /\ \A f \in disk[Dir(w)] : f.full
      BY <1>2, CurType, WholeFiles DEF Send
    <2>2. PICK f \in disk[Dir(w)] : restaging' = [restaging EXCEPT ![Stg(w)].up =
            Put(@, [name |-> f.name, data |-> f.data, full |-> f.full])]
      BY <1>2 DEF Send
    <2>3. restaging'[Stg(w)].up =
            Put(restaging[Stg(w)].up, [name |-> f.name, data |-> f.data, full |-> f.full])
      BY <1>1, <2>1, <2>2 DEF RestoreDir
    <2>4. \A u \in restaging'[Stg(w)].up : u.full
      BY <2>1, <2>3 DEF CarriedInv, Carried, Put
    <2>5. Stg(w)' = Stg(w)
      BY <2>1 DEF Stg, Cur
    <2> QED
      BY <2>4, <2>5 DEF WholeUpload
  <1>3. CASE Extract(w)
    <2>1. pc[w] = "extract" /\ todo' = todo /\ Stg(w) \in Stagings
      BY <1>3, CurType DEF Extract
    <2>2. restaging'[Stg(w)].up = restaging[Stg(w)].up /\ Stg(w)' = Stg(w)
      BY <1>1, <1>3, <2>1 DEF Extract, RestoreDir, Stg, Cur
    <2> QED
      BY <2>1, <2>2 DEF WholeUploads, WholeUpload
  <1>4. CASE BackupStep(w) \/ Pick(w) \/ Restage(w) \/ Inject(w) \/ CleanRestore(w) \/ Fail(w)
    <2>1. pc'[w] \notin {"extract", "inject"}
      BY <1>1, <1>4 DEF BackupStep, StageBackup, Copy, Detect, Digest, Skip, NameArtifact, Archive, Open,
        Receive, Prune, RemoveVictim, CleanBackup, Pick, Restage, Inject, CleanRestore, Fail, EndRun,
        NextItem, Goto, FirstStep
    <2> QED
      BY <2>1 DEF WholeUpload
  <1> QED
    BY <1>2, <1>3, <1>4 DEF WorkerStep, RestoreStep

LEMMA WholeUploadsInvariant == ASSUME Exclusive, DownloadsComplete PROVE Spec => []WholeUploads
  <1>1. Init => WholeUploads
    BY DEF Init, WholeUploads, WholeUpload
  <1>2. ASSUME TypeOK, WholeInv, CarriedInv, WholeUploads, [Next]_vars
        PROVE  WholeUploads'
    <2>1. ASSUME NEW w \in Workers
          PROVE  WholeUpload(w)'
      <3>1. CASE WorkerStep(w)
        BY <1>2, <3>1, WholeUploadOwnStep
      <3>2. CASE pc'[w] \in {"idle", "stage", "pick"}
        BY <3>2 DEF WholeUpload
      <3>3. CASE Quiet(w)
        BY <1>2, <3>3 DEF Quiet, Waits, WholeUploads, WholeUpload, Stg, Cur
      <3> QED
        BY <1>2, <3>1, <3>2, <3>3, StepOfRun
    <2> QED
      BY <2>1 DEF WholeUploads
  <1> QED
    BY <1>1, <1>2, TypeCorrect, WholeInvariant, CarriedInvariant, PTL DEF Spec

-----------------------------------------------------------------------------
(* The vault and the copies under way, as the files and staging            *)
(* directories give them.                                                  *)

LEMMA FilesType ==
  ASSUME TypeOK, NEW d \in Dirs
  PROVE  disk[d] \in SUBSET File /\ \A f \in disk[d] : f \in File /\ f.mtime \in Nat
  BY DEF TypeOK, File

\* One subdirectory changes, and so does its part of the vault.
LEMMA CopiesChange ==
  ASSUME NEW e \in Dirs, \A d \in Dirs \ {e} : disk'[d] = disk[d]
  PROVE  Copies' = [Copies EXCEPT ![e] = Complete(disk'[e])]
  BY DEF Copies

LEMMA CopiesStay ==
  ASSUME NEW e \in Dirs, \A d \in Dirs \ {e} : disk'[d] = disk[d], Complete(disk'[e]) = Complete(disk[e])
  PROVE  Copies' = Copies
  BY DEF Copies

\* The complete files without one of the files.
LEMMA CompleteWithout ==
  ASSUME NEW files, Timed(files), NEW f \in files
  PROVE  /\ f.full => Complete(files \ {f}) = Complete(files) \ {[at |-> f.mtime, data |-> f.data]}
         /\ ~f.full => Complete(files \ {f}) = Complete(files)
  BY DEF Timed, Complete

\* A step of one worker leaves what the others hold.
LEMMA OthersHold ==
  ASSUME TypeOK, Exclusive, NEW v \in Workers, NEW w \in Workers, v # w, Start(v) \/ WorkerStep(v)
  PROVE  Held(w)' = Held(w) /\ Fetched(w)' = Fetched(w)
  <1>1. pc'[w] = pc[w] /\ todo'[w] = todo[w] /\ local'[w] = local[w]
    BY Undisturbed
  <1>2. Stg(w)' = Stg(w) /\ Cur(w)' = Cur(w)
    BY <1>1 DEF Stg, Cur
  <1>3. CASE pc[w] = "idle"
    BY <1>1, <1>3 DEF Held, Fetched
  <1>4. CASE pc[w] # "idle"
    <2>1. staging'[Stg(w)] = staging[Stg(w)] /\ restaging'[Stg(w)] = restaging[Stg(w)]
      BY <1>4, Undisturbed
    <2>2. Extractable(w)' = Extractable(w)
      BY <1>1, <1>2, <2>1 DEF Extractable, Uploaded
    <2> QED
      BY <1>1, <1>2, <2>1, <2>2 DEF Held, Fetched
  <1> QED
    BY <1>3, <1>4

LEMMA WorkerHolds ==
  ASSUME TypeOK, Exclusive, NEW w \in Workers, Start(w) \/ WorkerStep(w)
  PROVE  /\ Snapshots' = [Snapshots EXCEPT ![w] = Held(w)']
         /\ Fetches' = [Fetches EXCEPT ![w] = Fetched(w)']
  BY OthersHold DEF Snapshots, Fetches

\* A worker that goes on holds what it held, and it may let go of it.
LEMMA LetsGo ==
  ASSUME TypeOK, Exclusive, NEW w \in Workers, Start(w) \/ WorkerStep(w),
         UNCHANGED <<container, Copies>>,
         \/ Held(w)' = Held(w) /\ Fetched(w)' = Fetched(w)
         \/ Held(w)' = {} /\ Fetched(w)' = {}
  PROVE  [V!VNext]_V!vvars
  <1>1. CASE Held(w)' = Held(w) /\ Fetched(w)' = Fetched(w)
    BY <1>1, WorkerHolds DEF V!vvars, Snapshots, Fetches
  <1>2. CASE Held(w)' = {} /\ Fetched(w)' = {}
    <2>1. V!LetGo({w})
      BY <1>2, WorkerHolds DEF V!LetGo, Snapshots, Fetches
    <2> QED
      BY <2>1 DEF V!VNext
  <1> QED
    BY <1>1, <1>2

-----------------------------------------------------------------------------
(* The steps of a backup.                                                  *)

\* The vault's docker cp is the runs' docker cp.
LEMMA SameDockerCp ==
  /\ V!Contents = Contents /\ V!Torn = Torn
  /\ \A i, c : V!CopiedOut(i, c) = CopiedOut(i, c)
  /\ \A i, c, x : V!CopiedIn(i, c, x) = CopiedIn(i, c, x)
  BY DEF V!Contents, Contents, V!Torn, Torn, V!CopiedOut, CopiedOut, V!CopiedIn, CopiedIn

\* The copy is made while docker cp runs, into an empty place.
LEMMA CopyIsSnapshot ==
  ASSUME TypeOK, Exclusive, CarriedInv, NEW w \in Workers, Copy(w)
  PROVE  V!VNext
  <1>1. /\ pc[w] = "copy" /\ pc'[w] = "detect" /\ todo' = todo /\ local' = local /\ container' = container
        /\ disk' = disk /\ Stg(w) \in Stagings /\ Cur(w) \in Items
    BY CurType DEF Copy, Goto, TypeOK
  <1>2. PICK c \in CopiedOut(Cur(w), container[Cur(w)]) : staging'[Stg(w)].payload = c
    BY <1>1 DEF Copy, TypeOK, StagingDir, CarriedInv, Carried
  <1>3. Stg(w)' = Stg(w) /\ Cur(w)' = Cur(w)
    BY <1>1 DEF Stg, Cur
  <1>4. Held(w)' = {[item |-> Cur(w), data |-> c]}
    BY <1>1, <1>2, <1>3 DEF Held
  <1>5. Fetched(w) = {} /\ Fetched(w)' = {}
    BY <1>1 DEF Fetched
  <1>6. Fetches' = Fetches /\ Copies' = Copies
    BY <1>1, <1>5, WorkerHolds DEF Fetches, Copies, WorkerStep, BackupStep
  <1>7. V!Snapshot(w, Cur(w))
    <2>1. Snapshots' = [Snapshots EXCEPT ![w] = {[item |-> Cur(w), data |-> c]}]
      BY <1>1, <1>4, WorkerHolds DEF WorkerStep, BackupStep
    <2> QED
      BY <1>1, <1>2, <1>6, <2>1, SameDockerCp DEF V!Snapshot, V!CopyOf
  <1> QED
    BY <1>1, <1>7 DEF V!VNext

\* A download begins: nothing complete is there under the new name.
LEMMA OpenKeepsCopies ==
  ASSUME TypeOK, OrderInv, NEW w \in Workers, Open(w)
  PROVE  Copies' = Copies
  <1>1. /\ pc[w] = "open" /\ Dir(w) \in Dirs /\ disk[Dir(w)] \in SUBSET File
        /\ \A d \in Dirs \ {Dir(w)} : disk'[d] = disk[d]
    BY CurType DEF Open, TypeOK
  <1>2. PICK new \in File :
          /\ new.name = local[w].name /\ ~new.full
          /\ disk'[Dir(w)] = {g \in disk[Dir(w)] : g.name # new.name} \cup {new}
    BY <1>1, DownloadFiles
  <1>3. \A f \in disk[Dir(w)] : f.name.sec \in Nat /\ f.name.sec < local[w].name.sec
    BY <1>1 DEF OrderInv, Latest, File, Name
  <1>4. \A f \in disk[Dir(w)] : f.name # new.name
    <2>1. local[w].name.sec \in Nat
      BY DEF TypeOK, Locals, Name
    <2> QED
      BY <1>2, <1>3, <2>1
  <1>5. disk'[Dir(w)] = disk[Dir(w)] \cup {new}
    BY <1>2, <1>4
  <1>6. Complete(disk'[Dir(w)]) = Complete(disk[Dir(w)])
    BY <1>2, <1>5 DEF Complete
  <1> QED
    BY <1>1, <1>6, CopiesStay

\* The last byte of a download stores the copy, unless the file is gone.
LEMMA ReceiveIsStore ==
  ASSUME TypeOK, Exclusive, FreshInv, CarriedInv, NEW w \in Workers, Receive(w)
  PROVE  [V!VNext]_V!vvars
  <1> DEFINE d == Dir(w)
  <1>1. /\ pc[w] = "receive" /\ pc'[w] = "prune" /\ UNCHANGED <<remote, todo, local>>
        /\ d \in Dirs /\ disk[d] \in SUBSET File /\ Cur(w) \in Items /\ d = DirOf[Cur(w)]
        /\ \A e \in Dirs \ {d} : disk'[e] = disk[e]
        /\ disk'[d] = {Written(w, f) : f \in disk[d]}
    BY CurType DEF Receive, Goto, TypeOK, Dir
  <1>2. Held(w) = {[item |-> Cur(w), data |-> staging[Stg(w)].payload]} /\ Held(w)' = {}
        /\ Fetched(w) = {} /\ Fetched(w)' = {}
    BY <1>1 DEF Held, Fetched
  <1>3. WorkerStep(w) /\ UNCHANGED container
    BY <1>1 DEF WorkerStep, BackupStep, remote
  <1>4. CASE \A f \in disk[d] : ~Mine(w, f)
    <2>1. disk'[d] = disk[d]
      BY <1>1, <1>4 DEF Written
    <2>2. Copies' = Copies
      BY <1>1, <2>1, CopiesStay
    <2> QED
      BY <1>2, <1>3, <2>2, LetsGo
  <1>5. CASE \E f \in disk[d] : Mine(w, f)
    <2>1. PICK f \in disk[d] : Mine(w, f)
      BY <1>5
    <2> DEFINE e == [at |-> now, data |-> f.data]
    <2>2. \A g \in disk[d] \ {f} : ~Mine(w, g)
      BY <1>1, <2>1 DEF FreshInv, Mine
    <2>3. Written(w, f).full /\ Written(w, f).mtime = now /\ Written(w, f).data = f.data
      BY <1>1, <2>1 DEF Written, File
    <2>4. disk'[d] = (disk[d] \ {f}) \cup {Written(w, f)}
      <3>1. \A g \in disk[d] \ {f} : Written(w, g) = g
        BY <2>2 DEF Written
      <3> HIDE DEF d
      <3> QED
        BY <1>1, <2>1, <3>1
    <2>5. ~f.full
      BY <2>1 DEF Mine
    <2>6. Complete(disk'[d]) = Complete(disk[d]) \cup {e}
      BY <2>3, <2>4, <2>5 DEF Complete
    <2>7. Copies' = [Copies EXCEPT ![d] = @ \cup {e}]
      BY <1>1, <2>6, CopiesChange DEF Copies
    <2>8. e.data = staging[Stg(w)].payload
      BY <1>1, <2>1 DEF CarriedInv, Carried
    <2>9. e \in Copies'[d] /\ \A g \in Copies[d] : g.at < now
      <3>1. Copies[d] = Complete(disk[d]) /\ \A g \in disk[d] : g.mtime < now
        BY <1>1 DEF Copies, FreshInv
      <3>2. \A g \in Complete(disk[d]) : g.at < now
        BY <3>1 DEF Complete
      <3>3. Copies \in [Dirs -> {Complete(disk[x]) : x \in Dirs}]
        BY DEF Copies
      <3>4. Copies'[d] = Copies[d] \cup {e}
        BY <1>1, <2>7, <3>3
      <3> QED
        BY <3>1, <3>2, <3>4
    <2>10. Snapshots' = [Snapshots EXCEPT ![w] = {}] /\ Fetches' = Fetches
      BY <1>2, <1>3, WorkerHolds DEF Fetches
    <2>11. [item |-> Cur(w), data |-> staging[Stg(w)].payload] \in Snapshots[w]
      BY <1>2 DEF Snapshots
    <2>12. V!Store(w)
      BY <1>1, <1>3, <2>7, <2>8, <2>9, <2>10, <2>11 DEF V!Store
    <2> QED
      BY <2>12 DEF V!VNext
  <1> QED
    BY <1>4, <1>5

\* A file that goes is the oldest copy, or none.
LEMMA RemoveIsExpire ==
  ASSUME TypeOK, Exclusive, FreshInv, RetainInv, KeptInv, ChosenInv, NEW w \in Workers, RemoveVictim(w)
  PROVE  [V!VNext]_V!vvars
  <1> DEFINE d == Dir(w)
  <1>1. /\ pc[w] = "remove" /\ UNCHANGED <<container, staging, restaging, todo>>
        /\ pc'[w] \in {"remove", "clean"}
        /\ d \in Dirs /\ disk[d] \in SUBSET File /\ Timed(disk[d])
    BY CurType DEF RemoveVictim, Goto, TypeOK, remote, RetainInv
  <1>2. Held(w) = {} /\ Held(w)' = {} /\ Fetched(w) = {} /\ Fetched(w)' = {}
    BY <1>1 DEF Held, Fetched
  <1>3. WorkerStep(w)
    BY DEF WorkerStep, BackupStep
  <1>4. PICK v \in local[w].victims :
          /\ IsOldest(v, local[w].victims) /\ Present(w, v.name)
          /\ disk' = [disk EXCEPT ![d] = {f \in @ : f.name # v.name}]
    BY DEF RemoveVictim
  <1>5. v \in disk[d] /\ \A f \in disk[d] : f.name = v.name => f = v
    BY <1>1, <1>4 DEF Present, ChosenInv, Chosen
  <1>6. /\ disk'[d] = disk[d] \ {v}
        /\ \A e \in Dirs \ {d} : disk'[e] = disk[e]
    BY <1>1, <1>4, <1>5 DEF TypeOK
  <1>7. CASE ~v.full
    <2>1. Complete(disk'[d]) = Complete(disk[d])
      BY <1>1, <1>5, <1>6, <1>7, CompleteWithout
    <2>2. Copies' = Copies
      BY <1>1, <1>6, <2>1, CopiesStay
    <2> QED
      BY <1>1, <1>2, <1>3, <2>2, LetsGo
  <1>8. CASE v.full
    <2> DEFINE e == [at |-> v.mtime, data |-> v.data]
    <2>1. Complete(disk'[d]) = Complete(disk[d]) \ {e}
      BY <1>1, <1>5, <1>6, <1>8, CompleteWithout
    <2>2. Copies' = [Copies EXCEPT ![d] = @ \ {e}]
      BY <1>1, <1>6, <2>1, CopiesChange DEF Copies
    <2>3. e \in Complete(disk[d])
      BY <1>5, <1>8 DEF Complete
    <2>4. ASSUME NEW f \in disk[d], f # v
          PROVE  v.mtime < f.mtime
      <3>1. v.mtime \in Nat /\ f.mtime \in Nat
        BY <1>1, <1>5 DEF File
      <3>2. v.mtime # f.mtime
        BY <1>1, <1>5, <2>4 DEF Timed
      <3>3. ~(f.mtime < v.mtime)
        BY <1>1, <1>4, <2>4, <3>1 DEF ChosenInv, Chosen, IsOldest, Older
      <3> QED
        BY <3>1, <3>2, <3>3
    <2>5. \A x \in Complete(disk[d]) \ {e} : e.at < x.at
      BY <2>4 DEF Complete
    <2>6. ASSUME d \notin Deletable
          PROVE  Complete(disk[d]) # {e}
      <3>1. PICK f \in disk[d] : f.full /\ f.name = local[w].name
        BY <1>1, <2>6 DEF KeptInv, Kept
      <3>2. f # v
        BY <1>1, <1>4, <3>1 DEF FreshInv, Fresh
      <3>3. [at |-> f.mtime, data |-> f.data] \in Complete(disk[d])
        BY <3>1 DEF Complete
      <3>4. v.mtime \in Nat /\ f.mtime \in Nat /\ v.mtime < f.mtime
        BY <1>1, <1>5, <2>4, <3>2 DEF File
      <3> QED
        BY <3>3, <3>4
    <2>7. Copies[d] = Complete(disk[d])
      BY <1>1 DEF Copies
    <2>8. Snapshots' = Snapshots /\ Fetches' = Fetches
      BY <1>2, <1>3, WorkerHolds DEF Snapshots, Fetches
    <2>9. V!Expire(d)
      BY <1>1, <2>2, <2>3, <2>5, <2>6, <2>7, <2>8 DEF V!Expire, V!IsFirst
    <2> QED
      BY <1>1, <2>9 DEF V!VNext
  <1> QED
    BY <1>7, <1>8

-----------------------------------------------------------------------------
(* The steps of a restore.                                                 *)

\* The upload of a complete artifact fetches the newest copy.
LEMMA SendIsFetch ==
  ASSUME TypeOK, Exclusive, FreshInv, CarriedInv, ChosenInv, NEW w \in Workers, Send(w)
  PROVE  [V!VNext]_V!vvars
  <1> DEFINE d == Dir(w)
  <1>1. /\ pc[w] = "send" /\ pc'[w] \in {"extract", "inject"}
        /\ UNCHANGED <<container, staging, disk, todo, local>>
        /\ d \in Dirs /\ disk[d] \in SUBSET File /\ Cur(w) \in Items /\ d = DirOf[Cur(w)] /\ Stg(w) \in Stagings
    BY CurType DEF Send, Goto, TypeOK, Dir
  <1>2. WorkerStep(w) /\ Copies' = Copies
    BY <1>1 DEF WorkerStep, RestoreStep, Copies
  <1>3. PICK f \in disk[d] :
          /\ f.name = local[w].name
          /\ restaging' = [restaging EXCEPT ![Stg(w)].up =
               Put(@, [name |-> f.name, data |-> f.data, full |-> f.full])]
    BY DEF Send
  <1> DEFINE u == [name |-> f.name, data |-> f.data, full |-> f.full]
  <1>4. restaging'[Stg(w)].up = {u}
    <2>1. restaging'[Stg(w)].up = Put(restaging[Stg(w)].up, u)
      BY <1>1, <1>3 DEF TypeOK, RestoreDir
    <2> QED
      BY <1>1, <2>1 DEF CarriedInv, Carried, Put
  <1>5. Stg(w)' = Stg(w) /\ Cur(w)' = Cur(w)
    BY <1>1 DEF Stg, Cur
  <1>6. Extractable(w)' = IF f.full THEN {u} ELSE {}
    BY <1>1, <1>3, <1>4, <1>5 DEF Extractable, Uploaded
  <1>7. Held(w) = {} /\ Held(w)' = {} /\ Fetched(w) = {}
    BY <1>1 DEF Held, Fetched
  <1>8. CASE ~f.full
    <2>1. Fetched(w)' = {}
      BY <1>6, <1>8 DEF Fetched
    <2> QED
      BY <1>1, <1>2, <1>7, <2>1, LetsGo
  <1>9. CASE f.full
    <2>1. Fetched(w)' = {[item |-> Cur(w), data |-> f.data]}
      BY <1>1, <1>5, <1>6, <1>9 DEF Fetched
    <2> DEFINE e == [at |-> f.mtime, data |-> f.data]
    <2>2. \A g \in disk[d] \ {f} : g.mtime < f.mtime
      BY <1>1, <1>3 DEF ChosenInv, Chosen
    <2>3. e \in Complete(disk[d]) /\ \A x \in Complete(disk[d]) \ {e} : x.at < e.at
      BY <1>9, <2>2 DEF Complete
    <2>4. Copies[d] = Complete(disk[d])
      BY <1>1 DEF Copies
    <2>5. Snapshots' = Snapshots /\ Fetches' = [Fetches EXCEPT ![w] = {[item |-> Cur(w), data |-> f.data]}]
      BY <1>2, <1>7, <2>1, WorkerHolds DEF Snapshots
    <2>6. V!IsNewest(e, Copies[DirOf[Cur(w)]]) /\ e.data = f.data
      BY <1>1, <2>3, <2>4 DEF V!IsNewest
    <2>7. e \in Copies[DirOf[Cur(w)]]
      BY <2>6 DEF V!IsNewest
    <2> HIDE DEF e
    <2>8. V!Fetch(w, Cur(w))
      BY <1>1, <1>2, <2>5, <2>6, <2>7 DEF V!Fetch, V!CopyOf
    <2> QED
      BY <1>1, <2>8 DEF V!VNext
  <1> QED
    BY <1>8, <1>9

LEMMA ExtractKeeps ==
  ASSUME TypeOK, Exclusive, NEW w \in Workers, Extract(w)
  PROVE  [V!VNext]_V!vvars
  <1>1. /\ pc[w] = "extract" /\ pc'[w] = "inject" /\ UNCHANGED <<container, staging, disk, todo, local>>
        /\ Stg(w) \in Stagings
    BY CurType DEF Extract, Goto, TypeOK
  <1>2. WorkerStep(w) /\ Copies' = Copies
    BY <1>1 DEF WorkerStep, RestoreStep, Copies
  <1>3. Stg(w)' = Stg(w) /\ Cur(w)' = Cur(w)
    BY <1>1 DEF Stg, Cur
  <1>4. restaging'[Stg(w)].up = restaging[Stg(w)].up
    BY <1>1 DEF Extract, TypeOK, RestoreDir
  <1>5. Fetched(w)' = Fetched(w) /\ Held(w) = {} /\ Held(w)' = {}
    BY <1>1, <1>3, <1>4 DEF Fetched, Extractable, Uploaded, Held
  <1> QED
    BY <1>1, <1>2, <1>5, LetsGo

\* What gets into the container is what was fetched, or torn.
LEMMA InjectIsPutBack ==
  ASSUME TypeOK, Exclusive, CarriedInv, KindInv, DownloadsComplete => WholeUploads,
         NEW w \in Workers, Inject(w)
  PROVE  V!VNext
  <1>1. /\ pc[w] = "inject" /\ pc'[w] = "reclean" /\ UNCHANGED <<staging, restaging, disk, todo, local>>
        /\ Cur(w) \in Items
    BY CurType DEF Inject, Goto, TypeOK
  <1>2. PICK x \in Injected(w) : \E c \in CopiedIn(Cur(w), container[Cur(w)], x) :
          container' = [container EXCEPT ![Cur(w)] = c]
    BY DEF Inject
  <1>10. PICK c \in CopiedIn(Cur(w), container[Cur(w)], x) : container' = [container EXCEPT ![Cur(w)] = c]
    BY <1>2
  <1>3. WorkerStep(w) /\ Copies' = Copies
    BY <1>1 DEF WorkerStep, RestoreStep, Copies
  <1>4. Held(w) = {} /\ Held(w)' = {} /\ Fetched(w)' = {}
    BY <1>1 DEF Held, Fetched
  <1>5. Snapshots' = Snapshots /\ Fetches' = [Fetches EXCEPT ![w] = {}]
    BY <1>3, <1>4, WorkerHolds DEF Snapshots
  <1>6. PICK u \in restaging[Stg(w)].up :
          /\ restaging[Stg(w)].up = {u} /\ u.name = local[w].name
          /\ local[w].name.gz => u.full /\ restaging[Stg(w)].ext = u.data
    BY <1>1 DEF CarriedInv, Carried
  <1>7. Uploaded(w) = {u}
    BY <1>6 DEF Uploaded
  <1>8. CASE u.full /\ x = u.data
    <2>1. [item |-> Cur(w), data |-> x] \in Fetches[w]
      BY <1>1, <1>7, <1>8 DEF Fetches, Fetched, Extractable
    <2>2. V!PutBack(w)
      <3>1. PICK s \in Fetches[w] : s.item = Cur(w) /\ s.data = x
        BY <2>1
      <3> QED
        BY <1>10, <1>3, <1>5, <3>1, SameDockerCp DEF V!PutBack
    <2> QED
      BY <2>2 DEF V!VNext
  <1>9. CASE ~(u.full /\ x = u.data)
    <2>1. ~local[w].name.gz /\ x = Torn /\ ~(u.full /\ Cur(w) \notin DirItems)
      BY <1>2, <1>6, <1>7, <1>9 DEF Injected
    <2>2. ~u.full
      BY <1>1, <2>1 DEF KindInv, Kind, NamedWork
    <2>3. ~DownloadsComplete
      BY <1>1, <1>6, <2>2 DEF WholeUploads, WholeUpload
    <2>4. Faults \cap {"receive", "inject", "crash"} # {}
      BY <2>3 DEF DownloadsComplete
    <2>5. c = Torn
      BY <1>10, <2>1 DEF CopiedIn
    <2>6. V!Tear(w, Cur(w))
      BY <1>10, <1>3, <1>5, <2>4, <2>5, SameDockerCp DEF V!Tear
    <2> QED
      BY <1>1, <2>6 DEF V!VNext
  <1> QED
    BY <1>8, <1>9

-----------------------------------------------------------------------------
(* The other steps.                                                        *)

\* A run that fails lets go, or tears the container.
LEMMA FailLetsGo ==
  ASSUME TypeOK, Exclusive, CarriedInv, NEW w \in Workers, Fail(w)
  PROVE  [V!VNext]_V!vvars
  <1>1. /\ pc[w] # "idle" /\ pc'[w] = "idle" /\ disk' = disk /\ Cur(w) \in Items
    BY CurType DEF Fail, EndRun, TypeOK
  <1>2. Held(w)' = {} /\ Fetched(w)' = {} /\ Copies' = Copies /\ WorkerStep(w)
    BY <1>1 DEF Held, Fetched, Copies, WorkerStep
  <1>3. \/ container' = container
        \/ pc[w] = "inject" /\ container' = [container EXCEPT ![Cur(w)] = Torn]
    BY DEF Fail, Spoil, remote
  <1>4. CASE container' = container
    BY <1>2, <1>4, LetsGo
  <1>5. CASE pc[w] = "inject" /\ container' = [container EXCEPT ![Cur(w)] = Torn]
    <2>1. Held(w) = {}
      BY <1>5 DEF Held
    <2>2. Snapshots' = Snapshots /\ Fetches' = [Fetches EXCEPT ![w] = {}]
      BY <1>2, <2>1, WorkerHolds DEF Snapshots
    <2>3. Injected(w) # {}
      <3>1. PICK u \in restaging[Stg(w)].up :
              /\ restaging[Stg(w)].up = {u} /\ u.name = local[w].name
              /\ local[w].name.gz => restaging[Stg(w)].ext = u.data
        BY <1>5 DEF CarriedInv, Carried
      <3>2. u.data # None
        <4>1. restaging[Stg(w)] \in RestoreDir
          BY <1>1, CurType DEF TypeOK
        <4>2. u.data \in Data
          BY <3>1, <4>1 DEF RestoreDir, Upload
        <4> QED
          BY <4>2, Numbers
      <3>3. Uploaded(w) = {u}
        BY <3>1 DEF Uploaded
      <3> QED
        BY <3>1, <3>2, <3>3 DEF Injected
    <2>4. "inject" \in Faults
      BY <1>5, <2>3 DEF Fail, Broken
    <2>5. V!Tear(w, Cur(w))
      BY <1>2, <1>5, <2>2, <2>4, SameDockerCp DEF V!Tear
    <2> QED
      BY <1>1, <2>5 DEF V!VNext
  <1> QED
    BY <1>3, <1>4, <1>5

\* The steps that change no file and nothing on the way.
LEMMA SameCopies ==
  ASSUME TypeOK, Exclusive, NEW w \in Workers,
         \/ Start(w) \/ StageBackup(w) \/ Detect(w) \/ Digest(w) \/ Skip(w) \/ NameArtifact(w) \/ Archive(w)
         \/ Prune(w) \/ CleanBackup(w) \/ Pick(w) \/ Restage(w) \/ CleanRestore(w)
  PROVE  [V!VNext]_V!vvars
  <1>1. UNCHANGED <<container, disk>>
    BY DEF Start, StageBackup, Detect, Digest, Skip, NameArtifact, Archive, Prune, CleanBackup, Pick,
      Restage, CleanRestore, remote
  <1>2. Copies' = Copies
    BY <1>1 DEF Copies
  <1>3. Start(w) \/ WorkerStep(w)
    BY DEF WorkerStep, BackupStep, RestoreStep
  <1>4. pc \in [Workers -> Steps \cup {"idle"}] /\ staging \in [Stagings -> StagingDir]
    BY DEF TypeOK
  <1>5. CASE Detect(w) \/ Digest(w) \/ NameArtifact(w) \/ Archive(w)
    <2>1. /\ pc[w] \in {"detect", "digest", "decide", "archive"}
          /\ pc'[w] \in {"digest", "decide", "archive", "open"} /\ todo' = todo
      BY <1>4, <1>5 DEF Detect, Digest, NameArtifact, Archive, Goto
    <2>2. Stg(w)' = Stg(w) /\ Cur(w)' = Cur(w) /\ Stg(w) \in Stagings
      BY <2>1, CurType DEF Stg, Cur
    <2>3. staging'[Stg(w)].payload = staging[Stg(w)].payload
      BY <1>4, <1>5, <2>2 DEF Detect, Digest, NameArtifact, Archive, remote, StagingDir
    <2>4. Held(w)' = Held(w) /\ Fetched(w)' = Fetched(w)
      BY <2>1, <2>2, <2>3 DEF Held, Fetched
    <2> QED
      BY <1>1, <1>2, <1>3, <2>4, LetsGo
  <1>6. CASE \/ Start(w) \/ StageBackup(w) \/ Skip(w) \/ Prune(w) \/ CleanBackup(w) \/ Pick(w) \/ Restage(w)
             \/ CleanRestore(w)
    <2>1. pc'[w] \in {"idle", "stage", "copy", "cleanskip", "clean", "remove", "pick", "restage", "send"}
      BY <1>4, <1>6 DEF Start, StageBackup, Skip, Prune, CleanBackup, Pick, Restage, CleanRestore, NextItem,
        Goto, FirstStep
    <2>2. Held(w)' = {} /\ Fetched(w)' = {}
      BY <2>1 DEF Held, Fetched
    <2> QED
      BY <1>1, <1>2, <1>3, <2>2, LetsGo
  <1> QED
    BY <1>5, <1>6

LEMMA OpenKeeps ==
  ASSUME TypeOK, Exclusive, OrderInv, NEW w \in Workers, Open(w)
  PROVE  [V!VNext]_V!vvars
  <1>1. /\ pc[w] = "open" /\ pc'[w] = "receive" /\ UNCHANGED <<container, staging, restaging, todo>>
    BY DEF Open, Goto, TypeOK, remote
  <1>2. Held(w)' = Held(w) /\ Fetched(w)' = Fetched(w)
    BY <1>1 DEF Held, Fetched, Stg, Cur
  <1>3. WorkerStep(w)
    BY DEF WorkerStep, BackupStep
  <1> QED
    BY <1>1, <1>2, <1>3, OpenKeepsCopies, LetsGo

\* A user deletes a copy, or a truncated file.
LEMMA DeleteIsDelete ==
  ASSUME TypeOK, FreshInv, RetainInv, NEW d \in Deletable, NEW f \in disk[d], DeleteFile(d, f)
  PROVE  [V!VNext]_V!vvars
  <1>1. d \in Dirs
    BY ConstantsAssumption DEF ConstantsAssumption
  <1>2. /\ disk'[d] = disk[d] \ {f} /\ Timed(disk[d])
        /\ \A e \in Dirs \ {d} : disk'[e] = disk[e]
    BY <1>1 DEF DeleteFile, TypeOK, FreshInv, RetainInv
  <1>3. UNCHANGED <<container, Snapshots, Fetches>>
    BY DEF DeleteFile, remote, Snapshots, Fetches, Held, Fetched, Extractable, Uploaded, Stg, Cur
  <1>4. CASE ~f.full
    <2>1. Copies' = Copies
      BY <1>1, <1>2, <1>4, CompleteWithout, CopiesStay
    <2> QED
      BY <1>3, <2>1 DEF V!vvars
  <1>5. CASE f.full
    <2> DEFINE e == [at |-> f.mtime, data |-> f.data]
    <2>1. Complete(disk'[d]) = Complete(disk[d]) \ {e}
      BY <1>1, <1>2, <1>5, CompleteWithout
    <2>2. Copies' = [Copies EXCEPT ![d] = @ \ {e}]
      BY <1>1, <1>2, <2>1, CopiesChange DEF Copies
    <2>3. e \in Copies[d]
      BY <1>1, <1>5 DEF Copies, Complete
    <2>4. V!Delete(d)
      BY <1>3, <2>2, <2>3 DEF V!Delete
    <2> QED
      BY <1>1, <2>4 DEF V!VNext
  <1> QED
    BY <1>4, <1>5

\* The process dies: every run lets go.
LEMMA CrashLetsGo == ASSUME TypeOK, Crash PROVE V!VNext
  <1>1. UNCHANGED <<container, Copies>>
    BY DEF Crash, remote, Copies
  <1>2. \A w \in Workers : Held(w)' = {} /\ Fetched(w)' = {}
    BY DEF Crash, Held, Fetched
  <1>3. V!LetGo(Workers)
    BY <1>1, <1>2 DEF V!LetGo, Snapshots, Fetches
  <1> QED
    BY <1>3 DEF V!VNext

LEMMA VaultStep ==
  ASSUME TypeOK, Exclusive, FreshInv, OrderInv, NamesInv, RetainInv, KeptInv, CarriedInv, ChosenInv,
         KindInv, DownloadsComplete => WholeUploads, [Next]_vars
  PROVE  [V!VNext]_V!vvars
  <1>1. ASSUME NEW w \in Workers, Start(w) \/ WorkerStep(w)
        PROVE  [V!VNext]_V!vvars
    BY <1>1, SameCopies, CopyIsSnapshot, OpenKeeps, ReceiveIsStore, RemoveIsExpire, SendIsFetch, ExtractKeeps,
      InjectIsPutBack, FailLetsGo DEF WorkerStep, BackupStep, RestoreStep
  <1>2. ASSUME NEW i \in Items, NEW c \in Contents, ContainerWrite(i, c)
        PROVE  V!VNext
    <2>1. UNCHANGED <<Snapshots, Fetches, Copies>>
      BY <1>2 DEF ContainerWrite, Snapshots, Fetches, Copies, Held, Fetched, Extractable, Uploaded, Stg, Cur
    <2>2. V!Write(i, c)
      BY <1>2, <2>1 DEF ContainerWrite, V!Write
    <2> QED
      BY <2>2, SameDockerCp DEF V!VNext
  <1>3. CASE Tick \/ UNCHANGED vars
    <2>1. UNCHANGED <<container, Snapshots, Fetches, Copies>>
      BY <1>3 DEF Tick, vars, remote, Snapshots, Fetches, Copies, Held, Fetched, Extractable, Uploaded, Stg, Cur
    <2> QED
      BY <2>1 DEF V!vvars
  <1> QED
    BY <1>1, <1>2, <1>3, DeleteIsDelete, CrashLetsGo DEF Next

LEMMA VaultInit == Init => V!VInit
  <1> SUFFICES ASSUME Init PROVE V!VInit
    OBVIOUS
  <1>1. Snapshots = [w \in Workers |-> {}] /\ Fetches = [w \in Workers |-> {}]
    BY DEF Init, Snapshots, Fetches, Held, Fetched
  <1>2. Copies = [d \in Dirs |-> {}]
    BY DEF Init, Copies, Complete
  <1> QED
    BY <1>1, <1>2, SameDockerCp DEF Init, V!VInit

\* While no two workers share a staging directory or a subdirectory, and no two
\* instants share the second of a name, backups and restores keep the vault,
\* whatever fails, crashes or is deleted.
THEOREM VaultKept == ASSUME Exclusive, PerSecond = 1 PROVE Spec => KeepsVault
  <1>1. /\ TypeOK /\ FreshInv /\ OrderInv /\ NamesInv /\ RetainInv /\ KeptInv /\ CarriedInv /\ ChosenInv
        /\ KindInv /\ (DownloadsComplete => WholeUploads) /\ [Next]_vars
        => [V!VNext]_V!vvars
    BY VaultStep
  <1>2. Spec => [](DownloadsComplete => WholeUploads)
    <2>1. CASE DownloadsComplete
      BY <2>1, WholeUploadsInvariant, PTL
    <2>2. CASE ~DownloadsComplete
      <3>1. DownloadsComplete => WholeUploads
        BY <2>2
      <3> QED
        BY <3>1, PTL
    <2> QED
      BY <2>1, <2>2
  <1> QED
    BY <1>1, <1>2, VaultInit, TypeCorrect, FreshInvariant, OrderInvariant, NamesInvariant, RetainInvariant,
      KeptInvariant, CarriedInvariant, ChosenInvariant, KindInvariant, PTL DEF Spec, KeepsVault, V!VSpec
=============================================================================
