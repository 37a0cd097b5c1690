------------------------ MODULE BackupServiceProofs ------------------------
(***************************************************************************)
(* Proofs about BackupService, for any number of workers, items, contents  *)
(* and any choice of what may fail.                                        *)
(***************************************************************************)
EXTENDS BackupService, SequenceTheorems, TLAPS

-----------------------------------------------------------------------------
(* Type correctness.                                                       *)

\* A busy worker has a current item, and its directories are the item's.
LEMMA CurType ==
  ASSUME TypeOK, NEW w \in Workers, pc[w] # "idle"
  PROVE  /\ todo[w] # <<>>
         /\ Cur(w) \in ItemsOf[w] /\ Cur(w) \in Items
         /\ Stg(w) \in Stagings /\ Dir(w) \in Dirs /\ Keep(w) \in Nat
  <1>1. todo[w] # <<>> /\ todo[w] \in Seq(ItemsOf[w])
    BY DEF TypeOK
  <1>2. Head(todo[w]) \in ItemsOf[w]
    BY <1>1
  <1>3. ItemsOf[w] \subseteq Items
    BY ConstantsAssumption DEF ConstantsAssumption
  <1> QED
    BY <1>1, <1>2, <1>3, ConstantsAssumption DEF ConstantsAssumption, Cur, Stg, Dir, Keep

\* The worker goes on to another step of the same item.
LEMMA GotoType ==
  ASSUME TypeOK, NEW w \in Workers, pc[w] # "idle",
         NEW s \in Steps, Goto(w, s), todo' = todo
  PROVE  /\ pc' \in [Workers -> Steps \cup {"idle"}]
         /\ todo' \in [Workers -> Seq(Items)]
         /\ \A v \in Workers : todo'[v] \in Seq(ItemsOf[v]) /\ (pc'[v] = "idle" <=> todo'[v] = <<>>)
  BY DEF TypeOK, Goto, Steps, BackupSteps, RestoreSteps

\* The data numbers are naturals, in their order.
LEMMA Numbers ==
  /\ NContents \in Nat /\ Torn \in Nat /\ EmptyTree \in Nat
  /\ None \in 0..Torn /\ Torn \in Data /\ Contents \subseteq Data /\ Data \subseteq 0..Torn
  /\ Data \subseteq Hashes /\ NoHash \in Hashes /\ EmptyTree \in Hashes
  /\ 0..Torn \subseteq Hashes /\ None \notin Data /\ NoHash = None
  <1>1. NContents \in Nat \ {0}
    BY DockerCpAssumption DEF DockerCpAssumption
  <1> QED
    BY <1>1 DEF None, Torn, Contents, Data, NoHash, EmptyTree, Hashes

\* What docker cp reads is data, and so is what it leaves in a container, which
\* has every file of what was laid over it.
LEMMA CopiedData ==
  ASSUME NEW i \in Items, NEW c \in Data
  PROVE  /\ CopiedOut(i, c) \subseteq Data
         /\ \A x \in Data : \A r \in CopiedIn(i, c, x) : r \in Data /\ Has(r, x)
  <1>1. CopiedOut(i, c) \subseteq Data
    BY Numbers DEF CopiedOut
  <1>2. ASSUME NEW x \in Data, NEW r \in CopiedIn(i, c, x)
        PROVE  r \in Data /\ Has(r, x)
    <2>1. \A y \in Data : y = Torn \/ y \in Contents
      BY DockerCpAssumption DEF DockerCpAssumption, Data, Torn, Contents
    <2>2. CASE r = x
      BY <2>1, <2>2, DockerCpAssumption DEF Has, DockerCpAssumption
    <2>3. CASE r # x
      <3>1. x \in Contents
        BY <1>2, <2>1, <2>3 DEF CopiedIn
      <3>2. PICK z \in Contents : r = Merged[z][x]
        BY <1>2, <2>1, <2>3 DEF CopiedIn
      <3> QED
        BY <3>1, <3>2, Numbers, DockerCpAssumption DEF Has, DockerCpAssumption
    <2> QED
      BY <2>2, <2>3
  <1> QED
    BY <1>1, <1>2

LEMMA BlankType == Blank \in Locals
  <1>1. NoName \in Name
    BY Numbers DEF NoName, Name
  <1>2. None \in 0..Torn /\ NoHash \in Hashes /\ {} \in SUBSET File
    BY Numbers
  <1> QED
    BY <1>1, <1>2 DEF Blank, Locals

\* What is left to show of pc, todo and local when one worker's change.
LEMMA WorkerType ==
  ASSUME TypeOK, NEW w \in Workers,
         NEW p \in Steps \cup {"idle"}, NEW t \in Seq(ItemsOf[w]), NEW l \in Locals,
         p = "idle" <=> t = <<>>,
         pc' = [pc EXCEPT ![w] = p], todo' = [todo EXCEPT ![w] = t],
         local' = [local EXCEPT ![w] = l]
  PROVE  /\ pc' \in [Workers -> Steps \cup {"idle"}]
         /\ todo' \in [Workers -> Seq(Items)]
         /\ local' \in [Workers -> Locals]
         /\ \A v \in Workers : todo'[v] \in Seq(ItemsOf[v]) /\ (pc'[v] = "idle" <=> todo'[v] = <<>>)
  <1>1. ItemsOf[w] \subseteq Items
    BY ConstantsAssumption DEF ConstantsAssumption
  <1>2. t \in Seq(Items)
    BY <1>1
  <1>3. pc' \in [Workers -> Steps \cup {"idle"}] /\ todo' \in [Workers -> Seq(Items)]
    BY <1>2 DEF TypeOK
  <1>4. local' \in [Workers -> Locals]
    BY DEF TypeOK
  <1>5. ASSUME NEW v \in Workers
        PROVE  todo'[v] \in Seq(ItemsOf[v]) /\ (pc'[v] = "idle" <=> todo'[v] = <<>>)
    <2>1. CASE v = w
      <3>1. pc'[v] = p /\ todo'[v] = t
        BY <2>1 DEF TypeOK
      <3> QED
        BY <3>1, <2>1
    <2>2. CASE v # w
      <3>1. pc'[v] = pc[v] /\ todo'[v] = todo[v]
        BY <2>2 DEF TypeOK
      <3> QED
        BY <3>1 DEF TypeOK
    <2> QED
      BY <2>1, <2>2
  <1> QED
    BY <1>3, <1>4, <1>5

LEMMA EndType ==
  ASSUME TypeOK, NEW w \in Workers, EndRun(w)
  PROVE  /\ pc' \in [Workers -> Steps \cup {"idle"}]
         /\ todo' \in [Workers -> Seq(Items)]
         /\ local' \in [Workers -> Locals]
         /\ \A v \in Workers : todo'[v] \in Seq(ItemsOf[v]) /\ (pc'[v] = "idle" <=> todo'[v] = <<>>)
  <1>1. <<>> \in Seq(ItemsOf[w]) /\ "idle" \in Steps \cup {"idle"}
    BY EmptySeq
  <1> QED
    BY <1>1, BlankType, WorkerType DEF EndRun

LEMMA NextItemType ==
  ASSUME TypeOK, NEW w \in Workers, pc[w] # "idle",
         NEW op, NextItem(w, op)
  PROVE  /\ pc' \in [Workers -> Steps \cup {"idle"}]
         /\ todo' \in [Workers -> Seq(Items)]
         /\ local' \in [Workers -> Locals]
         /\ \A v \in Workers : todo'[v] \in Seq(ItemsOf[v]) /\ (pc'[v] = "idle" <=> todo'[v] = <<>>)
  <1>1. todo[w] # <<>> /\ todo[w] \in Seq(ItemsOf[w])
    BY DEF TypeOK
  <1>2. Tail(todo[w]) \in Seq(ItemsOf[w])
    BY <1>1, HeadTailProperties
  <1>3. todo' = [todo EXCEPT ![w] = Tail(todo[w])]
    BY DEF NextItem, TypeOK
  <1>4. /\ pc' = [pc EXCEPT ![w] = FirstStep(op, Tail(todo[w]))]
        /\ local' = [local EXCEPT ![w] = Blank]
    BY DEF NextItem, Goto
  <1>5. /\ FirstStep(op, Tail(todo[w])) \in Steps \cup {"idle"}
        /\ FirstStep(op, Tail(todo[w])) = "idle" <=> Tail(todo[w]) = <<>>
    <2>1. "idle" \notin Steps /\ "stage" \in Steps /\ "pick" \in Steps
      BY DEF Steps, BackupSteps, RestoreSteps
    <2> QED
      BY <2>1 DEF FirstStep
  <1> QED
    BY <1>2, <1>3, <1>4, <1>5, BlankType, WorkerType

\* The disk keeps its type when a directory gets a set of files.
LEMMA DiskType ==
  ASSUME TypeOK, NEW d \in Dirs, NEW files \in SUBSET File, disk' = [disk EXCEPT ![d] = files]
  PROVE  disk' \in [Dirs -> SUBSET File]
  BY DEF TypeOK

LEMMA StagingType ==
  ASSUME TypeOK, NEW s \in Stagings, NEW x \in StagingDir, staging' = [staging EXCEPT ![s] = x]
  PROVE  staging' \in [Stagings -> StagingDir]
  BY DEF TypeOK

LEMMA RestagingType ==
  ASSUME TypeOK, NEW s \in Stagings, NEW x \in RestoreDir, restaging' = [restaging EXCEPT ![s] = x]
  PROVE  restaging' \in [Stagings -> RestoreDir]
  BY DEF TypeOK

LEMMA EmptyStagings ==
  /\ Gone \in StagingDir /\ Emptied \in StagingDir /\ NoUpload \in RestoreDir
  BY Numbers DEF Gone, Emptied, NoUpload, StagingDir, RestoreDir

\* The remote side of a backup: only the item's staging directory changes.
LEMMA StagingStepType ==
  ASSUME TypeOK, NEW w \in Workers, StageBackup(w) \/ Copy(w) \/ Archive(w)
  PROVE  TypeOK'
  <1>1. pc[w] # "idle"
    BY DEF StageBackup, Copy, Archive
  <1>2. Stg(w) \in Stagings /\ Cur(w) \in Items
    BY <1>1, CurType
  <1>3. staging[Stg(w)] \in StagingDir /\ container[Cur(w)] \in Data
    BY <1>2 DEF TypeOK
  <1>4. CASE StageBackup(w)
    <2>1. staging' \in [Stagings -> StagingDir]
      BY <1>2, <1>4, EmptyStagings, StagingType DEF StageBackup
    <2>2. "copy" \in Steps
      BY DEF Steps, BackupSteps
    <2> QED
      BY <1>1, <1>4, <2>1, <2>2, GotoType DEF TypeOK, StageBackup
  <1>5. CASE Copy(w)
    <2>1. PICK p \in 0..Torn : staging' = [staging EXCEPT ![Stg(w)].payload = p]
      <3>1. \A x \in CopiedOut(Cur(w), container[Cur(w)]) : x \in 0..Torn
        BY <1>2, <1>3, CopiedData, Numbers
      <3>2. PICK x \in CopiedOut(Cur(w), container[Cur(w)]) :
              staging' = [staging EXCEPT ![Stg(w)].payload =
                IF Cur(w) \in DirItems /\ staging[Stg(w)].payload # None THEN Torn ELSE x]
        BY <1>5 DEF Copy
      <3> QED
        BY <3>1, <3>2, Numbers
    <2>2. staging' \in [Stagings -> StagingDir]
      BY <1>2, <1>3, <2>1 DEF TypeOK, StagingDir
    <2>3. "detect" \in Steps
      BY DEF Steps, BackupSteps
    <2> QED
      BY <1>1, <1>5, <2>2, <2>3, GotoType DEF TypeOK, Copy
  <1>6. CASE Archive(w)
    <2>1. staging' \in [Stagings -> StagingDir]
      BY <1>2, <1>3, <1>6 DEF TypeOK, Archive, StagingDir
    <2>2. "open" \in Steps
      BY DEF Steps, BackupSteps
    <2> QED
      BY <1>1, <1>6, <2>1, <2>2, GotoType DEF TypeOK, Archive
  <1> QED
    BY <1>4, <1>5, <1>6

\* The steps that only change the worker's local variables.
LEMMA DecisionType ==
  ASSUME TypeOK, NEW w \in Workers,
         Detect(w) \/ Digest(w) \/ Skip(w) \/ NameArtifact(w) \/ Prune(w)
  PROVE  TypeOK'
  <1>1. pc[w] # "idle"
    BY DEF Detect, Digest, Skip, NameArtifact, Prune
  <1>2. Stg(w) \in Stagings /\ Cur(w) \in Items /\ Dir(w) \in Dirs
    BY <1>1, CurType
  <1>3. staging[Stg(w)] \in StagingDir /\ local[w] \in Locals /\ disk[Dir(w)] \in SUBSET File
    BY <1>2 DEF TypeOK
  <1>4. /\ "digest" \in Steps /\ "decide" \in Steps /\ "cleanskip" \in Steps /\ "archive" \in Steps
        /\ "open" \in Steps /\ "clean" \in Steps /\ "remove" \in Steps
    BY DEF Steps, BackupSteps
  <1>5. CASE Detect(w)
    <2>1. local' \in [Workers -> Locals]
      BY <1>3, <1>5 DEF TypeOK, Detect, Locals
    <2> QED
      BY <1>1, <1>4, <1>5, <2>1, GotoType DEF TypeOK, Detect, remote
  <1>6. CASE Digest(w)
    <2>1. DigestOf(w) \in Hashes
      BY <1>3, Numbers DEF DigestOf, StagingDir
    <2>2. PICK h \in Hashes : local' = [local EXCEPT ![w].hash = h]
      BY <1>6, <2>1, Numbers DEF Digest
    <2>3. local' \in [Workers -> Locals]
      BY <1>3, <2>2 DEF TypeOK, Locals
    <2> QED
      BY <1>1, <1>4, <1>6, <2>3, GotoType DEF TypeOK, Digest, remote
  <1>7. CASE Skip(w)
    BY <1>1, <1>4, <1>7, GotoType DEF TypeOK, Skip, remote
  <1>8. CASE NameArtifact(w)
    <2>1. now \div PerSecond \in Nat
      <3>1. now \in Nat /\ PerSecond \in Nat /\ PerSecond > 0
        BY ConstantsAssumption DEF ConstantsAssumption, TypeOK
      <3> QED
        BY <3>1, Z3
    <2>2. BaseName(w) \in Name
      BY <1>3, <2>1 DEF BaseName, Name, Locals
    <2>3. local' \in [Workers -> Locals]
      BY <1>3, <1>8, <2>2 DEF TypeOK, NameArtifact, Locals
    <2>4. CASE local[w].isDir
      BY <1>1, <1>4, <1>8, <2>3, <2>4, GotoType DEF TypeOK, NameArtifact, remote
    <2>5. CASE ~local[w].isDir
      BY <1>1, <1>4, <1>8, <2>3, <2>5, GotoType DEF TypeOK, NameArtifact, remote
    <2> QED
      BY <2>4, <2>5
  <1>9. CASE Prune(w)
    <2>1. Victims(disk[Dir(w)], Keep(w)) \in SUBSET File
      BY <1>3 DEF Victims
    <2>2. local' \in [Workers -> Locals]
      BY <1>3, <1>9, <2>1 DEF TypeOK, Prune, Locals
    <2>3. CASE Victims(disk[Dir(w)], Keep(w)) = {}
      BY <1>1, <1>4, <1>9, <2>2, <2>3, GotoType DEF TypeOK, Prune, remote
    <2>4. CASE Victims(disk[Dir(w)], Keep(w)) # {}
      BY <1>1, <1>4, <1>9, <2>2, <2>4, GotoType DEF TypeOK, Prune, remote
    <2> QED
      BY <2>3, <2>4
  <1> QED
    BY <1>5, <1>6, <1>7, <1>8, <1>9

\* The steps that change artifact files.
LEMMA FileStepType ==
  ASSUME TypeOK, NEW w \in Workers, Open(w) \/ Receive(w) \/ RemoveVictim(w)
  PROVE  TypeOK'
  <1>1. pc[w] # "idle"
    BY DEF Open, Receive, RemoveVictim
  <1>2. Stg(w) \in Stagings /\ Cur(w) \in Items /\ Dir(w) \in Dirs
    BY <1>1, CurType
  <1>3. /\ staging[Stg(w)] \in StagingDir /\ local[w] \in Locals /\ disk[Dir(w)] \in SUBSET File
        /\ now \in Nat /\ now + 1 \in Nat
    BY <1>2 DEF TypeOK
  <1>4. "receive" \in Steps /\ "prune" \in Steps /\ "clean" \in Steps /\ "remove" \in Steps
    BY DEF Steps, BackupSteps
  <1>5. CASE Open(w)
    <2>1. Source(w) \in Data
      BY <1>3, <1>5, Numbers DEF Open, Source, StagingDir, Data, None
    <2>2. [name |-> local[w].name, data |-> Source(w), full |-> FALSE, mtime |-> now] \in File
      BY <1>3, <2>1 DEF File, Locals
    <2>3. disk' \in [Dirs -> SUBSET File]
      BY <1>2, <1>3, <1>5, <2>2 DEF TypeOK, Open, Put
    <2>4. local' \in [Workers -> Locals]
      BY <1>3, <1>5, <2>1, Numbers DEF TypeOK, Open, Locals
    <2> QED
      BY <1>1, <1>3, <1>4, <1>5, <2>3, <2>4, GotoType DEF TypeOK, Open, remote
  <1>6. CASE Receive(w)
    <2>1. \A f \in disk[Dir(w)] : Written(w, f) \in File
      BY <1>3 DEF Written, File
    <2>2. disk' \in [Dirs -> SUBSET File]
      BY <1>2, <1>6, <2>1 DEF TypeOK, Receive
    <2> QED
      BY <1>1, <1>3, <1>4, <1>6, <2>2, GotoType DEF TypeOK, Receive, remote
  <1>7. CASE RemoveVictim(w)
    <2>1. PICK v \in local[w].victims :
            /\ disk' = [disk EXCEPT ![Dir(w)] = {f \in @ : f.name # v.name}]
            /\ local' = [local EXCEPT ![w].victims = @ \ {v}]
            /\ Goto(w, IF local[w].victims = {v} THEN "clean" ELSE "remove")
      BY <1>7 DEF RemoveVictim
    <2>2. disk' \in [Dirs -> SUBSET File]
      BY <1>2, <1>3, <2>1 DEF TypeOK
    <2>3. local' \in [Workers -> Locals]
      BY <1>3, <2>1 DEF TypeOK, Locals
    <2>4. PICK s \in Steps : Goto(w, s)
      BY <1>4, <2>1
    <2> QED
      BY <1>1, <1>3, <1>7, <2>2, <2>3, <2>4, GotoType DEF TypeOK, RemoveVictim, remote
  <1> QED
    BY <1>5, <1>6, <1>7

LEMMA RestoreStepType ==
  ASSUME TypeOK, NEW w \in Workers,
         Pick(w) \/ Restage(w) \/ Send(w) \/ Extract(w) \/ Inject(w)
  PROVE  TypeOK'
  <1>1. pc[w] # "idle"
    BY DEF Pick, Restage, Send, Extract, Inject
  <1>2. Stg(w) \in Stagings /\ Cur(w) \in Items /\ Dir(w) \in Dirs
    BY <1>1, CurType
  <1>3. restaging[Stg(w)] \in RestoreDir /\ local[w] \in Locals /\ disk[Dir(w)] \in SUBSET File
    BY <1>2 DEF TypeOK
  <1>4. "restage" \in Steps /\ "send" \in Steps /\ "extract" \in Steps /\ "inject" \in Steps /\ "reclean" \in Steps
    BY DEF Steps, RestoreSteps
  <1>5. CASE Pick(w)
    <2>1. PICK f \in File : local' = [local EXCEPT ![w].name = f.name]
      BY <1>3, <1>5 DEF Pick
    <2>2. local' \in [Workers -> Locals]
      BY <1>3, <2>1 DEF TypeOK, Locals, File
    <2> QED
      BY <1>1, <1>4, <1>5, <2>2, GotoType DEF TypeOK, Pick, remote
  <1>6. CASE Restage(w)
    <2>1. restaging' \in [Stagings -> RestoreDir]
      BY <1>2, <1>6, EmptyStagings, RestagingType DEF Restage
    <2> QED
      BY <1>1, <1>4, <1>6, <2>1, GotoType DEF TypeOK, Restage
  <1>7. CASE Send(w)
    <2>1. PICK f \in File : restaging' = [restaging EXCEPT ![Stg(w)].up =
              Put(@, [name |-> f.name, data |-> f.data, full |-> f.full])]
      BY <1>3, <1>7 DEF Send
    <2>2. [name |-> f.name, data |-> f.data, full |-> f.full] \in Upload
      BY <2>1 DEF File, Upload
    <2>3. restaging' \in [Stagings -> RestoreDir]
      BY <1>2, <1>3, <2>1, <2>2 DEF TypeOK, RestoreDir, Put
    <2>4. PICK s \in Steps : Goto(w, s)
      BY <1>4, <1>7 DEF Send
    <2> QED
      BY <1>1, <1>7, <2>3, <2>4, GotoType DEF TypeOK, Send
  <1>8. CASE Extract(w)
    <2>1. PICK u \in Upload : restaging' =
            [restaging EXCEPT ![Stg(w)].ext = IF @ \in {None, u.data} THEN u.data ELSE Torn]
      BY <1>3, <1>8 DEF Extract, Extractable, Uploaded, RestoreDir
    <2>2. u.data \in 0..Torn /\ Torn \in 0..Torn
      BY <2>1, Numbers DEF Upload
    <2>3. restaging' \in [Stagings -> RestoreDir]
      BY <1>2, <1>3, <2>1, <2>2 DEF TypeOK, RestoreDir
    <2> QED
      BY <1>1, <1>4, <1>8, <2>3, GotoType DEF TypeOK, Extract
  <1>9. CASE Inject(w)
    <2>1. Injected(w) \subseteq Data
      <3>1. restaging[Stg(w)].ext \in 0..Torn /\ restaging[Stg(w)].up \subseteq Upload
        BY <1>3 DEF RestoreDir
      <3>2. \A x \in 0..Torn : x # None => x \in Data
        BY Numbers DEF Data, None
      <3>3. \A u \in Uploaded(w) : u.data \in Data
        BY <3>1 DEF Uploaded, Upload
      <3> QED
        BY <3>1, <3>2, <3>3, Numbers DEF Injected
    <2>2. container' \in [Items -> Data]
      <3>1. \A x \in Injected(w) : CopiedIn(Cur(w), container[Cur(w)], x) \subseteq Data
        BY <1>2, <2>1, CopiedData DEF TypeOK
      <3> QED
        BY <1>2, <1>9, <3>1 DEF TypeOK, Inject
    <2> QED
      BY <1>1, <1>4, <1>9, <2>2, GotoType DEF TypeOK, Inject
  <1> QED
    BY <1>5, <1>6, <1>7, <1>8, <1>9

\* The steps that end an item or a run.
LEMMA EndStepType ==
  ASSUME TypeOK, NEW w \in Workers, CleanBackup(w) \/ CleanRestore(w) \/ Fail(w)
  PROVE  TypeOK'
  <1>1. pc[w] # "idle"
    BY DEF CleanBackup, CleanRestore, Fail
  <1>2. Stg(w) \in Stagings /\ Cur(w) \in Items /\ Dir(w) \in Dirs
    BY <1>1, CurType
  <1>3. staging[Stg(w)] \in StagingDir /\ restaging[Stg(w)] \in RestoreDir /\ local[w] \in Locals
    BY <1>2 DEF TypeOK
  <1>4. CASE CleanBackup(w)
    <2>1. staging' \in [Stagings -> StagingDir]
      BY <1>2, <1>4, EmptyStagings, StagingType DEF CleanBackup, TypeOK
    <2> QED
      BY <1>1, <1>4, <2>1, NextItemType DEF TypeOK, CleanBackup
  <1>5. CASE CleanRestore(w)
    <2>1. restaging' \in [Stagings -> RestoreDir]
      BY <1>2, <1>5, EmptyStagings, RestagingType DEF CleanRestore, TypeOK
    <2> QED
      BY <1>1, <1>5, <2>1, NextItemType DEF TypeOK, CleanRestore
  <1>6. CASE Fail(w)
    <2>1. /\ container' \in [Items -> Data]
          /\ staging' \in [Stagings -> StagingDir]
          /\ restaging' \in [Stagings -> RestoreDir]
      <3>1. CASE UNCHANGED remote
        BY <3>1 DEF TypeOK, remote
      <3>2. CASE Spoil(w)
        <4>1. CASE UNCHANGED <<container, restaging>>
          <5>1. \/ staging' = [staging EXCEPT ![Stg(w)] = Gone]
                \/ staging' = [staging EXCEPT ![Stg(w)].payload = Torn]
                \/ staging' = [staging EXCEPT ![Stg(w)].tar = Torn]
                \/ staging' = staging
            BY <3>2, <4>1 DEF Spoil
          <5>2. staging' \in [Stagings -> StagingDir]
            <6>1. CASE staging' = [staging EXCEPT ![Stg(w)] = Gone]
              BY <1>2, <6>1, EmptyStagings, StagingType
            <6>2. CASE staging' = [staging EXCEPT ![Stg(w)].payload = Torn]
              BY <1>2, <1>3, <6>2, Numbers DEF TypeOK, StagingDir
            <6>3. CASE staging' = [staging EXCEPT ![Stg(w)].tar = Torn]
              BY <1>2, <1>3, <6>3, Numbers DEF TypeOK, StagingDir
            <6> QED
              BY <5>1, <6>1, <6>2, <6>3 DEF TypeOK
          <5> QED
            BY <4>1, <5>2 DEF TypeOK
        <4>2. CASE UNCHANGED <<container, staging>>
          <5>1. [name |-> local[w].name, data |-> Torn, full |-> FALSE] \in Upload
            BY <1>3, Numbers DEF Locals, Upload
          <5>2. \/ restaging' = [restaging EXCEPT ![Stg(w)] = NoUpload]
                \/ restaging' = [restaging EXCEPT ![Stg(w)].up =
                      Put(@, [name |-> local[w].name, data |-> Torn, full |-> FALSE])]
                \/ restaging' = [restaging EXCEPT ![Stg(w)].ext = Torn]
                \/ restaging' = restaging
            BY <3>2, <4>2 DEF Spoil
          <5>3. restaging' \in [Stagings -> RestoreDir]
            <6>1. CASE restaging' = [restaging EXCEPT ![Stg(w)] = NoUpload]
              BY <1>2, <6>1, EmptyStagings, RestagingType
            <6>2. CASE restaging' = [restaging EXCEPT ![Stg(w)].up =
                      Put(@, [name |-> local[w].name, data |-> Torn, full |-> FALSE])]
              BY <1>2, <1>3, <5>1, <6>2 DEF TypeOK, RestoreDir, Put
            <6>3. CASE restaging' = [restaging EXCEPT ![Stg(w)].ext = Torn]
              BY <1>2, <1>3, <6>3, Numbers DEF TypeOK, RestoreDir
            <6> QED
              BY <5>2, <6>1, <6>2, <6>3 DEF TypeOK
          <5> QED
            BY <4>2, <5>3 DEF TypeOK
        <4>3. CASE container' = [container EXCEPT ![Cur(w)] = Torn] /\ UNCHANGED <<staging, restaging>>
          BY <1>2, <4>3, Numbers DEF TypeOK
        <4> QED
          BY <3>2, <4>1, <4>2, <4>3 DEF Spoil
      <3> QED
        BY <1>6, <3>1, <3>2 DEF Fail
    <2> QED
      BY <1>6, <2>1, EndType DEF TypeOK, Fail
  <1> QED
    BY <1>4, <1>5, <1>6

LEMMA StartType ==
  ASSUME TypeOK, NEW w \in Workers, Start(w)
  PROVE  TypeOK'
  <1>1. PICK r \in Requests[w] : /\ todo' = [todo EXCEPT ![w] = r.items]
                                 /\ pc' = [pc EXCEPT ![w] = FirstStep(r.op, r.items)]
    BY DEF Start, Goto
  <1>2. r.items \in Seq(ItemsOf[w])
    BY ConstantsAssumption DEF ConstantsAssumption
  <1>3. /\ FirstStep(r.op, r.items) \in Steps \cup {"idle"}
        /\ FirstStep(r.op, r.items) = "idle" <=> r.items = <<>>
    <2>1. "idle" \notin Steps /\ "stage" \in Steps /\ "pick" \in Steps
      BY DEF Steps, BackupSteps, RestoreSteps
    <2> QED
      BY <2>1 DEF FirstStep
  <1>4. local[w] \in Locals /\ local' = [local EXCEPT ![w] = local[w]]
    BY DEF TypeOK, Start
  <1>5. /\ pc' \in [Workers -> Steps \cup {"idle"}]
        /\ todo' \in [Workers -> Seq(Items)]
        /\ local' \in [Workers -> Locals]
        /\ \A v \in Workers : todo'[v] \in Seq(ItemsOf[v]) /\ (pc'[v] = "idle" <=> todo'[v] = <<>>)
    BY <1>1, <1>2, <1>3, <1>4, WorkerType
  <1> QED
    BY <1>5 DEF TypeOK, Start, remote

LEMMA WorldType ==
  ASSUME TypeOK,
         \/ \E d \in Deletable : \E f \in disk[d] : DeleteFile(d, f)
         \/ \E i \in Items, c \in Contents : ContainerWrite(i, c)
         \/ Crash
         \/ Tick
  PROVE  TypeOK'
  <1>1. ASSUME NEW d \in Deletable, NEW f \in disk[d], DeleteFile(d, f)
        PROVE  TypeOK'
    <2>1. d \in Dirs
      BY ConstantsAssumption DEF ConstantsAssumption
    <2> QED
      BY <1>1, <2>1 DEF TypeOK, DeleteFile, remote
  <1>2. ASSUME NEW i \in Items, NEW c \in Contents, ContainerWrite(i, c)
        PROVE  TypeOK'
    BY <1>2, Numbers DEF TypeOK, ContainerWrite
  <1>3. CASE Crash
    <2>1. local' \in [Workers -> Locals]
      BY <1>3, BlankType DEF Crash
    <2>2. todo' \in [Workers -> Seq(Items)] /\ \A v \in Workers : todo'[v] = <<>> /\ <<>> \in Seq(ItemsOf[v])
      BY <1>3, EmptySeq DEF Crash
    <2>3. pc' \in [Workers -> Steps \cup {"idle"}] /\ \A v \in Workers : pc'[v] = "idle"
      BY <1>3 DEF Crash
    <2> QED
      BY <1>3, <2>1, <2>2, <2>3 DEF TypeOK, Crash, remote
  <1>4. CASE Tick
    BY <1>4 DEF TypeOK, Tick, remote
  <1> QED
    BY <1>1, <1>2, <1>3, <1>4

LEMMA TypeStep ==
  ASSUME TypeOK, [Next]_vars
  PROVE  TypeOK'
  <1>1. ASSUME NEW w \in Workers, Start(w) \/ WorkerStep(w)
        PROVE  TypeOK'
    BY <1>1, StartType, StagingStepType, DecisionType, FileStepType, RestoreStepType, EndStepType
    DEF WorkerStep, BackupStep, RestoreStep
  <1>2. CASE UNCHANGED vars
    BY <1>2 DEF TypeOK, vars
  <1> QED
    BY <1>1, <1>2, WorldType DEF Next

\* Every variable keeps its type, a worker is idle exactly when its loop has no
\* item left, and it only works on items of its requests.
THEOREM TypeCorrect == Spec => []TypeOK
  <1>1. Init => TypeOK
    <2> SUFFICES ASSUME Init PROVE TypeOK
      OBVIOUS
    <2>1. \A v \in Workers : todo[v] = <<>> /\ pc[v] = "idle" /\ <<>> \in Seq(ItemsOf[v])
      BY EmptySeq DEF Init
    <2>2. todo \in [Workers -> Seq(Items)]
      BY EmptySeq DEF Init
    <2> QED
      BY <2>1, <2>2, BlankType, EmptyStagings, Numbers DEF Init, TypeOK
  <1>2. TypeOK /\ [Next]_vars => TypeOK'
    BY TypeStep
  <1> QED
    BY <1>1, <1>2, PTL DEF Spec
=============================================================================
