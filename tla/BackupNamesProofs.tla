------------------------- MODULE BackupNamesProofs -------------------------
(***************************************************************************)
(* What BackupService guarantees while no two workers share a staging      *)
(* directory or a subdirectory: names tell content, a directory restore    *)
(* puts back what its artifact's name says, pruning spares the artifact    *)
(* just downloaded.  Whatever fails, crashes or is deleted meanwhile.      *)
(***************************************************************************)
EXTENDS BackupServiceProofs, FiniteSetTheorems

-----------------------------------------------------------------------------
(* Frames: what one worker's step leaves to the others.                    *)

\* A worker's step leaves the other workers' program counters and variables.
LEMMA OthersKeepState ==
  ASSUME TypeOK, NEW v \in Workers, NEW w \in Workers, v # w, Start(v) \/ WorkerStep(v)
  PROVE  pc'[w] = pc[w] /\ todo'[w] = todo[w] /\ local'[w] = local[w]
  <1>1. pc \in [Workers -> Steps \cup {"idle"}] /\ todo \in [Workers -> Seq(Items)] /\ local \in [Workers -> Locals]
    BY DEF TypeOK
  <1>2. CASE Start(v)
    BY <1>1, <1>2 DEF Start, Goto
  <1>3. CASE StageBackup(v) \/ Copy(v) \/ Detect(v) \/ Digest(v) \/ Skip(v) \/ NameArtifact(v) \/ Archive(v)
    BY <1>1, <1>3 DEF StageBackup, Copy, Detect, Digest, Skip, NameArtifact, Archive, Goto
  <1>4. CASE Open(v) \/ Receive(v) \/ Prune(v) \/ RemoveVictim(v) \/ CleanBackup(v)
    BY <1>1, <1>4 DEF Open, Receive, Prune, RemoveVictim, CleanBackup, NextItem, Goto
  <1>5. CASE RestoreStep(v)
    BY <1>1, <1>5 DEF RestoreStep, Pick, Restage, Send, Extract, Inject, CleanRestore, NextItem, Goto
  <1>6. CASE Fail(v)
    BY <1>1, <1>6 DEF Fail, EndRun
  <1> QED
    BY <1>2, <1>3, <1>4, <1>5, <1>6 DEF WorkerStep, BackupStep

\* A worker's step only changes its own directories.
LEMMA OnlyOwnDirectories ==
  ASSUME TypeOK, NEW v \in Workers, pc[v] # "idle", WorkerStep(v)
  PROVE  /\ \A s \in Stagings \ {Stg(v)} : staging'[s] = staging[s] /\ restaging'[s] = restaging[s]
         /\ \A d \in Dirs \ {Dir(v)} : disk'[d] = disk[d]
  <1>1. staging \in [Stagings -> StagingDir] /\ restaging \in [Stagings -> RestoreDir] /\ disk \in [Dirs -> SUBSET File]
    BY DEF TypeOK
  <1>2. CASE StageBackup(v) \/ Copy(v) \/ Detect(v) \/ Digest(v) \/ Skip(v) \/ NameArtifact(v) \/ Archive(v)
    BY <1>1, <1>2 DEF StageBackup, Copy, Detect, Digest, Skip, NameArtifact, Archive, remote
  <1>3. CASE Open(v) \/ Receive(v) \/ Prune(v) \/ RemoveVictim(v) \/ CleanBackup(v)
    BY <1>1, <1>3 DEF Open, Receive, Prune, RemoveVictim, CleanBackup, remote
  <1>4. CASE RestoreStep(v)
    BY <1>1, <1>4 DEF RestoreStep, Pick, Restage, Send, Extract, Inject, CleanRestore, remote
  <1>5. CASE Fail(v)
    BY <1>1, <1>5 DEF Fail, Spoil, remote
  <1> QED
    BY <1>2, <1>3, <1>4, <1>5 DEF WorkerStep, BackupStep

\* Two busy workers that are exclusive are in different directories.
LEMMA Apart ==
  ASSUME TypeOK, Exclusive, NEW v \in Workers, NEW w \in Workers, v # w, pc[v] # "idle", pc[w] # "idle"
  PROVE  Stg(v) # Stg(w) /\ Dir(v) # Dir(w)
  BY CurType DEF Exclusive, Stg, Dir

\* To a worker that is exclusive, another's step changes nothing.
LEMMA Undisturbed ==
  ASSUME TypeOK, Exclusive, NEW v \in Workers, NEW w \in Workers, v # w,
         Start(v) \/ WorkerStep(v)
  PROVE  /\ pc'[w] = pc[w] /\ todo'[w] = todo[w] /\ local'[w] = local[w]
         /\ pc[w] # "idle" => /\ staging'[Stg(w)] = staging[Stg(w)]
                              /\ restaging'[Stg(w)] = restaging[Stg(w)]
                              /\ disk'[Dir(w)] = disk[Dir(w)]
  <1>1. pc'[w] = pc[w] /\ todo'[w] = todo[w] /\ local'[w] = local[w]
    BY OthersKeepState
  <1>2. ASSUME pc[w] # "idle"
        PROVE  /\ staging'[Stg(w)] = staging[Stg(w)]
               /\ restaging'[Stg(w)] = restaging[Stg(w)]
               /\ disk'[Dir(w)] = disk[Dir(w)]
    <2>1. CASE Start(v)
      BY <2>1 DEF Start, remote
    <2>2. CASE WorkerStep(v)
      <3>1. pc[v] # "idle"
        BY <2>2 DEF WorkerStep, BackupStep, RestoreStep, StageBackup, Copy, Detect, Digest, Skip,
          NameArtifact, Archive, Open, Receive, Prune, RemoveVictim, CleanBackup, Pick, Restage, Send,
          Extract, Inject, CleanRestore, Fail
      <3>2. Stg(v) # Stg(w) /\ Dir(v) # Dir(w) /\ Stg(w) \in Stagings /\ Dir(w) \in Dirs
        BY <1>2, <3>1, Apart, CurType
      <3> QED
        BY <2>2, <3>1, <3>2, OnlyOwnDirectories
    <2> QED
      BY <2>1, <2>2
  <1> QED
    BY <1>1, <1>2

-----------------------------------------------------------------------------
(* Names tell content.                                                     *)

LEMMA StagedFrame ==
  ASSUME NEW w \in Workers, Staged(w) /\ Restaged(w),
         pc'[w] = pc[w], todo'[w] = todo[w], local'[w] = local[w],
         pc[w] # "idle" => staging'[Stg(w)] = staging[Stg(w)] /\ restaging'[Stg(w)] = restaging[Stg(w)]
  PROVE  (Staged(w) /\ Restaged(w))'
  <1>1. Stg(w)' = Stg(w) /\ Cur(w)' = Cur(w)
    BY DEF Stg, Cur
  <1>2. CASE pc[w] = "idle"
    BY <1>2 DEF Staged, Restaged
  <1>3. CASE pc[w] # "idle"
    <2>1. staging'[Stg(w)'] = staging[Stg(w)] /\ restaging'[Stg(w)'] = restaging[Stg(w)]
      BY <1>1, <1>3
    <2>2. Source(w)' = Source(w)
      BY <2>1 DEF Source
    <2> QED
      BY <1>1, <2>1, <2>2 DEF Staged, Restaged
  <1> QED
    BY <1>2, <1>3

\* The staging and the digest of a backup agree from the copy to the download.
LEMMA BackupStaged ==
  ASSUME TypeOK, NEW w \in Workers, Staged(w), BackupStep(w)
  PROVE  (Staged(w) /\ Restaged(w))'
  <1>1. pc[w] # "idle"
    BY DEF BackupStep, StageBackup, Copy, Detect, Digest, Skip, NameArtifact, Archive, Open, Receive,
      Prune, RemoveVictim, CleanBackup
  <1>2. Stg(w) \in Stagings /\ Cur(w) \in Items
    BY <1>1, CurType
  <1>3. /\ staging[Stg(w)] \in StagingDir /\ container[Cur(w)] \in Data /\ local[w] \in Locals
        /\ staging \in [Stagings -> StagingDir] /\ local \in [Workers -> Locals]
        /\ pc \in [Workers -> Steps \cup {"idle"}]
    BY <1>2 DEF TypeOK
  <1>4. ASSUME todo' = todo
        PROVE  Stg(w)' = Stg(w) /\ Cur(w)' = Cur(w)
    BY <1>4 DEF Stg, Cur
  <1>5. CASE StageBackup(w) \/ Receive(w) \/ Prune(w) \/ RemoveVictim(w) \/ CleanBackup(w) \/ Skip(w)
    <2>1. pc'[w] \in {"copy", "prune", "clean", "remove", "cleanskip", "idle", "stage"}
      BY <1>3, <1>5 DEF StageBackup, Receive, Prune, RemoveVictim, CleanBackup, Skip, NextItem, Goto, FirstStep
    <2> QED
      BY <2>1 DEF Staged, Restaged
  <1>6. CASE Copy(w)
    <2>1. pc'[w] = "detect" /\ todo' = todo
      BY <1>3, <1>6 DEF Copy, Goto
    <2>2. staging'[Stg(w)].payload \in Data
      <3>1. \A x \in CopiedOut(Cur(w), container[Cur(w)]) : x \in Data
        BY <1>2, <1>3, CopiedData
      <3> QED
        BY <1>2, <1>3, <1>6, <3>1, Numbers DEF Copy, StagingDir
    <2>3. staging'[Stg(w)'].payload # None
      BY <2>1, <2>2, <1>4, Numbers
    <2> QED
      BY <2>1, <2>3 DEF Staged, Restaged
  <1>7. CASE Detect(w)
    <2>1. pc'[w] = "digest" /\ todo' = todo /\ staging' = staging
      BY <1>3, <1>7 DEF Detect, Goto, remote
    <2>2. staging[Stg(w)].payload # None
      BY <1>7 DEF Staged, Detect
    <2>3. local'[w].isDir = (Cur(w) \in DirItems)
      BY <1>3, <1>7, <2>2 DEF Detect, Locals
    <2> QED
      BY <2>1, <2>2, <2>3, <1>4 DEF Staged, Restaged
  <1>8. CASE Digest(w)
    <2>1. pc'[w] = "decide" /\ todo' = todo /\ staging' = staging
      BY <1>3, <1>8 DEF Digest, Goto, remote
    <2>2. /\ staging[Stg(w)].payload # None
          /\ local[w].isDir = (Cur(w) \in DirItems)
      BY <1>8 DEF Staged, Digest
    <2>3. DigestOf(w) = staging[Stg(w)].payload
      BY <2>2 DEF DigestOf
    <2>4. local'[w].hash \in {NoHash, staging[Stg(w)].payload} /\ local'[w].isDir = local[w].isDir
      BY <1>3, <1>8, <2>3 DEF Digest, Locals
    <2> QED
      BY <2>1, <2>2, <2>4, <1>4 DEF Staged, Restaged
  <1>9. CASE NameArtifact(w)
    <2>1. pc'[w] = (IF local[w].isDir THEN "archive" ELSE "open") /\ todo' = todo /\ staging' = staging
      BY <1>3, <1>9 DEF NameArtifact, Goto, remote
    <2>2. /\ staging[Stg(w)].payload # None
          /\ local[w].isDir = (Cur(w) \in DirItems)
          /\ local[w].hash \in {NoHash, staging[Stg(w)].payload}
      BY <1>9 DEF Staged, NameArtifact
    <2>3. local'[w].name.hash = local[w].hash /\ local'[w].isDir = local[w].isDir
      BY <1>3, <1>9 DEF NameArtifact, BaseName, Locals
    <2>4. pc'[w] = "open" => Source(w)' = staging[Stg(w)].payload
      BY <2>1, <2>3, <1>4 DEF Source
    <2> QED
      BY <2>1, <2>2, <2>3, <2>4, <1>4 DEF Staged, Restaged
  <1>10. CASE Archive(w)
    <2>1. pc'[w] = "open" /\ todo' = todo /\ local' = local
      BY <1>3, <1>10 DEF Archive, Goto
    <2>2. /\ staging'[Stg(w)].payload = staging[Stg(w)].payload
          /\ staging'[Stg(w)].tar = staging[Stg(w)].payload
      BY <1>2, <1>3, <1>10 DEF Archive, StagingDir
    <2>3. /\ staging[Stg(w)].payload # None
          /\ local[w].isDir = (Cur(w) \in DirItems)
          /\ local[w].name.hash \in {NoHash, staging[Stg(w)].payload}
      BY <1>10 DEF Staged, Archive
    <2>4. Source(w)' = staging[Stg(w)].payload
      BY <2>1, <2>2, <1>4 DEF Source
    <2> QED
      BY <2>1, <2>2, <2>3, <2>4, <1>4 DEF Staged, Restaged
  <1>11. CASE Open(w)
    <2>1. pc'[w] = "receive"
      BY <1>3, <1>11 DEF Open, Goto
    <2> QED
      BY <2>1 DEF Staged, Restaged
  <1> QED
    BY <1>5, <1>6, <1>7, <1>8, <1>9, <1>10, <1>11 DEF BackupStep

\* A restore extracts into an empty directory what it has uploaded.
LEMMA RestoreRestaged ==
  ASSUME TypeOK, NEW w \in Workers, Restaged(w), RestoreStep(w),
         \A s \in Stagings : \A u \in restaging[s].up : u.full => Truthful(u)
  PROVE  (Staged(w) /\ Restaged(w))'
  <1>1. pc[w] # "idle"
    BY DEF RestoreStep, Pick, Restage, Send, Extract, Inject, CleanRestore
  <1>2. Stg(w) \in Stagings /\ Cur(w) \in Items
    BY <1>1, CurType
  <1>3. /\ restaging[Stg(w)] \in RestoreDir /\ local[w] \in Locals
        /\ restaging \in [Stagings -> RestoreDir] /\ local \in [Workers -> Locals]
        /\ pc \in [Workers -> Steps \cup {"idle"}]
    BY <1>2 DEF TypeOK
  <1>4. ASSUME todo' = todo
        PROVE  Stg(w)' = Stg(w)
    BY <1>4 DEF Stg, Cur
  <1>5. CASE Pick(w) \/ Inject(w) \/ CleanRestore(w)
    <2>1. pc'[w] \in {"restage", "reclean", "pick", "idle"}
      BY <1>3, <1>5 DEF Pick, Inject, CleanRestore, NextItem, Goto, FirstStep
    <2> QED
      BY <2>1 DEF Staged, Restaged
  <1>6. CASE Restage(w)
    <2>1. pc'[w] = "send" /\ todo' = todo
      BY <1>3, <1>6 DEF Restage, Goto
    <2>2. restaging'[Stg(w)].ext = None
      BY <1>2, <1>3, <1>6 DEF Restage, NoUpload
    <2> QED
      BY <2>1, <2>2, <1>4 DEF Staged, Restaged
  <1>7. CASE Send(w)
    <2>1. /\ pc'[w] = (IF local[w].name.gz THEN "extract" ELSE "inject")
          /\ todo' = todo /\ local' = local
      BY <1>3, <1>7 DEF Send, Goto
    <2>2. restaging'[Stg(w)].ext = restaging[Stg(w)].ext
      BY <1>2, <1>3, <1>7 DEF Send, RestoreDir
    <2>3. restaging[Stg(w)].ext = None
      BY <1>7 DEF Restaged, Send
    <2> QED
      BY <2>1, <2>2, <2>3, <1>4 DEF Staged, Restaged
  <1>8. CASE Extract(w)
    <2>1. pc'[w] = "inject" /\ todo' = todo /\ local' = local
      BY <1>3, <1>8 DEF Extract, Goto
    <2>2. restaging[Stg(w)].ext = None
      BY <1>8 DEF Restaged, Extract
    <2>3. PICK u \in restaging[Stg(w)].up :
            u.full /\ u.name = local[w].name /\ restaging'[Stg(w)].ext = u.data
      BY <1>2, <1>3, <1>8, <2>2 DEF Extract, Extractable, Uploaded, RestoreDir
    <2>4. Truthful(u)
      BY <1>2, <2>3
    <2> QED
      BY <2>1, <2>3, <2>4, <1>4 DEF Staged, Restaged, Truthful
  <1> QED
    BY <1>5, <1>6, <1>7, <1>8 DEF RestoreStep

\* Only a download puts artifacts in a subdirectory, under a truthful name.
LEMMA DiskTruthful ==
  ASSUME TypeOK, NEW w \in Workers, Staged(w), Start(w) \/ WorkerStep(w),
         \A d \in Dirs : \A f \in disk[d] : Truthful(f)
  PROVE  \A d \in Dirs : \A f \in disk'[d] : Truthful(f)
  <1>1. disk \in [Dirs -> SUBSET File] /\ local[w] \in Locals
    BY DEF TypeOK
  <1>2. CASE Open(w)
    <2>1. pc[w] = "open"
      BY <1>2 DEF Open
    <2>2. Dir(w) \in Dirs
      BY <2>1, CurType
    <2>3. local[w].name.hash # NoHash => Source(w) = local[w].name.hash
      BY <2>1 DEF Staged
    <2>4. Truthful([name |-> local[w].name, data |-> Source(w), full |-> FALSE, mtime |-> now])
      BY <2>3 DEF Truthful
    <2> QED
      BY <1>1, <1>2, <2>2, <2>4 DEF Open, Put
  <1>3. CASE Receive(w)
    <2>1. Dir(w) \in Dirs
      BY <1>3, CurType DEF Receive
    <2>2. \A f \in disk[Dir(w)] : Truthful(Written(w, f))
      BY <1>1, <2>1 DEF Written, Truthful, File
    <2> QED
      BY <1>1, <1>3, <2>1, <2>2 DEF Receive
  <1>4. CASE RemoveVictim(w)
    BY <1>1, <1>4 DEF RemoveVictim
  <1>5. CASE \/ Start(w) \/ StageBackup(w) \/ Copy(w) \/ Detect(w) \/ Digest(w) \/ Skip(w) \/ NameArtifact(w)
             \/ Archive(w) \/ Prune(w) \/ CleanBackup(w) \/ RestoreStep(w) \/ Fail(w)
    <2>1. disk' = disk
      BY <1>5 DEF Start, StageBackup, Copy, Detect, Digest, Skip, NameArtifact, Archive, Prune, CleanBackup,
        RestoreStep, Pick, Restage, Send, Extract, Inject, CleanRestore, Fail
    <2> QED
      BY <2>1
  <1> QED
    BY <1>2, <1>3, <1>4, <1>5 DEF WorkerStep, BackupStep

\* A complete upload is a complete artifact of the disk; a torn one is not complete.
LEMMA UploadsTruthful ==
  ASSUME TypeOK, NEW w \in Workers, Start(w) \/ WorkerStep(w),
         \A d \in Dirs : \A f \in disk[d] : Truthful(f),
         \A s \in Stagings : \A u \in restaging[s].up : u.full => Truthful(u)
  PROVE  \A s \in Stagings : \A u \in restaging'[s].up : u.full => Truthful(u)
  <1>1. restaging \in [Stagings -> RestoreDir] /\ disk \in [Dirs -> SUBSET File]
    BY DEF TypeOK
  <1>2. CASE Send(w)
    <2>1. Dir(w) \in Dirs /\ Stg(w) \in Stagings
      BY <1>2, CurType DEF Send
    <2>2. PICK f \in disk[Dir(w)] : restaging' = [restaging EXCEPT ![Stg(w)].up =
              Put(@, [name |-> f.name, data |-> f.data, full |-> f.full])]
      BY <1>2 DEF Send
    <2>3. Truthful([name |-> f.name, data |-> f.data, full |-> f.full])
      BY <2>1 DEF Truthful
    <2>4. restaging'[Stg(w)].up = Put(restaging[Stg(w)].up, [name |-> f.name, data |-> f.data, full |-> f.full])
      BY <1>1, <2>1, <2>2 DEF RestoreDir
    <2>5. \A s \in Stagings \ {Stg(w)} : restaging'[s] = restaging[s]
      BY <1>1, <2>2
    <2> QED
      BY <2>1, <2>3, <2>4, <2>5 DEF Put
  <1>3. CASE Extract(w)
    <2>1. \A s \in Stagings : restaging'[s].up = restaging[s].up
      BY <1>1, <1>3 DEF Extract, RestoreDir
    <2> QED
      BY <2>1
  <1>4. CASE Restage(w) \/ CleanRestore(w)
    <2>1. \A s \in Stagings : restaging'[s].up \subseteq restaging[s].up
      BY <1>1, <1>4 DEF Restage, CleanRestore, NoUpload
    <2> QED
      BY <2>1
  <1>5. CASE Fail(w)
    <2>1. \/ restaging' = restaging
          \/ restaging' = [restaging EXCEPT ![Stg(w)] = NoUpload]
          \/ restaging' = [restaging EXCEPT ![Stg(w)].up =
                Put(@, [name |-> local[w].name, data |-> Torn, full |-> FALSE])]
          \/ restaging' = [restaging EXCEPT ![Stg(w)].ext = Torn]
      BY <1>5 DEF Fail, Spoil, remote
    <2>2. \A s \in Stagings : \A u \in restaging'[s].up : u \in restaging[s].up \/ u.full = FALSE
      <3>1. CASE restaging' = restaging
        BY <3>1
      <3>2. CASE restaging' = [restaging EXCEPT ![Stg(w)] = NoUpload]
        BY <1>1, <3>2 DEF NoUpload
      <3>3. CASE restaging' = [restaging EXCEPT ![Stg(w)].up =
                Put(@, [name |-> local[w].name, data |-> Torn, full |-> FALSE])]
        BY <1>1, <3>3 DEF Put, RestoreDir
      <3>4. CASE restaging' = [restaging EXCEPT ![Stg(w)].ext = Torn]
        BY <1>1, <3>4 DEF RestoreDir
      <3> QED
        BY <2>1, <3>1, <3>2, <3>3, <3>4
    <2> QED
      BY <2>2
  <1>6. CASE Start(w) \/ BackupStep(w) \/ Pick(w) \/ Inject(w)
    <2>1. restaging' = restaging
      BY <1>6 DEF Start, BackupStep, StageBackup, Copy, Detect, Digest, Skip, NameArtifact, Archive, Open,
        Receive, Prune, RemoveVictim, CleanBackup, Pick, Inject, remote
    <2> QED
      BY <2>1
  <1> QED
    BY <1>2, <1>3, <1>4, <1>5, <1>6 DEF WorkerStep, RestoreStep

LEMMA NamesStep ==
  ASSUME TypeOK, Exclusive, NamesInv, [Next]_vars
  PROVE  NamesInv'
  <1>1. ASSUME NEW v \in Workers, Start(v) \/ WorkerStep(v)
        PROVE  NamesInv'
    <2>1. Staged(v) /\ Restaged(v)
      BY DEF NamesInv
    <2>2. (Staged(v) /\ Restaged(v))'
      <3>1. CASE Start(v)
        <4>1. pc'[v] \in {"idle", "stage", "pick"}
          BY <3>1 DEF Start, Goto, FirstStep, TypeOK
        <4> QED
          BY <4>1 DEF Staged, Restaged
      <3>2. CASE BackupStep(v)
        BY <2>1, <3>2, BackupStaged
      <3>3. CASE RestoreStep(v)
        BY <2>1, <3>3, RestoreRestaged DEF NamesInv
      <3>4. CASE Fail(v)
        <4>1. pc'[v] = "idle"
          BY <3>4 DEF Fail, EndRun, TypeOK
        <4> QED
          BY <4>1 DEF Staged, Restaged
      <3> QED
        BY <1>1, <3>1, <3>2, <3>3, <3>4 DEF WorkerStep
    <2>3. ASSUME NEW w \in Workers, v # w
          PROVE  (Staged(w) /\ Restaged(w))'
      <3>1. Staged(w) /\ Restaged(w)
        BY DEF NamesInv
      <3> QED
        BY <1>1, <2>3, <3>1, Undisturbed, StagedFrame
    <2>4. \A w \in Workers : (Staged(w) /\ Restaged(w))'
      BY <2>2, <2>3
    <2>5. \A d \in Dirs : \A f \in disk'[d] : Truthful(f)
      BY <1>1, <2>1, DiskTruthful DEF NamesInv
    <2>6. \A s \in Stagings : \A u \in restaging'[s].up : u.full => Truthful(u)
      BY <1>1, UploadsTruthful DEF NamesInv
    <2> QED
      BY <2>4, <2>5, <2>6 DEF NamesInv
  <1>2. ASSUME staging' = staging, restaging' = restaging,
               UNCHANGED <<pc, todo, local>> \/ \A w \in Workers : pc'[w] = "idle",
               \A d \in Dirs : disk'[d] \subseteq disk[d]
        PROVE  NamesInv'
    <2>1. ASSUME NEW w \in Workers
          PROVE  (Staged(w) /\ Restaged(w))'
      <3>1. Staged(w) /\ Restaged(w)
        BY DEF NamesInv
      <3>2. CASE pc' = pc /\ todo' = todo /\ local' = local
        BY <1>2, <3>1, <3>2, StagedFrame
      <3>3. CASE pc'[w] = "idle"
        BY <3>3 DEF Staged, Restaged
      <3> QED
        BY <1>2, <3>2, <3>3
    <2>2. \A d \in Dirs : \A f \in disk'[d] : Truthful(f)
      BY <1>2 DEF NamesInv
    <2>3. \A s \in Stagings : \A u \in restaging'[s].up : u.full => Truthful(u)
      BY <1>2 DEF NamesInv
    <2> QED
      BY <2>1, <2>2, <2>3 DEF NamesInv
  <1>3. ASSUME NEW d \in Deletable, NEW f \in disk[d], DeleteFile(d, f)
        PROVE  NamesInv'
    <2>1. \A e \in Dirs : disk'[e] \subseteq disk[e]
      BY <1>3 DEF DeleteFile, TypeOK
    <2> QED
      BY <1>2, <1>3, <2>1 DEF DeleteFile, remote
  <1>4. ASSUME NEW i \in Items, NEW c \in Contents, ContainerWrite(i, c)
        PROVE  NamesInv'
    BY <1>2, <1>4 DEF ContainerWrite
  <1>5. CASE Crash
    BY <1>2, <1>5 DEF Crash, remote
  <1>6. CASE Tick
    BY <1>2, <1>6 DEF Tick, remote
  <1>7. CASE UNCHANGED vars
    BY <1>2, <1>7 DEF vars
  <1> QED
    BY <1>1, <1>3, <1>4, <1>5, <1>6, <1>7 DEF Next

\* While no two workers share a directory, artifacts and uploads are what their names
\* say, and what a run has staged is what it has named.
THEOREM NamesInvariant == ASSUME Exclusive PROVE Spec => []NamesInv
  <1>1. Init => NamesInv
    BY DEF Init, NamesInv, Staged, Restaged, NoUpload
  <1>2. TypeOK /\ NamesInv /\ [Next]_vars => NamesInv'
    BY NamesStep
  <1> QED
    BY <1>1, <1>2, TypeCorrect, PTL DEF Spec

\* While no two workers share a directory, every complete artifact holds the data
\* whose digest its name carries, whatever failed before.
THEOREM NamesTellContent == ASSUME Exclusive PROVE Spec => []NameTellsContent
  <1>1. NamesInv => NameTellsContent
    BY DEF NamesInv, NameTellsContent, Truthful
  <1> QED
    BY <1>1, NamesInvariant, PTL

\* While no two workers share a directory, the container has, after a directory
\* restore has reached it, every file of the data whose digest is in the name picked.
THEOREM RestoresMatchNames == ASSUME Exclusive PROVE Spec => RestoreMatchesName
  <1>1. TypeOK /\ NamesInv =>
          \A w \in Workers : Inject(w) /\ local[w].name.gz /\ local[w].name.hash # NoHash
                               => Has(container'[Cur(w)], local[w].name.hash)
    <2> SUFFICES ASSUME TypeOK, NamesInv, NEW w \in Workers, Inject(w),
                        local[w].name.gz, local[w].name.hash # NoHash
                 PROVE  Has(container'[Cur(w)], local[w].name.hash)
      OBVIOUS
    <2>1. pc[w] = "inject" /\ Cur(w) \in Items /\ Stg(w) \in Stagings
      BY CurType DEF Inject
    <2>2. restaging[Stg(w)].ext = local[w].name.hash
      BY <2>1 DEF NamesInv, Restaged
    <2>3. /\ Injected(w) \subseteq {local[w].name.hash}
          /\ Injected(w) # {} => local[w].name.hash \in Data
      <3>1. restaging[Stg(w)].ext \in 0..Torn
        BY <2>1 DEF TypeOK, RestoreDir
      <3>2. Injected(w) = {restaging[Stg(w)].ext} \ {None}
        BY DEF Injected
      <3>3. \A x \in 0..Torn : x # None => x \in Data
        BY Numbers DEF Data, None
      <3> QED
        BY <2>2, <3>1, <3>2, <3>3
    <2>4. container \in [Items -> Data]
      BY DEF TypeOK
    <2>5. \A r \in CopiedIn(Cur(w), container[Cur(w)], local[w].name.hash) :
            local[w].name.hash \in Data => Has(r, local[w].name.hash)
      BY <2>1, <2>4, CopiedData
    <2>6. PICK x \in Injected(w) : \E r \in CopiedIn(Cur(w), container[Cur(w)], x) :
            container' = [container EXCEPT ![Cur(w)] = r]
      BY DEF Inject
    <2> QED
      BY <2>1, <2>3, <2>4, <2>5, <2>6
  <1> QED
    BY <1>1, TypeCorrect, NamesInvariant, PTL DEF RestoreMatchesName

-----------------------------------------------------------------------------
(* Pruning spares the artifact just downloaded.                            *)

LEMMA FreshFrame ==
  ASSUME NEW w \in Workers, Fresh(w),
         pc'[w] = pc[w], todo'[w] = todo[w], local'[w] = local[w],
         pc[w] # "idle" => disk'[Dir(w)] \subseteq disk[Dir(w)]
  PROVE  Fresh(w)'
  <1>1. Dir(w)' = Dir(w)
    BY DEF Dir, Cur
  <1>2. CASE pc[w] = "idle"
    BY <1>2 DEF Fresh
  <1>3. CASE pc[w] # "idle"
    BY <1>1, <1>3 DEF Fresh, Mine
  <1> QED
    BY <1>2, <1>3

\* No file of the subdirectory is newer than the newest, so pruneBackups keeps it.
LEMMA NewestIsNoVictim ==
  ASSUME NEW files \in SUBSET File, NEW f \in files, NEW max \in Nat,
         \A g \in files \ {f} : g.mtime < f.mtime
  PROVE  f \notin Victims(files, max)
  <1>1. ASSUME NEW g \in files
        PROVE  ~Older(f, g)
    <2>1. f.mtime \in Nat /\ g.mtime \in Nat /\ f.name \in Name
      BY DEF File
    <2>2. CASE g = f
      <3>1. f.name.sec \in Nat /\ f.name.gz \in BOOLEAN /\ f.name.hash \in Hashes
        BY <2>1 DEF Name
      <3>2. f.name.hash \in Int
        BY <3>1, Numbers DEF Hashes
      <3>3. ~NameLess(f.name, f.name)
        BY <3>1, <3>2 DEF NameLess
      <3> QED
        BY <2>1, <2>2, <3>3 DEF Older
    <2>3. CASE g # f
      BY <2>1, <2>3 DEF Older
    <2> QED
      BY <2>2, <2>3
  <1>2. {g \in files : Older(f, g)} = {}
    BY <1>1
  <1>3. Cardinality({g \in files : Older(f, g)}) = 0
    BY <1>2, FS_EmptySet
  <1> QED
    BY <1>3 DEF Victims

LEMMA FreshOwnStep ==
  ASSUME TypeOK, FreshInv, NEW w \in Workers, WorkerStep(w)
  PROVE  Fresh(w)'
  <1>1. /\ pc \in [Workers -> Steps \cup {"idle"}] /\ local \in [Workers -> Locals]
        /\ disk \in [Dirs -> SUBSET File] /\ now \in Nat /\ local[w] \in Locals
    BY DEF TypeOK
  <1>2. ASSUME todo' = todo
        PROVE  Dir(w)' = Dir(w)
    BY <1>2 DEF Dir, Cur
  <1>3. CASE Open(w)
    <2>1. pc'[w] = "receive" /\ todo' = todo /\ Dir(w) \in Dirs
      BY <1>1, <1>3, CurType DEF Open, Goto
    <2>2. local'[w].name = local[w].name /\ local'[w].at = now
      BY <1>1, <1>3 DEF Open, Locals
    <2>3. disk'[Dir(w)] = Put(disk[Dir(w)],
              [name |-> local[w].name, data |-> Source(w), full |-> FALSE, mtime |-> now])
      BY <1>1, <1>3, <2>1 DEF Open
    <2> QED
      BY <1>2, <2>1, <2>2, <2>3 DEF Fresh, Mine, Put
  <1>4. CASE Receive(w)
    <2>1. pc[w] = "receive" /\ pc'[w] = "prune" /\ todo' = todo /\ local' = local /\ Dir(w) \in Dirs
      BY <1>1, <1>4, CurType DEF Receive, Goto
    <2>2. disk'[Dir(w)] = {Written(w, f) : f \in disk[Dir(w)]}
      BY <1>1, <1>4, <2>1 DEF Receive
    <2>3. ASSUME NEW f \in disk'[Dir(w)], f.name = local[w].name, NEW g \in disk'[Dir(w)] \ {f}
          PROVE  g.mtime < f.mtime
      <3>1. PICK x \in disk[Dir(w)], y \in disk[Dir(w)] : f = Written(w, x) /\ g = Written(w, y)
        BY <2>2
      <3>2. x \in File /\ y \in File
        BY <1>1, <2>1
      <3>3. x.name = local[w].name
        BY <2>3, <3>1, <3>2 DEF Written, File
      <3>4. Mine(w, x)
        BY <2>1, <3>1, <3>3 DEF FreshInv, Fresh
      <3>5. f.mtime = now
        BY <3>1, <3>2, <3>4 DEF Written, File
      <3>6. y # x
        BY <2>3, <3>1
      <3>7. ~Mine(w, y)
        BY <2>1, <3>1, <3>3, <3>6 DEF FreshInv, Mine
      <3>8. g = y
        BY <3>1, <3>7 DEF Written
      <3>9. y.mtime < now
        BY <2>1, <3>1 DEF FreshInv
      <3> QED
        BY <3>5, <3>8, <3>9
    <2> QED
      BY <1>2, <2>1, <2>3 DEF Fresh
  <1>5. CASE Prune(w)
    <2>1. /\ pc[w] = "prune" /\ pc'[w] \in {"clean", "remove"} /\ todo' = todo
          /\ Dir(w) \in Dirs /\ Keep(w) \in Nat
      BY <1>1, <1>5, CurType DEF Prune, Goto
    <2>2. local'[w].name = local[w].name /\ local'[w].victims = Victims(disk[Dir(w)], Keep(w))
      BY <1>1, <1>5 DEF Prune, Locals
    <2>3. ASSUME NEW v \in Victims(disk[Dir(w)], Keep(w)), v.name = local[w].name
          PROVE  FALSE
      <3>1. disk[Dir(w)] \in SUBSET File /\ v \in disk[Dir(w)]
        BY <1>1, <2>1 DEF Victims
      <3>2. \A g \in disk[Dir(w)] \ {v} : g.mtime < v.mtime
        BY <2>1, <2>3, <3>1 DEF FreshInv, Fresh
      <3> QED
        BY <2>1, <2>3, <3>1, <3>2, NewestIsNoVictim
    <2> QED
      BY <2>1, <2>2, <2>3 DEF Fresh
  <1>6. CASE RemoveVictim(w)
    <2>1. pc[w] = "remove" /\ pc'[w] \in {"clean", "remove"}
      BY <1>1, <1>6 DEF RemoveVictim, Goto
    <2>2. local'[w].name = local[w].name /\ local'[w].victims \subseteq local[w].victims
      BY <1>1, <1>6 DEF RemoveVictim, Locals
    <2> QED
      BY <2>1, <2>2 DEF FreshInv, Fresh
  <1>7. CASE StageBackup(w) \/ Copy(w) \/ Detect(w) \/ Digest(w) \/ Skip(w) \/ NameArtifact(w) \/ Archive(w)
    <2>1. pc'[w] \notin {"receive", "prune", "remove"}
      BY <1>1, <1>7 DEF StageBackup, Copy, Detect, Digest, Skip, NameArtifact, Archive, Goto
    <2> QED
      BY <2>1 DEF Fresh
  <1>8. CASE CleanBackup(w) \/ RestoreStep(w) \/ Fail(w)
    <2>1. pc'[w] \notin {"receive", "prune", "remove"}
      BY <1>1, <1>8 DEF CleanBackup, RestoreStep, Pick, Restage, Send, Extract, Inject, CleanRestore,
        Fail, EndRun, NextItem, Goto, FirstStep
    <2> QED
      BY <2>1 DEF Fresh
  <1> QED
    BY <1>3, <1>4, <1>5, <1>6, <1>7, <1>8 DEF WorkerStep, BackupStep

\* Files are written at the present instant and keep distinct names.
LEMMA FilesStep ==
  ASSUME TypeOK, FreshInv, NEW w \in Workers, Start(w) \/ WorkerStep(w)
  PROVE  /\ \A d \in Dirs : \A f \in disk'[d] : f.mtime < now'
         /\ \A d \in Dirs : \A f, g \in disk'[d] : f.name = g.name => f = g
  <1>1. /\ disk \in [Dirs -> SUBSET File] /\ now \in Nat /\ local[w] \in Locals
        /\ \A d \in Dirs : \A f \in disk[d] : f.mtime \in Nat
    BY DEF TypeOK, File
  <1>2. CASE Open(w)
    <2>1. Dir(w) \in Dirs
      BY <1>2, CurType DEF Open
    <2>2. disk'[Dir(w)] = Put(disk[Dir(w)],
              [name |-> local[w].name, data |-> Source(w), full |-> FALSE, mtime |-> now])
      BY <1>1, <1>2, <2>1 DEF Open
    <2>3. \A d \in Dirs \ {Dir(w)} : disk'[d] = disk[d]
      BY <1>1, <1>2 DEF Open
    <2>4. now' = now + 1
      BY <1>2 DEF Open
    <2>5. \A d \in Dirs : \A f \in disk'[d] : f.mtime < now'
      <3>1. \A f \in disk'[Dir(w)] : f \in disk[Dir(w)] \/ f.mtime = now
        BY <2>2 DEF Put
      <3> QED
        BY <1>1, <2>1, <2>3, <2>4, <3>1 DEF FreshInv
    <2>6. \A d \in Dirs : \A f, g \in disk'[d] : f.name = g.name => f = g
      <3>1. \A f, g \in disk'[Dir(w)] : f.name = g.name => f = g
        BY <2>1, <2>2 DEF FreshInv, Put
      <3> QED
        BY <2>3, <3>1 DEF FreshInv
    <2> QED
      BY <2>5, <2>6
  <1>3. CASE Receive(w)
    <2>1. Dir(w) \in Dirs
      BY <1>3, CurType DEF Receive
    <2>2. disk'[Dir(w)] = {Written(w, f) : f \in disk[Dir(w)]}
      BY <1>1, <1>3, <2>1 DEF Receive
    <2>3. \A d \in Dirs \ {Dir(w)} : disk'[d] = disk[d]
      BY <1>1, <1>3 DEF Receive
    <2>4. now' = now + 1
      BY <1>3 DEF Receive
    <2>5. \A f \in disk[Dir(w)] : Written(w, f).name = f.name /\ Written(w, f).mtime \in {f.mtime, now}
      BY <1>1, <2>1 DEF Written, File
    <2>6. ASSUME NEW d \in Dirs, NEW f \in disk'[d]
          PROVE  f.mtime < now'
      <3>1. CASE d = Dir(w)
        <4>1. PICK x \in disk[d] : f = Written(w, x)
          BY <2>2, <3>1
        <4>2. x.mtime \in Nat /\ x.mtime < now
          BY <1>1 DEF FreshInv
        <4> QED
          BY <1>1, <2>4, <2>5, <3>1, <4>1, <4>2
      <3>2. CASE d # Dir(w)
        BY <1>1, <2>3, <2>4, <3>2 DEF FreshInv
      <3> QED
        BY <3>1, <3>2
    <2>7. ASSUME NEW d \in Dirs, NEW f \in disk'[d], NEW g \in disk'[d], f.name = g.name
          PROVE  f = g
      <3>1. CASE d = Dir(w)
        <4>1. PICK x \in disk[d], y \in disk[d] : f = Written(w, x) /\ g = Written(w, y)
          BY <2>2, <3>1
        <4>2. x.name = y.name
          BY <2>5, <2>7, <3>1, <4>1
        <4>3. x = y
          BY <4>2 DEF FreshInv
        <4> QED
          BY <4>1, <4>3
      <3>2. CASE d # Dir(w)
        BY <2>3, <2>7, <3>2 DEF FreshInv
      <3> QED
        BY <3>1, <3>2
    <2> QED
      BY <2>6, <2>7
  <1>4. CASE RemoveVictim(w)
    <2>1. (\A d \in Dirs : disk'[d] \subseteq disk[d]) /\ now' = now
      BY <1>1, <1>4 DEF RemoveVictim
    <2> QED
      BY <2>1 DEF FreshInv
  <1>5. CASE \/ Start(w) \/ StageBackup(w) \/ Copy(w) \/ Detect(w) \/ Digest(w) \/ Skip(w) \/ NameArtifact(w)
             \/ Archive(w) \/ Prune(w) \/ CleanBackup(w) \/ RestoreStep(w) \/ Fail(w)
    <2>1. disk' = disk /\ now' = now
      BY <1>5 DEF Start, StageBackup, Copy, Detect, Digest, Skip, NameArtifact, Archive, Prune, CleanBackup,
        RestoreStep, Pick, Restage, Send, Extract, Inject, CleanRestore, Fail
    <2> QED
      BY <2>1 DEF FreshInv
  <1> QED
    BY <1>2, <1>3, <1>4, <1>5 DEF WorkerStep, BackupStep

LEMMA FreshStep ==
  ASSUME TypeOK, Exclusive, FreshInv, [Next]_vars
  PROVE  FreshInv'
  <1>1. ASSUME NEW v \in Workers, Start(v) \/ WorkerStep(v)
        PROVE  FreshInv'
    <2>1. Fresh(v)'
      <3>1. CASE Start(v)
        <4>1. pc'[v] \in {"idle", "stage", "pick"}
          BY <3>1 DEF Start, Goto, FirstStep, TypeOK
        <4> QED
          BY <4>1 DEF Fresh
      <3> QED
        BY <1>1, <3>1, FreshOwnStep
    <2>2. ASSUME NEW w \in Workers, v # w
          PROVE  Fresh(w)'
      <3>1. Fresh(w)
        BY DEF FreshInv
      <3> QED
        BY <1>1, <2>2, <3>1, Undisturbed, FreshFrame
    <2> QED
      BY <1>1, <2>1, <2>2, FilesStep DEF FreshInv
  <1>2. ASSUME UNCHANGED <<pc, todo, local>> \/ \A w \in Workers : pc'[w] = "idle",
               \A d \in Dirs : disk'[d] \subseteq disk[d],
               now' \in {now, now + 1}
        PROVE  FreshInv'
    <2>1. ASSUME NEW w \in Workers
          PROVE  Fresh(w)'
      <3>1. Fresh(w)
        BY DEF FreshInv
      <3>2. CASE pc' = pc /\ todo' = todo /\ local' = local
        <4>1. pc[w] # "idle" => disk'[Dir(w)] \subseteq disk[Dir(w)]
          BY <1>2, CurType
        <4> QED
          BY <3>1, <3>2, <4>1, FreshFrame
      <3>3. CASE pc'[w] = "idle"
        BY <3>3 DEF Fresh
      <3> QED
        BY <1>2, <3>2, <3>3
    <2>2. \A d \in Dirs : \A f \in disk'[d] : f.mtime < now'
      <3>1. now \in Nat /\ \A d \in Dirs : \A f \in disk[d] : f.mtime \in Nat
        BY DEF TypeOK, File
      <3> QED
        BY <1>2, <3>1 DEF FreshInv
    <2> QED
      BY <1>2, <2>1, <2>2 DEF FreshInv
  <1>3. ASSUME NEW d \in Deletable, NEW f \in disk[d], DeleteFile(d, f)
        PROVE  FreshInv'
    <2>1. \A e \in Dirs : disk'[e] \subseteq disk[e]
      BY <1>3 DEF DeleteFile, TypeOK
    <2> QED
      BY <1>2, <1>3, <2>1 DEF DeleteFile
  <1>4. ASSUME NEW i \in Items, NEW c \in Contents, ContainerWrite(i, c)
        PROVE  FreshInv'
    BY <1>2, <1>4 DEF ContainerWrite
  <1>5. CASE Crash
    BY <1>2, <1>5 DEF Crash
  <1>6. CASE Tick
    BY <1>2, <1>6 DEF Tick
  <1>7. CASE UNCHANGED vars
    BY <1>2, <1>7 DEF vars
  <1> QED
    BY <1>1, <1>3, <1>4, <1>5, <1>6, <1>7 DEF Next

\* While no two workers share a directory, no file is from the future, no two
\* share a name, and the artifact of a run at hand is the newest one.
THEOREM FreshInvariant == ASSUME Exclusive PROVE Spec => []FreshInv
  <1>1. Init => FreshInv
    BY DEF Init, FreshInv, Fresh
  <1>2. TypeOK /\ FreshInv /\ [Next]_vars => FreshInv'
    BY FreshStep
  <1> QED
    BY <1>1, <1>2, TypeCorrect, PTL DEF Spec

\* While no two workers share a directory, pruning never condemns the artifact
\* the run has just downloaded, whatever maxBackups is.
THEOREM FreshSurvives == ASSUME Exclusive PROVE Spec => []FreshSurvivesPrune
  <1>1. FreshInv => FreshSurvivesPrune
    BY DEF FreshInv, Fresh, FreshSurvivesPrune
  <1> QED
    BY <1>1, FreshInvariant, PTL
=============================================================================
