--------------------------- MODULE BackupService ---------------------------
(***************************************************************************)
(* The backup and restore runs of internal/backup/service.go, with the     *)
(* transfers of internal/remote/transfer.go and the artifact deletion of   *)
(* internal/httpapi/server.go.                                             *)
(*                                                                         *)
(* A worker is a goroutine inside RunBackup or RunRestore: the scheduler's *)
(* or an HTTP request's.  Nothing in the code keeps two of them off the    *)
(* same item, so the workers interleave freely; one remote command, one    *)
(* local file operation or one piece of a transfer is one action.          *)
(*                                                                         *)
(* Data is a number, see DockerCp.  SHA-256 has no collisions, so the      *)
(* digest of a payload is its number, and digests order file names as      *)
(* numbers do.                                                             *)
(***************************************************************************)
EXTENDS DockerCp, Sequences, FiniteSets

CONSTANTS
  Workers,     \* goroutines that may be inside RunBackup or RunRestore
  Items,       \* the configured backup items
  Stagings,    \* remote directories under /tmp
  Dirs,        \* subdirectories of the local backup root
  StagingOf,   \* item -> its staging directory, from its id
  DirOf,       \* item -> its subdirectory, from its names
  MaxBackups,  \* item -> how many artifacts it keeps
  ItemsOf,     \* worker -> the items its requests are about
  Requests,    \* worker -> the runs it may be asked for
  PerSecond,   \* clock instants per second of a file name
  Horizon,     \* bound: no run starts and no time idles away after it
  Deletable,   \* the subdirectories whose artifacts users DELETE
  Faults       \* the steps that may fail on their own, "crash", "nodigest"

NoHash == 0
EmptyTree == Torn + 1
Hashes == 0..EmptyTree

BackupSteps == {"stage", "copy", "detect", "digest", "decide", "archive",
                "open", "receive", "prune", "remove", "clean", "cleanskip"}
RestoreSteps == {"pick", "restage", "send", "extract", "inject", "reclean"}
Steps == BackupSteps \cup RestoreSteps

\* The steps that end in an error return when a command or a file operation
\* fails.  decide returns no error, and the three clean steps ignore theirs.
Fallible == Steps \ {"decide", "clean", "cleanskip", "reclean"}

ASSUME ConstantsAssumption ==
  /\ DirItems \subseteq Items /\ Live \subseteq Items
  /\ StagingOf \in [Items -> Stagings]
  /\ DirOf \in [Items -> Dirs]
  /\ MaxBackups \in [Items -> Nat]
  /\ ItemsOf \in [Workers -> SUBSET Items]
  /\ \A w \in Workers : \A r \in Requests[w] :
        r.op \in {"backup", "restore"} /\ r.items \in Seq(ItemsOf[w])
  /\ PerSecond \in Nat \ {0}
  /\ Horizon \in Nat
  /\ Deletable \subseteq Dirs
  /\ Faults \subseteq Fallible \cup {"crash", "nodigest", "clean"}
  \* Items that share a directory are of one kind.
  /\ \A i, j \in Items : StagingOf[i] = StagingOf[j] \/ DirOf[i] = DirOf[j]
        => (i \in DirItems <=> j \in DirItems)

VARIABLES
  now,        \* the wall clock, in instants; a file write takes one
  container,  \* item -> the data at its container path
  staging,    \* /tmp/pterobackup-<id> on the remote host
  restaging,  \* /tmp/pterobackup-restore-<id> on the remote host
  disk,       \* subdirectory -> the artifact files in it
  pc,         \* worker -> its next step, or "idle"
  todo,       \* worker -> the items its loop has left, the current one first
  local       \* worker -> the local variables of the current item

remote == <<container, staging, restaging>>
vars == <<now, container, staging, restaging, disk, pc, todo, local>>

Name == [sec : Nat, hash : Hashes, gz : BOOLEAN]
File == [name : Name, data : Data, full : BOOLEAN, mtime : Nat]
StagingDir == [made : BOOLEAN, payload : 0..Torn, tar : 0..Torn]
Upload == [name : Name, data : Data, full : BOOLEAN]
RestoreDir == [up : SUBSET Upload, ext : 0..Torn]

Gone == [made |-> FALSE, payload |-> None, tar |-> None]
Emptied == [Gone EXCEPT !.made = TRUE]
NoUpload == [up |-> {}, ext |-> None]
NoName == [sec |-> 0, hash |-> NoHash, gz |-> FALSE]
Blank == [isDir |-> FALSE, hash |-> NoHash, name |-> NoName,
          at |-> 0, victims |-> {}]

Locals == [isDir : BOOLEAN, hash : Hashes, name : Name,
           at : Nat, victims : SUBSET File]

(***************************************************************************)
(* Type invariant.  A worker is idle exactly when it has no item left.     *)
(***************************************************************************)
TypeOK ==
  /\ now \in Nat
  /\ container \in [Items -> Data]
  /\ staging \in [Stagings -> StagingDir]
  /\ restaging \in [Stagings -> RestoreDir]
  /\ disk \in [Dirs -> SUBSET File]
  /\ pc \in [Workers -> Steps \cup {"idle"}]
  /\ todo \in [Workers -> Seq(Items)]
  /\ local \in [Workers -> Locals]
  /\ \A w \in Workers : todo[w] \in Seq(ItemsOf[w]) /\ (pc[w] = "idle" <=> todo[w] = <<>>)

Init ==
  /\ now = 0
  /\ container \in [Items -> Contents]
  /\ staging = [s \in Stagings |-> Gone]
  /\ restaging = [s \in Stagings |-> NoUpload]
  /\ disk = [d \in Dirs |-> {}]
  /\ pc = [w \in Workers |-> "idle"]
  /\ todo = [w \in Workers |-> <<>>]
  /\ local = [w \in Workers |-> Blank]

-----------------------------------------------------------------------------
(* Artifact files: their names, their order, which is latest, which go.    *)

\* Mutant: the digest is compared before the timestamp.
NameLessByHash(a, b) == a.hash < b.hash \/ (a.hash = b.hash /\ a.sec < b.sec)

\* File names compare as strings: timestamp, then digest, then ".tar.gz".
NameLess(a, b) ==
  \/ a.sec < b.sec
  \/ a.sec = b.sec /\ a.hash < b.hash
  \/ a.sec = b.sec /\ a.hash = b.hash /\ ~a.gz /\ b.gz

IsLatest(f, files) == f \in files /\ \A g \in files \ {f} : NameLess(g.name, f.name)

Older(f, g) == \/ f.mtime < g.mtime
               \/ f.mtime = g.mtime /\ NameLess(f.name, g.name)

IsOldest(f, files) == f \in files /\ \A g \in files \ {f} : Older(f, g)

\* Mutant: keeps one artifact too many.
VictimsOffByOne(files, max) ==
  IF max = 0 THEN {}
  ELSE {f \in files : Cardinality({g \in files : Older(f, g)}) > max}
\* Mutant: sorts the newest first.
VictimsNewest(files, max) ==
  IF max = 0 THEN {}
  ELSE {f \in files : Cardinality({g \in files : Older(g, f)}) >= max}

\* The files pruneBackups deletes: all but the max newest ones.
Victims(files, max) ==
  IF max = 0 THEN {}
  ELSE {f \in files : Cardinality({g \in files : Older(f, g)}) >= max}

Put(files, f) == {g \in files : g.name # f.name} \cup {f}

-----------------------------------------------------------------------------
(* What a worker works on.                                                 *)

Cur(w) == Head(todo[w])
\* Mutant: the item's id is left out of the staging directory's name.
StgShared(w) == CHOOSE s \in Stagings : TRUE
Stg(w) == StagingOf[Cur(w)]
Dir(w) == DirOf[Cur(w)]
Keep(w) == MaxBackups[Cur(w)]

Goto(w, step) == pc' = [pc EXCEPT ![w] = step]
\* Mutant: an empty list of items is not noticed.
FirstStepAlways(op, items) == IF op = "backup" THEN "stage" ELSE "pick"
FirstStep(op, items) ==
  IF items = <<>> THEN "idle" ELSE IF op = "backup" THEN "stage" ELSE "pick"
\* The loop of RunBackup or RunRestore goes on with the next item.
NextItem(w, op) ==
  /\ todo' = [todo EXCEPT ![w] = Tail(@)]
  /\ Goto(w, FirstStep(op, Tail(todo[w])))
  /\ local' = [local EXCEPT ![w] = Blank]

\* A request, or the scheduler, calls RunBackup or RunRestore with a list of
\* items, and the connection stands.
Start(w) ==
  /\ pc[w] = "idle" /\ now <= Horizon
  /\ \E r \in Requests[w] :
        /\ todo' = [todo EXCEPT ![w] = r.items]
        /\ Goto(w, FirstStep(r.op, r.items))
  /\ UNCHANGED <<now, remote, disk, local>>

-----------------------------------------------------------------------------
(* runSingleBackup.                                                        *)

\* rm -rf staging && mkdir -p staging
StageBackup(w) ==
  /\ pc[w] = "stage"
  /\ staging' = [staging EXCEPT ![Stg(w)] = Emptied]
  /\ Goto(w, "copy")
  /\ UNCHANGED <<now, container, restaging, disk, todo, local>>

\* docker cp container:path staging/payload, of a container that may be running.
\* A directory copied where one already is lands inside it.
Copy(w) ==
  LET s == Stg(w) IN
  /\ pc[w] = "copy"
  /\ staging[s].made
  /\ \E x \in CopiedOut(Cur(w), container[Cur(w)]) :
        staging' = [staging EXCEPT ![s].payload =
          IF Cur(w) \in DirItems /\ staging[s].payload # None THEN Torn ELSE x]
  /\ Goto(w, "detect")
  /\ UNCHANGED <<now, container, restaging, disk, todo, local>>

\* [ -d payload ]: a payload that is not there counts as a file.
Detect(w) ==
  /\ pc[w] = "detect"
  /\ local' = [local EXCEPT ![w].isDir = Cur(w) \in DirItems /\ staging[Stg(w)].payload # None]
  /\ Goto(w, "digest")
  /\ UNCHANGED <<now, remote, disk, todo>>

\* Mutant: the digest is taken in the container, after the copy.
DigestOfContainer(w) == container[Cur(w)]

\* What the sha256sum pipelines print: the tree pipeline always a digest, the
\* file pipeline nothing when there is no such file.
DigestOf(w) ==
  LET p == staging[Stg(w)].payload IN
  IF local[w].isDir
  THEN IF p = None THEN EmptyTree ELSE p
  ELSE IF Cur(w) \in DirItems THEN NoHash ELSE p

Digest(w) ==
  /\ pc[w] = "digest"
  /\ \E h \in {DigestOf(w)} \cup (IF "nodigest" \in Faults THEN {NoHash} ELSE {}) :
        local' = [local EXCEPT ![w].hash = h]
  /\ Goto(w, "decide")
  /\ UNCHANGED <<now, remote, disk, todo>>

\* Mutant: an empty digest counts as equal to an empty digest.
UnchangedIfBothEmpty(w) ==
  \E f \in disk[Dir(w)] : IsLatest(f, disk[Dir(w)]) /\ f.name.hash = local[w].hash

\* The digest in the latest file name, if there is one, is the payload's.
Unchanged(w) ==
  /\ local[w].hash # NoHash
  /\ \E f \in disk[Dir(w)] : IsLatest(f, disk[Dir(w)]) /\ f.name.hash = local[w].hash

Skip(w) ==
  /\ pc[w] = "decide"
  /\ Unchanged(w)
  /\ Goto(w, "cleanskip")
  /\ UNCHANGED <<now, remote, disk, todo, local>>

\* Mutant: the name has no timestamp.
BaseNameTimeless(w) == [sec |-> 0, hash |-> local[w].hash, gz |-> local[w].isDir]

BaseName(w) == [sec |-> now \div PerSecond, hash |-> local[w].hash, gz |-> local[w].isDir]

NameArtifact(w) ==
  /\ pc[w] = "decide"
  /\ ~Unchanged(w)
  /\ local' = [local EXCEPT ![w].name = BaseName(w)]
  /\ Goto(w, IF local[w].isDir THEN "archive" ELSE "open")
  /\ UNCHANGED <<now, remote, disk, todo>>

\* tar -czf payload.tar.gz payload
Archive(w) ==
  /\ pc[w] = "archive"
  /\ staging[Stg(w)].payload # None
  /\ staging' = [staging EXCEPT ![Stg(w)].tar = staging[Stg(w)].payload]
  /\ Goto(w, "open")
  /\ UNCHANGED <<now, container, restaging, disk, todo, local>>

\* The remote file of the download.
Source(w) == IF local[w].isDir THEN staging[Stg(w)].tar ELSE staging[Stg(w)].payload

\* Download opens the remote file, then creates or truncates the local one.
\* The open handle keeps the data even if the staging is wiped meanwhile.
Open(w) ==
  /\ pc[w] = "open"
  /\ Source(w) # None
  /\ disk' = [disk EXCEPT ![Dir(w)] =
        Put(@, [name |-> local[w].name, data |-> Source(w), full |-> FALSE, mtime |-> now])]
  /\ local' = [local EXCEPT ![w].at = now]
  /\ now' = now + 1
  /\ Goto(w, "receive")
  /\ UNCHANGED <<remote, todo>>

\* The file this worker writes, unless it was unlinked or truncated since.
Mine(w, f) == ~f.full /\ f.name = local[w].name /\ f.mtime = local[w].at
Written(w, f) == IF Mine(w, f) THEN [f EXCEPT !.full = TRUE, !.mtime = now] ELSE f

\* A directory cannot be read through the plain-file download.
Readable(w) == local[w].isDir \/ Cur(w) \notin DirItems

\* io.Copy has written the last byte.
Receive(w) ==
  /\ pc[w] = "receive"
  /\ Readable(w)
  /\ disk' = [disk EXCEPT ![Dir(w)] = {Written(w, f) : f \in @}]
  /\ now' = now + 1
  /\ Goto(w, "prune")
  /\ UNCHANGED <<remote, todo, local>>

\* pruneBackups reads the directory and sorts it by modification time.
Prune(w) ==
  LET victims == Victims(disk[Dir(w)], Keep(w)) IN
  /\ pc[w] = "prune"
  /\ local' = [local EXCEPT ![w].victims = victims]
  /\ Goto(w, IF victims = {} THEN "clean" ELSE "remove")
  /\ UNCHANGED <<now, remote, disk, todo>>

Present(w, name) == \E f \in disk[Dir(w)] : f.name = name

\* os.Remove by name, the oldest victim first.
RemoveVictim(w) ==
  /\ pc[w] = "remove"
  /\ \E v \in local[w].victims :
        /\ IsOldest(v, local[w].victims)
        /\ Present(w, v.name)
        /\ disk' = [disk EXCEPT ![Dir(w)] = {f \in @ : f.name # v.name}]
        /\ local' = [local EXCEPT ![w].victims = @ \ {v}]
        /\ Goto(w, IF local[w].victims = {v} THEN "clean" ELSE "remove")
  /\ UNCHANGED <<now, remote, todo>>

\* rm -rf staging, its error ignored, and the next item.
CleanBackup(w) ==
  /\ pc[w] \in {"clean", "cleanskip"}
  /\ \/ staging' = [staging EXCEPT ![Stg(w)] = Gone]
     \/ "clean" \in Faults /\ UNCHANGED staging
  /\ NextItem(w, "backup")
  /\ UNCHANGED <<now, container, restaging, disk>>

-----------------------------------------------------------------------------
(* runSingleRestore.                                                       *)

\* latestBackupForItem: the greatest file name.
Pick(w) ==
  /\ pc[w] = "pick"
  /\ \E f \in disk[Dir(w)] :
        /\ IsLatest(f, disk[Dir(w)])
        /\ local' = [local EXCEPT ![w].name = f.name]
  /\ Goto(w, "restage")
  /\ UNCHANGED <<now, remote, disk, todo>>

\* Mutant: the staging directory of an earlier restore is not wiped.
RestageKeeping(w) ==
  /\ pc[w] = "restage"
  /\ Goto(w, "send")
  /\ UNCHANGED <<now, remote, disk, todo, local>>

\* rm -rf staging && mkdir -p staging
Restage(w) ==
  /\ pc[w] = "restage"
  /\ restaging' = [restaging EXCEPT ![Stg(w)] = NoUpload]
  /\ Goto(w, "send")
  /\ UNCHANGED <<now, container, staging, disk, todo, local>>

\* Upload reads the local file of that name as it is now, complete or not, and
\* makes the remote directory if it is gone.
Send(w) ==
  /\ pc[w] = "send"
  /\ \E f \in disk[Dir(w)] :
        /\ f.name = local[w].name
        /\ restaging' = [restaging EXCEPT ![Stg(w)].up =
              Put(@, [name |-> f.name, data |-> f.data, full |-> f.full])]
  /\ Goto(w, IF local[w].name.gz THEN "extract" ELSE "inject")
  /\ UNCHANGED <<now, container, staging, disk, todo, local>>

Uploaded(w) == {u \in restaging[Stg(w)].up : u.name = local[w].name}
\* tar and gzip notice a truncated archive.
Extractable(w) == {u \in Uploaded(w) : u.full}

\* mkdir -p payload && tar -xzf, over what is already extracted there.
Extract(w) ==
  /\ pc[w] = "extract"
  /\ \E u \in Extractable(w) :
        restaging' = [restaging EXCEPT ![Stg(w)].ext = IF @ \in {None, u.data} THEN u.data ELSE Torn]
  /\ Goto(w, "inject")
  /\ UNCHANGED <<now, container, staging, disk, todo, local>>

\* What docker cp would put at the container path: nothing if it is not there.
Injected(w) ==
  IF local[w].name.gz THEN {restaging[Stg(w)].ext} \ {None}
  ELSE {IF u.full /\ Cur(w) \notin DirItems THEN u.data ELSE Torn : u \in Uploaded(w)}

\* docker cp staging/payload/payload/. container:path, or of the file uploaded.
Inject(w) ==
  /\ pc[w] = "inject"
  /\ \E x \in Injected(w) : \E c \in CopiedIn(Cur(w), container[Cur(w)], x) :
        container' = [container EXCEPT ![Cur(w)] = c]
  /\ Goto(w, "reclean")
  /\ UNCHANGED <<now, staging, restaging, disk, todo, local>>

CleanRestore(w) ==
  /\ pc[w] = "reclean"
  /\ \/ restaging' = [restaging EXCEPT ![Stg(w)] = NoUpload]
     \/ "clean" \in Faults /\ UNCHANGED restaging
  /\ NextItem(w, "restore")
  /\ UNCHANGED <<now, container, staging, disk>>

-----------------------------------------------------------------------------
(* Errors.  Every error return ends the whole run where it is: the items   *)
(* left are not tried, nothing is cleaned up.                              *)

\* Mutant: a run waits for what is not there.
BrokenNever(w) == FALSE

\* What the step at hand needs is not there.
Broken(w) ==
  CASE pc[w] = "copy"    -> ~staging[Stg(w)].made
    [] pc[w] = "archive" -> staging[Stg(w)].payload = None
    [] pc[w] = "open"    -> Source(w) = None
    [] pc[w] = "receive" -> ~Readable(w)
    [] pc[w] = "remove"  -> \E v \in local[w].victims :
                               IsOldest(v, local[w].victims) /\ ~Present(w, v.name)
    [] pc[w] = "pick"    -> disk[Dir(w)] = {}
    [] pc[w] = "send"    -> ~Present(w, local[w].name)
    [] pc[w] = "extract" -> Extractable(w) = {}
    [] pc[w] = "inject"  -> Injected(w) = {}
    [] OTHER             -> FALSE

EndRun(w) ==
  /\ pc' = [pc EXCEPT ![w] = "idle"]
  /\ todo' = [todo EXCEPT ![w] = <<>>]
  /\ local' = [local EXCEPT ![w] = Blank]

\* What a command that failed midway may have done.
Spoil(w) ==
  LET s == Stg(w) IN
  \/ /\ \/ pc[w] = "stage" /\ staging' = [staging EXCEPT ![s] = Gone]
        \/ pc[w] = "copy" /\ staging[s].made /\ staging' = [staging EXCEPT ![s].payload = Torn]
        \/ pc[w] = "archive" /\ staging[s].made /\ staging' = [staging EXCEPT ![s].tar = Torn]
     /\ UNCHANGED <<container, restaging>>
  \/ /\ \/ pc[w] = "restage" /\ restaging' = [restaging EXCEPT ![s] = NoUpload]
        \/ pc[w] = "send" /\ restaging' = [restaging EXCEPT ![s].up =
              Put(@, [name |-> local[w].name, data |-> Torn, full |-> FALSE])]
        \/ pc[w] = "extract" /\ restaging' = [restaging EXCEPT ![s].ext = Torn]
     /\ UNCHANGED <<container, staging>>
  \/ /\ pc[w] = "inject" /\ container' = [container EXCEPT ![Cur(w)] = Torn]
     /\ UNCHANGED <<staging, restaging>>

Fail(w) ==
  /\ pc[w] # "idle"
  /\ Broken(w) \/ pc[w] \in Faults
  /\ EndRun(w)
  /\ Spoil(w) \/ UNCHANGED remote
  /\ UNCHANGED <<now, disk>>

\* The process dies and is started again: files and staging remain.
Crash ==
  /\ "crash" \in Faults /\ \E w \in Workers : pc[w] # "idle"
  /\ pc' = [w \in Workers |-> "idle"]
  /\ todo' = [w \in Workers |-> <<>>]
  /\ local' = [w \in Workers |-> Blank]
  /\ UNCHANGED <<now, remote, disk>>

-----------------------------------------------------------------------------
(* The rest of the world.                                                  *)

\* DELETE of one artifact over HTTP.
DeleteFile(d, f) ==
  /\ disk' = [disk EXCEPT ![d] = {g \in @ : g.name # f.name}]
  /\ UNCHANGED <<now, remote, pc, todo, local>>

\* The game server writes its files.
ContainerWrite(i, c) ==
  /\ container[i] # c
  /\ container' = [container EXCEPT ![i] = c]
  /\ UNCHANGED <<now, staging, restaging, disk, pc, todo, local>>

Tick ==
  /\ now < Horizon
  /\ now' = now + 1
  /\ UNCHANGED <<remote, disk, pc, todo, local>>

BackupStep(w) ==
  \/ StageBackup(w) \/ Copy(w) \/ Detect(w) \/ Digest(w) \/ Skip(w) \/ NameArtifact(w)
  \/ Archive(w) \/ Open(w) \/ Receive(w) \/ Prune(w) \/ RemoveVictim(w) \/ CleanBackup(w)

RestoreStep(w) ==
  \/ Pick(w) \/ Restage(w) \/ Send(w) \/ Extract(w) \/ Inject(w) \/ CleanRestore(w)

WorkerStep(w) == BackupStep(w) \/ RestoreStep(w) \/ Fail(w)

Next ==
  \/ \E w \in Workers : Start(w) \/ WorkerStep(w)
  \/ \E d \in Deletable : \E f \in disk[d] : DeleteFile(d, f)
  \/ \E i \in Items, c \in Contents : ContainerWrite(i, c)
  \/ Crash
  \/ Tick

Spec == Init /\ [][Next]_vars

\* A remote command or a transfer ends, well or badly.
FairSpec == Spec /\ \A w \in Workers : WF_vars(WorkerStep(w))

-----------------------------------------------------------------------------
(* What the workers do to a vault of complete copies.                      *)

\* From docker cp until the download has ended, the staging holds the copy.
Held(w) ==
  IF pc[w] \in {"detect", "digest", "decide", "archive", "open", "receive"}
  THEN {[item |-> Cur(w), data |-> staging[Stg(w)].payload]} ELSE {}

\* From the upload of a complete artifact until it is in the container.
Fetched(w) ==
  IF pc[w] \in {"extract", "inject"}
  THEN {[item |-> Cur(w), data |-> u.data] : u \in Extractable(w)} ELSE {}

Complete(files) == {[at |-> f.mtime, data |-> f.data] : f \in {g \in files : g.full}}

Snapshots == [w \in Workers |-> Held(w)]
Fetches == [w \in Workers |-> Fetched(w)]
Copies == [d \in Dirs |-> Complete(disk[d])]

V == INSTANCE Vault WITH
  snapshot <- Snapshots, fetched <- Fetches, vault <- Copies,
  MayTear <- Faults \cap {"receive", "inject", "crash"} # {}

\* Backups and restores keep a vault: whatever fails or is interleaved, what is
\* stored is what one docker cp read of its item, a restore lays the newest
\* complete copy over the item or tears it, and copies go from the oldest on and
\* never the last one (README.md:13 and 15, service.go:188 and 317).
KeepsVault == V!VSpec

-----------------------------------------------------------------------------
(* Properties.                                                             *)

\* The digest in the name of a complete artifact is the digest of the data the
\* artifact was made from (Filename format, service.go:249), whatever failed.
NameTellsContent ==
  \A d \in Dirs : \A f \in disk[d] : f.full /\ f.name.hash # NoHash => f.data = f.name.hash

\* pruneBackups never condemns the artifact the run has just downloaded.
FreshSurvivesPrune ==
  \A w \in Workers : pc[w] = "remove" => \A v \in local[w].victims : v.name # local[w].name

\* Only one worker at a time is on a staging directory or a subdirectory.
Exclusive ==
  \A v, w \in Workers : v # w =>
    \A i \in ItemsOf[v], j \in ItemsOf[w] : StagingOf[i] # StagingOf[j] /\ DirOf[i] # DirOf[j]

\* Why names tell content: from the copy to the download the payload stays what
\* it is, the digest and the archive are its own, and truncated files are named
\* as truthfully as complete ones.
Staged(w) ==
  LET payload == staging[Stg(w)].payload IN
  /\ pc[w] \in {"detect", "digest", "decide", "archive", "open"} => payload # None
  /\ pc[w] \in {"digest", "decide", "archive", "open"} => local[w].isDir = (Cur(w) \in DirItems)
  /\ pc[w] = "decide" => local[w].hash \in {NoHash, payload}
  /\ pc[w] \in {"archive", "open"} => local[w].name.hash \in {NoHash, payload}
  /\ pc[w] = "open" => Source(w) = payload

\* A restore finds nothing extracted when it begins, and then its own artifact.
Restaged(w) ==
  /\ pc[w] \in {"send", "extract"} => restaging[Stg(w)].ext = None
  /\ pc[w] = "inject" /\ local[w].name.gz /\ local[w].name.hash # NoHash
       => restaging[Stg(w)].ext = local[w].name.hash

Truthful(f) == f.name.hash # NoHash => f.data = f.name.hash

\* The inductive form of NameTellsContent and RestoreMatchesName, where workers
\* are exclusive.
NamesInv ==
  /\ \A d \in Dirs : \A f \in disk[d] : Truthful(f)
  /\ \A s \in Stagings : \A u \in restaging[s].up : u.full => Truthful(u)
  /\ \A w \in Workers : Staged(w) /\ Restaged(w)

\* The file being downloaded, then the newest file of the subdirectory.
Fresh(w) ==
  /\ pc[w] = "receive" => \A f \in disk[Dir(w)] : f.name = local[w].name => Mine(w, f)
  /\ pc[w] = "prune" => \A f \in disk[Dir(w)] : f.name = local[w].name =>
                           \A g \in disk[Dir(w)] \ {f} : g.mtime < f.mtime
  /\ pc[w] = "remove" => \A v \in local[w].victims : v.name # local[w].name

\* The inductive form of FreshSurvivesPrune, where workers are exclusive: no
\* modification time lies in the future, no two files share a name.
FreshInv ==
  /\ \A d \in Dirs : \A f \in disk[d] : f.mtime < now
  /\ \A d \in Dirs : \A f, g \in disk[d] : f.name = g.name => f = g
  /\ \A w \in Workers : Fresh(w)

\* When the run of an item is about to report success, its subdirectory holds
\* at most maxBackups files, truncated ones of failed runs included.
RetentionHolds ==
  \A w \in Workers : pc[w] = "clean" /\ Keep(w) > 0 => Cardinality(disk[Dir(w)]) <= Keep(w)

\* Where no user deletes artifacts, a complete artifact goes away only while a
\* newer complete one stands in its subdirectory: neither pruning nor a download
\* can leave the item with less recent data than it had.
OnlyOlderPruned ==
  [][\A d \in Dirs \ Deletable : \A f \in disk[d] :
        f.full /\ f \notin disk'[d] => \E g \in disk'[d] : g.full /\ g.mtime > f.mtime]_vars

\* Where a run skips the item as unchanged, a complete artifact holds the very
\* data it staged.
SkipMeansBackedUp ==
  [][\A w \in Workers :
        Skip(w) => \E f \in disk[Dir(w)] : f.full /\ f.data = staging[Stg(w)].payload]_vars

\* The file a restore picks by its name was written no earlier than any
\* complete artifact of the item.
RestoreNewest ==
  [][\A w \in Workers :
        Pick(w) => \E f \in disk[Dir(w)] :
                      /\ f.name = local'[w].name
                      /\ \A g \in disk[Dir(w)] : g.full => f.mtime >= g.mtime]_vars

\* After a directory restore has got as far as the container, the container has
\* every file of the data whose digest is in the name that was picked, though the
\* artifact may have been truncated, deleted or written again since.
RestoreMatchesName ==
  [][\A w \in Workers :
        Inject(w) /\ local[w].name.gz /\ local[w].name.hash # NoHash
        => Has(container'[Cur(w)], local[w].name.hash)]_vars

\* Every run ends, whatever the others do to its staging and its files.
RunEnds == \A w \in Workers : pc[w] # "idle" ~> pc[w] = "idle"
=============================================================================
