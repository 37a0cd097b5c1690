-------------------------- MODULE MCBackupService --------------------------
(***************************************************************************)
(* Small instances of BackupService for TLC: a directory item "world" and  *)
(* an item "props", a plain file in some instances.  Their directories are *)
(* the ones that Naming makes of their settings.                           *)
(***************************************************************************)
EXTENDS BackupService, Naming
LOCAL INSTANCE SequencesExt

Backup(items) == [op |-> "backup", items |-> items]
Restore(items) == [op |-> "restore", items |-> items]

\* Every step that can fail does, the process crashes.
AnyStepOrCrash == Fallible \cup {"crash"}

\* Two items of one container, under ids as the server generates them.
Settings(id, from, path) ==
  [id |-> id, containerName |-> from, containerPath |-> path,
   backupName |-> Empty, localTargetPath |-> Empty]
TwoItems ==
  [world |-> Settings(<<"a">>, <<"panel">>, <<"/", "srv", "/", "world">>),
   props |-> Settings(<<"b">>, <<"panel">>, <<"/", "srv", "/", "props">>)]

\* Items share a directory exactly where their settings give them one name.
Named(NameFor(_)) == CHOOSE d \in [Items -> Items] :
  \A i, j \in Items : d[i] = d[j] <=> NameFor(TwoItems[i]) = NameFor(TwoItems[j])
StagingsNamed == Named(StagingName)
DirsNamed == Named(SubdirectoryName)
\* TLC evaluates what a constant is replaced by at each use, other definitions once.
StagingByName == StagingsNamed
DirByName == DirsNamed

\* Content 2 has the file of content 1 and one more.
Growing == <<<<1, 2>>, <<2, 2>>>>
\* 1 is {a}, 2 is {a', b}, 3 is {a, b}: restoring 1 over 2 makes 3.
Crossing == <<<<1, 2, 3>>, <<3, 2, 3>>, <<3, 2, 3>>>>

KeepOne == [i \in Items |-> 1]
KeepTwo == [i \in Items |-> 2]
KeepMixed == [i \in Items |-> IF i = "world" THEN 2 ELSE 1]

\* One worker handles both items, one after the other.
SerialItems == [w \in Workers |-> Items]
SerialRequests == [w \in Workers |-> {Backup(<<"world", "props">>), Restore(<<"world", "props">>)}]

\* Every worker runs on any one item of the instance.
EachItem == [w \in Workers |-> Items]
EachBackup == [w \in Workers |-> {Backup(<<i>>) : i \in Items}]

\* The scheduler backs up "world" while requests back up and restore "props".
DisjointItems == [w \in Workers |-> IF w = "scheduler" THEN {"world"} ELSE {"props"}]
DisjointRequests == [w \in Workers |->
  IF w = "scheduler" THEN {Backup(<<"world">>)} ELSE {Backup(<<"props">>), Restore(<<"props">>)}]

\* Requests restore the item that the scheduler backs up.
RestoreBeside == [w \in Workers |->
  IF w = "scheduler" THEN {Backup(<<"world">>)} ELSE {Restore(<<"world">>)}]

-----------------------------------------------------------------------------
(* Naming on short texts, which TLC evaluates before it explores an        *)
(* instance.                                                               *)

Texts == BoundedSeq({"a", "b", "_", ".", "/", " "}, 4)

\* Texts over safe characters with no underscore at either end nor two in a row.
Tidy(v) ==
  /\ v # Empty /\ SanitizeName(v) = v
  /\ \A k \in 1..Len(v) - 1 : ~(v[k] = "_" /\ v[k + 1] = "_")

\* The components of a path.
Components(path) ==
  LET t == Trim(path, "/")
      ends == {0, Len(t) + 1} \cup {k \in DOMAIN t : t[k] = "/"}
  IN {SubSeq(t, a + 1, b - 1) : <<a, b>> \in {<<x, y>> \in ends \X ends :
        x < y /\ \A z \in ends : ~(x < z /\ z < y)}}

TidyPaths == {p \in Texts : Trim(p, "/") # Empty /\ \A c \in Components(p) : Tidy(c)}

\* A name that is safe is left as it is: a directory read back as a backupName
\* is the same directory.
ASSUME NamesStable == \A v \in Texts : SanitizeName(SanitizeName(v)) = SanitizeName(v)

\* Every default directory is one directory below the root (README.md:41).
ASSUME DefaultsBelowRoot ==
  \A c \in {<<"a">>, <<".", ".">>, <<" ">>}, p \in Texts :
    LET name == SubdirectoryName(Settings(<<"a">>, c, p)) IN
    name \notin {<<".">>, <<".", ".">>} /\ \A k \in DOMAIN name : name[k] \notin Unsafe

\* Tidy containers and paths tell items apart: no two of them get one directory,
\* which is what keeps the artifacts of different items apart.
ASSUME DefaultsApart ==
  LET places == {<<c, Trim(p, "/")>> : <<c, p>> \in {v \in Texts : Len(v) <= 3 /\ Tidy(v)} \X TidyPaths}
      dirs == {SubdirectoryName(Settings(<<"a">>, place[1], place[2])) : place \in places}
  IN Cardinality(dirs) = Cardinality(places)
=============================================================================
