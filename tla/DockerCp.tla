------------------------------ MODULE DockerCp ------------------------------
(***************************************************************************)
(* docker cp as internal/backup/service.go uses it: out of a container to  *)
(* the staging (line 75) and back into the container (lines 153, 158).     *)
(* External.                                                               *)
(*                                                                         *)
(* Data is a number: contents are 1..NContents, Torn is what a truncated   *)
(* or mixed payload holds.  A content of a directory is a set of files, so *)
(* Merged[c][x] says what a directory of content c holds after the files   *)
(* of x have been laid over it: what is not among them stays.              *)
(***************************************************************************)
EXTENDS Naturals

CONSTANTS
  NContents,  \* how many contents a container path takes
  DirItems,   \* the items whose container path is a directory
  Live,       \* the items whose files are written while docker cp reads them
  Merged      \* content -> content -> the second laid over the first

None == 0
Torn == NContents + 1
Contents == 1..NContents
Data == 1..Torn

ASSUME DockerCpAssumption ==
  /\ NContents \in Nat \ {0}
  /\ Merged \in [Contents -> [Contents -> Contents]]
  \* What has been laid over is there: doing it again changes nothing.
  /\ \A c, x \in Contents : Merged[Merged[c][x]][x] = Merged[c][x] /\ Merged[x][x] = x

\* docker cp container:path payload, of data c: what one pass over the files
\* reads.  Files written meanwhile make a mixture that no instant ever held.
CopiedOut(item, c) == {c} \cup (IF item \in Live THEN Contents ELSE {})

\* docker cp upload container:path, or docker cp payload/. container:path, of
\* data x over data c.  A file is replaced; a directory that was torn holds some
\* content or other below the files of x.
CopiedIn(item, c, x) ==
  IF item \notin DirItems \/ x = Torn THEN {x}
  ELSE {Merged[z][x] : z \in IF c = Torn THEN Contents ELSE {c}}

\* Data c has every file of data x.
Has(c, x) == \/ c = Torn /\ x = Torn
             \/ c \in Contents /\ x \in Contents /\ Merged[c][x] = c
=============================================================================
