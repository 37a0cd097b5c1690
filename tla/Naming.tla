------------------------------- MODULE Naming -------------------------------
(***************************************************************************)
(* internal/backup/naming.go and the staging names of service.go: what an  *)
(* item's settings make of its directories.                                *)
(*                                                                         *)
(* A text is a sequence of words and special characters.  A word stands    *)
(* for letters, digits and dashes; "_" and "." are safe characters, too.   *)
(***************************************************************************)
EXTENDS Naturals, Sequences
Sets == INSTANCE FiniteSetsExt
Seqs == INSTANCE SequencesExt

Unsafe == {"/", " "}
Empty == <<>>

Trim(v, c) ==
  LET kept == {k \in DOMAIN v : v[k] # c} IN
  IF kept = {} THEN Empty ELSE SubSeq(v, Sets!Min(kept), Sets!Max(kept))

\* unsafeNameChars: a run of unsafe characters becomes one underscore.
Squashed(v) ==
  Seqs!FlattenSeq([k \in DOMAIN v |->
    IF v[k] \notin Unsafe THEN <<v[k]>>
    ELSE IF k > 1 /\ v[k - 1] \in Unsafe THEN Empty ELSE <<"_">>])

SanitizeName(v) ==
  LET w == Trim(Squashed(v), "_") IN IF w = Empty THEN <<"item">> ELSE w

\* The last component of a path, "." for none.
Base(path) ==
  LET t == Trim(path, "/")
      slashes == {k \in DOMAIN t : t[k] = "/"}
  IN IF t = Empty THEN <<".">>
     ELSE IF slashes = {} THEN t ELSE SubSeq(t, Sets!Max(slashes) + 1, Len(t))

PathPart(path) ==
  LET t == Trim(path, "/") IN
  IF t = Empty THEN <<"root">>
  ELSE Seqs!FlattenSeq([k \in DOMAIN t |-> IF t[k] = "/" THEN <<"_", "_">> ELSE <<t[k]>>])

\* The name given, else that of the legacy target, else container and path.
SubdirectoryName(item) ==
  IF item.backupName # Empty THEN SanitizeName(item.backupName)
  ELSE IF item.localTargetPath # Empty /\ Base(item.localTargetPath) # <<".">>
  THEN SanitizeName(Base(item.localTargetPath))
  ELSE SanitizeName(item.containerName) \o <<"_", "_">> \o SanitizeName(PathPart(item.containerPath))

\* Mutant: staging is named after the container.
StagingOfContainer(item) == SanitizeName(item.containerName)

\* Below /tmp/pterobackup- for backups, /tmp/pterobackup-restore- for restores.
StagingName(item) == SanitizeName(item.id)
=============================================================================
