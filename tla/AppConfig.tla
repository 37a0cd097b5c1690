----------------------------- MODULE AppConfig -----------------------------
(***************************************************************************)
(* The configuration (internal/domain/config.go) and what the store does   *)
(* to it before it writes it and after it has read it: applyDefaults       *)
(* (internal/config/defaults.go) and validate (internal/config/store.go).  *)
(*                                                                         *)
(* Of an item the id, the interval and the retention are kept; of the SSH  *)
(* settings whether host and username are given, the port, the method, and *)
(* whether the credential that the method wants is given.                  *)
(***************************************************************************)
EXTENDS Integers, Sequences

CONSTANTS
  Ids,   \* what ids look like, the generated ones included
  NoId   \* the empty id

DefaultIntervalMin == 60
DefaultMaxBackups == 20

ASSUME AppConfigAssumption == NoId \notin Ids

Items == [id : Ids \cup {NoId}, intervalMinutes : Int, maxBackups : Int]

Auths == {"", "password", "key", "other"}

SSHs == [named : BOOLEAN, port : Int, auth : Auths, credential : BOOLEAN]

AppConfigs == [ssh : SSHs, backups : Seq(Items)]

DefaultConfig ==
  [ssh |-> [named |-> FALSE, port |-> 22, auth |-> "password", credential |-> FALSE],
   backups |-> <<>>]

SSHWithDefaults(s) ==
  [s EXCEPT !.port = IF @ = 0 THEN 22 ELSE @,
            !.auth = IF @ = "" THEN "password" ELSE @]

ItemWithDefaults(item, id) ==
  [id |-> id,
   intervalMinutes |-> IF item.intervalMinutes <= 0 THEN DefaultIntervalMin ELSE item.intervalMinutes,
   maxBackups |-> IF item.maxBackups <= 0 THEN DefaultMaxBackups ELSE item.maxBackups]

Unnamed(c) == {k \in DOMAIN c.backups : c.backups[k].id = NoId}

UsedIds(c) == {c.backups[k].id : k \in DOMAIN c.backups \ Unnamed(c)}

\* The ids of the items of c after generation: ids that are there stay, the
\* others are random and differ from all in c.
Assignments(c) ==
  {ids \in [DOMAIN c.backups -> Ids] :
    /\ \A k \in DOMAIN ids \ Unnamed(c) : ids[k] = c.backups[k].id
    /\ \A k \in Unnamed(c) : ids[k] \notin UsedIds(c)
    /\ \A j, k \in Unnamed(c) : ids[j] = ids[k] => j = k}

\* What applyDefaults can make of c.
WithDefaults(c) ==
  {[ssh |-> SSHWithDefaults(c.ssh),
    backups |-> [k \in DOMAIN c.backups |-> ItemWithDefaults(c.backups[k], ids[k])]] :
   ids \in Assignments(c)}

ValidSSH(s) ==
  /\ s.named
  /\ s.port > 0
  /\ s.auth \in {"password", "key"}
  /\ s.credential

\* Mutant: ids may repeat.
ValidateLoosely(c) ==
  /\ ValidSSH(c.ssh)
  /\ \A k \in DOMAIN c.backups : c.backups[k].id # NoId

\* The container's name and path are required too; every item here has them.
Validate(c) ==
  /\ ValidSSH(c.ssh)
  /\ \A k \in DOMAIN c.backups :
       /\ c.backups[k].id # NoId
       /\ c.backups[k].intervalMinutes > 0
       /\ c.backups[k].maxBackups > 0
  /\ \A j, k \in DOMAIN c.backups : c.backups[j].id = c.backups[k].id => j = k
=============================================================================
