---------------------------- MODULE KeyRotation ----------------------------
(***************************************************************************)
(* The SSH keys of internal/httpapi/server.go: the saved configuration,    *)
(* authorized_keys on the remote host, and handleSSHRevokeKey, which takes *)
(* the configured key off the host and saves a generated one.              *)
(*                                                                         *)
(* Keys are numbered in the order they come up.  A revocation is one POST  *)
(* and has one SSH connection.  The store is an atomic register, which is  *)
(* what ConfigStore implements; a save that fails leaves it as it was.     *)
(***************************************************************************)
EXTENDS Naturals, SSHConnect

CONSTANTS
  NKeys,    \* bound: how many keys ever come up
  Found,    \* how many of them are there at first
  Initial,  \* the configurations that may be saved at first
  KeyFile,  \* the key in the file a configuration's privateKeyPath names
  Garbled,  \* the keys that do not parse: no public key, and so never on the host
  Optioned, \* the keys whose line in authorized_keys begins with options
  Patient,  \* TRUE: users neither save nor revoke while a revocation is under
            \* way, do not add its key to the host, nor any key between
            \* its awk and its mv
  Faults    \* what may go wrong: "load", "file", "run", "save", "sftp", "cancel",
            \* and in pages "answer"

None == 0
Keys == 1..NKeys
Absent == {None}

\* Of a configuration, validated or the default, what rotation looks at.
Config == [auth : {"password", "key"}, value : Keys \cup {None}, path : {None, KeyFile}]

ASSUME KeyRotationAssumption ==
  /\ NKeys \in Nat /\ Found \in 1..NKeys /\ KeyFile \in 1..Found
  /\ Garbled \subseteq 1..Found
  /\ Patient \in BOOLEAN
  /\ Initial \subseteq Config /\ \A cfg \in Initial : cfg.value <= Found

VARIABLES
  config,      \* the saved configuration
  authorized,  \* the keys in ~/.ssh/authorized_keys
  tmp,         \* the lines of /tmp/.pterobackup_ak, or Absent
  made,        \* how many keys have come up
  at,          \* revocation -> where its handler is
  held,        \* revocation -> the configuration it has loaded
  fresh,       \* revocation -> the key it has generated
  onFile,      \* revocation -> the file its awk writes to
  answer       \* revocation -> "none", "ok" or "error"

hostVars == <<authorized, tmp, onFile>>
keyVars == <<config, authorized, tmp, made, at, held, fresh, onFile, answer>>
rotationVars == <<keyVars, sshVars>>

RotationTypeOK ==
  /\ SSHTypeOK
  /\ config \in Config
  /\ authorized \in SUBSET Keys /\ tmp \in (SUBSET Keys) \cup {Absent}
  /\ made \in Found..NKeys
  /\ at \in [Conns -> {"new", "connecting", "filter", "move", "save", "closing", "done"}]
  /\ held \in [Conns -> Config]
  /\ fresh \in [Conns -> Keys \cup {None}]
  /\ onFile \in [Conns -> {"none", "tmp", "authorized"}]
  /\ answer \in [Conns -> {"none", "ok", "error"}]
  /\ \A r \in Conns : at[r] \in {"filter", "move", "save"} => call[r] = "ready"

\* The key value wins over the key file (publicKeyFromSSHConfig, authMethod).
KeyOf(cfg) == IF cfg.value # None THEN cfg.value ELSE cfg.path

\* validate: the method's credential is given; a password always is here.
Valid(cfg) == cfg.auth = "key" => KeyOf(cfg) # None

RotationInit ==
  /\ SSHInit
  /\ config \in Initial
  /\ authorized = (1..Found) \ Garbled
  /\ tmp = Absent
  /\ made = Found
  /\ at = [r \in Conns |-> "new"]
  /\ held = [r \in Conns |-> config]
  /\ fresh = [r \in Conns |-> None]
  /\ onFile = [r \in Conns |-> "none"]
  /\ answer = [r \in Conns |-> "none"]

UnderWay == {r \in Conns : at[r] \notin {"new", "done"}}
MayAct == Patient => UnderWay = {}

Goto(r, s) == at' = [at EXCEPT ![r] = s]
Answer(r, a) == answer' = [answer EXCEPT ![r] = a]

-----------------------------------------------------------------------------
(* handleSSHRevokeKey.                                                     *)

\* Whether the key file, if the key is in one, may turn out unreadable.
FileMayFail(cfg) == "file" \in Faults /\ cfg.value = None /\ cfg.path # None

\* publicKeyFromSSHConfig succeeds, unless the key file turns out unreadable.
Derivable(cfg) == KeyOf(cfg) \notin Garbled \cup {None}

\* Load and Connect, which reads the key file again if it connects by key.
\* Without a key there is nothing to revoke.
Begin(r) ==
  /\ at[r] = "new" /\ MayAct
  /\ \/ /\ Derivable(config)
        /\ held' = [held EXCEPT ![r] = config]
        /\ Goto(r, "connecting")
        /\ \/ Connect(r, TRUE)
           \/ FileMayFail(config) /\ config.auth = "key" /\ Connect(r, FALSE)
        /\ UNCHANGED answer
     \/ /\ ~Derivable(config) \/ FileMayFail(config) \/ "load" \in Faults
        /\ Goto(r, "done") /\ Answer(r, "error")
        /\ UNCHANGED <<held, sshVars>>
  /\ UNCHANGED <<config, hostVars, made, fresh>>

\* sshd reads authorized_keys when it is asked; a connection may always fail.
Accepts(cfg) == cfg.auth = "password" \/ KeyOf(cfg) \in authorized
Handshake(r) ==
  /\ \E accepted \in {FALSE, Accepts(held[r])} : HostAnswers(r, accepted)
  /\ UNCHANGED keyVars

\* The steps of the connection itself.
Network(r) ==
  /\ \/ Deliver(r) \/ Obtain(r) \/ Abandon(r) \/ OpenSFTP(r) \/ CloseClient(r)
     \/ "sftp" \in Faults /\ SFTPFails(r)
     \/ "cancel" \in Faults /\ Cancel(r)
  /\ UNCHANGED keyVars

\* Mutant: the command runs before the connection is there.
OpenTempEarly(r) ==
  /\ at[r] = "connecting"
  /\ tmp' = {}
  /\ onFile' = [onFile EXCEPT ![r] = "tmp"]
  /\ Goto(r, "filter")
  /\ UNCHANGED <<config, authorized, made, held, fresh, answer, sshVars>>

\* awk ... > /tmp/.pterobackup_ak: the shell creates or empties the file.  An
\* authorized_keys that is not there counts as an empty one.
OpenTemp(r) ==
  /\ at[r] = "connecting" /\ call[r] = "ready"
  /\ tmp' = {}
  /\ onFile' = [onFile EXCEPT ![r] = "tmp"]
  /\ Goto(r, "filter")
  /\ UNCHANGED <<config, authorized, made, held, fresh, answer, sshVars>>

\* Mutant: the line of the key stays.
RemainingAll(r) == authorized

\* The lines whose second field is not the key; behind options it is the third.
Remaining(r) == authorized \ ({KeyOf(held[r])} \ Optioned)

\* awk reads the keys and writes to the file it has, wherever that is by now.
\* Two that write to one file hold the lines of the later one.
Filter(r) ==
  /\ at[r] = "filter"
  /\ tmp' = IF onFile[r] = "tmp" THEN Remaining(r) ELSE tmp
  /\ authorized' = IF onFile[r] = "authorized" THEN Remaining(r) ELSE authorized
  /\ Goto(r, "move")
  /\ UNCHANGED <<config, made, held, fresh, onFile, answer, sshVars>>

\* mv: whoever still writes to the temporary file writes to authorized_keys
\* from now on, and whoever wrote there writes to a file without a name.
MoveTemp(r) ==
  /\ tmp # Absent
  /\ authorized' = tmp /\ tmp' = Absent
  /\ onFile' = [q \in Conns |-> IF q # r /\ onFile[q] = "tmp" THEN "authorized" ELSE "none"]

\* Mutant: ; instead of &&, an awk that has failed does not stop the mv.
MoveAnyway(r) ==
  /\ at[r] \in {"filter", "move"}
  /\ MoveTemp(r)
  /\ Goto(r, "save")
  /\ UNCHANGED <<config, made, held, fresh, answer, sshVars>>

Move(r) ==
  /\ at[r] = "move"
  /\ MoveTemp(r)
  /\ Goto(r, "save")
  /\ UNCHANGED <<config, made, held, fresh, answer, sshVars>>

\* exec.Run returns an error: there is no file to move, the command fails, or
\* the connection drops, perhaps after the move.
RunFails(r) ==
  /\ \/ at[r] = "connecting" /\ call[r] = "ready" /\ "run" \in Faults /\ UNCHANGED hostVars
     \/ /\ \/ at[r] = "filter" /\ "run" \in Faults
           \/ at[r] = "move" /\ (tmp = Absent \/ "run" \in Faults)
        /\ onFile' = [onFile EXCEPT ![r] = "none"]
        /\ UNCHANGED <<authorized, tmp>>
     \/ at[r] = "move" /\ "run" \in Faults /\ MoveTemp(r)
  /\ Goto(r, "closing") /\ Answer(r, "error")
  /\ UNCHANGED <<config, made, held, fresh, sshVars>>

\* All other settings stay as they were loaded.
Rotated(key) == [auth |-> "key", value |-> key, path |-> None]

\* generateRSAKeypair and Save, of the configuration loaded at the beginning.
Save(r) ==
  /\ at[r] = "save" /\ made < NKeys
  /\ made' = made + 1
  /\ fresh' = [fresh EXCEPT ![r] = made']
  /\ config' = Rotated(made')
  /\ Goto(r, "closing") /\ Answer(r, "ok")
  /\ UNCHANGED <<hostVars, held, sshVars>>

SaveFails(r) ==
  /\ at[r] = "save" /\ "save" \in Faults
  /\ Goto(r, "closing") /\ Answer(r, "error")
  /\ UNCHANGED <<config, hostVars, made, held, fresh, sshVars>>

\* The deferred Close begins.
BeginClose(r) ==
  /\ at[r] = "closing" /\ CloseSFTP(r)
  /\ UNCHANGED keyVars

\* The handler is over, with its answer or because Connect failed.
Return(r) ==
  /\ at[r] \in {"connecting", "closing"} /\ call[r] = "over"
  /\ Goto(r, "done")
  /\ Answer(r, IF at[r] = "connecting" THEN "error" ELSE answer[r])
  /\ UNCHANGED <<config, hostVars, made, held, fresh, sshVars>>

RevokeStep(r) ==
  \/ Handshake(r) \/ Network(r) \/ OpenTemp(r) \/ Filter(r) \/ Move(r) \/ RunFails(r)
  \/ Save(r) \/ SaveFails(r) \/ BeginClose(r) \/ Return(r)

-----------------------------------------------------------------------------
(* The users.                                                              *)

\* PUT of a configuration.
Put(cfg) ==
  /\ MayAct /\ Valid(cfg)
  /\ config' = cfg
  /\ UNCHANGED <<hostVars, made, at, held, fresh, answer, sshVars>>

\* handleSSHGenerateKeypair makes a key and keeps nothing of it.
GenerateKeypair ==
  /\ made < NKeys
  /\ made' = made + 1
  /\ UNCHANGED <<config, hostVars, at, held, fresh, answer, sshVars>>

\* A user appends a public key to authorized_keys on the host.
AddToHost(k) ==
  /\ Patient => \A r \in UnderWay : at[r] # "move" /\ k # KeyOf(held[r])
  /\ k \in 1..made \ (authorized \cup Garbled)
  /\ authorized' = authorized \cup {k}
  /\ UNCHANGED <<config, tmp, onFile, made, at, held, fresh, answer, sshVars>>

RotationNext ==
  \/ \E r \in Conns : Begin(r) \/ RevokeStep(r)
  \/ \E cfg \in Config : cfg.value <= made /\ Put(cfg)
  \/ GenerateKeypair
  \/ \E k \in Keys : AddToHost(k)

RotationSpec == RotationInit /\ [][RotationNext]_rotationVars

-----------------------------------------------------------------------------
(* Properties.                                                             *)

\* A revocation takes the configured key off the host (app.js:494) and no
\* other: every key that goes away is the one of a revocation that moves its
\* filtered lines into place at that moment.
OnlyRevokedRemoved ==
  [][\A k \in authorized \ authorized' :
        \E r \in Conns : at[r] = "move" /\ k = KeyOf(held[r])]_rotationVars

\* What a revocation that reports success has done: it has overwritten the very
\* configuration it started from, so that nobody's save is lost; that one's key
\* is off the host unless its line has options; the new one's is a key nobody
\* had before.
RotationDone ==
  [][\A r \in Conns : answer[r] # "ok" /\ answer'[r] = "ok" =>
        /\ config = held[r] /\ KeyOf(config) \notin authorized \ Optioned
        /\ KeyOf(config') = fresh'[r] /\ fresh'[r] \notin 1..made]_rotationVars
=============================================================================
