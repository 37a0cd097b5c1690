------------------------- MODULE KeyRotationProofs -------------------------
(***************************************************************************)
(* Proofs about SSHConnect and KeyRotation, for any number of revocations, *)
(* any saved configurations and whatever may go wrong.                     *)
(***************************************************************************)
EXTENDS KeyRotation, TLAPS

-----------------------------------------------------------------------------
(* Connections.                                                            *)

\* Where the client of a connection can be, stage by stage.
Stage(c) ==
  /\ call[c] = "new" => dialer[c] = "none"
  /\ dialer[c] = "none" => call[c] \in {"new", "over"} /\ client[c] = "none"
  /\ dialer[c] \in {"none", "dialing", "sending"} => channel[c] = "nothing"
  /\ dialer[c] = "dialing" => client[c] = "none"
  /\ dialer[c] # "ended" => sftp[c] = "none"
  /\ channel[c] = "client" <=> channel[c] # "nothing" /\ client[c] = "open"
  /\ channel[c] # "nothing" => sftp[c] = "none"
  /\ call[c] = "dialing" => sftp[c] = "none"
  /\ call[c] = "dialing" /\ dialer[c] = "ended" => channel[c] # "nothing"
  /\ call[c] \in {"dialed", "ready", "closing"} => dialer[c] = "ended" /\ channel[c] = "nothing"
  /\ call[c] = "over" /\ (dialer[c] \in {"dialing", "sending"} \/ channel[c] # "nothing") => cancelled[c]
  /\ call[c] = "over" /\ dialer[c] = "ended" /\ channel[c] = "nothing" => client[c] # "open"

SSHInv == SSHTypeOK /\ \A c \in Conns : Stage(c)

\* What any step of a connection is.
SSHNext ==
  \E c \in Conns :
    \/ \E b \in BOOLEAN : Connect(c, b) \/ HostAnswers(c, b)
    \/ SSHStep(c) \/ CloseSFTP(c) \/ Cancel(c)

LEMMA SSHInitially == SSHInit => SSHInv
  BY DEF SSHInit, SSHInv, SSHTypeOK, Stage

LEMMA SSHKept ==
  ASSUME SSHInv, SSHNext \/ UNCHANGED sshVars
  PROVE  SSHInv'
  <1>1. CASE UNCHANGED sshVars
    BY <1>1 DEF SSHInv, SSHTypeOK, Stage, sshVars
  <1>2. CASE SSHNext
    <2>1. PICK c \in Conns :
            \/ \E b \in BOOLEAN : Connect(c, b) \/ HostAnswers(c, b)
            \/ SSHStep(c) \/ CloseSFTP(c) \/ Cancel(c)
      BY <1>2 DEF SSHNext
    <2> USE DEF SSHInv, SSHTypeOK, Stage
    <2>2. CASE \E b \in BOOLEAN : Connect(c, b)
      BY <2>2 DEF Connect
    <2>3. CASE \E b \in BOOLEAN : HostAnswers(c, b)
      BY <2>3 DEF HostAnswers
    <2>4. CASE Deliver(c)
      BY <2>4 DEF Deliver, Room
    <2>5. CASE Obtain(c)
      BY <2>5 DEF Obtain
    <2>6. CASE Abandon(c)
      BY <2>6 DEF Abandon
    <2>7. CASE OpenSFTP(c)
      BY <2>7 DEF OpenSFTP
    <2>8. CASE SFTPFails(c)
      BY <2>8 DEF SFTPFails
    <2>9. CASE CloseSFTP(c)
      BY <2>9 DEF CloseSFTP
    <2>10. CASE CloseClient(c)
      BY <2>10 DEF CloseClient
    <2>11. CASE Cancel(c)
      BY <2>11 DEF Cancel
    <2> QED
      BY <2>1, <2>2, <2>3, <2>4, <2>5, <2>6, <2>7, <2>8, <2>9, <2>10, <2>11 DEF SSHStep
  <1> QED
    BY <1>1, <1>2

LEMMA SSHInvUnread == SSHInv => OnlyUnreadLeft
  BY DEF SSHInv, SSHTypeOK, Stage, OnlyUnreadLeft

-----------------------------------------------------------------------------
(* Type correctness of rotations.                                          *)

RInv == RotationTypeOK /\ SSHInv

\* A handler that goes to another place, the connection left alone.
LEMMA GotoType ==
  ASSUME RotationTypeOK, NEW r \in Conns,
         NEW s \in {"new", "connecting", "filter", "move", "save", "closing", "done"},
         Goto(r, s), UNCHANGED sshVars,
         s \in {"filter", "move", "save"} => call[r] = "ready"
  PROVE  /\ at' \in [Conns -> {"new", "connecting", "filter", "move", "save", "closing", "done"}]
         /\ \A q \in Conns : at'[q] \in {"filter", "move", "save"} => call'[q] = "ready"
  BY DEF RotationTypeOK, Goto, sshVars

LEMMA KeyNumbers ==
  /\ NKeys \in Nat /\ Found \in 1..NKeys /\ KeyFile \in Keys
  /\ Keys \subseteq Nat /\ None \notin Keys /\ None \in Nat
  BY KeyRotationAssumption DEF KeyRotationAssumption, Keys, None

LEMMA KeyOfType ==
  ASSUME NEW cfg \in Config
  PROVE  KeyOf(cfg) \in Keys \cup {None}
  BY KeyNumbers DEF KeyOf, Config

LEMMA RotatedType ==
  ASSUME NEW k \in Keys
  PROVE  Rotated(k) \in Config /\ KeyOf(Rotated(k)) = k
  <1>1. Rotated(k).value = k /\ k # None
    BY KeyNumbers DEF Rotated
  <1> QED
    BY <1>1 DEF KeyOf, Config, Rotated

LEMMA RotationInitially == RotationInit => RInv
  <1> SUFFICES ASSUME RotationInit PROVE RInv
    OBVIOUS
  <1>1. SSHInv
    BY SSHInitially DEF RotationInit
  <1>2. config \in Config /\ held \in [Conns -> Config]
    BY KeyRotationAssumption DEF RotationInit, KeyRotationAssumption
  <1>3. authorized \in SUBSET Keys /\ tmp \in (SUBSET Keys) \cup {Absent} /\ made \in Found..NKeys
    BY KeyNumbers DEF RotationInit, Keys
  <1>4. SSHTypeOK
    BY <1>1 DEF SSHInv
  <1> QED
    BY <1>1, <1>2, <1>3, <1>4 DEF RotationInit, RInv, RotationTypeOK

\* What every step does to the connections.
LEMMA RotationConnects ==
  ASSUME RotationNext
  PROVE  SSHNext \/ UNCHANGED sshVars
  <1>1. ASSUME NEW r \in Conns, Begin(r) \/ RevokeStep(r)
        PROVE  SSHNext \/ UNCHANGED sshVars
    <2>1. CASE Begin(r)
      BY <2>1 DEF Begin, SSHNext
    <2>2. CASE Handshake(r)
      <3>1. PICK accepted \in {FALSE, Accepts(held[r])} : HostAnswers(r, accepted)
        BY <2>2 DEF Handshake
      <3>2. accepted \in BOOLEAN
        BY <3>1 DEF Accepts
      <3> QED
        BY <3>1, <3>2 DEF SSHNext
    <2>3. CASE Network(r)
      BY <2>3 DEF Network, SSHNext, SSHStep
    <2>4. CASE BeginClose(r)
      BY <2>4 DEF BeginClose, SSHNext
    <2>5. CASE OpenTemp(r) \/ Filter(r) \/ Move(r) \/ RunFails(r) \/ Save(r) \/ SaveFails(r) \/ Return(r)
      BY <2>5 DEF OpenTemp, Filter, Move, RunFails, Save, SaveFails, Return
    <2> QED
      BY <1>1, <2>1, <2>2, <2>3, <2>4, <2>5 DEF RevokeStep
  <1> QED
    BY <1>1 DEF RotationNext, Put, GenerateKeypair, AddToHost

\* The types of all but the connections, after any step.
KeyTypeOK ==
  /\ config \in Config
  /\ authorized \in SUBSET Keys /\ tmp \in (SUBSET Keys) \cup {Absent}
  /\ made \in Found..NKeys
  /\ at \in [Conns -> {"new", "connecting", "filter", "move", "save", "closing", "done"}]
  /\ held \in [Conns -> Config]
  /\ fresh \in [Conns -> Keys \cup {None}]
  /\ onFile \in [Conns -> {"none", "tmp", "authorized"}]
  /\ answer \in [Conns -> {"none", "ok", "error"}]
  /\ \A r \in Conns : at[r] \in {"filter", "move", "save"} => call[r] = "ready"

LEMMA MoveTempType ==
  ASSUME RotationTypeOK, NEW r \in Conns, MoveTemp(r)
  PROVE  /\ authorized' \in SUBSET Keys /\ tmp' \in (SUBSET Keys) \cup {Absent}
         /\ onFile' \in [Conns -> {"none", "tmp", "authorized"}]
  BY DEF RotationTypeOK, MoveTemp

LEMMA RevokeStepType ==
  ASSUME RInv, NEW r \in Conns, Begin(r) \/ RevokeStep(r)
  PROVE  KeyTypeOK'
  <1> USE DEF RInv
  <1>1. CASE Begin(r)
    <2>1. /\ at' \in [Conns -> {"new", "connecting", "filter", "move", "save", "closing", "done"}]
          /\ held' \in [Conns -> Config]
          /\ answer' \in [Conns -> {"none", "ok", "error"}]
          /\ at'[r] \notin {"filter", "move", "save"}
          /\ \A q \in Conns \ {r} : at'[q] = at[q] /\ call'[q] = call[q]
      BY <1>1 DEF Begin, Goto, Answer, Connect, sshVars, RotationTypeOK, SSHTypeOK
    <2> QED
      BY <1>1, <2>1 DEF Begin, hostVars, RotationTypeOK, KeyTypeOK
  <1>2. CASE Handshake(r)
    BY <1>2 DEF Handshake, HostAnswers, keyVars, RotationTypeOK, KeyTypeOK
  <1>3. CASE Network(r)
    <2>1. \A q \in Conns : call[q] = "ready" => call'[q] = "ready"
      BY <1>3 DEF Network, Deliver, Obtain, Abandon, OpenSFTP, CloseClient, SFTPFails, Cancel,
                  RotationTypeOK, SSHTypeOK
    <2> QED
      BY <1>3, <2>1 DEF Network, keyVars, RotationTypeOK, KeyTypeOK
  <1>4. CASE OpenTemp(r)
    BY <1>4, GotoType DEF OpenTemp, RotationTypeOK, KeyTypeOK
  <1>5. CASE Filter(r)
    <2>1. Remaining(r) \in SUBSET Keys
      BY DEF Remaining, RotationTypeOK
    <2>2. authorized' \in SUBSET Keys /\ tmp' \in (SUBSET Keys) \cup {Absent}
      BY <1>5, <2>1 DEF Filter, RotationTypeOK
    <2>3. call[r] = "ready"
      BY <1>5 DEF Filter, RotationTypeOK
    <2> QED
      BY <1>5, <2>2, <2>3, GotoType DEF Filter, RotationTypeOK, KeyTypeOK
  <1>6. CASE Move(r)
    <2>1. call[r] = "ready"
      BY <1>6 DEF Move, RotationTypeOK
    <2> QED
      BY <1>6, <2>1, MoveTempType, GotoType DEF Move, RotationTypeOK, KeyTypeOK
  <1>7. CASE RunFails(r)
    <2>1. /\ authorized' \in SUBSET Keys /\ tmp' \in (SUBSET Keys) \cup {Absent}
          /\ onFile' \in [Conns -> {"none", "tmp", "authorized"}]
      BY <1>7, MoveTempType DEF RunFails, hostVars, RotationTypeOK
    <2> QED
      BY <1>7, <2>1, GotoType DEF RunFails, Answer, RotationTypeOK, KeyTypeOK
  <1>8. CASE Save(r)
    <2>1. made' \in Found..NKeys /\ made' \in Keys
      BY <1>8, KeyNumbers DEF Save, RotationTypeOK, Keys
    <2>2. config' \in Config
      BY <1>8, <2>1, RotatedType DEF Save
    <2>3. UNCHANGED <<authorized, tmp, onFile, held, sshVars>>
      BY <1>8 DEF Save, hostVars
    <2> QED
      BY <1>8, <2>1, <2>2, <2>3, GotoType DEF Save, Answer, RotationTypeOK, KeyTypeOK
  <1>9. CASE SaveFails(r)
    BY <1>9, GotoType DEF SaveFails, hostVars, Answer, RotationTypeOK, KeyTypeOK
  <1>10. CASE BeginClose(r)
    BY <1>10 DEF BeginClose, CloseSFTP, keyVars, RotationTypeOK, SSHTypeOK, KeyTypeOK
  <1>11. CASE Return(r)
    BY <1>11, GotoType DEF Return, hostVars, Answer, RotationTypeOK, KeyTypeOK
  <1> QED
    BY <1>1, <1>2, <1>3, <1>4, <1>5, <1>6, <1>7, <1>8, <1>9, <1>10, <1>11 DEF RevokeStep

LEMMA UserStepType ==
  ASSUME RInv,
         \/ \E cfg \in Config : Put(cfg)
         \/ GenerateKeypair
         \/ \E k \in Keys : AddToHost(k)
  PROVE  KeyTypeOK'
  <1> USE DEF RInv, RotationTypeOK, KeyTypeOK, hostVars, sshVars
  <1>1. CASE \E cfg \in Config : Put(cfg)
    BY <1>1 DEF Put
  <1>2. CASE GenerateKeypair
    <2>1. made' \in Found..NKeys
      BY <1>2, KeyNumbers DEF GenerateKeypair
    <2> QED
      BY <1>2, <2>1 DEF GenerateKeypair
  <1>3. CASE \E k \in Keys : AddToHost(k)
    BY <1>3 DEF AddToHost
  <1> QED
    BY <1>1, <1>2, <1>3

LEMMA RInvKept ==
  ASSUME RInv, [RotationNext]_rotationVars
  PROVE  RInv'
  <1>1. SSHInv'
    BY RotationConnects, SSHKept DEF RInv, rotationVars
  <1>2. KeyTypeOK'
    <2>1. CASE UNCHANGED rotationVars
      BY <2>1 DEF RInv, RotationTypeOK, KeyTypeOK, rotationVars, keyVars, sshVars
    <2>2. CASE RotationNext
      BY <2>2, RevokeStepType, UserStepType DEF RotationNext
    <2> QED
      BY <2>1, <2>2
  <1> QED
    BY <1>1, <1>2 DEF RInv, RotationTypeOK, KeyTypeOK, SSHInv

LEMMA RInvAlways == RotationSpec => []RInv
  <1>1. RotationInit => RInv
    BY RotationInitially
  <1>2. RInv /\ [RotationNext]_rotationVars => RInv'
    BY RInvKept
  <1> QED
    BY <1>1, <1>2, PTL DEF RotationSpec

\* The state of any number of revocations is well-typed, and a handler edits the
\* host's keys only over a connection that stands.
THEOREM RotationTypeCorrect == RotationSpec => []RotationTypeOK
  <1>1. RInv => RotationTypeOK
    BY DEF RInv
  <1> QED
    BY <1>1, RInvAlways, PTL

\* Whatever fails and whenever contexts end, every connection is closed but
\* those Dial gave up before they stood.
THEOREM OnlyUnreadEverLeft == RotationSpec => []OnlyUnreadLeft
  <1>1. RInv => OnlyUnreadLeft
    BY SSHInvUnread DEF RInv
  <1> QED
    BY <1>1, RInvAlways, PTL

-----------------------------------------------------------------------------
(* One revocation after the other.                                         *)

\* What users who wait ensure: one revocation is under way, the temporary file is
\* its own, nobody has saved since it began, nobody has added its key again.
Alone ==
  /\ \A q, r \in UnderWay : q = r
  /\ \A r \in Conns : onFile[r] = IF at[r] \in {"filter", "move"} THEN "tmp" ELSE "none"
  /\ \A r \in Conns : at[r] = "move" => tmp = Remaining(r)
  /\ \A r \in Conns : at[r] \in {"connecting", "filter", "move", "save"} => held[r] = config
  /\ \A r \in Conns : at[r] = "save" => KeyOf(held[r]) \notin authorized \ Optioned

LEMMA AloneInitially == RotationInit => Alone
  BY DEF RotationInit, Alone, UnderWay

\* The one under way takes a step: what to show of it.
LEMMA AloneStep ==
  ASSUME RInv, Alone, NEW r \in UnderWay, r \in Conns,
         \A q \in Conns \ {r} : at'[q] = at[q] /\ onFile'[q] = "none",
         onFile'[r] = IF at'[r] \in {"filter", "move"} THEN "tmp" ELSE "none",
         at'[r] = "move" => tmp' = Remaining(r)',
         at'[r] \in {"connecting", "filter", "move", "save"} => held'[r] = config',
         at'[r] = "save" => KeyOf(held'[r]) \notin authorized' \ Optioned
  PROVE  Alone'
  <1>1. \A q \in Conns \ {r} : at[q] \in {"new", "done"}
    BY DEF Alone, UnderWay
  <1>2. \A q \in Conns \ {r} : at'[q] \in {"new", "done"}
    BY <1>1
  <1> QED
    BY <1>2 DEF Alone, UnderWay

LEMMA AloneRevokes ==
  ASSUME Patient, RInv, Alone, NEW r \in Conns, Begin(r) \/ RevokeStep(r)
  PROVE  Alone'
  <1> USE DEF RInv, RotationTypeOK
  <1>1. CASE Begin(r)
    <2>1. UnderWay = {}
      BY <1>1 DEF Begin, MayAct
    <2>2. /\ \A q \in Conns \ {r} : at'[q] = at[q] /\ held'[q] = held[q]
          /\ at'[r] \in {"connecting", "done"}
          /\ at'[r] = "connecting" => held'[r] = config
          /\ UNCHANGED <<config, authorized, tmp, onFile>>
      BY <1>1 DEF Begin, Goto, hostVars
    <2>3. \A q \in Conns : at[q] \in {"new", "done"} /\ onFile[q] = "none"
      BY <2>1 DEF UnderWay, Alone
    <2> QED
      BY <2>2, <2>3 DEF Alone, UnderWay
  <1>2. CASE Handshake(r) \/ Network(r) \/ BeginClose(r)
    BY <1>2 DEF Handshake, Network, BeginClose, keyVars, Alone, Remaining, UnderWay
  <1>3. ASSUME at[r] \notin {"new", "done"}
        PROVE  /\ r \in UnderWay
               /\ \A q \in Conns \ {r} : onFile[q] = "none" /\ at[q] \in {"new", "done"}
    BY <1>3 DEF Alone, UnderWay
  <1>4. CASE OpenTemp(r)
    BY <1>4, <1>3, AloneStep DEF OpenTemp, Goto, Alone
  <1>5. CASE Filter(r)
    BY <1>5, <1>3, AloneStep DEF Filter, Remaining, Goto, Alone
  <1>6. CASE Move(r)
    <2>1. KeyOf(held[r]) \notin authorized' \ Optioned
      BY <1>6 DEF Move, MoveTemp, Alone, Remaining
    <2> QED
      BY <1>6, <2>1, <1>3, AloneStep DEF Move, MoveTemp, Goto, Alone
  <1>7. CASE RunFails(r)
    <2>1. onFile' = [onFile EXCEPT ![r] = "none"]
      BY <1>7, <1>3 DEF RunFails, MoveTemp, hostVars, Alone
    <2> QED
      BY <1>7, <2>1, <1>3, AloneStep DEF RunFails, Goto
  <1>8. CASE Save(r) \/ SaveFails(r) \/ Return(r)
    <2>1. at'[r] \in {"closing", "done"} /\ \A q \in Conns \ {r} : at'[q] = at[q]
      BY <1>8 DEF Save, SaveFails, Return, Goto
    <2>2. UNCHANGED onFile /\ at[r] \in {"connecting", "closing", "save"}
      BY <1>8 DEF Save, SaveFails, Return, hostVars
    <2> QED
      BY <2>1, <2>2, <1>3, AloneStep DEF Alone
  <1> QED
    BY <1>1, <1>2, <1>4, <1>5, <1>6, <1>7, <1>8 DEF RevokeStep

LEMMA AloneKept ==
  ASSUME Patient, RInv, Alone, [RotationNext]_rotationVars
  PROVE  Alone'
  <1>1. CASE \E cfg \in Config : Put(cfg)
    <2>1. UnderWay = {} /\ UNCHANGED <<at, held, onFile, authorized, tmp>>
      BY <1>1 DEF Put, MayAct, hostVars
    <2>2. \A r \in Conns : at[r] \in {"new", "done"}
      BY <2>1 DEF UnderWay
    <2> QED
      BY <2>1, <2>2 DEF Alone, UnderWay
  <1>2. CASE GenerateKeypair
    BY <1>2 DEF GenerateKeypair, hostVars, Alone, Remaining, UnderWay
  <1>3. CASE \E k \in Keys : AddToHost(k)
    BY <1>3 DEF AddToHost, Alone, Remaining, UnderWay
  <1>4. CASE UNCHANGED rotationVars
    BY <1>4 DEF rotationVars, keyVars, Alone, Remaining, UnderWay
  <1> QED
    BY <1>1, <1>2, <1>3, <1>4, AloneRevokes DEF RotationNext

LEMMA AloneAlways == ASSUME Patient PROVE RotationSpec => []Alone
  <1>1. RotationInit => Alone
    BY AloneInitially
  <1>2. RInv /\ Alone /\ [RotationNext]_rotationVars => Alone'
    BY AloneKept
  <1> QED
    BY <1>1, <1>2, RInvAlways, PTL DEF RotationSpec

\* While users wait for one another's revocations, a revocation takes off the
\* host the key it revokes and no other, wherever it fails.
THEOREM OnlyRevokedEverRemoved == ASSUME Patient PROVE RotationSpec => OnlyRevokedRemoved
  <1> DEFINE A == \A k \in authorized \ authorized' :
                    \E r \in Conns : at[r] = "move" /\ k = KeyOf(held[r])
  <1>1. ASSUME RInv, Alone, [RotationNext]_rotationVars
        PROVE  [A]_rotationVars
    <2>1. ASSUME NEW r \in Conns, MoveTemp(r), at[r] = "move" PROVE A
      BY <1>1, <2>1 DEF MoveTemp, Alone, Remaining
    <2>2. CASE UNCHANGED authorized
      BY <2>2
    <2>3. ASSUME NEW k \in Keys, AddToHost(k) PROVE A
      BY <2>3 DEF AddToHost
    <2>4. ASSUME NEW r \in Conns, Filter(r) PROVE UNCHANGED authorized
      BY <1>1, <2>4 DEF Filter, Alone
    <2>5. ASSUME NEW r \in Conns, Begin(r) \/ RevokeStep(r) PROVE A
      <3>1. CASE Move(r)
        BY <3>1, <2>1 DEF Move
      <3>2. CASE RunFails(r)
        BY <3>2, <2>1, <2>2 DEF RunFails, hostVars
      <3>3. CASE Filter(r)
        BY <3>3, <2>4, <2>2
      <3>4. CASE Begin(r) \/ Handshake(r) \/ Network(r) \/ OpenTemp(r) \/ Save(r)
                 \/ SaveFails(r) \/ BeginClose(r) \/ Return(r)
        BY <3>4, <2>2 DEF Begin, Handshake, Network, OpenTemp, Save, SaveFails, BeginClose, Return,
                          hostVars, keyVars
      <3> QED
        BY <2>5, <3>1, <3>2, <3>3, <3>4 DEF RevokeStep
    <2>6. CASE GenerateKeypair \/ \E cfg \in Config : Put(cfg)
      BY <2>6, <2>2 DEF GenerateKeypair, Put, hostVars
    <2> QED
      BY <1>1, <2>3, <2>5, <2>6 DEF RotationNext
  <1> QED
    BY <1>1, RInvAlways, AloneAlways, PTL DEF RotationSpec, OnlyRevokedRemoved

\* While users wait, a revocation that reports success has overwritten nobody's
\* save, and its key is off the host and replaced by a new one.
THEOREM RotationsDone == ASSUME Patient PROVE RotationSpec => RotationDone
  <1> DEFINE A == \A r \in Conns : answer[r] # "ok" /\ answer'[r] = "ok" =>
                    /\ config = held[r] /\ KeyOf(config) \notin authorized \ Optioned
                    /\ KeyOf(config') = fresh'[r] /\ fresh'[r] \notin 1..made
  <1>1. ASSUME RInv, Alone, [RotationNext]_rotationVars
        PROVE  [A]_rotationVars
    <2>1. ASSUME NEW r \in Conns, Save(r) PROVE A
      <3>1. /\ config = held[r] /\ KeyOf(config) \notin authorized \ Optioned
            /\ \A q \in Conns \ {r} : answer'[q] = answer[q]
        BY <1>1, <2>1 DEF Save, Answer, Alone, RInv, RotationTypeOK
      <3>2. made' \in Keys /\ made' \notin 1..made /\ fresh'[r] = made' /\ config' = Rotated(made')
        BY <1>1, <2>1, KeyNumbers DEF Save, RInv, RotationTypeOK, Keys
      <3> QED
        BY <3>1, <3>2, RotatedType
    <2>2. ASSUME \A r \in Conns : answer'[r] \in {answer[r], "error"} PROVE A
      BY <2>2
    <2>3. ASSUME NEW r \in Conns, Begin(r) \/ RevokeStep(r) PROVE A
      <3>1. CASE Begin(r) \/ RunFails(r) \/ SaveFails(r) \/ Return(r)
        BY <1>1, <3>1, <2>2 DEF Begin, RunFails, SaveFails, Return, Answer, RInv, RotationTypeOK
      <3>2. CASE Handshake(r) \/ Network(r) \/ OpenTemp(r) \/ Filter(r) \/ Move(r) \/ BeginClose(r)
        BY <3>2, <2>2 DEF Handshake, Network, OpenTemp, Filter, Move, BeginClose, keyVars
      <3> QED
        BY <2>3, <2>1, <3>1, <3>2 DEF RevokeStep
    <2>4. CASE GenerateKeypair \/ (\E cfg \in Config : Put(cfg)) \/ \E k \in Keys : AddToHost(k)
      BY <2>4, <2>2 DEF GenerateKeypair, Put, AddToHost
    <2>5. CASE UNCHANGED rotationVars
      BY <2>5
    <2> QED
      BY <1>1, <2>3, <2>4, <2>5 DEF RotationNext
  <1> QED
    BY <1>1, RInvAlways, AloneAlways, PTL DEF RotationSpec, RotationDone
=============================================================================
