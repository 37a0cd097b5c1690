------------------------- MODULE ConfigStoreProofs -------------------------
(***************************************************************************)
(* Proofs about ConfigStore: the file and the calls stay well-typed        *)
(* whatever goes wrong, and the store is an atomic register, which only a  *)
(* Save that is cut short can lose.                                        *)
(***************************************************************************)
EXTENDS ConfigStore, SequenceTheorems, TLAPS

-----------------------------------------------------------------------------
(* Configurations.                                                         *)

LEMMA DefaultConfigType == DefaultConfig \in AppConfigs
  <1>1. <<>> \in Seq(Items)
    BY EmptySeq
  <1> QED
    BY <1>1 DEF DefaultConfig, AppConfigs, SSHs, Auths

LEMMA ItemWithDefaultsType ==
  ASSUME NEW item \in Items, NEW id \in Ids
  PROVE  ItemWithDefaults(item, id) \in Items
  BY DEF ItemWithDefaults, Items, DefaultIntervalMin, DefaultMaxBackups

LEMMA SSHWithDefaultsType ==
  ASSUME NEW s \in SSHs
  PROVE  SSHWithDefaults(s) \in SSHs
  <1> DEFINE port == IF s.port = 0 THEN 22 ELSE s.port
             auth == IF s.auth = "" THEN "password" ELSE s.auth
  <1>1. port \in Int /\ auth \in Auths
    <2>1. s.port \in Int /\ s.auth \in Auths
      BY DEF SSHs
    <2>2. port \in Int
      BY <2>1
    <2>3. auth \in Auths
      BY <2>1 DEF Auths
    <2> QED
      BY <2>2, <2>3
  <1>2. SSHWithDefaults(s) = [s EXCEPT !.port = port, !.auth = auth]
    BY DEF SSHWithDefaults
  <1> HIDE DEF port, auth
  <1>3. [s EXCEPT !.port = port, !.auth = auth] \in SSHs
    BY <1>1 DEF SSHs
  <1> QED
    BY <1>2, <1>3

\* applyDefaults makes a configuration of a configuration.
LEMMA WithDefaultsType ==
  ASSUME NEW c \in AppConfigs, NEW d \in WithDefaults(c)
  PROVE  d \in AppConfigs
  <1>1. c.backups \in Seq(Items) /\ c.ssh \in SSHs
    BY DEF AppConfigs
  <1>2. PICK ids \in Assignments(c) :
           d = [ssh |-> SSHWithDefaults(c.ssh),
                backups |-> [k \in DOMAIN c.backups |-> ItemWithDefaults(c.backups[k], ids[k])]]
    BY DEF WithDefaults
  <1>3. \A k \in DOMAIN c.backups : ItemWithDefaults(c.backups[k], ids[k]) \in Items
    <2>1. \A k \in DOMAIN c.backups : c.backups[k] \in Items /\ ids[k] \in Ids
      BY <1>1, <1>2 DEF Assignments
    <2> QED
      BY <2>1, ItemWithDefaultsType
  <1>4. [k \in DOMAIN c.backups |-> ItemWithDefaults(c.backups[k], ids[k])] \in Seq(Items)
    <2>1. Len(c.backups) \in Nat /\ DOMAIN c.backups = 1 .. Len(c.backups)
      BY <1>1, LenProperties
    <2> QED
      BY <1>3, <2>1, IsASeq
  <1> QED
    BY <1>1, <1>2, <1>4, SSHWithDefaultsType DEF AppConfigs

-----------------------------------------------------------------------------
(* Type correctness.                                                       *)

LEMMA PlainType ==
  ASSUME NEW s \in {"none", "saved", "error"}
  PROVE  Plain(s) \in Answers
  BY DefaultConfigType DEF Plain, Answers

LEMMA FileTypes ==
  /\ Missing \in Files /\ Empty \in Files /\ Torn \in Files
  /\ \A c \in AppConfigs : Stored(c) \in Files
  BY DefaultConfigType DEF Missing, Empty, Torn, Broken, Stored, Files

\* A call that returns leaves nothing behind.
LEMMA ReturnType ==
  ASSUME TypeOK, NEW p \in Callers, NEW a \in Answers, Return(p, a)
  PROVE  /\ step' \in [Callers -> Steps] /\ saving' \in [Callers -> AppConfigs]
         /\ answer' \in [Callers -> Answers]
         /\ \A q \in Callers : step'[q] \in {"locking", "opening", "writing"} => Validate(saving'[q])
  <1>1. step' \in [Callers -> Steps] /\ saving' \in [Callers -> AppConfigs] /\ answer' \in [Callers -> Answers]
    BY DefaultConfigType DEF TypeOK, Return, Steps
  <1>2. ASSUME NEW q \in Callers, step'[q] \in {"locking", "opening", "writing"}
        PROVE  Validate(saving'[q])
    <2>1. q # p /\ step'[q] = step[q] /\ saving'[q] = saving[q]
      BY <1>2 DEF TypeOK, Return
    <2> QED
      BY <1>2, <2>1 DEF TypeOK
  <1> QED
    BY <1>1, <1>2

\* A call that goes on, past the checks of Save or with the configuration
\* that has passed them.
LEMMA GoToType ==
  ASSUME TypeOK, NEW p \in Callers, NEW s \in Steps, GoTo(p, s),
         saving' \in [Callers -> AppConfigs],
         \A q \in Callers \ {p} : saving'[q] = saving[q],
         s \in {"locking", "opening", "writing"} => Validate(saving'[p])
  PROVE  /\ step' \in [Callers -> Steps] /\ answer' \in [Callers -> Answers]
         /\ \A q \in Callers : step'[q] \in {"locking", "opening", "writing"} => Validate(saving'[q])
  <1>1. step' \in [Callers -> Steps] /\ answer' \in [Callers -> Answers]
    BY DEF TypeOK, GoTo
  <1>2. step'[p] = s /\ \A q \in Callers \ {p} : step'[q] = step[q]
    BY DEF TypeOK, GoTo
  <1>3. ASSUME NEW q \in Callers, step'[q] \in {"locking", "opening", "writing"}
        PROVE  Validate(saving'[q])
    <2>1. CASE q = p
      BY <1>2, <1>3, <2>1
    <2>2. CASE q # p
      BY <1>2, <1>3, <2>2 DEF TypeOK
    <2> QED
      BY <2>1, <2>2
  <1> QED
    BY <1>1, <1>3

LEMMA StoreTypeStep ==
  ASSUME TypeOK, [Next]_vars
  PROVE  TypeOK'
  <1>1. ASSUME NEW p \in Callers, Load(p)
        PROVE  TypeOK'
    BY <1>1, GoToType DEF TypeOK, Load, Steps
  <1>2. ASSUME NEW p \in Callers, Read(p)
        PROVE  TypeOK'
    <2>1. PICK c \in WithDefaults(Content(file)) : Return(p, Loaded(c))
      BY <1>2 DEF Read
    <2>2. Content(file) \in AppConfigs
      BY DefaultConfigType DEF TypeOK, Files, Content
    <2>3. Loaded(c) \in Answers
      BY <2>2, WithDefaultsType DEF Loaded, Answers
    <2> QED
      BY <1>2, <2>1, <2>3, ReturnType DEF TypeOK, Read
  <1>3. ASSUME NEW p \in Callers, ReadFails(p)
        PROVE  TypeOK'
    BY <1>3, PlainType, ReturnType DEF TypeOK, ReadFails
  <1>4. ASSUME NEW p \in Callers, NEW b \in Bodies, Save(p, b)
        PROVE  TypeOK'
    <2>1. PICK c \in WithDefaults(b) :
             \/ Validate(c) /\ saving' = [saving EXCEPT ![p] = c] /\ GoTo(p, "locking")
             \/ ~Validate(c) /\ Return(p, Plain("error"))
      BY <1>4 DEF Save
    <2>2. c \in AppConfigs
      BY WithDefaultsType, ConfigStoreAssumption DEF ConfigStoreAssumption
    <2>3. CASE Validate(c) /\ saving' = [saving EXCEPT ![p] = c] /\ GoTo(p, "locking")
      <3>1. /\ saving' \in [Callers -> AppConfigs] /\ saving'[p] = c
            /\ \A q \in Callers \ {p} : saving'[q] = saving[q]
        BY <2>2, <2>3 DEF TypeOK
      <3> QED
        BY <1>4, <2>3, <3>1, GoToType DEF TypeOK, Save, Steps
    <2>4. CASE Return(p, Plain("error"))
      BY <1>4, <2>4, PlainType, ReturnType DEF TypeOK, Save
    <2> QED
      BY <2>1, <2>3, <2>4
  <1>5. ASSUME NEW p \in Callers, Lock(p)
        PROVE  TypeOK'
    BY <1>5, GoToType DEF TypeOK, Lock, Steps
  <1>6. ASSUME NEW p \in Callers, Open(p)
        PROVE  TypeOK'
    BY <1>6, FileTypes, GoToType DEF TypeOK, Open, Steps
  <1>7. ASSUME NEW p \in Callers, OpenFails(p)
        PROVE  TypeOK'
    BY <1>7, PlainType, ReturnType DEF TypeOK, OpenFails
  <1>8. ASSUME NEW p \in Callers, Write(p)
        PROVE  TypeOK'
    <2>1. file' \in Files /\ before' \in Files
      BY <1>8, FileTypes DEF TypeOK, Write
    <2> QED
      BY <1>8, <2>1, PlainType, ReturnType DEF TypeOK, Write
  <1>9. ASSUME NEW p \in Callers, WriteFails(p)
        PROVE  TypeOK'
    <2>1. file' \in Files /\ before' \in Files
      BY <1>9, FileTypes DEF TypeOK, WriteFails
    <2> QED
      BY <1>9, <2>1, PlainType, ReturnType DEF TypeOK, WriteFails
  <1>10. CASE Restart
    <2>1. file' \in Files /\ before' = file'
      BY <1>10, FileTypes DEF TypeOK, Restart
    <2>2. /\ step' \in [Callers -> Steps] /\ saving' \in [Callers -> AppConfigs]
          /\ answer' \in [Callers -> Answers] /\ \A p \in Callers : step'[p] = "idle"
      BY <1>10, DefaultConfigType, PlainType DEF Restart, Steps
    <2> QED
      BY <2>1, <2>2 DEF TypeOK
  <1>11. CASE UNCHANGED vars
    BY <1>11 DEF TypeOK, vars
  <1> QED
    BY <1>1, <1>2, <1>3, <1>4, <1>5, <1>6, <1>7, <1>8, <1>9, <1>10, <1>11 DEF Next

LEMMA StoreTypeInit == Init => TypeOK
  <1> SUFFICES ASSUME Init PROVE TypeOK
    OBVIOUS
  <1>1. file \in Files
    <2>1. file = Missing \/ (file.cfg \in AppConfigs /\ file = Stored(file.cfg))
      BY ConfigStoreAssumption DEF Init, ConfigStoreAssumption
    <2> QED
      BY <2>1, FileTypes
  <1>2. /\ step \in [Callers -> Steps] /\ saving \in [Callers -> AppConfigs]
        /\ answer \in [Callers -> Answers] /\ \A p \in Callers : step[p] = "idle"
    BY DefaultConfigType, PlainType DEF Init, Steps
  <1> QED
    BY <1>1, <1>2 DEF Init, TypeOK

\* Only checked configurations wait to be written, whatever fails.
THEOREM StoreTypeCorrect == Spec => []TypeOK
  BY StoreTypeInit, StoreTypeStep, PTL DEF Spec

-----------------------------------------------------------------------------
(* The store implements an atomic register.                                *)

\* A caller that holds the lock for writing holds it alone.
Locking ==
  /\ \A p, q \in Writers : p = q
  /\ Writers # {} => Readers = {}

\* What is about to be written was sent by a user.
Sent ==
  \A p \in Callers :
    step[p] \in {"locking", "opening", "writing"} => \E b \in Bodies : saving[p] \in WithDefaults(b)

\* While a write is under way the file is empty.
Blanked == \A p \in Callers : step[p] = "writing" => Content(file) = DefaultConfig

StoreInv == TypeOK /\ Locking /\ Sent /\ Blanked

LEMMA LockingStep ==
  ASSUME TypeOK, Locking, [Next]_vars
  PROVE  Locking'
  <1> DEFINE Writer(s) == s \in {"opening", "writing"}
  <1>1. \A p \in Callers : step[p] \in Steps
    BY DEF TypeOK
  <1>2. ASSUME NEW p \in Callers, Load(p)
        PROVE  Locking'
    <2>1. Writers = {} /\ Writers' = {}
      BY <1>2 DEF Load, MayRead, GoTo, Writers, TypeOK
    <2> QED
      BY <2>1 DEF Locking
  <1>3. ASSUME NEW p \in Callers, Lock(p)
        PROVE  Locking'
    <2>1. Writers = {} /\ Readers = {}
      BY <1>3 DEF Lock, MayWrite
    <2>2. Writers' \subseteq {p} /\ Readers' = {}
      BY <1>3, <2>1 DEF Lock, GoTo, Writers, Readers, TypeOK
    <2> QED
      BY <2>2 DEF Locking
  <1>4. ASSUME Writers' \subseteq Writers, Readers' \subseteq Readers
        PROVE  Locking'
    BY <1>4 DEF Locking
  <1>5. ASSUME NEW p \in Callers, NEW a, Return(p, a)
        PROVE  Locking'
    <2>1. Writers' \subseteq Writers /\ Readers' \subseteq Readers
      BY <1>5 DEF Return, Writers, Readers, TypeOK
    <2> QED
      BY <1>4, <2>1
  <1>6. ASSUME NEW p \in Callers, Read(p) \/ ReadFails(p) \/ OpenFails(p) \/ Write(p) \/ WriteFails(p)
        PROVE  Locking'
    BY <1>5, <1>6 DEF Read, ReadFails, OpenFails, Write, WriteFails
  <1>7. ASSUME NEW p \in Callers, NEW b \in Bodies, Save(p, b)
        PROVE  Locking'
    <2>1. CASE \E a : Return(p, a)
      BY <1>5, <2>1
    <2>2. CASE GoTo(p, "locking")
      <3>1. Writers' \subseteq Writers /\ Readers' \subseteq Readers
        BY <2>2 DEF GoTo, Writers, Readers, TypeOK
      <3> QED
        BY <1>4, <3>1
    <2> QED
      BY <1>7, <2>1, <2>2 DEF Save
  <1>8. ASSUME NEW p \in Callers, Open(p)
        PROVE  Locking'
    <2>1. Writers' \subseteq Writers /\ Readers' \subseteq Readers
      BY <1>8 DEF Open, GoTo, Writers, Readers, TypeOK
    <2> QED
      BY <1>4, <2>1
  <1>9. CASE Restart
    BY <1>9 DEF Restart, Locking, Writers, Readers
  <1>10. CASE UNCHANGED vars
    BY <1>10 DEF vars, Locking, Writers, Readers
  <1> QED
    BY <1>2, <1>3, <1>6, <1>7, <1>8, <1>9, <1>10 DEF Next

LEMMA SentStep ==
  ASSUME TypeOK, Sent, [Next]_vars
  PROVE  Sent'
  <1>1. ASSUME NEW p \in Callers, \E a : Return(p, a)
        PROVE  Sent'
    BY <1>1 DEF Return, Sent, TypeOK
  <1>2. ASSUME NEW p \in Callers, UNCHANGED saving,
               \E s \in Steps : GoTo(p, s) /\ (s # "reading" => step[p] \in {"locking", "opening"})
        PROVE  Sent'
    BY <1>2 DEF GoTo, Sent, TypeOK, Steps
  <1>3. ASSUME NEW p \in Callers, Load(p) \/ Lock(p) \/ Open(p)
        PROVE  Sent'
    BY <1>2, <1>3 DEF Load, Lock, Open, Steps
  <1>4. ASSUME NEW p \in Callers, NEW b \in Bodies, Save(p, b)
        PROVE  Sent'
    <2>1. CASE \E a : Return(p, a)
      BY <1>1, <2>1
    <2>2. ASSUME NEW c \in WithDefaults(b), saving' = [saving EXCEPT ![p] = c], GoTo(p, "locking")
          PROVE  Sent'
      BY <2>2 DEF GoTo, Sent, TypeOK
    <2> QED
      BY <1>4, <2>1, <2>2 DEF Save
  <1>5. ASSUME NEW p \in Callers, Read(p) \/ ReadFails(p) \/ OpenFails(p) \/ Write(p) \/ WriteFails(p)
        PROVE  Sent'
    BY <1>1, <1>5 DEF Read, ReadFails, OpenFails, Write, WriteFails
  <1>6. CASE Restart
    BY <1>6 DEF Restart, Sent
  <1>7. CASE UNCHANGED vars
    BY <1>7 DEF vars, Sent
  <1> QED
    BY <1>3, <1>4, <1>5, <1>6, <1>7 DEF Next

LEMMA BlankedStep ==
  ASSUME TypeOK, Locking, Blanked, [Next]_vars
  PROVE  Blanked'
  <1>1. ASSUME UNCHANGED file, \A p \in Callers : step'[p] = "writing" => step[p] = "writing"
        PROVE  Blanked'
    BY <1>1 DEF Blanked, Content
  <1>2. ASSUME NEW p \in Callers, NEW a, Return(p, a), UNCHANGED file
        PROVE  Blanked'
    BY <1>1, <1>2 DEF Return, TypeOK
  <1>3. ASSUME NEW p \in Callers, Read(p) \/ ReadFails(p) \/ OpenFails(p)
        PROVE  Blanked'
    BY <1>2, <1>3 DEF Read, ReadFails, OpenFails
  <1>4. ASSUME NEW p \in Callers, Load(p) \/ Lock(p)
        PROVE  Blanked'
    BY <1>1, <1>4 DEF Load, Lock, GoTo, TypeOK
  <1>5. ASSUME NEW p \in Callers, NEW b \in Bodies, Save(p, b)
        PROVE  Blanked'
    <2>1. CASE GoTo(p, "locking")
      BY <1>1, <1>5, <2>1 DEF Save, GoTo, TypeOK
    <2> QED
      BY <1>2, <1>5, <2>1 DEF Save
  <1>6. ASSUME NEW p \in Callers, Open(p)
        PROVE  Blanked'
    BY <1>6 DEF Open, Blanked, Content, Empty, Broken
  <1>7. ASSUME NEW p \in Callers, Write(p) \/ WriteFails(p)
        PROVE  Blanked'
    <2>1. step[p] = "writing" /\ \E a : Return(p, a)
      BY <1>7 DEF Write, WriteFails
    <2>2. \A q \in Callers : step'[q] # "writing"
      BY <2>1 DEF Return, Locking, Writers, TypeOK
    <2> QED
      BY <2>2 DEF Blanked
  <1>8. CASE Restart
    BY <1>8 DEF Restart, Blanked
  <1>9. CASE UNCHANGED vars
    BY <1>1, <1>9 DEF vars
  <1> QED
    BY <1>3, <1>4, <1>5, <1>6, <1>7, <1>8, <1>9 DEF Next

LEMMA StoreInvariant == Spec => []StoreInv
  <1>1. Init => StoreInv
    BY StoreTypeInit DEF Init, StoreInv, Locking, Sent, Blanked, Writers, Readers
  <1>2. StoreInv /\ [Next]_vars => StoreInv'
    BY StoreTypeStep, LockingStep, SentStep, BlankedStep DEF StoreInv
  <1> QED
    BY <1>1, <1>2, PTL DEF Spec

\* The register's operators on configurations are the store's.
LEMMA RegisterOperators ==
  /\ Register!DefaultConfig = DefaultConfig
  /\ Register!AppConfigs = AppConfigs
  /\ \A c : Register!WithDefaults(c) = WithDefaults(c)
  /\ \A c : Register!Validate(c) <=> Validate(c)
  /\ \A c : Register!Loaded(c) = Loaded(c)
  /\ \A t : Register!Plain(t) = Plain(t)
  <1>1. Register!DefaultConfig = DefaultConfig
    BY DEF DefaultConfig, Register!DefaultConfig
  <1>2. Register!AppConfigs = AppConfigs
    BY DEF AppConfigs, Register!AppConfigs, SSHs, Register!SSHs, Auths, Register!Auths, Items, Register!Items
  <1>3. ASSUME NEW c
        PROVE  Register!WithDefaults(c) = WithDefaults(c)
    BY DEF WithDefaults, Register!WithDefaults, Assignments, Register!Assignments,
           Unnamed, Register!Unnamed, UsedIds, Register!UsedIds,
           SSHWithDefaults, Register!SSHWithDefaults, ItemWithDefaults, Register!ItemWithDefaults,
           DefaultIntervalMin, Register!DefaultIntervalMin, DefaultMaxBackups, Register!DefaultMaxBackups
  <1>4. ASSUME NEW c
        PROVE  Register!Validate(c) <=> Validate(c)
    BY DEF Validate, Register!Validate, ValidSSH, Register!ValidSSH
  <1>5. ASSUME NEW c
        PROVE  Register!Loaded(c) = Loaded(c)
    BY DEF Loaded, Register!Loaded
  <1>6. ASSUME NEW t
        PROVE  Register!Plain(t) = Plain(t)
    BY <1>1 DEF Plain, Register!Plain
  <1> QED
    BY <1>1, <1>2, <1>3, <1>4, <1>5, <1>6

LEMMA RegisterInit == Init => Register!RInit
  <1> SUFFICES ASSUME Init PROVE Register!RInit
    OBVIOUS
  <1>1. Effective = file
    BY DEF Init, Effective
  <1>2. Content(file) \in AppConfigs
    BY StoreTypeInit, DefaultConfigType DEF TypeOK, Files, Content
  <1>3. Begun = Register!Nothing
    BY DEF Init, Begun, Register!Nothing
  <1> QED
    BY <1>1, <1>2, <1>3, RegisterOperators DEF Init, Register!RInit

\* No Save has begun when no caller writes.
LEMMA NothingBegun ==
  ASSUME \A p \in Callers : step[p] # "writing"
  PROVE  Begun = Register!Nothing
  BY DEF Begun, Register!Nothing

\* When the only caller that writes returns, no Save has begun.
LEMMA WriterReturns ==
  ASSUME TypeOK, Locking, NEW p \in Callers, step[p] = "writing", NEW a, Return(p, a)
  PROVE  /\ Begun[p] = {saving[p]} /\ Begun' = [Begun EXCEPT ![p] = {}]
         /\ \A q \in Callers : step'[q] # "writing"
  <1>1. \A q \in Callers : step[q] = "writing" => q = p
    BY DEF Locking, Writers
  <1>2. \A q \in Callers : step'[q] # "writing"
    BY <1>1 DEF Return, TypeOK
  <1>3. Begun' = [q \in Callers |-> {}]
    BY <1>2 DEF Begun
  <1>4. [Begun EXCEPT ![p] = {}] = [q \in Callers |-> {}]
    BY <1>1 DEF Begun
  <1> QED
    BY <1>2, <1>3, <1>4 DEF Begun

\* Every step of the store is one of the register, or none.
LEMMA RegisterStep ==
  ASSUME StoreInv, [Next]_vars
  PROVE  [Register!RNext]_Register!rvars
  <1> USE DEF StoreInv
  <1>1. \A p \in Callers : step[p] = "writing" => p \in Writers
    BY DEF Writers
  <1>2. ASSUME UNCHANGED <<file, before, answer>>,
               \A p \in Callers : step'[p] = "writing" <=> step[p] = "writing",
               \A p \in Callers : step[p] = "writing" => saving'[p] = saving[p]
        PROVE  UNCHANGED Register!rvars
    <2>1. UNCHANGED Begun
      BY <1>2 DEF Begun
    <2>2. UNCHANGED Content(Effective)
      BY <1>2 DEF Effective, Content
    <2> QED
      BY <1>2, <2>1, <2>2 DEF Register!rvars
  <1>3. ASSUME NEW p \in Callers, UNCHANGED <<file, before>>, step[p] # "writing", NEW a, Return(p, a)
        PROVE  /\ Content(Effective)' = Content(Effective) /\ answer' = [answer EXCEPT ![p] = a]
               /\ Begun[p] = {} /\ UNCHANGED Begun
    <2>1. /\ \A q \in Callers : step'[q] = "writing" <=> step[q] = "writing"
          /\ \A q \in Callers : step[q] = "writing" => saving'[q] = saving[q]
      BY <1>3 DEF Return, TypeOK
    <2>2. UNCHANGED Content(Effective)
      BY <1>3, <2>1 DEF Effective, Content
    <2>3. UNCHANGED Begun /\ Begun[p] = {}
      BY <1>3, <2>1 DEF Begun
    <2> QED
      BY <1>3, <2>2, <2>3 DEF Return
  <1>4. ASSUME NEW p \in Callers, Load(p) \/ Lock(p)
        PROVE  UNCHANGED Register!rvars
    BY <1>2, <1>4 DEF Load, Lock, GoTo, TypeOK
  <1>5. ASSUME NEW p \in Callers, Read(p)
        PROVE  Register!RLoad(p)
    <2>1. PICK c \in WithDefaults(Content(file)) : Return(p, Loaded(c))
      BY <1>5 DEF Read
    <2>2. Effective = file
      BY <1>1, <1>5 DEF Read, Locking, Readers, Effective
    <2>3. step[p] # "writing" /\ UNCHANGED <<file, before>>
      BY <1>5 DEF Read
    <2>4. /\ Content(Effective)' = Content(Effective) /\ answer' = [answer EXCEPT ![p] = Loaded(c)]
          /\ Begun[p] = {} /\ UNCHANGED Begun
      BY <1>3, <2>1, <2>3
    <2> QED
      BY <2>1, <2>2, <2>4, RegisterOperators DEF Register!RLoad
  <1>6. ASSUME NEW p \in Callers, UNCHANGED <<file, before>>, step[p] # "writing", Return(p, Plain("error"))
        PROVE  Register!RRefuse(p)
    BY <1>3, <1>6, RegisterOperators DEF Register!RRefuse
  <1>7. ASSUME NEW p \in Callers, ReadFails(p) \/ OpenFails(p)
        PROVE  Register!RRefuse(p)
    BY <1>6, <1>7 DEF ReadFails, OpenFails
  <1>8. ASSUME NEW p \in Callers, NEW b \in Bodies, Save(p, b)
        PROVE  Register!RRefuse(p) \/ UNCHANGED Register!rvars
    <2>1. CASE Return(p, Plain("error"))
      BY <1>6, <1>8, <2>1 DEF Save
    <2>2. ASSUME NEW c, saving' = [saving EXCEPT ![p] = c], GoTo(p, "locking")
          PROVE  UNCHANGED Register!rvars
      <3>1. /\ step[p] = "idle" /\ UNCHANGED <<file, before, answer>>
            /\ \A q \in Callers : step'[q] = "writing" <=> step[q] = "writing"
        BY <1>8, <2>2 DEF Save, GoTo, TypeOK
      <3>2. \A q \in Callers : step[q] = "writing" => saving'[q] = saving[q]
        BY <2>2, <3>1 DEF TypeOK
      <3> QED
        BY <1>2, <3>1, <3>2
    <2> QED
      BY <1>8, <2>1, <2>2 DEF Save
  <1>9. ASSUME NEW p \in Callers, Open(p)
        PROVE  \E b \in Bodies : Register!RBegin(p, b)
    <2>1. p \in Writers /\ step[p] = "opening"
      BY <1>9 DEF Open, Writers
    <2>2. \A q \in Callers : step[q] # "writing"
      BY <1>1, <2>1 DEF Locking
    <2>3. Effective = file /\ Effective' = file
      BY <1>9, <2>2 DEF Open, GoTo, Effective, TypeOK
    <2>4. UNCHANGED <<Content(Effective), answer>>
      BY <1>9, <2>3 DEF Open, GoTo, Content
    <2>5. PICK b \in Bodies : saving[p] \in WithDefaults(b)
      BY <2>1 DEF Sent
    <2>6. Validate(saving[p])
      BY <2>1 DEF TypeOK
    <2>7. Begun' = [Begun EXCEPT ![p] = {saving[p]}]
      BY <1>9 DEF Open, GoTo, Begun, TypeOK
    <2> QED
      BY <2>2, <2>4, <2>5, <2>6, <2>7, NothingBegun, RegisterOperators DEF Register!RBegin
  <1>10. ASSUME NEW p \in Callers, Write(p)
         PROVE  Register!RSave(p)
    <2>1. step[p] = "writing" /\ file' = Stored(saving[p]) /\ Return(p, Plain("saved"))
      BY <1>10 DEF Write
    <2>2. /\ Begun[p] = {saving[p]} /\ Begun' = [Begun EXCEPT ![p] = {}]
          /\ \A q \in Callers : step'[q] # "writing"
      BY <2>1, WriterReturns
    <2>3. Content(Effective)' = saving[p]
      BY <2>1, <2>2 DEF Effective, Content, Stored
    <2>4. answer' = [answer EXCEPT ![p] = Register!Plain("saved")]
      BY <2>1, RegisterOperators DEF Return
    <2> QED
      BY <2>2, <2>3, <2>4 DEF Register!RSave
  <1>11. ASSUME NEW p \in Callers, WriteFails(p)
         PROVE  Register!RCutShort(p)
    <2>1. /\ step[p] = "writing" /\ "write" \in Faults
          /\ file' \in {Empty, Torn, Stored(saving[p])} /\ Return(p, Plain("error"))
      BY <1>11 DEF WriteFails
    <2>2. /\ Begun[p] = {saving[p]} /\ Begun' = [Begun EXCEPT ![p] = {}]
          /\ \A q \in Callers : step'[q] # "writing"
      BY <2>1, WriterReturns
    <2>3. Content(Effective)' \in {DefaultConfig, saving[p]}
      BY <2>1, <2>2 DEF Effective, Content, Stored, Empty, Torn, Broken
    <2>4. answer' = [answer EXCEPT ![p] = Register!Plain("error")]
      BY <2>1, RegisterOperators DEF Return
    <2> QED
      BY <2>1, <2>2, <2>3, <2>4, RegisterOperators DEF Register!RCutShort, Register!Lost
  <1>12. CASE Restart
    <2>1. /\ file' \in {file} \cup UNION {{Torn, Stored(saving[p])} : p \in {q \in Callers : step[q] = "writing"}}
          /\ before' = file' /\ \A p \in Callers : step'[p] = "idle"
      BY <1>12 DEF Restart
    <2>2. Content(Effective)' = Content(file')
      BY <2>1 DEF Effective, Content
    <2>3. answer' = [p \in Callers |-> Register!Plain("none")]
      BY <1>12, RegisterOperators DEF Restart
    <2>4. Begun' = Register!Nothing
      <3>1. (Begun = Register!Nothing)'
        BY <2>1 DEF Begun, Register!Nothing
      <3> QED
        BY <3>1 DEF Register!Nothing
    <2>5. CASE \A p \in Callers : step[p] # "writing"
      <3>1. file' = file /\ Effective = file
        BY <2>1, <2>5 DEF Effective
      <3> QED
        BY <2>2, <2>3, <2>4, <2>5, <3>1, NothingBegun DEF Register!RRestart, Register!RNext
    <2>6. ASSUME NEW p \in Callers, step[p] = "writing"
          PROVE  Register!RRestart
      <3>1. p \in Writers /\ "crash" \in Faults
        BY <1>1, <1>12, <2>6 DEF Restart
      <3>2. file' \in {file, Torn, Stored(saving[p])}
        BY <1>1, <2>1, <3>1 DEF Locking
      <3>3. Content(file) = DefaultConfig
        BY <2>6 DEF Blanked
      <3>4. Content(Effective)' \in {DefaultConfig, saving[p]}
        BY <2>2, <3>2, <3>3 DEF Content, Stored, Torn, Broken
      <3>5. Begun[p] = {saving[p]}
        BY <2>6 DEF Begun
      <3> QED
        BY <2>3, <2>4, <3>1, <3>4, <3>5, RegisterOperators DEF Register!RRestart, Register!Lost
    <2> QED
      BY <2>5, <2>6 DEF Register!RNext
  <1>13. CASE UNCHANGED vars
    BY <1>2, <1>13 DEF vars
  <1> QED
    BY <1>4, <1>5, <1>7, <1>8, <1>9, <1>10, <1>11, <1>12, <1>13 DEF Next, Register!RNext

\* Loads and Saves that run at once behave as if they ran one after another:
\* a Load never sees a write under way, and only a Save that has opened the
\* file can lose the configuration, by failing there or by dying there.
THEOREM StoreIsRegister == Spec => Implements
  <1>1. StoreInv /\ [Next]_vars => [Register!RNext]_Register!rvars
    BY RegisterStep
  <1> QED
    BY <1>1, RegisterInit, StoreInvariant, PTL DEF Spec, Implements, Register!RSpec

-----------------------------------------------------------------------------
(* What is loaded can be used.                                             *)

\* The ids that are there differ.
IdsDiffer(c) ==
  \A j, k \in DOMAIN c.backups :
    c.backups[j].id # NoId /\ c.backups[j].id = c.backups[k].id => j = k

\* Files written by hand need no ids, but may not repeat one: Load checks nothing.
FoundIdsDiffer == \A f \in Found : f.is = "json" => IdsDiffer(f.cfg)

UsableItems(c) ==
  /\ \A k \in DOMAIN c.backups :
       c.backups[k].id # NoId /\ c.backups[k].intervalMinutes > 0 /\ c.backups[k].maxBackups > 0
  /\ \A j, k \in DOMAIN c.backups : c.backups[j].id = c.backups[k].id => j = k

\* The file never repeats an id, and what was loaded from it is usable.
UsableInv ==
  /\ file.is = "json" => IdsDiffer(file.cfg)
  /\ \A p \in Callers : answer[p].is = "loaded" => UsableItems(answer[p].cfg)

LEMMA CompletedItem ==
  ASSUME NEW item \in Items, NEW id \in Ids
  PROVE  LET made == ItemWithDefaults(item, id) IN
         /\ made.id = id /\ id # NoId
         /\ made.intervalMinutes > 0 /\ made.maxBackups > 0
  <1>1. item.intervalMinutes \in Int /\ item.maxBackups \in Int
    BY DEF Items
  <1> QED
    BY <1>1, AppConfigAssumption
       DEF ItemWithDefaults, DefaultIntervalMin, DefaultMaxBackups, AppConfigAssumption

\* Completion makes a configuration usable unless it repeats an id.
LEMMA CompletedUsable ==
  ASSUME NEW c \in AppConfigs, IdsDiffer(c), NEW d \in WithDefaults(c)
  PROVE  UsableItems(d)
  <1>1. c.backups \in Seq(Items)
    BY DEF AppConfigs
  <1>2. PICK ids \in Assignments(c) :
           d = [ssh |-> SSHWithDefaults(c.ssh),
                backups |-> [k \in DOMAIN c.backups |-> ItemWithDefaults(c.backups[k], ids[k])]]
    BY DEF WithDefaults
  <1>3. /\ DOMAIN d.backups = DOMAIN c.backups
        /\ \A k \in DOMAIN c.backups : d.backups[k] = ItemWithDefaults(c.backups[k], ids[k])
    BY <1>2
  <1>4. \A k \in DOMAIN c.backups : c.backups[k] \in Items /\ ids[k] \in Ids
    BY <1>1, <1>2 DEF Assignments
  <1>5. ASSUME NEW k \in DOMAIN c.backups
        PROVE  /\ d.backups[k].id = ids[k] /\ ids[k] # NoId
               /\ d.backups[k].intervalMinutes > 0 /\ d.backups[k].maxBackups > 0
    BY <1>3, <1>4, CompletedItem
  <1>6. ASSUME NEW j \in DOMAIN c.backups, NEW k \in DOMAIN c.backups, ids[j] = ids[k]
        PROVE  j = k
    BY <1>2, <1>6 DEF Assignments, Unnamed, UsedIds, IdsDiffer
  <1> QED
    BY <1>3, <1>5, <1>6 DEF UsableItems

LEMMA UsableStep ==
  ASSUME TypeOK, UsableInv, [Next]_vars
  PROVE  UsableInv'
  <1>1. ASSUME NEW p \in Callers, NEW a, Return(p, a), a.is = "loaded" => UsableItems(a.cfg)
        PROVE  \A q \in Callers : answer'[q].is = "loaded" => UsableItems(answer'[q].cfg)
    BY <1>1 DEF Return, TypeOK, UsableInv
  <1>2. ASSUME NEW p \in Callers, step[p] = "writing"
        PROVE  IdsDiffer(saving[p])
    BY <1>2 DEF TypeOK, Validate, IdsDiffer
  <1>3. \A s \in {"none", "saved", "error"} : Plain(s).is # "loaded"
    BY DEF Plain
  <1>4. ASSUME NEW p \in Callers, Read(p)
        PROVE  UsableInv'
    <2>1. PICK c \in WithDefaults(Content(file)) : Return(p, Loaded(c))
      BY <1>4 DEF Read
    <2>2. Content(file) \in AppConfigs /\ IdsDiffer(Content(file))
      BY DefaultConfigType DEF TypeOK, Files, Content, UsableInv, IdsDiffer, DefaultConfig
    <2>3. UsableItems(Loaded(c).cfg)
      BY <2>2, CompletedUsable DEF Loaded
    <2> QED
      BY <1>1, <1>4, <2>1, <2>3 DEF Read, UsableInv
  <1>5. ASSUME NEW p \in Callers, UNCHANGED file,
               UNCHANGED answer \/ \E s \in {"none", "saved", "error"} : Return(p, Plain(s))
        PROVE  UsableInv'
    BY <1>1, <1>3, <1>5 DEF UsableInv
  <1>6. ASSUME NEW p \in Callers, Load(p) \/ ReadFails(p) \/ Lock(p) \/ OpenFails(p)
        PROVE  UsableInv'
    BY <1>5, <1>6 DEF Load, ReadFails, Lock, OpenFails, GoTo
  <1>7. ASSUME NEW p \in Callers, NEW b \in Bodies, Save(p, b)
        PROVE  UsableInv'
    BY <1>5, <1>7 DEF Save, GoTo
  <1>8. ASSUME NEW p \in Callers, Open(p)
        PROVE  UsableInv'
    BY <1>8 DEF Open, GoTo, UsableInv, Empty, Broken
  <1>9. ASSUME NEW p \in Callers, Write(p) \/ WriteFails(p)
        PROVE  UsableInv'
    <2>1. file'.is = "json" => IdsDiffer(file'.cfg)
      BY <1>2, <1>9 DEF Write, WriteFails, Stored, Empty, Torn, Broken
    <2>2. \E s \in {"saved", "error"} : Return(p, Plain(s))
      BY <1>9 DEF Write, WriteFails
    <2> QED
      BY <1>1, <1>3, <2>1, <2>2 DEF UsableInv
  <1>10. CASE Restart
    <2>1. file'.is = "json" => IdsDiffer(file'.cfg)
      BY <1>2, <1>10 DEF Restart, UsableInv, Stored, Torn, Broken
    <2>2. \A p \in Callers : answer'[p].is # "loaded"
      BY <1>10 DEF Restart, Plain
    <2> QED
      BY <2>1, <2>2 DEF UsableInv
  <1>11. CASE UNCHANGED vars
    BY <1>11 DEF vars, UsableInv
  <1> QED
    BY <1>4, <1>6, <1>7, <1>8, <1>9, <1>10, <1>11 DEF Next

\* Every loaded configuration can be used by id and interval, whatever calls
\* overlap and fail, if the files people write by hand repeat no id.
THEOREM LoadsAlwaysUsable == ASSUME FoundIdsDiffer PROVE Spec => []LoadsUsable
  <1>1. Init => UsableInv
    BY DEF Init, UsableInv, FoundIdsDiffer, Plain
  <1>2. UsableInv => LoadsUsable
    BY DEF UsableInv, UsableItems, LoadsUsable
  <1> QED
    BY <1>1, <1>2, UsableStep, StoreTypeCorrect, PTL DEF Spec
=============================================================================
