---------------------------- MODULE ConfigStore ----------------------------
(***************************************************************************)
(* internal/config/store.go: Load and Save on one JSON file, called by the *)
(* HTTP handlers and the scheduler, each on its own goroutine.             *)
(*                                                                         *)
(* An RWMutex lets many callers read or one write.  os.WriteFile truncates *)
(* the file when it opens it and writes it afterwards, so that a write     *)
(* that fails and a process that dies leave an empty or a partial file.    *)
(***************************************************************************)
EXTENDS AppConfig

CONSTANTS
  Callers,    \* goroutines
  Bodies,     \* the configurations users PUT
  Found,      \* the contents the file may have when the program is installed
  Faults      \* what may go wrong: "read", "open", "write", "crash", "restart"

\* A file: whether it is there and whole, and the configuration in it.
Stored(c) == [is |-> "json", cfg |-> c]
Broken(s) == [is |-> s, cfg |-> DefaultConfig]
Missing == Broken("missing")
Empty == Broken("empty")
Torn == Broken("torn")

Loaded(c) == [is |-> "loaded", cfg |-> c]
Plain(s) == [is |-> s, cfg |-> DefaultConfig]

ASSUME ConfigStoreAssumption ==
  /\ Bodies \subseteq AppConfigs
  /\ \A f \in Found : f = Missing \/ (f.cfg \in AppConfigs /\ f = Stored(f.cfg))
  /\ Faults \subseteq {"read", "open", "write", "crash", "restart"}

VARIABLES
  file,     \* the file at Store.path
  step,     \* caller -> where its call is
  saving,   \* caller -> the configuration its Save is to write
  answer,   \* caller -> what its last call returned
  before    \* history: the file as the write under way found it

vars == <<file, step, saving, answer, before>>

Steps == {"idle", "reading", "locking", "opening", "writing"}

Files == [is : {"json", "missing", "empty", "torn"}, cfg : AppConfigs]
Answers == [is : {"none", "loaded", "saved", "error"}, cfg : AppConfigs]

TypeOK ==
  /\ file \in Files /\ before \in Files
  /\ step \in [Callers -> Steps]
  /\ saving \in [Callers -> AppConfigs]
  /\ answer \in [Callers -> Answers]
  /\ \A p \in Callers : step[p] \in {"locking", "opening", "writing"} => Validate(saving[p])

Init ==
  /\ file \in Found
  /\ before = file
  /\ step = [p \in Callers |-> "idle"]
  /\ saving = [p \in Callers |-> DefaultConfig]
  /\ answer = [p \in Callers |-> Plain("none")]

Readers == {p \in Callers : step[p] = "reading"}
Writers == {p \in Callers : step[p] \in {"opening", "writing"}}

\* Mutant: Load takes no lock.
MayReadAlways == TRUE

MayRead == Writers = {}
MayWrite == Writers \cup Readers = {}

Return(p, a) ==
  /\ answer' = [answer EXCEPT ![p] = a]
  /\ step' = [step EXCEPT ![p] = "idle"]
  /\ saving' = [saving EXCEPT ![p] = DefaultConfig]

GoTo(p, s) ==
  /\ step' = [step EXCEPT ![p] = s]
  /\ UNCHANGED answer

\* Load takes the read lock.
Load(p) ==
  /\ step[p] = "idle" /\ MayRead
  /\ GoTo(p, "reading")
  /\ UNCHANGED <<file, saving, before>>

\* A file that is missing or empty is the default configuration.
Content(f) == IF f.is = "json" THEN f.cfg ELSE DefaultConfig

\* ReadFile, decode, applyDefaults.
Read(p) ==
  /\ step[p] = "reading" /\ file.is # "torn"
  /\ \E c \in WithDefaults(Content(file)) : Return(p, Loaded(c))
  /\ UNCHANGED <<file, before>>

\* ReadFile fails, or what it returns is not JSON.
ReadFails(p) ==
  /\ step[p] = "reading"
  /\ file.is = "torn" \/ "read" \in Faults
  /\ Return(p, Plain("error"))
  /\ UNCHANGED <<file, before>>

\* Mutant: the configuration is not checked.
SaveUnchecked(p, b) ==
  /\ step[p] = "idle"
  /\ \E c \in WithDefaults(b) : saving' = [saving EXCEPT ![p] = c]
  /\ GoTo(p, "locking")
  /\ UNCHANGED <<file, before>>

\* Save completes and checks the configuration before it takes the lock.
Save(p, b) ==
  /\ step[p] = "idle"
  /\ \E c \in WithDefaults(b) :
       \/ /\ Validate(c)
          /\ saving' = [saving EXCEPT ![p] = c]
          /\ GoTo(p, "locking")
       \/ /\ ~Validate(c)
          /\ Return(p, Plain("error"))
  /\ UNCHANGED <<file, before>>

Lock(p) ==
  /\ step[p] = "locking" /\ MayWrite
  /\ GoTo(p, "opening")
  /\ UNCHANGED <<file, saving, before>>

\* MkdirAll, and WriteFile opens the file and truncates it.
Open(p) ==
  /\ step[p] = "opening"
  /\ file' = Empty /\ before' = file
  /\ GoTo(p, "writing")
  /\ UNCHANGED saving

OpenFails(p) ==
  /\ step[p] = "opening" /\ "open" \in Faults
  /\ Return(p, Plain("error"))
  /\ UNCHANGED <<file, before>>

Write(p) ==
  /\ step[p] = "writing"
  /\ file' = Stored(saving[p])
  /\ before' = file'
  /\ Return(p, Plain("saved"))

\* The disk is full: nothing, a part, or all of it was written.
WriteFails(p) ==
  /\ step[p] = "writing" /\ "write" \in Faults
  /\ file' \in {Empty, Torn, Stored(saving[p])}
  /\ before' = file'
  /\ Return(p, Plain("error"))

\* The process ends, in the midst of its calls if it crashes, and starts again.
Restart ==
  /\ "crash" \in Faults \/ ("restart" \in Faults /\ Writers = {})
  /\ file' \in {file} \cup UNION {{Torn, Stored(saving[p])} : p \in {q \in Callers : step[q] = "writing"}}
  /\ before' = file'
  /\ step' = [p \in Callers |-> "idle"]
  /\ saving' = [p \in Callers |-> DefaultConfig]
  /\ answer' = [p \in Callers |-> Plain("none")]

Next ==
  \/ \E p \in Callers :
       \/ Load(p) \/ Read(p) \/ ReadFails(p)
       \/ \E b \in Bodies : Save(p, b)
       \/ Lock(p) \/ Open(p) \/ OpenFails(p) \/ Write(p) \/ WriteFails(p)
  \/ Restart

Spec == Init /\ [][Next]_vars

-----------------------------------------------------------------------------
(* Properties.                                                             *)

\* The file as callers may think of it: a write happens when it is complete.
Effective == IF \E p \in Callers : step[p] = "writing" THEN before ELSE file

\* A Save has begun when it has opened the file.
Begun == [p \in Callers |-> IF step[p] = "writing" THEN {saving[p]} ELSE {}]

Register == INSTANCE ConfigRegister WITH
  value <- Content(Effective),
  begun <- Begun,
  CutShort <- Faults \cap {"write", "crash"} # {}

\* Store persists and loads (store.go:14): concurrent Loads and Saves behave
\* like operations on one atomic register.  Only a Save that has opened the file
\* may lose it, when it fails there or the process ends there: no other error
\* and no other restart does.
Implements == Register!RSpec

\* What callers index by: the ids of a loaded configuration are all there and
\* differ, and the scheduler never gets an interval or a retention of zero.
LoadsUsable ==
  \A p \in Callers :
    answer[p].is = "loaded" =>
      LET items == answer[p].cfg.backups IN
      /\ \A k \in DOMAIN items : items[k].id # NoId /\ items[k].intervalMinutes > 0 /\ items[k].maxBackups > 0
      /\ \A j, k \in DOMAIN items : items[j].id = items[k].id => j = k
=============================================================================
