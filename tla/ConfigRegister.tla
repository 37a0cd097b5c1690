--------------------------- MODULE ConfigRegister ---------------------------
(***************************************************************************)
(* What the configuration store promises its callers: one value, the last  *)
(* configuration saved, that every Load and Save meets at one instant.     *)
(* Saves are written one at a time; only one that has begun to write can   *)
(* lose the value, by an error or by the end of the process.               *)
(***************************************************************************)
EXTENDS AppConfig

CONSTANTS
  Callers,
  Bodies,
  CutShort   \* may a write be cut short?

VARIABLES
  value,   \* the configuration
  answer,  \* what the last call of each caller has returned
  begun    \* of each caller the configuration it is writing, if any: {} or {c}

rvars == <<value, answer, begun>>

\* Results of calls: a configuration, success, or an error.
Loaded(c) == [is |-> "loaded", cfg |-> c]
Plain(s) == [is |-> s, cfg |-> DefaultConfig]

Nothing == [p \in Callers |-> {}]

RInit ==
  /\ value \in AppConfigs
  /\ answer = [p \in Callers |-> Plain("none")]
  /\ begun = Nothing

RLoad(p) ==
  /\ begun[p] = {}
  /\ \E c \in WithDefaults(value) : answer' = [answer EXCEPT ![p] = Loaded(c)]
  /\ UNCHANGED <<value, begun>>

\* A checked configuration is about to be written, and no other.
RBegin(p, b) ==
  /\ begun = Nothing
  /\ \E c \in WithDefaults(b) : Validate(c) /\ begun' = [begun EXCEPT ![p] = {c}]
  /\ UNCHANGED <<value, answer>>

RSave(p) ==
  /\ value' \in begun[p]
  /\ begun' = [begun EXCEPT ![p] = {}]
  /\ answer' = [answer EXCEPT ![p] = Plain("saved")]

\* Refused before anything is written, or a Load that fails.
RRefuse(p) ==
  /\ begun[p] = {}
  /\ answer' = [answer EXCEPT ![p] = Plain("error")]
  /\ UNCHANGED <<value, begun>>

\* p was writing: the value is gone, or the new one is there all the same.
Lost(p) ==
  /\ CutShort
  /\ \E c \in begun[p] : value' \in {DefaultConfig, c}

RCutShort(p) ==
  /\ Lost(p)
  /\ begun' = [begun EXCEPT ![p] = {}]
  /\ answer' = [answer EXCEPT ![p] = Plain("error")]

\* The callers are gone; the value stays unless one of them was writing.
RRestart ==
  /\ \/ begun = Nothing /\ UNCHANGED value
     \/ \E p \in Callers : Lost(p)
  /\ begun' = Nothing
  /\ answer' = [p \in Callers |-> Plain("none")]

RNext ==
  \/ \E p \in Callers :
       \/ RLoad(p) \/ RRefuse(p) \/ RSave(p) \/ RCutShort(p)
       \/ \E b \in Bodies : RBegin(p, b)
  \/ RRestart

RSpec == RInit /\ [][RNext]_rvars
=============================================================================
