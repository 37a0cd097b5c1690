---------------------------- MODULE MCScheduler ----------------------------
(***************************************************************************)
(* Small instances of Scheduler for TLC.  Item "a" comes before item "b".  *)
(***************************************************************************)
EXTENDS Scheduler

Order == [i \in Ids |-> IF i = "a" THEN 1 ELSE 2]

\* Every item may be absent, or have one of two intervals.
AnyConfig == UNION {[D -> {1, 3}] : D \in SUBSET Ids}

\* Every item is there, and runs every second minute.
Fixed == {[i \in Ids |-> 2]}
=============================================================================
