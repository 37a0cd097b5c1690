--------------------------- MODULE MCConfigStore ---------------------------
(* Instances of ConfigStore for TLC. *)
EXTENDS ConfigStore

CONSTANTS p1, p2, i1, i2, i3, none

Item(id, interval, max) == [id |-> id, intervalMinutes |-> interval, maxBackups |-> max]
SSH(port, credential) == [named |-> TRUE, port |-> port, auth |-> "key", credential |-> credential]
Body(s, items) == [ssh |-> s, backups |-> items]

\* A body as the UI sends it, one with two items, one with repeated ids, one
\* without a credential.
AllBodies ==
  {Body(SSH(0, TRUE), <<Item(none, -1, 0)>>),
   Body(SSH(22, TRUE), <<Item(i1, 5, 3), Item(none, 10, 3)>>),
   Body(SSH(22, TRUE), <<Item(i1, 5, 3), Item(i1, 5, 3)>>),
   Body(SSH(22, FALSE), <<>>)}

\* A file that Save wrote, and one written by hand without an id.
Saved == Stored(Body(SSH(22, TRUE), <<Item(i2, 5, 3)>>))
Handwritten == Stored(Body(SSH(22, TRUE), <<Item(none, 5, 3)>>))

Fresh == {Missing, Saved, Handwritten}
=============================================================================
