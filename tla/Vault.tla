------------------------------- MODULE Vault -------------------------------
(***************************************************************************)
(* What backups and restores promise the owner of the items: a vault of    *)
(* complete copies, in the order they were made, in one subdirectory or    *)
(* another.  A copy is what one docker cp read of its item, the newest one *)
(* is what a restore lays over the item, and copies go from the oldest on, *)
(* never the last one, unless users delete them.                           *)
(***************************************************************************)
EXTENDS DockerCp

CONSTANTS
  Workers,
  Items,
  Dirs,
  DirOf,      \* item -> the subdirectory of its copies
  Deletable,  \* the subdirectories whose copies users delete
  MayTear     \* may a restore, or a download before it, be cut short?

VARIABLES
  container,  \* item -> its data
  snapshot,   \* worker -> the copy it has made and not yet stored, if any
  fetched,    \* worker -> the copy it has fetched and not yet put back, if any
  vault       \* subdirectory -> its copies

vvars == <<container, snapshot, fetched, vault>>

CopyOf(i, data) == [item |-> i, data |-> data]
IsNewest(e, copies) == e \in copies /\ \A f \in copies \ {e} : f.at < e.at
IsFirst(e, copies) == e \in copies /\ \A f \in copies \ {e} : e.at < f.at

VInit ==
  /\ container \in [Items -> Contents]
  /\ snapshot = [w \in Workers |-> {}]
  /\ fetched = [w \in Workers |-> {}]
  /\ vault = [d \in Dirs |-> {}]

Snapshot(w, i) ==
  /\ \E c \in CopiedOut(i, container[i]) : snapshot' = [snapshot EXCEPT ![w] = {CopyOf(i, c)}]
  /\ UNCHANGED <<container, fetched, vault>>

\* The copy becomes the newest of its subdirectory.
Store(w) ==
  /\ \E s \in snapshot[w] : LET d == DirOf[s.item] IN
       \E e \in vault'[d] : /\ e.data = s.data
                            /\ \A f \in vault[d] : f.at < e.at
                            /\ vault' = [vault EXCEPT ![d] = @ \cup {e}]
  /\ snapshot' = [snapshot EXCEPT ![w] = {}]
  /\ UNCHANGED <<container, fetched>>

\* The oldest copy goes, while a newer one stays.
Expire(d) ==
  /\ \E e \in vault[d] : /\ IsFirst(e, vault[d])
                         /\ d \in Deletable \/ vault[d] # {e}
                         /\ vault' = [vault EXCEPT ![d] = @ \ {e}]
  /\ UNCHANGED <<container, snapshot, fetched>>

Delete(d) ==
  /\ d \in Deletable
  /\ \E e \in vault[d] : vault' = [vault EXCEPT ![d] = @ \ {e}]
  /\ UNCHANGED <<container, snapshot, fetched>>

Fetch(w, i) ==
  /\ \E e \in vault[DirOf[i]] :
        /\ IsNewest(e, vault[DirOf[i]])
        /\ fetched' = [fetched EXCEPT ![w] = {CopyOf(i, e.data)}]
  /\ UNCHANGED <<container, snapshot, vault>>

PutBack(w) ==
  /\ \E s \in fetched[w] : \E c \in CopiedIn(s.item, container[s.item], s.data) :
        container' = [container EXCEPT ![s.item] = c]
  /\ fetched' = [fetched EXCEPT ![w] = {}]
  /\ UNCHANGED <<snapshot, vault>>

\* A restore is cut short, or what it puts back is.
Tear(w, i) ==
  /\ MayTear
  /\ container' = [container EXCEPT ![i] = Torn]
  /\ fetched' = [fetched EXCEPT ![w] = {}]
  /\ UNCHANGED <<snapshot, vault>>

\* Runs end without storing or putting back what they hold.
LetGo(ws) ==
  /\ UNCHANGED <<container, vault>>
  /\ snapshot' = [w \in Workers |-> IF w \in ws THEN {} ELSE snapshot[w]]
  /\ fetched' = [w \in Workers |-> IF w \in ws THEN {} ELSE fetched[w]]

Write(i, c) ==
  /\ container' = [container EXCEPT ![i] = c]
  /\ UNCHANGED <<snapshot, fetched, vault>>

VNext ==
  \/ \E ws \in SUBSET Workers : LetGo(ws)
  \/ \E i \in Items, c \in Contents : Write(i, c)
  \/ \E w \in Workers : \/ Store(w) \/ PutBack(w)
                        \/ \E i \in Items : Snapshot(w, i) \/ Fetch(w, i) \/ Tear(w, i)
  \/ \E d \in Dirs : Expire(d) \/ Delete(d)

VSpec == VInit /\ [][VNext]_vvars
=============================================================================
