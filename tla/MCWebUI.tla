------------------------------ MODULE MCWebUI ------------------------------
(***************************************************************************)
(* Small instances of WebUI for TLC.                                       *)
(***************************************************************************)
EXTENDS WebUI

\* The program starts with a key in its form, with one in a file, connecting by
\* key or by password, or with no key at all.
Starts ==
  {[auth |-> "key", value |-> 1, path |-> None],
   [auth |-> "key", value |-> None, path |-> KeyFile],
   [auth |-> "password", value |-> None, path |-> KeyFile],
   [auth |-> "password", value |-> None, path |-> None]}
=============================================================================
