--------------------------- MODULE MCSessionResume ---------------------------
(***************************************************************************)
(* A session with a read, a write and a command, each its own request.      *)
(***************************************************************************)
EXTENDS SessionResume

MCRequest == [c \in Call |-> c]
=============================================================================
