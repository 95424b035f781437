-------------------------- MODULE MCSessionLedger --------------------------
(***************************************************************************)
(* SessionLedger on two invocations and three commands of one session: a   *)
(* command can be overtaken by a resume that is itself overtaken.  No      *)
(* transaction reads or writes the rows of another session, so one is      *)
(* enough here; the proofs hold for any number.                            *)
(***************************************************************************)
EXTENDS SessionLedger, TLC

Symmetry == Permutations(Process) \cup Permutations(Command) \cup Permutations(Session)
=============================================================================
