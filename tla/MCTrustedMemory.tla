--------------------------- MODULE MCTrustedMemory ---------------------------
(***************************************************************************)
(* A scope of two claims that contradict each other, each stated by the    *)
(* user and inferred: four rows.                                           *)
(***************************************************************************)
EXTENDS TrustedMemory
=============================================================================
