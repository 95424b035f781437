----------------------------- MODULE MCAgentRun -----------------------------
(***************************************************************************)
(* One run for TLC: the reads are one request, and so are the commands.     *)
(***************************************************************************)
EXTENDS AgentRun

MCRequest == [c \in Call |-> IF c \in Commands THEN "test" ELSE "read"]
=============================================================================
