-------------------------- MODULE CommandOutcomes --------------------------
(***************************************************************************)
(* What the command ledger promises to a client that submits work under an *)
(* idempotency id (a command id).  A command is executed by at most one    *)
(* runtime, it settles at most once, and its outcome never changes after   *)
(* that.  Opening a command may interrupt commands that are still open: a  *)
(* resumed session takes over from the run it finds there.                 *)
(*                                                                         *)
(* SessionLedger implements this module.                                   *)
(***************************************************************************)
EXTENDS Naturals

CONSTANT Command        \* command ids

VARIABLES
  outcome,              \* what the ledger answers about a command
  executions            \* runtimes that were constructed for a command

outcomeVars == <<outcome, executions>>

\* The answers that close a command.
Settled == {"applied", "rejected", "failed", "interrupted"}

Init ==
  /\ outcome = [c \in Command |-> "unknown"]
  /\ executions = [c \in Command |-> 0]

\* A new id is accepted once; the open commands in `taken` give way to it.
Open(c, taken) ==
  /\ outcome[c] = "unknown"
  /\ \A d \in taken : outcome[d] = "open"
  /\ outcome' = [d \in Command |-> IF d = c THEN "open"
                                   ELSE IF d \in taken THEN "interrupted"
                                   ELSE outcome[d]]
  /\ executions' = [executions EXCEPT ![c] = @ + 1]

\* An open command gets its one answer.
Settle(c, answer) ==
  /\ outcome[c] = "open"
  /\ outcome' = [outcome EXCEPT ![c] = answer]
  /\ UNCHANGED executions

Next ==
  \E c \in Command :
    \/ \E taken \in SUBSET Command : Open(c, taken)
    \/ \E answer \in Settled : Settle(c, answer)

Spec == Init /\ [][Next]_outcomeVars
=============================================================================
