---------------------------- MODULE ShellProcess ----------------------------
(***************************************************************************)
(* A command of the shell tool: tools/shell.go starts it with a timeout,     *)
(* platform/process_unix.go runs it as the leader of a process group.  The   *)
(* command forks, its children outlive it, keep its output open, ignore the  *)
(* request to terminate or leave the group, while its time runs out or the   *)
(* user cancels.                                                             *)
(*                                                                           *)
(* A timer may expire at any moment: nothing here depends on how long a      *)
(* grace period is.                                                          *)
(***************************************************************************)
EXTENDS Naturals, FiniteSets

CONSTANTS
  Child          \* processes the command may start

VARIABLES
  runner,        \* where RunProcess is
  ended,         \* why the context of the call has ended: "no", "timeout", "cancelled"
  process,       \* state of the command and of its descendants
  stubborn,      \* those that ignore SIGTERM
  waited,        \* the channel done: "no", or how Wait returned
  result         \* what RunProcess has returned

shellVars == <<runner, ended, process, stubborn, waited, result>>

Leader  == "leader"
Member  == Child \cup {Leader}
NoResult == [forced |-> FALSE, status |-> "none"]

ShellInit ==
  /\ runner = "start" /\ ended = "no"
  /\ process = [p \in Member |-> "none"] /\ stubborn \in SUBSET Member
  /\ waited = "no" /\ result = NoResult

In(state) == {p \in Member : process[p] = state}
Group     == In("grouped")
Living    == Group \cup In("escaped")

Signalled(victims) == [p \in Member |-> IF p \in victims THEN "gone" ELSE process[p]]

-----------------------------------------------------------------------------
(***************************************************************************)
(* The command and its descendants.                                          *)
(***************************************************************************)

Fork(p) ==
  /\ p \in Group /\ \E child \in In("none") \ {Leader} : process' = [process EXCEPT ![child] = "grouped"]
  /\ UNCHANGED <<runner, ended, stubborn, waited, result>>

Exit(p) ==
  /\ p \in Living /\ process' = Signalled({p})
  /\ UNCHANGED <<runner, ended, stubborn, waited, result>>

\* A descendant makes a group of its own.
Escape(p) ==
  /\ p \in Group \ {Leader} /\ process' = [process EXCEPT ![p] = "escaped"]
  /\ UNCHANGED <<runner, ended, stubborn, waited, result>>

EndContext ==
  /\ ended = "no" /\ ended' \in {"timeout", "cancelled"}
  /\ UNCHANGED <<runner, process, stubborn, waited, result>>

-----------------------------------------------------------------------------
(***************************************************************************)
(* RunProcess.                                                               *)
(***************************************************************************)

Start ==
  /\ runner = "start"
  /\ IF ended = "no" THEN runner' = "waiting" /\ process' = [process EXCEPT ![Leader] = "grouped"] /\ UNCHANGED result
     ELSE runner' = "returned" /\ result' = [NoResult EXCEPT !.status = ended] /\ UNCHANGED process
  /\ UNCHANGED <<ended, stubborn, waited>>

\* command.Wait: the leader is gone, and the output is closed or, with
\* descendants that hold it, WaitDelay has passed.
Wait ==
  /\ waited = "no" /\ process[Leader] = "gone"
  /\ waited' \in (IF Living = {} THEN {"exited"} ELSE {"exited", "delayed"})
  /\ UNCHANGED <<runner, ended, process, stubborn, result>>

\* shellResult: a call whose context has ended while it ran has its error.
Return(forced, status) == runner' = "returned" /\ result' = [forced |-> forced, status |-> status]

Exited ==
  /\ runner = "waiting" /\ waited # "no"
  /\ runner' = "probe"
  /\ UNCHANGED <<ended, process, stubborn, waited, result>>

Terminate ==
  /\ runner = "waiting" /\ ended # "no"
  /\ process' = Signalled(Group \ stubborn)
  /\ runner' = "terminated"
  /\ UNCHANGED <<ended, stubborn, waited, result>>

ExitedAfterTerm ==
  /\ runner = "terminated" /\ waited # "no"
  /\ runner' = "probe terminated"
  /\ UNCHANGED <<ended, process, stubborn, waited, result>>

\* The grace period is over: SIGKILL, then Wait again.
Kill ==
  /\ runner = "terminated" /\ process' = Signalled(Group)
  /\ runner' = "killed"
  /\ UNCHANGED <<ended, stubborn, waited, result>>

ReturnKilled ==
  /\ runner = "killed" /\ waited # "no"
  /\ Return(TRUE, ended)
  /\ UNCHANGED <<ended, process, stubborn, waited>>

\* What RunProcess returns after cleanupProcessGroup.
Cleaned(forced) ==
  IF runner \in {"probe", "grace"} THEN Return(forced \/ waited = "delayed", "completed") ELSE Return(TRUE, ended)

\* mutant: a group whose leader has exited is taken for an empty one
LeaderRuns == process[Leader] = "grouped"

GroupExists == Group # {}

\* cleanupProcessGroup: signal 0, SIGTERM, the grace period, SIGKILL.
Probe ==
  /\ runner \in {"probe", "probe terminated"}
  /\ IF GroupExists
     THEN /\ process' = Signalled(Group \ stubborn)
          /\ runner' = IF runner = "probe" THEN "grace" ELSE "grace terminated"
          /\ UNCHANGED result
     ELSE Cleaned(FALSE) /\ UNCHANGED process
  /\ UNCHANGED <<ended, stubborn, waited>>

KillGroup ==
  /\ runner \in {"grace", "grace terminated"}
  /\ process' = Signalled(Group)
  /\ Cleaned(TRUE)
  /\ UNCHANGED <<ended, stubborn, waited>>

RunnerStep ==
  Start \/ Exited \/ Terminate \/ ExitedAfterTerm \/ Kill \/ ReturnKilled \/ Probe \/ KillGroup

ShellNext ==
  \/ RunnerStep \/ Wait \/ EndContext
  \/ \E p \in Member : Fork(p) \/ Exit(p) \/ Escape(p)

ShellSpec == ShellInit /\ [][ShellNext]_shellVars

-----------------------------------------------------------------------------
(***************************************************************************)
(* When the tool returns, no process of the command's group is left, though  *)
(* members forked at any moment of the shutdown and some ignore SIGTERM;     *)
(* and a command is reported as stopped only for the reason its context      *)
(* ended for.                                                                *)
(***************************************************************************)
NothingLeftRunning ==
  runner = "returned" =>
    /\ Group = {}
    /\ result.status # "completed" => ended = result.status
=============================================================================
