--------------------------- MODULE SessionLedger ---------------------------
(***************************************************************************)
(* The session event store of internal/session: the tables sessions,       *)
(* commands, runs, events and context_messages, and the application        *)
(* processes that write them.                                              *)
(*                                                                         *)
(* Every operation of SQLiteStore is one immediate write transaction on    *)
(* one database file, so each is one action here.  A process is one        *)
(* invocation of the program.  What it remembers between transactions (the *)
(* positions an analysis read, EventSink.lastSeq, ContextRecorder.last and *)
(* Emitter.seq) may be stale when it is used, because other invocations    *)
(* write the same file.  A process may stop anywhere: it returns, is       *)
(* cancelled or is killed, and only the tables survive.                    *)
(*                                                                         *)
(* A run command owns exactly one run, so the run of command c is c.  The  *)
(* commands of kind session.rewind own no run and are modelled in          *)
(* PatchJournal.                                                           *)
(***************************************************************************)
EXTENDS Naturals, Sequences

CONSTANTS
  Process,      \* invocations of the program
  Command,      \* command ids
  Session,      \* session ids
  Payload,      \* kind, payload digest and project of a submission
  None,         \* no command, session or payload
  MaxSeq,       \* bound: events of one session
  MaxOrdinal,   \* bound: private context messages of one session
  MaxRunSeq     \* bound: events one Emitter numbers

ASSUME NoneIsNoId ==
  /\ None \notin Command
  /\ None \notin Session
  /\ None \notin Payload

ASSUME BoundsAreNaturals ==
  /\ MaxSeq \in Nat
  /\ MaxOrdinal \in Nat
  /\ MaxRunSeq \in Nat

VARIABLES
  sessionStatus,  \* sessions.status
  lastSeq,        \* sessions.last_seq
  cmdStatus,      \* commands.status
  cmdPayload,     \* commands.kind and commands.payload_sha256
  cmdSession,     \* commands.session_id, which is runs.session_id
  resultSeq,      \* commands.result_seq, 0 when NULL
  runStatus,      \* runs.status of the command's run
  lastRunSeq,     \* runs.last_run_seq
  events,         \* the rows of events
  context,        \* context_messages in ordinal order: the run that wrote each
  proc,           \* what each process remembers
  starts,         \* history: runtimes constructed for a command
  earlier,        \* history: runs of the session when a run was registered
  base            \* history: positions a run took over from (AfterSeq, ordinal)

sessionVars == <<sessionStatus, lastSeq>>
commandVars == <<cmdStatus, cmdPayload, cmdSession, resultSeq>>
runVars     == <<runStatus, lastRunSeq>>
historyVars == <<starts, earlier, base>>
vars == <<sessionVars, commandVars, runVars, events, context, proc, historyVars>>

-----------------------------------------------------------------------------

\* run.completed is two kinds here: terminalCommandStatus tells a completed
\* run without denied tools from one with some.
Terminal == {"completed", "denied", "failed", "cancelled"}
Kind     == Terminal \cup {"fact"}

\* Mutant: the event's outcome is stored as it is.
TerminalStatusRaw(k) == k

TerminalStatus(k) == IF k = "denied" THEN "completed" ELSE k

\* Mutant: denied tools are not looked at.
TerminalCommandStatusCoarse(k) ==
  CASE k \in {"completed", "denied"} -> "applied"
    [] k = "failed"                  -> "failed"
    [] OTHER                         -> "interrupted"

TerminalCommandStatus(k) ==
  CASE k = "completed" -> "applied"
    [] k = "denied"    -> "rejected"
    [] k = "failed"    -> "failed"
    [] OTHER           -> "interrupted"

SessionStatus == {"none", "active", "completed", "failed", "cancelled"}
OpenStatus    == {"accepted", "running"}
SettledStatus == {"applied", "rejected", "failed", "interrupted"}
RunStatus     == {"none", "running", "completed", "failed", "cancelled", "interrupted"}
Phase         == {"idle", "viewed", "analyzed", "begun", "running", "replaying"}

Event == [session : Session, seq : Nat, cmd : Command, runSeq : Nat, kind : Kind]

ProcessState ==
  [pc : Phase, cmd : Command \cup {None}, session : Session \cup {None},
   lastSeq : Nat, ordinal : Nat, runSeq : Nat]

Idle == [pc |-> "idle", cmd |-> None, session |-> None, lastSeq |-> 0, ordinal |-> 0, runSeq |-> 0]

TypeOK ==
  /\ sessionStatus \in [Session -> SessionStatus]
  /\ lastSeq \in [Session -> Nat]
  /\ cmdStatus \in [Command -> {"none"} \cup OpenStatus \cup SettledStatus]
  /\ cmdPayload \in [Command -> Payload \cup {None}]
  /\ cmdSession \in [Command -> Session \cup {None}]
  /\ resultSeq \in [Command -> Nat]
  /\ runStatus \in [Command -> RunStatus]
  /\ lastRunSeq \in [Command -> Nat]
  /\ events \subseteq Event
  /\ context \in [Session -> Seq(Command)]
  /\ proc \in [Process -> ProcessState]
  /\ starts \in [Command -> Nat]
  /\ earlier \in [Command -> SUBSET Command]
  /\ base \in [Command -> [seq : Nat, ord : Nat]]

Init ==
  /\ sessionStatus = [s \in Session |-> "none"]
  /\ lastSeq = [s \in Session |-> 0]
  /\ cmdStatus = [c \in Command |-> "none"]
  /\ cmdPayload = [c \in Command |-> None]
  /\ cmdSession = [c \in Command |-> None]
  /\ resultSeq = [c \in Command |-> 0]
  /\ runStatus = [c \in Command |-> "none"]
  /\ lastRunSeq = [c \in Command |-> 0]
  /\ events = {}
  /\ context = [s \in Session |-> <<>>]
  /\ proc = [p \in Process |-> Idle]
  /\ starts = [c \in Command |-> 0]
  /\ earlier = [c \in Command |-> {}]
  /\ base = [c \in Command |-> [seq |-> 0, ord |-> 0]]

-----------------------------------------------------------------------------
(* The conditions the transactions check.                                  *)

\* Mutant: the position is not compared.
AtPositionUnchecked(s, seq) == sessionStatus[s] # "none"

\* WHERE id = ? AND last_seq = ?: the caller's position is the current one.
AtPosition(s, seq) == sessionStatus[s] # "none" /\ lastSeq[s] = seq

\* Mutant: an interrupted run may still append.
RunAcceptsInterrupted(c, runSeq) == lastRunSeq[c] < runSeq

\* WHERE status = 'running' AND last_run_seq < ?.
RunAccepts(c, runSeq) == runStatus[c] = "running" /\ lastRunSeq[c] < runSeq

\* The context recorder's ordinal pin, and the trigger that refuses a message
\* of a run that is no longer running.
ContextAccepts(c, s, ordinal) ==
  /\ Len(context[s]) = ordinal
  /\ runStatus[c] = "running"

\* The commands of a session, each with its one run.
Runs(s) == {c \in Command : cmdSession[c] = s}

\* The rows a resume interrupts: every run of the session that still counts as
\* running, and every command that is still open.
StaleRuns(s)     == {c \in Runs(s) : runStatus[c] = "running"}
StaleCommandsAccepted(s) == {c \in Runs(s) : cmdStatus[c] = "accepted"}  \* mutant: not the running one
StaleCommandsAll(s)      == Runs(s)                                      \* mutant: the settled ones too
StaleCommands(s) == {c \in Runs(s) : cmdStatus[c] \in OpenStatus}

\* Inserting the command and its run, and constructing the runtime for it.
Register(p, c, pl, s, seq, ord) ==
  /\ cmdPayload' = [cmdPayload EXCEPT ![c] = pl]
  /\ cmdSession' = [cmdSession EXCEPT ![c] = s]
  /\ starts' = [starts EXCEPT ![c] = @ + 1]
  /\ earlier' = [earlier EXCEPT ![c] = Runs(s)]
  /\ base' = [base EXCEPT ![c] = [seq |-> seq, ord |-> ord]]
  /\ proc' = [proc EXCEPT ![p] =
       [pc |-> "begun", cmd |-> c, session |-> s, lastSeq |-> seq, ordinal |-> ord, runSeq |-> 0]]

-----------------------------------------------------------------------------
(* Submitting a command.                                                   *)

\* exec and the interactive task: a command id nobody used opens a session of
\* its own ("ses_" and the fresh run id) with an accepted command and a run.
BeginCommandRun(p, c, pl, s) ==
  /\ proc[p].pc = "idle"
  /\ cmdStatus[c] = "none"
  /\ sessionStatus[s] = "none"
  /\ Register(p, c, pl, s, 0, 0)
  /\ sessionStatus' = [sessionStatus EXCEPT ![s] = "active"]
  /\ cmdStatus' = [cmdStatus EXCEPT ![c] = "accepted"]
  /\ runStatus' = [runStatus EXCEPT ![c] = "running"]
  /\ UNCHANGED <<lastSeq, resultSeq, lastRunSeq, events, context>>

\* A known command id with the same kind, payload and project: the stored
\* facts are shown again and nothing is run.  With another payload the answer
\* is ErrCommandConflict and nothing happens at all.
ReplayExistingCommand(p, c, pl) ==
  /\ proc[p].pc \in {"idle", "analyzed"}
  /\ cmdStatus[c] # "none"
  /\ cmdPayload[c] = pl
  /\ proc' = [proc EXCEPT ![p] = [Idle EXCEPT !.pc = "replaying", !.cmd = c]]
  /\ UNCHANGED <<sessionVars, commandVars, runVars, events, context, historyVars>>

\* session resume reads the public facts first and the private context later.
ViewSession(p, s) ==
  /\ proc[p].pc = "idle"
  /\ sessionStatus[s] # "none"
  /\ proc' = [proc EXCEPT ![p] = [Idle EXCEPT !.pc = "viewed", !.session = s,
                                              !.lastSeq = lastSeq[s]]]
  /\ UNCHANGED <<sessionVars, commandVars, runVars, events, context, historyVars>>

\* A session without context is not resumable.
LoadContext(p) ==
  LET s == proc[p].session IN
  /\ proc[p].pc = "viewed"
  /\ context[s] # <<>>
  /\ proc' = [proc EXCEPT ![p].pc = "analyzed", ![p].ordinal = Len(context[s])]
  /\ UNCHANGED <<sessionVars, commandVars, runVars, events, context, historyVars>>

\* Both positions of the analysis are checked again under the write
\* transaction.  Whatever still runs in the session is interrupted there, and
\* the new command and run take its place.
BeginResumeCommandRun(p, c, pl) ==
  LET s == proc[p].session IN
  /\ proc[p].pc = "analyzed"
  /\ cmdStatus[c] = "none"
  /\ AtPosition(s, proc[p].lastSeq)
  /\ Len(context[s]) = proc[p].ordinal
  /\ Register(p, c, pl, s, proc[p].lastSeq, proc[p].ordinal)
  /\ sessionStatus' = [sessionStatus EXCEPT ![s] = "active"]
  /\ cmdStatus' = [d \in Command |-> IF d = c THEN "accepted"
                                     ELSE IF d \in StaleCommands(s) THEN "interrupted"
                                     ELSE cmdStatus[d]]
  /\ runStatus' = [d \in Command |-> IF d = c THEN "running"
                                     ELSE IF d \in StaleRuns(s) THEN "interrupted"
                                     ELSE runStatus[d]]
  /\ UNCHANGED <<lastSeq, resultSeq, lastRunSeq, events, context>>

\* The provider, a tool, the policy or a recorder cannot be built: the command
\* is closed without a terminal event.  A command that is not accepted any more
\* was taken over by a resume: ErrCommandConflict, nothing changes (Stop).
RejectUnstartedCommand(p) ==
  LET c == proc[p].cmd
      s == proc[p].session
  IN
  /\ proc[p].pc = "begun"
  /\ cmdStatus[c] = "accepted"
  /\ cmdStatus' = [cmdStatus EXCEPT ![c] = "rejected"]
  /\ runStatus' = [runStatus EXCEPT ![c] = IF @ = "running" THEN "failed" ELSE @]
  /\ sessionStatus' = [sessionStatus EXCEPT ![s] = "failed"]
  /\ proc' = [proc EXCEPT ![p] = Idle]
  /\ UNCHANGED <<lastSeq, cmdPayload, cmdSession, resultSeq, lastRunSeq,
                 events, context, historyVars>>

\* The recorders open.  A context that moved since the analysis is refused by
\* NewContextRecorderAt, which leaves only RejectUnstartedCommand.
OpenRecorders(p) ==
  /\ proc[p].pc = "begun"
  /\ Len(context[proc[p].session]) = proc[p].ordinal
  /\ proc' = [proc EXCEPT ![p].pc = "running"]
  /\ UNCHANGED <<sessionVars, commandVars, runVars, events, context, historyVars>>

-----------------------------------------------------------------------------
(* A running agent.                                                        *)

\* SQLiteStore.Append of one record: the event's row and the positions of
\* session and run, all or nothing.
AppendRecord(p, k) ==
  LET c == proc[p].cmd
      s == proc[p].session
      n == proc[p].lastSeq + 1
      r == proc[p].runSeq + 1
  IN
  /\ proc[p].pc = "running"
  /\ n <= MaxSeq /\ r <= MaxRunSeq
  /\ AtPosition(s, proc[p].lastSeq)
  /\ RunAccepts(c, r)
  /\ lastSeq' = [lastSeq EXCEPT ![s] = n]
  /\ lastRunSeq' = [lastRunSeq EXCEPT ![c] = r]
  /\ events' = events \cup {[session |-> s, seq |-> n, cmd |-> c, runSeq |-> r, kind |-> k]}
  /\ UNCHANGED <<cmdPayload, cmdSession, context, historyVars>>

\* EventSink.Emit of a durable event.  The first one moves the command on.
EmitFact(p) ==
  LET c == proc[p].cmd IN
  /\ AppendRecord(p, "fact")
  /\ cmdStatus' = [cmdStatus EXCEPT ![c] = IF @ = "accepted" THEN "running" ELSE @]
  /\ proc' = [proc EXCEPT ![p].lastSeq = @ + 1, ![p].runSeq = @ + 1]
  /\ UNCHANGED <<runStatus, sessionStatus, resultSeq>>

\* A terminal event closes run, session and command in the same transaction,
\* and Run returns.
EmitTerminal(p, k) ==
  LET c == proc[p].cmd
      s == proc[p].session
  IN
  /\ AppendRecord(p, k)
  /\ cmdStatus[c] \in OpenStatus
  /\ runStatus' = [runStatus EXCEPT ![c] = TerminalStatus(k)]
  /\ sessionStatus' = [sessionStatus EXCEPT ![s] = TerminalStatus(k)]
  /\ cmdStatus' = [cmdStatus EXCEPT ![c] = TerminalCommandStatus(k)]
  /\ resultSeq' = [resultSeq EXCEPT ![c] = proc[p].lastSeq + 1]
  /\ proc' = [proc EXCEPT ![p] = Idle]

\* Append refuses the record, or the file is busy or full: the transaction
\* leaves no trace, but Emitter.seq has moved on.
EmitFails(p) ==
  /\ proc[p].pc = "running"
  /\ proc[p].runSeq < MaxRunSeq
  /\ proc' = [proc EXCEPT ![p].runSeq = @ + 1]
  /\ UNCHANGED <<sessionVars, commandVars, runVars, events, context, historyVars>>

\* ContextRecorder.RecordMessage.
RecordMessage(p) ==
  LET c == proc[p].cmd
      s == proc[p].session
  IN
  /\ proc[p].pc = "running"
  /\ Len(context[s]) < MaxOrdinal
  /\ ContextAccepts(c, s, proc[p].ordinal)
  /\ context' = [context EXCEPT ![s] = Append(@, c)]
  /\ proc' = [proc EXCEPT ![p].ordinal = @ + 1]
  /\ UNCHANGED <<sessionVars, commandVars, runVars, events, historyVars>>

\* The invocation ends: an error returned without a terminal event, a kill, a
\* finished replay, a refused resume.  The tables stay as they are.
Stop(p) ==
  /\ proc[p].pc # "idle"
  /\ proc' = [proc EXCEPT ![p] = Idle]
  /\ UNCHANGED <<sessionVars, commandVars, runVars, events, context, historyVars>>

-----------------------------------------------------------------------------

Submit(p) ==
  \E c \in Command, pl \in Payload :
    \/ \E s \in Session : BeginCommandRun(p, c, pl, s)
    \/ ReplayExistingCommand(p, c, pl)
    \/ BeginResumeCommandRun(p, c, pl)

Next ==
  \E p \in Process :
    \/ Submit(p)
    \/ \E s \in Session : ViewSession(p, s)
    \/ LoadContext(p)
    \/ RejectUnstartedCommand(p)
    \/ OpenRecorders(p)
    \/ EmitFact(p)
    \/ \E k \in Terminal : EmitTerminal(p, k)
    \/ EmitFails(p)
    \/ RecordMessage(p)
    \/ Stop(p)

Spec == Init /\ [][Next]_vars

-----------------------------------------------------------------------------
(* What the ledger guarantees.                                             *)

\* The log of a session is the sequence 1..last_seq without gap or duplicate,
\* although every writer numbers its events from its own copy of the position,
\* and within one run the order of the log is the order of emission.
SeqIntegrity ==
  /\ \A s \in Session : \A n \in 1..lastSeq[s] :
       \E e \in events : e.session = s /\ e.seq = n
  /\ \A e \in events : e.seq \in 1..lastSeq[e.session]
  /\ \A e, f \in events : e.session = f.session /\ e.seq = f.seq => e = f
  /\ \A e, f \in events : e.cmd = f.cmd /\ e.seq < f.seq => e.runSeq < f.runSeq

\* Once a resume has taken a session over, no run that was there before adds an
\* event to it: a process that is still alive and still believes it owns the run
\* is refused.  The facts of the new run lie behind the position it analyzed.
ResumeFencesEvents ==
  \A e \in events, c \in Command :
    /\ e.cmd \in earlier[c] => e.seq <= base[c].seq
    /\ e.cmd = c => e.seq > base[c].seq

\* The same of the private context: what the resumed model is shown is exactly
\* the context the safety analysis has seen, followed by the new run's own.
ResumeFencesContext ==
  \A s \in Session, c \in Command : \A i \in 1..Len(context[s]) :
    /\ context[s][i] \in earlier[c] => i <= base[c].ord
    /\ context[s][i] = c => i > base[c].ord

\* A run that was overtaken by a resume writes neither log of the session, and
\* the resumed one writes both behind what its analysis read.
OvertakenRunsAreFenced == ResumeFencesEvents /\ ResumeFencesContext

\* The three denormalized statuses never disagree: a run is live exactly while
\* its command is open, a session has at most one live run and is active exactly
\* while it has one.
LedgerAgrees ==
  /\ \A c \in Command : runStatus[c] = "running" <=> cmdStatus[c] \in OpenStatus
  /\ \A c, d \in Command : cmdSession[c] = cmdSession[d] /\ runStatus[c] = "running"
                             /\ runStatus[d] = "running" => c = d
  /\ \A s \in Session : sessionStatus[s] = "active" <=> StaleRuns(s) # {}

\* result_seq is the one terminal event of the run, nothing of the run follows
\* it, and the outcome a retry is told agrees with the log it is shown.
ResultNamesItsEvent ==
  \A c \in Command :
    LET closing == {e \in events : e.cmd = c /\ e.kind \in Terminal} IN
    /\ resultSeq[c] # 0 <=> closing # {}
    /\ cmdStatus[c] = "applied" <=> \E e \in closing : e.kind = "completed"
    /\ \A e \in closing :
         /\ resultSeq[c] = e.seq
         /\ e.kind = "denied" => cmdStatus[c] = "rejected"
         /\ \A f \in events : f.cmd = c => f.seq <= e.seq

\* What a client is told of a command in some status.
Answer(status) ==
  CASE status = "none"         -> "unknown"
    [] status \in OpenStatus   -> "open"
    [] OTHER                   -> status

Outcomes == INSTANCE CommandOutcomes WITH
  outcome <- [c \in Command |-> Answer(cmdStatus[c])],
  executions <- starts

\* To a client the ledger is CommandOutcomes: a command id is executed at most
\* once whoever submits it again, and its answer, once given, stands.
RefinesCommandOutcomes == Outcomes!Spec
=============================================================================
