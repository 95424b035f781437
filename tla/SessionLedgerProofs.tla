------------------------ MODULE SessionLedgerProofs ------------------------
(***************************************************************************)
(* What SessionLedger guarantees for any number of processes, commands and *)
(* sessions: its types, the agreement of the three status columns, the     *)
(* integrity of the log, the fence around a resumed session, and that the  *)
(* ledger implements CommandOutcomes.                                      *)
(***************************************************************************)
EXTENDS SessionLedger, TLAPS

-----------------------------------------------------------------------------
(* The inductive invariant.                                                *)

\* A command is either unknown, with nothing that refers to it, or has a row in
\* every table and one runtime.
RowsExist ==
  \A c \in Command :
    /\ starts[c] = IF cmdStatus[c] = "none" THEN 0 ELSE 1
    /\ runStatus[c] = "none" <=> cmdStatus[c] = "none"
    /\ cmdStatus[c] = "none" => /\ cmdSession[c] = None
                                /\ resultSeq[c] = 0
                                /\ \A d \in Command : c \notin earlier[d]
    /\ cmdStatus[c] # "none" => /\ cmdSession[c] \in Session
                                /\ sessionStatus[cmdSession[c]] # "none"

\* A session nobody opened is empty.
SessionsStartEmpty ==
  \A s \in Session : sessionStatus[s] = "none" => lastSeq[s] = 0 /\ context[s] = <<>>

\* What was written names the run that wrote it and the session of that run.
WritersAreKnown ==
  /\ \A e \in events : /\ cmdStatus[e.cmd] # "none"
                       /\ e.session = cmdSession[e.cmd]
                       /\ e.runSeq <= lastRunSeq[e.cmd]
  /\ \A s \in Session : \A i \in 1..Len(context[s]) :
       cmdStatus[context[s][i]] # "none" /\ cmdSession[context[s][i]] = s

\* A run that was there before another one has been interrupted or had ended,
\* and the positions it left are not behind the base of the later one.
TakenOver ==
  \A d \in Command :
    /\ \A c \in earlier[d] : runStatus[c] # "running" /\ c # d
    /\ cmdStatus[d] # "none" => /\ base[d].seq <= lastSeq[cmdSession[d]]
                                /\ base[d].ord <= Len(context[cmdSession[d]])

\* A live run has no terminal event yet, and an applied command has one.
ResultsOpen ==
  \A c \in Command : cmdStatus[c] \in OpenStatus \cup {"none"} => resultSeq[c] = 0

\* What a process remembers of the ledger was true once, and rows never go away.
MemoryIsOld ==
  \A p \in Process :
    /\ proc[p].pc \in {"begun", "running"} =>
         /\ proc[p].cmd \in Command
         /\ cmdStatus[proc[p].cmd] # "none"
         /\ proc[p].session = cmdSession[proc[p].cmd]
    /\ proc[p].pc \in {"viewed", "analyzed"} =>
         /\ proc[p].session \in Session
         /\ sessionStatus[proc[p].session] # "none"

IndInv ==
  /\ TypeOK
  /\ RowsExist
  /\ SessionsStartEmpty
  /\ WritersAreKnown
  /\ TakenOver
  /\ ResultsOpen
  /\ MemoryIsOld
  /\ LedgerAgrees
  /\ SeqIntegrity
  /\ ResumeFencesEvents
  /\ ResumeFencesContext
  /\ ResultNamesItsEvent

-----------------------------------------------------------------------------
(* Typing.                                                                 *)

\* The empty database is well typed.
LEMMA InitType == Init => TypeOK
BY NoneIsNoId DEF Init, TypeOK, SessionStatus, RunStatus, ProcessState, Phase, Idle, Event

\* The steps of a process that write no table.
QuietStep(p) ==
  \/ \E c \in Command, pl \in Payload : ReplayExistingCommand(p, c, pl)
  \/ \E s \in Session : ViewSession(p, s)
  \/ LoadContext(p)
  \/ OpenRecorders(p)
  \/ EmitFails(p)
  \/ Stop(p)

tables == <<sessionVars, commandVars, runVars, events, context, historyVars>>

\* A step of the ledger is one of six transactions or writes no table at all.
LEMMA StepCases ==
  ASSUME Next
  PROVE  \E p \in Process :
           \/ \E c \in Command, pl \in Payload, s \in Session : BeginCommandRun(p, c, pl, s)
           \/ \E c \in Command, pl \in Payload : BeginResumeCommandRun(p, c, pl)
           \/ RejectUnstartedCommand(p)
           \/ EmitFact(p)
           \/ \E k \in Terminal : EmitTerminal(p, k)
           \/ RecordMessage(p)
           \/ QuietStep(p)
BY DEF Next, Submit, QuietStep

\* A step that only reads, or only ends an invocation, leaves every table alone.
LEMMA QuietKeepsTables ==
  ASSUME NEW p \in Process, QuietStep(p)
  PROVE  UNCHANGED tables
BY DEF QuietStep, tables, ReplayExistingCommand, ViewSession, LoadContext, OpenRecorders, EmitFails, Stop

\* Every transaction writes rows of the right type.
LEMMA TypeStep == IndInv /\ [Next]_vars => TypeOK'
<1> SUFFICES ASSUME IndInv, [Next]_vars PROVE TypeOK'
  OBVIOUS
<1>a. TypeOK /\ RowsExist /\ MemoryIsOld
  BY DEF IndInv
<1>b. proc \in [Process -> ProcessState]
  BY <1>a DEF TypeOK
<1>c. /\ sessionStatus \in [Session -> SessionStatus]
      /\ cmdStatus \in [Command -> {"none"} \cup OpenStatus \cup SettledStatus]
      /\ runStatus \in [Command -> RunStatus]
  BY <1>a DEF TypeOK
<1>d. /\ cmdPayload \in [Command -> Payload \cup {None}]
      /\ cmdSession \in [Command -> Session \cup {None}]
      /\ starts \in [Command -> Nat]
      /\ earlier \in [Command -> SUBSET Command]
      /\ base \in [Command -> [seq : Nat, ord : Nat]]
  BY <1>a DEF TypeOK
<1>e. /\ lastSeq \in [Session -> Nat]
      /\ resultSeq \in [Command -> Nat]
      /\ lastRunSeq \in [Command -> Nat]
  BY <1>a DEF TypeOK
<1>f. context \in [Session -> Seq(Command)] /\ events \subseteq Event
  BY <1>a DEF TypeOK
<1>1. CASE UNCHANGED vars
  BY <1>a, <1>1 DEF TypeOK, vars, sessionVars, commandVars, runVars, historyVars
<1>2. ASSUME NEW p \in Process, NEW c \in Command, NEW pl \in Payload, NEW s \in Session,
             BeginCommandRun(p, c, pl, s)
      PROVE  TypeOK'
  <2>1. proc' \in [Process -> ProcessState]
    BY <1>b, <1>2 DEF BeginCommandRun, Register, ProcessState, Phase
  <2>2. /\ sessionStatus' \in [Session -> SessionStatus]
        /\ cmdStatus' \in [Command -> {"none"} \cup OpenStatus \cup SettledStatus]
        /\ runStatus' \in [Command -> RunStatus]
    BY <1>c, <1>2 DEF BeginCommandRun, SessionStatus, OpenStatus, RunStatus
  <2>3. /\ cmdPayload' \in [Command -> Payload \cup {None}]
        /\ cmdSession' \in [Command -> Session \cup {None}]
        /\ starts' \in [Command -> Nat]
        /\ earlier' \in [Command -> SUBSET Command]
        /\ base' \in [Command -> [seq : Nat, ord : Nat]]
    BY <1>d, <1>2 DEF BeginCommandRun, Register, Runs
  <2>4. UNCHANGED <<lastSeq, resultSeq, lastRunSeq, events, context>>
    BY <1>2 DEF BeginCommandRun
  <2> QED
    BY <1>e, <1>f, <2>1, <2>2, <2>3, <2>4 DEF TypeOK
<1>3. ASSUME NEW p \in Process, NEW c \in Command, NEW pl \in Payload,
             BeginResumeCommandRun(p, c, pl)
      PROVE  TypeOK'
  <2>0. /\ proc[p].session \in Session
        /\ proc[p].lastSeq \in Nat
        /\ proc[p].ordinal \in Nat
    BY <1>a, <1>b, <1>3 DEF BeginResumeCommandRun, MemoryIsOld, ProcessState
  <2>1. proc' \in [Process -> ProcessState]
    BY <1>b, <1>3, <2>0 DEF BeginResumeCommandRun, Register, ProcessState, Phase
  <2>2. /\ sessionStatus' \in [Session -> SessionStatus]
        /\ cmdStatus' \in [Command -> {"none"} \cup OpenStatus \cup SettledStatus]
        /\ runStatus' \in [Command -> RunStatus]
    BY <1>c, <1>3, <2>0 DEF BeginResumeCommandRun, SessionStatus, OpenStatus, RunStatus,
                            SettledStatus
  <2>3. /\ cmdPayload' \in [Command -> Payload \cup {None}]
        /\ cmdSession' \in [Command -> Session \cup {None}]
        /\ starts' \in [Command -> Nat]
        /\ earlier' \in [Command -> SUBSET Command]
        /\ base' \in [Command -> [seq : Nat, ord : Nat]]
    BY <1>d, <1>3, <2>0 DEF BeginResumeCommandRun, Register, Runs
  <2>4. UNCHANGED <<lastSeq, resultSeq, lastRunSeq, events, context>>
    BY <1>3 DEF BeginResumeCommandRun
  <2> QED
    BY <1>e, <1>f, <2>1, <2>2, <2>3, <2>4 DEF TypeOK
<1>4. ASSUME NEW p \in Process, RejectUnstartedCommand(p)
      PROVE  TypeOK'
  <2>1. proc' \in [Process -> ProcessState]
    BY <1>b, <1>4 DEF RejectUnstartedCommand, Idle, ProcessState, Phase
  <2>2. /\ sessionStatus' \in [Session -> SessionStatus]
        /\ cmdStatus' \in [Command -> {"none"} \cup OpenStatus \cup SettledStatus]
        /\ runStatus' \in [Command -> RunStatus]
    BY <1>c, <1>4 DEF RejectUnstartedCommand, SessionStatus, OpenStatus, RunStatus, SettledStatus
  <2>3. UNCHANGED <<lastSeq, cmdPayload, cmdSession, resultSeq, lastRunSeq, events, context,
                    starts, earlier, base>>
    BY <1>4 DEF RejectUnstartedCommand, historyVars
  <2> QED
    BY <1>d, <1>e, <1>f, <2>1, <2>2, <2>3 DEF TypeOK
<1>5. ASSUME NEW p \in Process, NEW k \in Kind, AppendRecord(p, k)
      PROVE  /\ lastSeq' \in [Session -> Nat]
             /\ lastRunSeq' \in [Command -> Nat]
             /\ events' \subseteq Event
             /\ UNCHANGED <<cmdPayload, cmdSession, context, starts, earlier, base>>
             /\ proc[p].lastSeq \in Nat /\ proc[p].runSeq \in Nat
  <2>1. /\ proc[p].lastSeq \in Nat
        /\ proc[p].runSeq \in Nat
    BY <1>b DEF ProcessState
  <2>2. proc[p].cmd \in Command /\ proc[p].session \in Session
    BY <1>a, <1>5 DEF AppendRecord, MemoryIsOld, RowsExist
  <2>3. lastSeq' \in [Session -> Nat] /\ lastRunSeq' \in [Command -> Nat]
    <3>1. proc[p].lastSeq + 1 \in Nat /\ proc[p].runSeq + 1 \in Nat
      BY <2>1
    <3>2. /\ lastSeq' = [lastSeq EXCEPT ![proc[p].session] = proc[p].lastSeq + 1]
          /\ lastRunSeq' = [lastRunSeq EXCEPT ![proc[p].cmd] = proc[p].runSeq + 1]
      BY <1>5 DEF AppendRecord
    <3> QED
      BY <1>e, <3>1, <3>2
  <2>4. events' \subseteq Event
    BY <1>f, <1>5, <2>1, <2>2 DEF AppendRecord, Event
  <2> QED
    BY <1>5, <2>1, <2>3, <2>4 DEF AppendRecord, historyVars
<1>6. ASSUME NEW p \in Process, EmitFact(p)
      PROVE  TypeOK'
  <2>0. "fact" \in Kind /\ AppendRecord(p, "fact")
    BY <1>6 DEF EmitFact, Kind
  <2>1. proc' \in [Process -> ProcessState]
    BY <1>b, <1>5, <1>6, <2>0 DEF EmitFact, ProcessState
  <2>2. cmdStatus' \in [Command -> {"none"} \cup OpenStatus \cup SettledStatus]
    BY <1>c, <1>6 DEF EmitFact, OpenStatus
  <2>3. UNCHANGED <<runStatus, sessionStatus, resultSeq>>
    BY <1>6 DEF EmitFact
  <2> QED
    BY <1>c, <1>d, <1>e, <1>f, <1>5, <2>0, <2>1, <2>2, <2>3 DEF TypeOK
<1>7. ASSUME NEW p \in Process, NEW k \in Terminal, EmitTerminal(p, k)
      PROVE  TypeOK'
  <2>0. k \in Kind /\ AppendRecord(p, k)
    BY <1>7 DEF EmitTerminal, Kind
  <2>1. proc' \in [Process -> ProcessState]
    BY <1>b, <1>7 DEF EmitTerminal, Idle, ProcessState, Phase
  <2>2. TerminalStatus(k) \in {"completed", "failed", "cancelled"}
    BY DEF TerminalStatus, Terminal
  <2>3. TerminalCommandStatus(k) \in SettledStatus
    BY DEF TerminalCommandStatus, SettledStatus
  <2>4. /\ sessionStatus' \in [Session -> SessionStatus]
        /\ runStatus' \in [Command -> RunStatus]
    BY <1>c, <1>7, <2>2 DEF EmitTerminal, SessionStatus, RunStatus
  <2>5. cmdStatus' \in [Command -> {"none"} \cup OpenStatus \cup SettledStatus]
    BY <1>c, <1>7, <2>3 DEF EmitTerminal
  <2>6. resultSeq' \in [Command -> Nat]
    <3>1. proc[p].lastSeq + 1 \in Nat
      BY <1>5, <2>0
    <3>2. resultSeq' = [resultSeq EXCEPT ![proc[p].cmd] = proc[p].lastSeq + 1]
      BY <1>7 DEF EmitTerminal
    <3> QED
      BY <1>e, <3>1, <3>2
  <2> QED
    BY <1>d, <1>f, <1>5, <2>0, <2>1, <2>4, <2>5, <2>6 DEF TypeOK
<1>8. ASSUME NEW p \in Process, RecordMessage(p)
      PROVE  TypeOK'
  <2>1. proc[p].cmd \in Command
    BY <1>a, <1>8 DEF RecordMessage, MemoryIsOld
  <2>2. proc' \in [Process -> ProcessState]
    <3>1. proc' = [proc EXCEPT ![p].ordinal = @ + 1]
      BY <1>8 DEF RecordMessage
    <3> QED
      BY <1>b, <3>1 DEF ProcessState
  <2>3. context' \in [Session -> Seq(Command)]
    <3>1. context' = [context EXCEPT ![proc[p].session] = Append(@, proc[p].cmd)]
      BY <1>8 DEF RecordMessage
    <3>2. proc[p].session \in Session
      BY <1>a, <1>8, <2>1 DEF RecordMessage, MemoryIsOld, RowsExist
    <3>3. Append(context[proc[p].session], proc[p].cmd) \in Seq(Command)
      BY <1>f, <2>1, <3>2
    <3> QED
      BY <1>f, <3>1, <3>3
  <2>4. UNCHANGED <<sessionStatus, lastSeq, cmdStatus, cmdPayload, cmdSession, resultSeq,
                    runStatus, lastRunSeq, events, starts, earlier, base>>
    BY <1>8 DEF RecordMessage, sessionVars, commandVars, runVars, historyVars
  <2> QED
    BY <1>c, <1>d, <1>e, <1>f, <2>2, <2>3, <2>4 DEF TypeOK
<1>9. ASSUME NEW p \in Process, QuietStep(p)
      PROVE  TypeOK'
  <2>1. proc' \in [Process -> ProcessState]
    <3>1. CASE \E c \in Command, pl \in Payload : ReplayExistingCommand(p, c, pl)
      <4>1. PICK c \in Command : proc' = [proc EXCEPT ![p] = [Idle EXCEPT !.pc = "replaying", !.cmd = c]]
        BY <3>1 DEF ReplayExistingCommand
      <4>2. [Idle EXCEPT !.pc = "replaying", !.cmd = c] \in ProcessState
        BY DEF Idle, ProcessState, Phase
      <4> QED
        BY <1>b, <4>1, <4>2
    <3>2. CASE \E s \in Session : ViewSession(p, s)
      <4>1. PICK s \in Session :
              proc' = [proc EXCEPT ![p] = [Idle EXCEPT !.pc = "viewed", !.session = s,
                                                       !.lastSeq = lastSeq[s]]]
        BY <3>2 DEF ViewSession
      <4>2. [Idle EXCEPT !.pc = "viewed", !.session = s, !.lastSeq = lastSeq[s]] \in ProcessState
        BY <1>e DEF Idle, ProcessState, Phase
      <4> QED
        BY <1>b, <4>1, <4>2
    <3>3. CASE LoadContext(p)
      <4>1. proc[p].session \in Session
        BY <1>a, <3>3 DEF LoadContext, MemoryIsOld
      <4>2. Len(context[proc[p].session]) \in Nat
        BY <1>f, <4>1
      <4> QED
        BY <1>b, <3>3, <4>2 DEF LoadContext, ProcessState, Phase
    <3>4. CASE OpenRecorders(p)
      BY <1>b, <3>4 DEF OpenRecorders, ProcessState, Phase
    <3>5. CASE EmitFails(p) \/ Stop(p)
      BY <1>b, <3>5 DEF EmitFails, Stop, Idle, ProcessState, Phase
    <3> QED
      BY <1>9, <3>1, <3>2, <3>3, <3>4, <3>5 DEF QuietStep
  <2>2. UNCHANGED tables
    BY <1>9, QuietKeepsTables
  <2> QED
    BY <1>a, <2>1, <2>2 DEF TypeOK, tables, sessionVars, commandVars, runVars, historyVars
<1> QED
  BY <1>1, <1>2, <1>3, <1>4, <1>6, <1>7, <1>8, <1>9, StepCases
-----------------------------------------------------------------------------
(* What each transaction does, row by row.                                 *)

\* The process p owns the run of command c in session s.
Owns(p, c, s) ==
  /\ c = proc[p].cmd /\ c \in Command
  /\ s = proc[p].session /\ s \in Session
  /\ cmdSession[c] = s /\ cmdStatus[c] # "none"

Registered(p, c, s, b) ==
  /\ c \in Command /\ s \in Session
  /\ cmdStatus[c] = "none"
  /\ \A d \in Command :
       /\ cmdSession'[d] = IF d = c THEN s ELSE cmdSession[d]
       /\ starts'[d] = IF d = c THEN starts[c] + 1 ELSE starts[d]
       /\ earlier'[d] = IF d = c THEN Runs(s) ELSE earlier[d]
       /\ base'[d] = IF d = c THEN b ELSE base[d]
  /\ \A t \in Session : sessionStatus'[t] = IF t = s THEN "active" ELSE sessionStatus[t]
  /\ \A q \in Process : q # p => proc'[q] = proc[q]
  /\ proc'[p].pc = "begun" /\ proc'[p].cmd = c /\ proc'[p].session = s
  /\ UNCHANGED <<lastSeq, resultSeq, lastRunSeq, events, context>>

Begun(p, c, s) ==
  /\ Registered(p, c, s, [seq |-> 0, ord |-> 0])
  /\ sessionStatus[s] = "none"
  /\ \A d \in Command :
       /\ cmdStatus'[d] = IF d = c THEN "accepted" ELSE cmdStatus[d]
       /\ runStatus'[d] = IF d = c THEN "running" ELSE runStatus[d]

Resumed(p, c, s) ==
  /\ Registered(p, c, s, [seq |-> lastSeq[s], ord |-> Len(context[s])])
  /\ sessionStatus[s] # "none"
  /\ \A d \in Command :
       /\ cmdStatus'[d] = IF d = c THEN "accepted"
                          ELSE IF cmdSession[d] = s /\ cmdStatus[d] \in OpenStatus THEN "interrupted"
                          ELSE cmdStatus[d]
       /\ runStatus'[d] = IF d = c THEN "running"
                          ELSE IF cmdSession[d] = s /\ runStatus[d] = "running" THEN "interrupted"
                          ELSE runStatus[d]

Rejected(p, c, s) ==
  /\ Owns(p, c, s)
  /\ cmdStatus[c] = "accepted"
  /\ \A d \in Command :
       /\ cmdStatus'[d] = IF d = c THEN "rejected" ELSE cmdStatus[d]
       /\ runStatus'[d] = IF d = c /\ runStatus[d] = "running" THEN "failed" ELSE runStatus[d]
  /\ \A t \in Session : sessionStatus'[t] = IF t = s THEN "failed" ELSE sessionStatus[t]
  /\ \A q \in Process : q # p => proc'[q] = proc[q]
  /\ proc'[p].pc = "idle"
  /\ UNCHANGED <<lastSeq, cmdSession, resultSeq, lastRunSeq, events, context, starts, earlier, base>>

Appended(p, c, s, e, k) ==
  /\ Owns(p, c, s)
  /\ runStatus[c] = "running"
  /\ e \in Event
  /\ e.session = s /\ e.seq = lastSeq[s] + 1 /\ e.cmd = c /\ e.kind = k
  /\ lastRunSeq[c] < e.runSeq
  /\ events' = events \cup {e}
  /\ \A t \in Session : lastSeq'[t] = IF t = s THEN lastSeq[t] + 1 ELSE lastSeq[t]
  /\ \A d \in Command : lastRunSeq'[d] = IF d = c THEN e.runSeq ELSE lastRunSeq[d]
  /\ UNCHANGED <<cmdSession, context, starts, earlier, base>>

FactAppended(p, c, s, e) ==
  /\ Appended(p, c, s, e, "fact")
  /\ \A d \in Command :
       cmdStatus'[d] = IF d = c /\ cmdStatus[d] = "accepted" THEN "running" ELSE cmdStatus[d]
  /\ UNCHANGED <<runStatus, sessionStatus, resultSeq>>
  /\ \A q \in Process : /\ proc'[q].pc = proc[q].pc
                        /\ proc'[q].cmd = proc[q].cmd
                        /\ proc'[q].session = proc[q].session

TerminalAppended(p, c, s, e, k) ==
  /\ k \in Terminal
  /\ Appended(p, c, s, e, k)
  /\ cmdStatus[c] \in OpenStatus
  /\ \A d \in Command :
       /\ runStatus'[d] = IF d = c THEN TerminalStatus(k) ELSE runStatus[d]
       /\ cmdStatus'[d] = IF d = c THEN TerminalCommandStatus(k) ELSE cmdStatus[d]
       /\ resultSeq'[d] = IF d = c THEN e.seq ELSE resultSeq[d]
  /\ \A t \in Session : sessionStatus'[t] = IF t = s THEN TerminalStatus(k) ELSE sessionStatus[t]
  /\ \A q \in Process : q # p => proc'[q] = proc[q]
  /\ proc'[p].pc = "idle"

MessageRecorded(p, c, s) ==
  /\ Owns(p, c, s)
  /\ runStatus[c] = "running"
  /\ context[s] \in Seq(Command)
  /\ \A t \in Session : context'[t] = IF t = s THEN Append(context[t], c) ELSE context[t]
  /\ \A q \in Process : /\ proc'[q].pc = proc[q].pc
                        /\ proc'[q].cmd = proc[q].cmd
                        /\ proc'[q].session = proc[q].session
  /\ UNCHANGED <<sessionStatus, lastSeq, cmdStatus, cmdSession, resultSeq, runStatus, lastRunSeq,
                 events, starts, earlier, base>>

\* A process that holds a command or a session holds one that exists.
LEMMA Owners ==
  ASSUME IndInv, NEW p \in Process
  PROVE  /\ proc[p].pc \in {"begun", "running"} => Owns(p, proc[p].cmd, proc[p].session)
         /\ proc[p].pc \in {"viewed", "analyzed"} => proc[p].session \in Session
BY DEF IndInv, MemoryIsOld, RowsExist, Owns

\* What BeginCommandRun inserts, row by row.
LEMMA BeginRows ==
  ASSUME IndInv, NEW p \in Process, NEW c \in Command, NEW pl \in Payload, NEW s \in Session,
         BeginCommandRun(p, c, pl, s)
  PROVE  Begun(p, c, s)
<1>1. TypeOK
  BY DEF IndInv
<1>2. Registered(p, c, s, [seq |-> 0, ord |-> 0])
  BY <1>1 DEF BeginCommandRun, Register, TypeOK, Registered
<1> QED
  BY <1>1, <1>2 DEF BeginCommandRun, TypeOK, Begun

\* What BeginResumeCommandRun inserts and which rows it interrupts.
LEMMA ResumeRows ==
  ASSUME IndInv, NEW p \in Process, NEW c \in Command, NEW pl \in Payload,
         BeginResumeCommandRun(p, c, pl)
  PROVE  Resumed(p, c, proc[p].session)
<1> DEFINE s == proc[p].session
<1>1. TypeOK
  BY DEF IndInv
<1>2. s \in Session
  BY Owners DEF BeginResumeCommandRun
<1>3. /\ cmdStatus[c] = "none" /\ sessionStatus[s] # "none"
      /\ proc[p].lastSeq = lastSeq[s] /\ proc[p].ordinal = Len(context[s])
      /\ UNCHANGED <<lastSeq, resultSeq, lastRunSeq, events, context>>
  BY DEF BeginResumeCommandRun, AtPosition
<1>4. \A d \in Command :
        /\ cmdStatus'[d] = IF d = c THEN "accepted"
                           ELSE IF cmdSession[d] = s /\ cmdStatus[d] \in OpenStatus THEN "interrupted"
                           ELSE cmdStatus[d]
        /\ runStatus'[d] = IF d = c THEN "running"
                           ELSE IF cmdSession[d] = s /\ runStatus[d] = "running" THEN "interrupted"
                           ELSE runStatus[d]
  BY DEF BeginResumeCommandRun, StaleRuns, StaleCommands, Runs
<1>5. \A d \in Command :
        /\ cmdSession'[d] = IF d = c THEN s ELSE cmdSession[d]
        /\ starts'[d] = IF d = c THEN starts[c] + 1 ELSE starts[d]
        /\ earlier'[d] = IF d = c THEN Runs(s) ELSE earlier[d]
        /\ base'[d] = IF d = c THEN [seq |-> lastSeq[s], ord |-> Len(context[s])] ELSE base[d]
  BY <1>1, <1>3 DEF BeginResumeCommandRun, Register, TypeOK
<1>6. /\ \A t \in Session : sessionStatus'[t] = IF t = s THEN "active" ELSE sessionStatus[t]
      /\ \A q \in Process : q # p => proc'[q] = proc[q]
      /\ proc'[p].pc = "begun" /\ proc'[p].cmd = c /\ proc'[p].session = s
  BY <1>1 DEF BeginResumeCommandRun, Register, TypeOK
<1>7. Registered(p, c, s, [seq |-> lastSeq[s], ord |-> Len(context[s])])
  BY <1>2, <1>3, <1>5, <1>6 DEF Registered
<1> QED
  BY <1>3, <1>4, <1>7 DEF Resumed

\* What RejectUnstartedCommand closes.
LEMMA RejectRows ==
  ASSUME IndInv, NEW p \in Process, RejectUnstartedCommand(p)
  PROVE  Rejected(p, proc[p].cmd, proc[p].session)
<1>1. Owns(p, proc[p].cmd, proc[p].session)
  BY Owners DEF RejectUnstartedCommand
<1> QED
  BY <1>1 DEF RejectUnstartedCommand, IndInv, TypeOK, Idle, historyVars, Owns, Rejected

\* The row Append inserts and the two positions it moves.
LEMMA AppendRows ==
  ASSUME IndInv, NEW p \in Process, NEW k \in Kind, AppendRecord(p, k)
  PROVE  \E e \in Event : /\ Appended(p, proc[p].cmd, proc[p].session, e, k)
                          /\ e.seq = proc[p].lastSeq + 1
<1> DEFINE c == proc[p].cmd
           s == proc[p].session
           e == [session |-> s, seq |-> proc[p].lastSeq + 1, cmd |-> c,
                 runSeq |-> proc[p].runSeq + 1, kind |-> k]
<1>1. Owns(p, c, s)
  BY Owners DEF AppendRecord
<1>2. proc[p].lastSeq = lastSeq[s] /\ proc[p].runSeq \in Nat /\ proc[p].lastSeq \in Nat
  BY DEF AppendRecord, AtPosition, IndInv, TypeOK, ProcessState
<1>3. e \in Event
  BY <1>1, <1>2 DEF Event, Owns
<1>4. Appended(p, c, s, e, k)
  BY <1>1, <1>2, <1>3 DEF AppendRecord, RunAccepts, IndInv, TypeOK, historyVars, Owns, Appended
<1> QED
  BY <1>3, <1>4

\* A fact that does not end the run: Append, and the command counts as running.
LEMMA FactRows ==
  ASSUME IndInv, NEW p \in Process, EmitFact(p)
  PROVE  \E e \in Event : FactAppended(p, proc[p].cmd, proc[p].session, e)
<1>1. PICK e \in Event : Appended(p, proc[p].cmd, proc[p].session, e, "fact")
  BY AppendRows DEF EmitFact, Kind
<1>2. /\ \A d \in Command :
           cmdStatus'[d] = IF d = proc[p].cmd /\ cmdStatus[d] = "accepted" THEN "running"
                           ELSE cmdStatus[d]
      /\ UNCHANGED <<runStatus, sessionStatus, resultSeq>>
  BY DEF EmitFact, IndInv, TypeOK
<1>3. \A q \in Process : /\ proc'[q].pc = proc[q].pc
                         /\ proc'[q].cmd = proc[q].cmd
                         /\ proc'[q].session = proc[q].session
  BY DEF EmitFact, IndInv, TypeOK, ProcessState
<1> QED
  BY <1>1, <1>2, <1>3 DEF FactAppended

\* A terminal fact: Append, and run, session and command are closed with it.
LEMMA TerminalRows ==
  ASSUME IndInv, NEW p \in Process, NEW k \in Terminal, EmitTerminal(p, k)
  PROVE  \E e \in Event : TerminalAppended(p, proc[p].cmd, proc[p].session, e, k)
<1>1. PICK e \in Event : /\ Appended(p, proc[p].cmd, proc[p].session, e, k)
                         /\ e.seq = proc[p].lastSeq + 1
  BY AppendRows DEF EmitTerminal, Kind
<1> QED
  BY <1>1 DEF EmitTerminal, IndInv, TypeOK, Idle, TerminalAppended

\* A private message: one more ordinal of the run's own session.
LEMMA MessageRows ==
  ASSUME IndInv, NEW p \in Process, RecordMessage(p)
  PROVE  MessageRecorded(p, proc[p].cmd, proc[p].session)
<1>1. Owns(p, proc[p].cmd, proc[p].session)
  BY Owners DEF RecordMessage
<1>2. \A q \in Process : /\ proc'[q].pc = proc[q].pc
                         /\ proc'[q].cmd = proc[q].cmd
                         /\ proc'[q].session = proc[q].session
  BY DEF RecordMessage, IndInv, TypeOK, ProcessState
<1> QED
  BY <1>1, <1>2 DEF RecordMessage, ContextAccepts, IndInv, TypeOK, Owns, MessageRecorded,
                    sessionVars, commandVars, runVars, historyVars

\* The step of any process, by its effect on the tables.
LEMMA Effects ==
  ASSUME IndInv, [Next]_vars
  PROVE  \/ UNCHANGED tables
         \/ \E p \in Process, c \in Command, s \in Session :
              \/ Begun(p, c, s)
              \/ Resumed(p, c, s)
              \/ Rejected(p, c, s)
              \/ \E e \in Event : FactAppended(p, c, s, e)
              \/ \E e \in Event, k \in Terminal : TerminalAppended(p, c, s, e, k)
              \/ MessageRecorded(p, c, s)
<1>1. CASE UNCHANGED vars
  BY <1>1 DEF vars, tables
<1>2. ASSUME NEW p \in Process, QuietStep(p)
      PROVE  UNCHANGED tables
  BY <1>2, QuietKeepsTables
<1>3. ASSUME NEW p \in Process, NEW c \in Command, NEW pl \in Payload, NEW s \in Session,
             BeginCommandRun(p, c, pl, s)
      PROVE  Begun(p, c, s)
  BY <1>3, BeginRows
<1>4. ASSUME NEW p \in Process, NEW c \in Command, NEW pl \in Payload, BeginResumeCommandRun(p, c, pl)
      PROVE  \E s \in Session : Resumed(p, c, s)
  BY <1>4, ResumeRows DEF Resumed, Registered
<1>5. ASSUME NEW p \in Process, RejectUnstartedCommand(p)
      PROVE  \E c \in Command, s \in Session : Rejected(p, c, s)
  BY <1>5, RejectRows DEF Rejected, Owns
<1>6. ASSUME NEW p \in Process, EmitFact(p)
      PROVE  \E c \in Command, s \in Session, e \in Event : FactAppended(p, c, s, e)
  BY <1>6, FactRows DEF FactAppended, Appended, Owns
<1>7. ASSUME NEW p \in Process, NEW k \in Terminal, EmitTerminal(p, k)
      PROVE  \E c \in Command, s \in Session, e \in Event : TerminalAppended(p, c, s, e, k)
  BY <1>7, TerminalRows DEF TerminalAppended, Appended, Owns
<1>8. ASSUME NEW p \in Process, RecordMessage(p)
      PROVE  \E c \in Command, s \in Session : MessageRecorded(p, c, s)
  BY <1>8, MessageRows DEF MessageRecorded, Owns
<1>9. CASE Next
  <2>1. PICK p \in Process :
           \/ \E c \in Command, pl \in Payload, s \in Session : BeginCommandRun(p, c, pl, s)
           \/ \E c \in Command, pl \in Payload : BeginResumeCommandRun(p, c, pl)
           \/ RejectUnstartedCommand(p)
           \/ EmitFact(p)
           \/ \E k \in Terminal : EmitTerminal(p, k)
           \/ RecordMessage(p)
           \/ QuietStep(p)
    BY <1>9, StepCases
  <2> QED
    BY <2>1, <1>2, <1>3, <1>4, <1>5, <1>6, <1>7, <1>8
<1> QED
  BY <1>1, <1>9
-----------------------------------------------------------------------------
(* Every step keeps every part of the invariant.                           *)

\* Rows are created together and never removed.
LEMMA RowsStep == IndInv /\ [Next]_vars => RowsExist' /\ SessionsStartEmpty' /\ ResultsOpen'
<1> SUFFICES ASSUME IndInv, [Next]_vars PROVE RowsExist' /\ SessionsStartEmpty' /\ ResultsOpen'
  OBVIOUS
<1>a. TypeOK /\ RowsExist /\ SessionsStartEmpty /\ ResultsOpen
  BY DEF IndInv
<1>1. CASE UNCHANGED tables
  BY <1>1, <1>a DEF tables, sessionVars, commandVars, runVars, historyVars, RowsExist, SessionsStartEmpty, ResultsOpen
<1>2. ASSUME NEW p \in Process, NEW c \in Command, NEW s \in Session, Begun(p, c, s)
      PROVE  RowsExist' /\ SessionsStartEmpty' /\ ResultsOpen'
  <2>1. RowsExist'
    <3>1. \A d \in Command : cmdStatus'[d] = "none" => cmdStatus[d] = "none" /\ d # c
      BY <1>2 DEF Begun, Registered
    <3>2. \A d, x \in Command : cmdStatus'[d] = "none" => d \notin earlier'[x]
      <4>1. \A d, x \in Command : cmdStatus[d] = "none" => d \notin earlier[x] /\ cmdSession[d] = None
        BY <1>a DEF RowsExist
      <4>2. \A d \in Runs(s) : cmdSession[d] \in Session
        BY DEF Runs
      <4>3. \A x \in Command : earlier'[x] = IF x = c THEN Runs(s) ELSE earlier[x]
        BY <1>2 DEF Begun, Registered
      <4> QED
        BY <3>1, <4>1, <4>2, <4>3, NoneIsNoId
    <3>3. \A d \in Command : cmdStatus'[d] = "none" => cmdSession'[d] = None /\ resultSeq'[d] = 0
      BY <1>2, <1>a, <3>1 DEF RowsExist, Begun, Registered
    <3>4. \A d \in Command : cmdStatus'[d] # "none" =>
            cmdSession'[d] \in Session /\ sessionStatus'[cmdSession'[d]] # "none"
      BY <1>2, <1>a DEF RowsExist, Begun, Registered
    <3>5. \A d \in Command : /\ starts'[d] = IF cmdStatus'[d] = "none" THEN 0 ELSE 1
                             /\ runStatus'[d] = "none" <=> cmdStatus'[d] = "none"
      BY <1>2, <1>a DEF RowsExist, Begun, Registered, OpenStatus
    <3> QED
      BY <3>2, <3>3, <3>4, <3>5 DEF RowsExist
  <2>2. SessionsStartEmpty' /\ ResultsOpen'
    BY <1>2, <1>a DEF RowsExist, SessionsStartEmpty, ResultsOpen, OpenStatus, Begun, Registered
  <2> QED
    BY <2>1, <2>2
<1>3. ASSUME NEW p \in Process, NEW c \in Command, NEW s \in Session, Resumed(p, c, s)
      PROVE  RowsExist' /\ SessionsStartEmpty' /\ ResultsOpen'
  <2>1. RowsExist'
    <3>1. \A d \in Command : cmdStatus'[d] = "none" => cmdStatus[d] = "none" /\ d # c
      BY <1>3 DEF Resumed, Registered
    <3>2. \A d, x \in Command : cmdStatus'[d] = "none" => d \notin earlier'[x]
      <4>1. \A d, x \in Command : cmdStatus[d] = "none" => d \notin earlier[x] /\ cmdSession[d] = None
        BY <1>a DEF RowsExist
      <4>2. \A d \in Runs(s) : cmdSession[d] \in Session
        BY DEF Runs
      <4>3. \A x \in Command : earlier'[x] = IF x = c THEN Runs(s) ELSE earlier[x]
        BY <1>3 DEF Resumed, Registered
      <4> QED
        BY <3>1, <4>1, <4>2, <4>3, NoneIsNoId
    <3>3. \A d \in Command : cmdStatus'[d] = "none" => cmdSession'[d] = None /\ resultSeq'[d] = 0
      BY <1>3, <1>a, <3>1 DEF RowsExist, Resumed, Registered
    <3>4. \A d \in Command : cmdStatus'[d] # "none" =>
            cmdSession'[d] \in Session /\ sessionStatus'[cmdSession'[d]] # "none"
      BY <1>3, <1>a DEF RowsExist, Resumed, Registered
    <3>5. \A d \in Command : /\ starts'[d] = IF cmdStatus'[d] = "none" THEN 0 ELSE 1
                             /\ runStatus'[d] = "none" <=> cmdStatus'[d] = "none"
      BY <1>3, <1>a DEF RowsExist, Resumed, Registered, OpenStatus
    <3> QED
      BY <3>2, <3>3, <3>4, <3>5 DEF RowsExist
  <2>2. SessionsStartEmpty' /\ ResultsOpen'
    BY <1>3, <1>a DEF RowsExist, SessionsStartEmpty, ResultsOpen, OpenStatus, Resumed, Registered
  <2> QED
    BY <2>1, <2>2
<1>4. ASSUME NEW p \in Process, NEW c \in Command, NEW s \in Session, Rejected(p, c, s)
      PROVE  RowsExist' /\ SessionsStartEmpty' /\ ResultsOpen'
  BY <1>4, <1>a DEF RowsExist, SessionsStartEmpty, ResultsOpen, OpenStatus, Rejected, Owns
<1>5. ASSUME NEW p \in Process, NEW c \in Command, NEW s \in Session, NEW e \in Event,
             FactAppended(p, c, s, e)
      PROVE  RowsExist' /\ SessionsStartEmpty' /\ ResultsOpen'
  <2>1. RowsExist'
    BY <1>5, <1>a DEF RowsExist, FactAppended, Appended, Owns
  <2>2. SessionsStartEmpty' /\ ResultsOpen'
    BY <1>5, <1>a DEF RowsExist, SessionsStartEmpty, ResultsOpen, OpenStatus,
                      FactAppended, Appended, Owns
  <2> QED
    BY <2>1, <2>2
<1>6. ASSUME NEW p \in Process, NEW c \in Command, NEW s \in Session, NEW e \in Event,
             NEW k \in Terminal, TerminalAppended(p, c, s, e, k)
      PROVE  RowsExist' /\ SessionsStartEmpty' /\ ResultsOpen'
  <2>0. TerminalStatus(k) # "none" /\ TerminalCommandStatus(k) \notin OpenStatus \cup {"none"}
    BY DEF TerminalStatus, TerminalCommandStatus, Terminal, OpenStatus
  <2>1. RowsExist'
    BY <1>6, <1>a, <2>0 DEF RowsExist, TerminalAppended, Appended, Owns
  <2>2. SessionsStartEmpty' /\ ResultsOpen'
    BY <1>6, <1>a, <2>0 DEF RowsExist, SessionsStartEmpty, ResultsOpen, TerminalAppended, Appended, Owns
  <2> QED
    BY <2>1, <2>2
<1>7. ASSUME NEW p \in Process, NEW c \in Command, NEW s \in Session, MessageRecorded(p, c, s)
      PROVE  RowsExist' /\ SessionsStartEmpty' /\ ResultsOpen'
  BY <1>7, <1>a DEF RowsExist, SessionsStartEmpty, ResultsOpen, MessageRecorded, Owns
<1> QED
  BY <1>1, <1>2, <1>3, <1>4, <1>5, <1>6, <1>7, Effects

\* Run, command and session change their status together.
LEMMA AgreesStep == IndInv /\ [Next]_vars => LedgerAgrees'
<1> SUFFICES ASSUME IndInv, [Next]_vars PROVE LedgerAgrees'
  OBVIOUS
<1>a. TypeOK /\ RowsExist /\ LedgerAgrees
  BY DEF IndInv
<1>b. /\ \A c \in Command : runStatus[c] = "running" <=> cmdStatus[c] \in OpenStatus
      /\ \A c, d \in Command : cmdSession[c] = cmdSession[d] /\ runStatus[c] = "running"
                                 /\ runStatus[d] = "running" => c = d
      /\ \A s \in Session : sessionStatus[s] = "active" <=>
           \E c \in Command : cmdSession[c] = s /\ runStatus[c] = "running"
  BY <1>a DEF LedgerAgrees, StaleRuns, Runs
<1>c. /\ \A c \in Command : runStatus'[c] = "running" <=> cmdStatus'[c] \in OpenStatus
      /\ \A c, d \in Command : cmdSession'[c] = cmdSession'[d] /\ runStatus'[c] = "running"
                                 /\ runStatus'[d] = "running" => c = d
      /\ \A s \in Session : sessionStatus'[s] = "active" <=>
           \E c \in Command : cmdSession'[c] = s /\ runStatus'[c] = "running"
      => LedgerAgrees'
  BY DEF LedgerAgrees, StaleRuns, Runs
<1>1. CASE UNCHANGED tables
  BY <1>1, <1>a DEF tables, sessionVars, commandVars, runVars, historyVars, LedgerAgrees, StaleRuns, Runs
<1>2. ASSUME NEW p \in Process, NEW c \in Command, NEW s \in Session, Begun(p, c, s)
      PROVE  LedgerAgrees'
  BY <1>2, <1>a, <1>b, <1>c DEF RowsExist, OpenStatus, Begun, Registered
<1>3. ASSUME NEW p \in Process, NEW c \in Command, NEW s \in Session, Resumed(p, c, s)
      PROVE  LedgerAgrees'
  BY <1>3, <1>a, <1>b, <1>c DEF RowsExist, OpenStatus, Resumed, Registered
<1>4. ASSUME NEW p \in Process, NEW c \in Command, NEW s \in Session, Rejected(p, c, s)
      PROVE  LedgerAgrees'
  BY <1>4, <1>a, <1>b, <1>c DEF RowsExist, OpenStatus, Rejected, Owns
<1>5. ASSUME NEW p \in Process, NEW c \in Command, NEW s \in Session, NEW e \in Event,
             FactAppended(p, c, s, e)
      PROVE  LedgerAgrees'
  BY <1>5, <1>a, <1>b, <1>c DEF RowsExist, OpenStatus, FactAppended, Appended, Owns
<1>6. ASSUME NEW p \in Process, NEW c \in Command, NEW s \in Session, NEW e \in Event,
             NEW k \in Terminal, TerminalAppended(p, c, s, e, k)
      PROVE  LedgerAgrees'
  <2>1. TerminalStatus(k) \notin {"running", "active"} /\ TerminalCommandStatus(k) \notin OpenStatus
    BY DEF TerminalStatus, TerminalCommandStatus, Terminal, OpenStatus
  <2> QED
    BY <1>6, <1>a, <1>b, <1>c, <2>1 DEF RowsExist, TerminalAppended, Appended, Owns
<1>7. ASSUME NEW p \in Process, NEW c \in Command, NEW s \in Session, MessageRecorded(p, c, s)
      PROVE  LedgerAgrees'
  BY <1>7, <1>a, <1>b, <1>c DEF MessageRecorded
<1> QED
  BY <1>1, <1>2, <1>3, <1>4, <1>5, <1>6, <1>7, Effects
\* A row that exists keeps existing, and a command keeps its session.
LEMMA KnownStays ==
  ASSUME IndInv, [Next]_vars
  PROVE  /\ \A c \in Command : cmdStatus[c] # "none" =>
              cmdStatus'[c] # "none" /\ cmdSession'[c] = cmdSession[c]
         /\ \A s \in Session : sessionStatus[s] # "none" => sessionStatus'[s] # "none"
<1> DEFINE Stays ==
      /\ \A c \in Command : cmdStatus[c] # "none" =>
           cmdStatus'[c] # "none" /\ cmdSession'[c] = cmdSession[c]
      /\ \A s \in Session : sessionStatus[s] # "none" => sessionStatus'[s] # "none"
<1>0. \A k \in Terminal : TerminalStatus(k) # "none" /\ TerminalCommandStatus(k) # "none"
  BY DEF TerminalStatus, TerminalCommandStatus, Terminal
<1>1. CASE UNCHANGED tables
  BY <1>1 DEF tables, sessionVars, commandVars
<1>2. ASSUME NEW p \in Process, NEW c \in Command, NEW s \in Session,
             Begun(p, c, s) \/ Resumed(p, c, s)
      PROVE  Stays
  BY <1>2 DEF Begun, Resumed, Registered
<1>3. ASSUME NEW p \in Process, NEW c \in Command, NEW s \in Session,
             Rejected(p, c, s) \/ MessageRecorded(p, c, s)
      PROVE  Stays
  BY <1>3 DEF Rejected, MessageRecorded
<1>4. ASSUME NEW p \in Process, NEW c \in Command, NEW s \in Session, NEW e \in Event,
             FactAppended(p, c, s, e)
      PROVE  Stays
  BY <1>4 DEF FactAppended, Appended
<1>5. ASSUME NEW p \in Process, NEW c \in Command, NEW s \in Session, NEW e \in Event,
             NEW k \in Terminal, TerminalAppended(p, c, s, e, k)
      PROVE  Stays
  BY <1>0, <1>5 DEF TerminalAppended, Appended
<1> QED
  BY <1>1, <1>2, <1>3, <1>4, <1>5, Effects

\* No position ever moves back.
LEMMA PositionsGrow ==
  ASSUME IndInv, [Next]_vars
  PROVE  /\ \A s \in Session :
              /\ lastSeq[s] \in Nat /\ lastSeq'[s] \in Nat /\ lastSeq[s] <= lastSeq'[s]
              /\ Len(context[s]) \in Nat /\ Len(context'[s]) \in Nat
              /\ Len(context[s]) <= Len(context'[s])
         /\ \A c \in Command :
              lastRunSeq[c] \in Nat /\ lastRunSeq'[c] \in Nat /\ lastRunSeq[c] <= lastRunSeq'[c]
<1>a. TypeOK /\ TypeOK'
  BY TypeStep DEF IndInv
<1>b. /\ \A s \in Session : /\ lastSeq[s] \in Nat /\ lastSeq'[s] \in Nat
                            /\ context[s] \in Seq(Command) /\ context'[s] \in Seq(Command)
      /\ \A c \in Command : lastRunSeq[c] \in Nat /\ lastRunSeq'[c] \in Nat
  BY <1>a DEF TypeOK
<1>c. \A s \in Session : Len(context[s]) \in Nat /\ Len(context'[s]) \in Nat
  BY <1>b
<1>1. CASE UNCHANGED <<lastSeq, context, lastRunSeq>>
  BY <1>b, <1>c, <1>1
<1>2. ASSUME NEW p \in Process, NEW c \in Command, NEW s \in Session, NEW e \in Event, NEW k \in Kind,
             Appended(p, c, s, e, k)
      PROVE  /\ \A t \in Session : lastSeq[t] <= lastSeq'[t]
             /\ \A d \in Command : lastRunSeq[d] <= lastRunSeq'[d]
             /\ UNCHANGED context
  BY <1>b, <1>2 DEF Appended, Event
<1>3. ASSUME NEW p \in Process, NEW c \in Command, NEW s \in Session, MessageRecorded(p, c, s)
      PROVE  /\ \A t \in Session : Len(context[t]) <= Len(context'[t])
             /\ UNCHANGED <<lastSeq, lastRunSeq>>
  <2>1. context'[s] = Append(context[s], c) /\ c \in Command /\ context[s] \in Seq(Command)
    BY <1>3, <1>b DEF MessageRecorded, Owns
  <2>2. Len(context'[s]) = Len(context[s]) + 1
    BY <2>1
  <2>3. \A t \in Session : t # s => context'[t] = context[t]
    BY <1>3 DEF MessageRecorded
  <2> QED
    BY <1>3, <1>c, <2>2, <2>3 DEF MessageRecorded
<1>4. ASSUME NEW p \in Process, NEW c \in Command, NEW s \in Session,
             Begun(p, c, s) \/ Resumed(p, c, s) \/ Rejected(p, c, s)
      PROVE  UNCHANGED <<lastSeq, context, lastRunSeq>>
  BY <1>4 DEF Begun, Resumed, Registered, Rejected
<1>5. CASE UNCHANGED tables
  BY <1>1, <1>5 DEF tables, sessionVars, runVars
<1>6. ASSUME NEW p \in Process, NEW c \in Command, NEW s \in Session, NEW e \in Event,
             FactAppended(p, c, s, e) \/ \E k \in Terminal : TerminalAppended(p, c, s, e, k)
      PROVE  \E k \in Kind : Appended(p, c, s, e, k)
  BY <1>6 DEF FactAppended, TerminalAppended, Kind
<1> QED
  BY <1>b, <1>c, <1>1, <1>2, <1>3, <1>4, <1>5, <1>6, Effects

\* What a process remembers was true once, and rows never go away.
LEMMA MemoryStep == IndInv /\ [Next]_vars => MemoryIsOld'
<1> SUFFICES ASSUME IndInv, [Next]_vars PROVE MemoryIsOld'
  OBVIOUS
<1>a. TypeOK /\ MemoryIsOld /\ RowsExist
  BY DEF IndInv
<1>b. /\ \A c \in Command : cmdStatus[c] # "none" =>
           cmdStatus'[c] # "none" /\ cmdSession'[c] = cmdSession[c]
      /\ \A s \in Session : sessionStatus[s] # "none" => sessionStatus'[s] # "none"
  BY KnownStays
<1>c. ASSUME NEW p \in Process
      PROVE  \/ proc'[p].pc \in {"idle", "replaying"}
             \/ /\ \/ proc'[p].pc = proc[p].pc
                   \/ proc[p].pc = "viewed" /\ proc'[p].pc = "analyzed"
                   \/ proc[p].pc = "begun" /\ proc'[p].pc = "running"
                /\ proc'[p].cmd = proc[p].cmd
                /\ proc'[p].session = proc[p].session
             \/ /\ proc'[p].pc = "viewed" /\ proc'[p].session \in Session
                /\ sessionStatus'[proc'[p].session] # "none"
             \/ /\ proc'[p].pc = "begun" /\ proc'[p].cmd \in Command
                /\ cmdStatus'[proc'[p].cmd] # "none"
                /\ proc'[p].session = cmdSession'[proc'[p].cmd]
  <2>1. CASE UNCHANGED vars
    BY <2>1 DEF vars
  <2>2. ASSUME NEW q \in Process, NEW c \in Command, NEW s \in Session,
               Begun(q, c, s) \/ Resumed(q, c, s)
        PROVE  <1>c!2
    BY <2>2 DEF Begun, Resumed, Registered
  <2>3. ASSUME NEW q \in Process,
               \/ \E c \in Command, s \in Session : Rejected(q, c, s) \/ MessageRecorded(q, c, s)
               \/ \E c \in Command, s \in Session, e \in Event : FactAppended(q, c, s, e)
               \/ \E c \in Command, s \in Session, e \in Event, k \in Terminal :
                    TerminalAppended(q, c, s, e, k)
        PROVE  <1>c!2
    BY <2>3 DEF Rejected, MessageRecorded, FactAppended, TerminalAppended
  <2>4. ASSUME NEW q \in Process, QuietStep(q)
        PROVE  <1>c!2
    <3>0. proc \in [Process -> ProcessState] /\ UNCHANGED sessionStatus
      BY <1>a, <2>4, QuietKeepsTables DEF TypeOK, tables, sessionVars
    <3>1. CASE q # p
      <4>1. proc'[p] = proc[p]
        BY <2>4, <3>0, <3>1 DEF QuietStep, ReplayExistingCommand, ViewSession, LoadContext,
                                OpenRecorders, EmitFails, Stop
      <4> QED
        BY <4>1
    <3>2. CASE q = p /\ \/ \E c \in Command, pl \in Payload : ReplayExistingCommand(q, c, pl)
                        \/ Stop(q)
      <4>1. Idle.pc = "idle" /\ \A c \in Command : [Idle EXCEPT !.pc = "replaying", !.cmd = c].pc = "replaying"
        BY DEF Idle
      <4>2. \/ proc' = [proc EXCEPT ![p] = Idle]
            \/ \E c \in Command : proc' = [proc EXCEPT ![p] = [Idle EXCEPT !.pc = "replaying", !.cmd = c]]
        BY <3>2 DEF ReplayExistingCommand, Stop
      <4>3. proc'[p].pc \in {"idle", "replaying"}
        BY <3>0, <4>1, <4>2
      <4> QED
        BY <4>3
    <3>3. CASE q = p /\ \E s \in Session : ViewSession(q, s)
      BY <3>0, <3>3 DEF ViewSession, Idle
    <3>4. CASE q = p /\ LoadContext(q)
      BY <3>0, <3>4 DEF ProcessState, LoadContext
    <3>5. CASE q = p /\ (OpenRecorders(q) \/ EmitFails(q))
      BY <3>0, <3>5 DEF ProcessState, OpenRecorders, EmitFails
    <3> QED
      BY <2>4, <3>1, <3>2, <3>3, <3>4, <3>5 DEF QuietStep
  <2>5. ASSUME NEW q \in Process, NEW c \in Command, NEW pl \in Payload,
               \/ \E s \in Session : BeginCommandRun(q, c, pl, s)
               \/ BeginResumeCommandRun(q, c, pl)
        PROVE  <1>c!2
    <3>1. ASSUME NEW s \in Session, BeginCommandRun(q, c, pl, s)
          PROVE  <1>c!2
      BY <2>2, <3>1, BeginRows
    <3>2. CASE BeginResumeCommandRun(q, c, pl)
      <4>1. Resumed(q, c, proc[q].session) /\ proc[q].session \in Session
        BY <3>2, ResumeRows DEF Resumed, Registered
      <4> QED
        BY <2>2, <4>1
    <3> QED
      BY <2>5, <3>1, <3>2
  <2>6. ASSUME NEW q \in Process,
               RejectUnstartedCommand(q) \/ RecordMessage(q) \/ EmitFact(q)
        PROVE  <1>c!2
    <3>1. proc[q].pc \in {"begun", "running"}
      BY <2>6 DEF RejectUnstartedCommand, RecordMessage, EmitFact, AppendRecord
    <3>2. proc[q].cmd \in Command /\ proc[q].session \in Session
      BY <3>1, Owners DEF Owns
    <3> QED
      BY <2>3, <2>6, <3>2, RejectRows, MessageRows, FactRows
  <2>7. ASSUME NEW q \in Process, NEW k \in Terminal, EmitTerminal(q, k)
        PROVE  <1>c!2
    <3>1. proc[q].cmd \in Command /\ proc[q].session \in Session
      BY <2>7, Owners DEF EmitTerminal, AppendRecord, Owns
    <3> QED
      BY <2>3, <2>7, <3>1, TerminalRows
  <2> QED
    BY <2>1, <2>4, <2>5, <2>6, <2>7, StepCases
<1> QED
  BY <1>a, <1>b, <1>c DEF MemoryIsOld

\* A new event was appended by the live run that owns it; none disappears.
LEMMA NewEvents ==
  ASSUME IndInv, [Next]_vars
  PROVE  /\ events \subseteq events'
         /\ \A f \in events' : f \notin events =>
              \E p \in Process, c \in Command, s \in Session, k \in Kind : Appended(p, c, s, f, k)
<1>1. CASE UNCHANGED events
  BY <1>1
<1>2. ASSUME NEW p \in Process, NEW c \in Command, NEW s \in Session, NEW e \in Event, NEW k \in Kind,
             Appended(p, c, s, e, k)
      PROVE  /\ events \subseteq events'
             /\ \A f \in events' : f \notin events => Appended(p, c, s, f, k)
  BY <1>2 DEF Appended
<1>3. ASSUME NEW p \in Process, NEW c \in Command, NEW s \in Session,
             Begun(p, c, s) \/ Resumed(p, c, s) \/ Rejected(p, c, s) \/ MessageRecorded(p, c, s)
      PROVE  UNCHANGED events
  BY <1>3 DEF Begun, Resumed, Registered, Rejected, MessageRecorded
<1>4. CASE UNCHANGED tables
  BY <1>1, <1>4 DEF tables
<1>5. ASSUME NEW p \in Process, NEW c \in Command, NEW s \in Session, NEW e \in Event,
             FactAppended(p, c, s, e) \/ \E k \in Terminal : TerminalAppended(p, c, s, e, k)
      PROVE  \E k \in Kind : Appended(p, c, s, e, k)
  BY <1>5 DEF FactAppended, TerminalAppended, Kind
<1>6. ASSUME NEW p \in Process, NEW c \in Command, NEW s \in Session, NEW e \in Event,
             FactAppended(p, c, s, e) \/ \E k \in Terminal : TerminalAppended(p, c, s, e, k)
      PROVE  /\ events \subseteq events'
             /\ \A f \in events' : f \notin events => \E k \in Kind : Appended(p, c, s, f, k)
  BY <1>2, <1>5, <1>6
<1> QED
  BY <1>1, <1>3, <1>4, <1>6, Effects

\* The context of a session only grows, by a message of the live run.
LEMMA NewMessages ==
  ASSUME IndInv, [Next]_vars, NEW t \in Session, NEW i \in 1..Len(context'[t])
  PROVE  \/ i \in 1..Len(context[t]) /\ context'[t][i] = context[t][i]
         \/ /\ i = Len(context[t]) + 1
            /\ \E p \in Process, c \in Command :
                 MessageRecorded(p, c, t) /\ context'[t][i] = c
<1>1. CASE UNCHANGED context
  BY <1>1
<1>2. ASSUME NEW p \in Process, NEW c \in Command, NEW s \in Session, MessageRecorded(p, c, s)
      PROVE  \/ i \in 1..Len(context[t]) /\ context'[t][i] = context[t][i]
             \/ i = Len(context[t]) + 1 /\ MessageRecorded(p, c, t) /\ context'[t][i] = c
  <2>1. CASE s # t
    BY <1>2, <2>1 DEF MessageRecorded
  <2>2. CASE s = t
    <3>1. context'[t] = Append(context[t], c) /\ c \in Command /\ context[t] \in Seq(Command)
      BY <1>2, <2>2 DEF MessageRecorded, Owns
    <3> QED
      BY <1>2, <2>2, <3>1
  <2> QED
    BY <2>1, <2>2
<1>3. ASSUME NEW p \in Process, NEW c \in Command, NEW s \in Session,
             \/ Begun(p, c, s) \/ Resumed(p, c, s) \/ Rejected(p, c, s)
             \/ \E e \in Event : FactAppended(p, c, s, e)
             \/ \E e \in Event, k \in Terminal : TerminalAppended(p, c, s, e, k)
      PROVE  UNCHANGED context
  BY <1>3 DEF Begun, Resumed, Registered, Rejected, FactAppended, TerminalAppended, Appended
<1>4. CASE UNCHANGED tables
  BY <1>1, <1>4 DEF tables
<1> QED
  BY <1>1, <1>2, <1>3, <1>4, Effects

\* A command is registered once, behind everything its session holds, and then
\* no run of the session is left running.
LEMMA Registrations ==
  ASSUME IndInv, [Next]_vars, NEW d \in Command
  PROVE  \/ /\ earlier'[d] = earlier[d] /\ base'[d] = base[d]
            /\ cmdStatus'[d] # "none" => cmdStatus[d] # "none"
         \/ /\ cmdStatus[d] = "none"
            /\ \E s \in Session :
                 /\ cmdSession'[d] = s
                 /\ earlier'[d] = Runs(s)
                 /\ base'[d].seq = lastSeq[s] /\ base'[d].ord = Len(context[s])
                 /\ \A x \in Runs(s) : runStatus'[x] # "running" /\ x # d
                 /\ UNCHANGED <<events, context, lastSeq>>
<1> DEFINE Same == /\ earlier'[d] = earlier[d] /\ base'[d] = base[d]
                   /\ cmdStatus'[d] # "none" => cmdStatus[d] # "none"
<1>1. CASE UNCHANGED tables
  BY <1>1 DEF tables, commandVars, historyVars
<1>2. ASSUME NEW p \in Process, NEW c \in Command, NEW s \in Session, c # d,
             Begun(p, c, s) \/ Resumed(p, c, s)
      PROVE  Same
  BY <1>2 DEF Begun, Resumed, Registered, OpenStatus
<1>3. ASSUME NEW p \in Process, NEW s \in Session, Begun(p, d, s)
      PROVE  /\ cmdStatus[d] = "none" /\ cmdSession'[d] = s /\ earlier'[d] = Runs(s)
             /\ base'[d].seq = lastSeq[s] /\ base'[d].ord = Len(context[s])
             /\ \A x \in Runs(s) : runStatus'[x] # "running" /\ x # d
             /\ UNCHANGED <<events, context, lastSeq>>
  <2>1. Runs(s) = {}
    BY <1>3, NoneIsNoId DEF Runs, IndInv, RowsExist, Begun
  <2>2. lastSeq[s] = 0 /\ context[s] = <<>>
    BY <1>3 DEF IndInv, SessionsStartEmpty, Begun
  <2> QED
    BY <1>3, <2>1, <2>2 DEF Begun, Registered
<1>4. ASSUME NEW p \in Process, NEW s \in Session, Resumed(p, d, s)
      PROVE  /\ cmdStatus[d] = "none" /\ cmdSession'[d] = s /\ earlier'[d] = Runs(s)
             /\ base'[d].seq = lastSeq[s] /\ base'[d].ord = Len(context[s])
             /\ \A x \in Runs(s) : runStatus'[x] # "running" /\ x # d
             /\ UNCHANGED <<events, context, lastSeq>>
  <2>1. \A x \in Runs(s) : x \in Command /\ cmdSession[x] = s /\ x # d
    BY <1>4, NoneIsNoId DEF Runs, IndInv, RowsExist, Resumed, Registered
  <2> QED
    BY <1>4, <2>1 DEF Resumed, Registered
<1>5. ASSUME NEW p \in Process, NEW c \in Command, NEW s \in Session,
             \/ Rejected(p, c, s) \/ MessageRecorded(p, c, s)
             \/ \E e \in Event : FactAppended(p, c, s, e)
      PROVE  Same
  BY <1>5 DEF Rejected, MessageRecorded, FactAppended, Appended
<1>6. ASSUME NEW p \in Process, NEW c \in Command, NEW s \in Session, NEW e \in Event,
             NEW k \in Terminal, TerminalAppended(p, c, s, e, k)
      PROVE  Same
  BY <1>6 DEF TerminalAppended, Appended, Owns
<1> QED
  BY <1>1, <1>2, <1>3, <1>4, <1>5, <1>6, Effects

\* A run that ended or was interrupted never runs again.
LEMMA ClosedStays ==
  ASSUME IndInv, [Next]_vars, NEW c \in Command, runStatus[c] \notin {"none", "running"}
  PROVE  runStatus'[c] # "running"
<1>1. cmdStatus[c] # "none"
  BY DEF IndInv, RowsExist
<1>2. CASE UNCHANGED tables
  BY <1>2 DEF tables, runVars
<1>3. ASSUME NEW p \in Process, NEW d \in Command, NEW s \in Session,
             \/ Begun(p, d, s) \/ Resumed(p, d, s) \/ Rejected(p, d, s) \/ MessageRecorded(p, d, s)
             \/ \E e \in Event : FactAppended(p, d, s, e)
      PROVE  runStatus'[c] # "running"
  BY <1>1, <1>3 DEF Begun, Resumed, Registered, Rejected, MessageRecorded, FactAppended
<1>4. ASSUME NEW p \in Process, NEW d \in Command, NEW s \in Session, NEW e \in Event,
             NEW k \in Terminal, TerminalAppended(p, d, s, e, k)
      PROVE  runStatus'[c] # "running"
  BY <1>4 DEF TerminalAppended, TerminalStatus, Terminal
<1> QED
  BY <1>2, <1>3, <1>4, Effects

\* Events and messages are written only by a run of the session they belong to.
LEMMA WritersStep == IndInv /\ [Next]_vars => WritersAreKnown'
<1> SUFFICES ASSUME IndInv, [Next]_vars PROVE WritersAreKnown'
  OBVIOUS
<1>a. TypeOK /\ WritersAreKnown
  BY DEF IndInv
<1>b. \A f \in events : f.cmd \in Command /\ f.runSeq \in Nat
  BY <1>a DEF TypeOK, Event
<1>1. ASSUME NEW f \in events'
      PROVE  /\ cmdStatus'[f.cmd] # "none" /\ f.session = cmdSession'[f.cmd]
             /\ f.runSeq <= lastRunSeq'[f.cmd]
  <2>1. CASE f \in events
    BY <1>a, <1>b, <2>1, KnownStays, PositionsGrow DEF WritersAreKnown
  <2>2. CASE f \notin events
    <3>1. PICK p \in Process, c \in Command, s \in Session, k \in Kind : Appended(p, c, s, f, k)
      BY <2>2, NewEvents
    <3>2. cmdStatus'[c] # "none" /\ cmdSession'[c] = s
      BY <3>1, KnownStays DEF Appended, Owns
    <3>3. lastRunSeq'[c] = f.runSeq /\ lastRunSeq'[c] \in Nat
      BY <3>1, PositionsGrow DEF Appended
    <3> QED
      BY <3>1, <3>2, <3>3 DEF Appended
  <2> QED
    BY <2>1, <2>2
<1>2. ASSUME NEW t \in Session, NEW i \in 1..Len(context'[t])
      PROVE  cmdStatus'[context'[t][i]] # "none" /\ cmdSession'[context'[t][i]] = t
  <2>1. CASE i \in 1..Len(context[t]) /\ context'[t][i] = context[t][i]
    <3>1. context[t][i] \in Command
      BY <1>a, <2>1 DEF TypeOK
    <3> QED
      BY <1>a, <2>1, <3>1, KnownStays DEF WritersAreKnown
  <2>2. ASSUME NEW p \in Process, NEW c \in Command, MessageRecorded(p, c, t), context'[t][i] = c
        PROVE  cmdStatus'[context'[t][i]] # "none" /\ cmdSession'[context'[t][i]] = t
    BY <2>2, KnownStays DEF MessageRecorded, Owns
  <2> QED
    BY <2>1, <2>2, NewMessages
<1> QED
  BY <1>1, <1>2 DEF WritersAreKnown

\* A run that a resume found is over, and stays behind the position it took over.
LEMMA TakenOverStep == IndInv /\ [Next]_vars => TakenOver'
<1> SUFFICES ASSUME IndInv, [Next]_vars, NEW d \in Command
             PROVE  /\ \A c \in earlier'[d] : runStatus'[c] # "running" /\ c # d
                    /\ cmdStatus'[d] # "none" => /\ base'[d].seq <= lastSeq'[cmdSession'[d]]
                                                 /\ base'[d].ord <= Len(context'[cmdSession'[d]])
  BY DEF TakenOver
<1>a. TypeOK /\ RowsExist /\ TakenOver
  BY DEF IndInv
<1>1. CASE /\ earlier'[d] = earlier[d] /\ base'[d] = base[d]
           /\ cmdStatus'[d] # "none" => cmdStatus[d] # "none"
  <2>1. ASSUME NEW c \in earlier[d] PROVE runStatus'[c] # "running" /\ c # d
    <3>1. c \in Command /\ c # d /\ runStatus[c] \notin {"none", "running"}
      BY <1>a, <2>1 DEF TypeOK, RowsExist, TakenOver
    <3> QED
      BY <3>1, ClosedStays
  <2>2. ASSUME cmdStatus[d] # "none"
        PROVE  /\ base[d].seq <= lastSeq'[cmdSession'[d]]
               /\ base[d].ord <= Len(context'[cmdSession'[d]])
    <3>1. cmdSession'[d] = cmdSession[d] /\ cmdSession[d] \in Session
      BY <1>a, <2>2, KnownStays DEF RowsExist
    <3>2. base[d].seq <= lastSeq[cmdSession[d]] /\ base[d].ord <= Len(context[cmdSession[d]])
      BY <1>a, <2>2 DEF TakenOver
    <3>3. base[d].seq \in Nat /\ base[d].ord \in Nat
      BY <1>a DEF TypeOK
    <3> QED
      BY <3>1, <3>2, <3>3, PositionsGrow
  <2> QED
    BY <1>1, <2>1, <2>2
<1>2. ASSUME NEW s \in Session,
             cmdSession'[d] = s, earlier'[d] = Runs(s),
             base'[d].seq = lastSeq[s], base'[d].ord = Len(context[s]),
             \A x \in Runs(s) : runStatus'[x] # "running" /\ x # d
      PROVE  /\ \A c \in earlier'[d] : runStatus'[c] # "running" /\ c # d
             /\ base'[d].seq <= lastSeq'[cmdSession'[d]]
             /\ base'[d].ord <= Len(context'[cmdSession'[d]])
  BY <1>2, PositionsGrow
<1> QED
  BY <1>1, <1>2, Registrations

\* No step lets a run that was taken over add an event to the session.
LEMMA FenceEventsStep == IndInv /\ [Next]_vars => ResumeFencesEvents'
<1> SUFFICES ASSUME IndInv, [Next]_vars, NEW f \in events', NEW d \in Command
             PROVE  /\ f.cmd \in earlier'[d] => f.seq <= base'[d].seq
                    /\ f.cmd = d => f.seq > base'[d].seq
  BY DEF ResumeFencesEvents
<1>a. TypeOK /\ RowsExist /\ WritersAreKnown /\ SeqIntegrity /\ TakenOver /\ ResumeFencesEvents
  BY DEF IndInv
<1>1. CASE f \in events
  <2>1. CASE earlier'[d] = earlier[d] /\ base'[d] = base[d]
    BY <1>a, <1>1, <2>1 DEF ResumeFencesEvents
  <2>2. ASSUME NEW s \in Session, cmdStatus[d] = "none", earlier'[d] = Runs(s),
               base'[d].seq = lastSeq[s]
        PROVE  /\ f.cmd \in earlier'[d] => f.seq <= base'[d].seq
               /\ f.cmd # d
    <3>1. f.cmd # d
      BY <1>a, <1>1, <2>2 DEF WritersAreKnown
    <3>2. f.cmd \in Runs(s) => f.session = s
      BY <1>a, <1>1 DEF Runs, WritersAreKnown
    <3>3. f.seq \in 1..lastSeq[f.session] /\ lastSeq[s] \in Nat
      BY <1>a, <1>1 DEF SeqIntegrity, TypeOK
    <3> QED
      BY <2>2, <3>1, <3>2, <3>3
  <2> QED
    BY <2>1, <2>2, Registrations
<1>2. CASE f \notin events
  <2>1. PICK p \in Process, c \in Command, s \in Session, k \in Kind : Appended(p, c, s, f, k)
    BY <1>2, NewEvents
  <2>2. earlier'[d] = earlier[d] /\ base'[d] = base[d] /\ f.cmd = c /\ f.seq = lastSeq[s] + 1
    BY <2>1 DEF Appended
  <2>3. c \notin earlier[d]
    BY <1>a, <2>1 DEF TakenOver, Appended
  <2>4. base[c].seq <= lastSeq[s] /\ base[c].seq \in Nat /\ lastSeq[s] \in Nat
    BY <1>a, <2>1 DEF TypeOK, TakenOver, Appended, Owns
  <2> QED
    BY <2>2, <2>3, <2>4
<1> QED
  BY <1>1, <1>2

\* No step lets a run that was taken over add a private message to the session.
LEMMA FenceContextStep == IndInv /\ [Next]_vars => ResumeFencesContext'
<1> SUFFICES ASSUME IndInv, [Next]_vars, NEW t \in Session, NEW d \in Command,
                    NEW i \in 1..Len(context'[t])
             PROVE  /\ context'[t][i] \in earlier'[d] => i <= base'[d].ord
                    /\ context'[t][i] = d => i > base'[d].ord
  BY DEF ResumeFencesContext
<1>a. TypeOK /\ WritersAreKnown /\ TakenOver /\ ResumeFencesContext
  BY DEF IndInv
<1>1. CASE i \in 1..Len(context[t]) /\ context'[t][i] = context[t][i]
  <2>1. CASE earlier'[d] = earlier[d] /\ base'[d] = base[d]
    BY <1>a, <1>1, <2>1 DEF ResumeFencesContext
  <2>2. ASSUME NEW s \in Session, cmdStatus[d] = "none", earlier'[d] = Runs(s),
               base'[d].ord = Len(context[s])
        PROVE  /\ context'[t][i] \in earlier'[d] => i <= base'[d].ord
               /\ context'[t][i] # d
    <3>1. context[t][i] # d
      BY <1>a, <1>1, <2>2 DEF WritersAreKnown
    <3>2. context[t][i] \in Runs(s) => t = s
      BY <1>a, <1>1 DEF Runs, WritersAreKnown
    <3>3. Len(context[s]) \in Nat
      BY <1>a DEF TypeOK
    <3> QED
      BY <1>1, <2>2, <3>1, <3>2, <3>3
  <2> QED
    BY <2>1, <2>2, Registrations
<1>2. ASSUME NEW p \in Process, NEW c \in Command,
             MessageRecorded(p, c, t), context'[t][i] = c, i = Len(context[t]) + 1
      PROVE  /\ context'[t][i] \in earlier'[d] => i <= base'[d].ord
             /\ context'[t][i] = d => i > base'[d].ord
  <2>1. earlier'[d] = earlier[d] /\ base'[d] = base[d]
    BY <1>2 DEF MessageRecorded
  <2>2. c \notin earlier[d]
    BY <1>a, <1>2 DEF TakenOver, MessageRecorded
  <2>3. base[c].ord <= Len(context[t]) /\ base[c].ord \in Nat /\ Len(context[t]) \in Nat
    BY <1>a, <1>2 DEF TypeOK, TakenOver, MessageRecorded, Owns
  <2> QED
    BY <1>2, <2>1, <2>2, <2>3
<1> QED
  BY <1>1, <1>2, NewMessages

\* The compare-and-set on last_seq keeps the log gapless whoever appends.
LEMMA SeqStep == IndInv /\ [Next]_vars => SeqIntegrity'
<1> SUFFICES ASSUME IndInv, [Next]_vars PROVE SeqIntegrity'
  OBVIOUS
<1>a. TypeOK /\ WritersAreKnown /\ SeqIntegrity
  BY DEF IndInv
<1>b. \A f \in events : /\ f \in Event /\ f.session \in Session /\ f.cmd \in Command
                        /\ f.seq \in Nat /\ f.runSeq \in Nat
  BY <1>a DEF TypeOK, Event
<1>1. CASE UNCHANGED <<events, lastSeq>>
  BY <1>a, <1>1 DEF SeqIntegrity
<1>2. ASSUME NEW p \in Process, NEW c \in Command, NEW s \in Session, NEW e \in Event, NEW k \in Kind,
             Appended(p, c, s, e, k)
      PROVE  SeqIntegrity'
  <2>0. /\ e.session = s /\ e.seq = lastSeq[s] + 1 /\ e.cmd = c /\ lastRunSeq[c] < e.runSeq
        /\ events' = events \cup {e}
        /\ \A t \in Session : lastSeq'[t] = IF t = s THEN lastSeq[t] + 1 ELSE lastSeq[t]
    BY <1>2 DEF Appended
  <2>n. /\ \A t \in Session : lastSeq[t] \in Nat
        /\ e.seq \in Nat /\ e.runSeq \in Nat
        /\ lastRunSeq[c] \in Nat
    BY <1>a DEF TypeOK, Event
  <2>1. ASSUME NEW t \in Session, NEW n \in 1..lastSeq'[t]
        PROVE  \E f \in events' : f.session = t /\ f.seq = n
    <3>1. CASE n \in 1..lastSeq[t]
      BY <1>a, <2>0, <3>1 DEF SeqIntegrity
    <3>2. CASE n \notin 1..lastSeq[t]
      <4>1. t = s /\ n = lastSeq[s] + 1
        BY <2>0, <2>n, <3>2
      <4> QED
        BY <2>0, <4>1
    <3> QED
      BY <3>1, <3>2
  <2>2. ASSUME NEW f \in events' PROVE f.seq \in 1..lastSeq'[f.session]
    <3>1. CASE f = e
      BY <2>0, <2>n, <3>1
    <3>2. CASE f \in events
      BY <1>a, <1>b, <2>0, <2>n, <3>2 DEF SeqIntegrity
    <3> QED
      BY <2>0, <3>1, <3>2
  <2>3. \A f \in events : f.session = s => f.seq # e.seq
    BY <1>a, <1>b, <2>0, <2>n DEF SeqIntegrity
  <2>4. \A f, g \in events' : f.session = g.session /\ f.seq = g.seq => f = g
    BY <1>a, <2>0, <2>3 DEF SeqIntegrity
  <2>5. \A f \in events : f.cmd = c => f.session = s /\ f.runSeq <= lastRunSeq[c] /\ f.seq < e.seq
    <3>1. \A f \in events : f.cmd = c => f.session = s /\ f.runSeq <= lastRunSeq[c]
      BY <1>a, <1>2 DEF WritersAreKnown, Appended, Owns
    <3> QED
      BY <1>a, <1>b, <2>0, <2>n, <3>1 DEF SeqIntegrity
  <2>6. ASSUME NEW f \in events', NEW g \in events', f.cmd = g.cmd, f.seq < g.seq
        PROVE  f.runSeq < g.runSeq
    <3>1. CASE f \in events /\ g \in events
      BY <1>a, <2>6, <3>1 DEF SeqIntegrity
    <3>2. CASE f \in events /\ g = e
      BY <1>b, <2>0, <2>n, <2>5, <2>6, <3>2
    <3>3. CASE f = e
      BY <1>b, <2>0, <2>n, <2>5, <2>6, <3>3
    <3> QED
      BY <2>0, <3>1, <3>2, <3>3
  <2> QED
    BY <2>1, <2>2, <2>4, <2>6 DEF SeqIntegrity
<1>3. ASSUME NEW p \in Process, NEW c \in Command, NEW s \in Session,
             Begun(p, c, s) \/ Resumed(p, c, s) \/ Rejected(p, c, s) \/ MessageRecorded(p, c, s)
      PROVE  UNCHANGED <<events, lastSeq>>
  BY <1>3 DEF Begun, Resumed, Registered, Rejected, MessageRecorded
<1>4. CASE UNCHANGED tables
  BY <1>1, <1>4 DEF tables, sessionVars
<1>5. ASSUME NEW p \in Process, NEW c \in Command, NEW s \in Session, NEW e \in Event,
             FactAppended(p, c, s, e) \/ \E k \in Terminal : TerminalAppended(p, c, s, e, k)
      PROVE  \E k \in Kind : Appended(p, c, s, e, k)
  BY <1>5 DEF FactAppended, TerminalAppended, Kind
<1> QED
  BY <1>1, <1>2, <1>3, <1>4, <1>5, Effects

\* ResultNamesItsEvent without its local definition.
Result(c) ==
  /\ resultSeq[c] # 0 <=> \E e \in events : e.cmd = c /\ e.kind \in Terminal
  /\ cmdStatus[c] = "applied" <=> \E e \in events : e.cmd = c /\ e.kind = "completed"
  /\ \A e \in events : e.cmd = c /\ e.kind \in Terminal =>
       /\ resultSeq[c] = e.seq
       /\ e.kind = "denied" => cmdStatus[c] = "rejected"
       /\ \A f \in events : f.cmd = c => f.seq <= e.seq

\* ResultNamesItsEvent, one command at a time.
LEMMA ResultExpanded ==
  /\ ResultNamesItsEvent <=> \A c \in Command : Result(c)
  /\ ResultNamesItsEvent' <=> \A c \in Command : Result(c)'
BY DEF ResultNamesItsEvent, Result, Terminal

\* A command's result is written with its terminal event and not touched again.
LEMMA ResultStep == IndInv /\ [Next]_vars => ResultNamesItsEvent'
<1> SUFFICES ASSUME IndInv, [Next]_vars, NEW c \in Command PROVE Result(c)'
  BY ResultExpanded
<1>a. TypeOK /\ WritersAreKnown /\ LedgerAgrees /\ ResultsOpen /\ SeqIntegrity /\ RowsExist
  BY DEF IndInv
<1>b. \A d \in Command : Result(d)
  BY ResultExpanded DEF IndInv
<1>1. CASE UNCHANGED tables
  BY <1>b, <1>1 DEF tables, commandVars, Result
<1>2. ASSUME UNCHANGED <<events, resultSeq>>,
             cmdStatus'[c] # cmdStatus[c] => /\ cmdStatus[c] \in OpenStatus \cup {"none"}
                                             /\ cmdStatus'[c] # "applied"
      PROVE  Result(c)'
  <2>1. CASE cmdStatus'[c] = cmdStatus[c]
    BY <1>b, <1>2, <2>1 DEF Result
  <2>2. CASE cmdStatus'[c] # cmdStatus[c]
    <3>1. resultSeq[c] = 0
      BY <1>a, <1>2, <2>2 DEF ResultsOpen
    <3>2. ~ \E e \in events : e.cmd = c /\ e.kind \in Terminal
      BY <1>b, <3>1 DEF Result
    <3>3. "completed" \in Terminal
      BY DEF Terminal
    <3> QED
      BY <1>2, <2>2, <3>1, <3>2, <3>3 DEF Result
  <2> QED
    BY <2>1, <2>2
<1>3. ASSUME NEW p \in Process, NEW d \in Command, NEW s \in Session,
             Begun(p, d, s) \/ Resumed(p, d, s) \/ Rejected(p, d, s) \/ MessageRecorded(p, d, s)
      PROVE  Result(c)'
  <2>1. /\ UNCHANGED <<events, resultSeq>>
        /\ cmdStatus'[c] # cmdStatus[c] => /\ cmdStatus[c] \in OpenStatus \cup {"none"}
                                           /\ cmdStatus'[c] # "applied"
    BY <1>3 DEF Begun, Resumed, Registered, Rejected, MessageRecorded, OpenStatus
  <2> QED
    BY <1>2, <2>1
<1>4. ASSUME NEW p \in Process, NEW d \in Command, NEW s \in Session, NEW e \in Event, NEW k \in Kind,
             Appended(p, d, s, e, k)
      PROVE  /\ ~ \E f \in events : f.cmd = d /\ f.kind \in Terminal
             /\ e.seq \in Nat \ {0}
             /\ \A f \in events : f.cmd = d => f.seq \in Nat /\ f.seq <= e.seq
  <2>1. runStatus[d] = "running" /\ e.seq = lastSeq[s] + 1 /\ cmdSession[d] = s
    BY <1>4 DEF Appended, Owns
  <2>2. resultSeq[d] = 0
    BY <1>a, <2>1 DEF LedgerAgrees, ResultsOpen
  <2>3. lastSeq[s] \in Nat
    BY <1>a DEF TypeOK
  <2>4. \A f \in events : f.cmd = d => f.seq \in 1..lastSeq[s]
    BY <1>a, <2>1 DEF WritersAreKnown, SeqIntegrity
  <2> QED
    BY <1>b, <2>1, <2>2, <2>3, <2>4 DEF Result
<1>5. ASSUME NEW p \in Process, NEW d \in Command, NEW s \in Session, NEW e \in Event,
             FactAppended(p, d, s, e)
      PROVE  Result(c)'
  <2>1. events' = events \cup {e} /\ e.cmd = d /\ e.kind = "fact"
    BY <1>5 DEF FactAppended, Appended
  <2>2. "fact" \notin Terminal /\ "completed" \in Terminal
    BY DEF Terminal
  <2>3. ~ \E f \in events : f.cmd = d /\ f.kind \in Terminal
    BY <1>4, <1>5 DEF FactAppended, Kind
  <2>4. /\ resultSeq'[c] = resultSeq[c]
        /\ \/ cmdStatus'[c] = cmdStatus[c]
           \/ c = d /\ cmdStatus[c] = "accepted" /\ cmdStatus'[c] = "running"
    BY <1>5 DEF FactAppended
  <2> QED
    BY <1>b, <2>1, <2>2, <2>3, <2>4 DEF Result
<1>6. ASSUME NEW p \in Process, NEW d \in Command, NEW s \in Session, NEW e \in Event,
             NEW k \in Terminal, TerminalAppended(p, d, s, e, k)
      PROVE  Result(c)'
  <2>1. /\ events' = events \cup {e} /\ e.cmd = d /\ e.kind = k
        /\ cmdStatus'[c] = IF c = d THEN TerminalCommandStatus(k) ELSE cmdStatus[c]
        /\ resultSeq'[c] = IF c = d THEN e.seq ELSE resultSeq[c]
    BY <1>6 DEF TerminalAppended, Appended
  <2>2. /\ ~ \E f \in events : f.cmd = d /\ f.kind \in Terminal
        /\ e.seq \in Nat \ {0}
        /\ \A f \in events : f.cmd = d => f.seq \in Nat /\ f.seq <= e.seq
    BY <1>4, <1>6 DEF TerminalAppended, Kind
  <2>3. CASE c # d
    BY <1>b, <2>1, <2>3 DEF Result
  <2>4. CASE c = d
    <3>1. /\ TerminalCommandStatus(k) = "applied" <=> k = "completed"
          /\ k = "denied" => TerminalCommandStatus(k) = "rejected"
          /\ "completed" \in Terminal
      BY DEF TerminalCommandStatus, Terminal
    <3>2. resultSeq'[c] # 0 /\ \E f \in events' : f.cmd = c /\ f.kind \in Terminal
      BY <2>1, <2>2, <2>4
    <3>3. cmdStatus'[c] = "applied" <=> \E f \in events' : f.cmd = c /\ f.kind = "completed"
      BY <2>1, <2>2, <2>4, <3>1
    <3>4. \A f \in events' : f.cmd = c /\ f.kind \in Terminal => f = e
      BY <2>1, <2>2, <2>4
    <3>5. \A f \in events' : f.cmd = c => f.seq <= e.seq
      BY <2>1, <2>2, <2>4
    <3>6. resultSeq'[c] = e.seq /\ (e.kind = "denied" => cmdStatus'[c] = "rejected")
      BY <2>1, <2>4, <3>1
    <3> QED
      BY <3>2, <3>3, <3>4, <3>5, <3>6 DEF Result
  <2> QED
    BY <2>3, <2>4
<1> QED
  BY <1>1, <1>3, <1>5, <1>6, Effects

-----------------------------------------------------------------------------
(* The theorems.                                                           *)

\* The inductive invariant holds of the empty database.
LEMMA InitInv == Init => IndInv
<1> SUFFICES ASSUME Init PROVE IndInv
  OBVIOUS
<1>1. TypeOK
  BY InitType
<1>2. RowsExist /\ SessionsStartEmpty /\ WritersAreKnown /\ TakenOver /\ ResultsOpen /\ MemoryIsOld
  BY DEF Init, RowsExist, SessionsStartEmpty, WritersAreKnown, TakenOver, ResultsOpen, MemoryIsOld, Idle
<1>3. LedgerAgrees
  BY DEF Init, LedgerAgrees, StaleRuns, Runs, OpenStatus
<1>4. SeqIntegrity /\ ResumeFencesEvents /\ ResumeFencesContext
  BY DEF Init, SeqIntegrity, ResumeFencesEvents, ResumeFencesContext
<1>5. ResultNamesItsEvent
  BY ResultExpanded DEF Init, Result
<1> QED
  BY <1>1, <1>2, <1>3, <1>4, <1>5 DEF IndInv

\* Every step of every process preserves the inductive invariant.
LEMMA StepInv == IndInv /\ [Next]_vars => IndInv'
BY TypeStep, RowsStep, AgreesStep, MemoryStep, WritersStep, TakenOverStep, FenceEventsStep,
   FenceContextStep, SeqStep, ResultStep DEF IndInv

\* The inductive invariant, which every other theorem of the module follows from.
THEOREM Invariance == Spec => []IndInv
<1>1. Init => IndInv
  BY InitInv
<1>2. IndInv /\ [Next]_vars => IndInv'
  BY StepInv
<1> QED
  BY <1>1, <1>2, PTL DEF Spec

\* Every row the transactions write has its type.
THEOREM TypeCorrect == Spec => []TypeOK
<1>1. IndInv => TypeOK
  BY DEF IndInv
<1> QED
  BY <1>1, Invariance, PTL

\* The log of every session is 1..last_seq, whoever appends to it.
THEOREM LogIsIntact == Spec => []SeqIntegrity
<1>1. IndInv => SeqIntegrity
  BY DEF IndInv
<1> QED
  BY <1>1, Invariance, PTL

\* A run that a resume found in the session writes neither a fact nor a message
\* after it.
THEOREM ResumeFences == Spec => []OvertakenRunsAreFenced
<1>1. IndInv => OvertakenRunsAreFenced
  BY DEF IndInv, OvertakenRunsAreFenced
<1> QED
  BY <1>1, Invariance, PTL

\* The status columns of sessions, commands and runs never contradict each other.
THEOREM StatusesAgree == Spec => []LedgerAgrees
<1>1. IndInv => LedgerAgrees
  BY DEF IndInv
<1> QED
  BY <1>1, Invariance, PTL

\* The outcome of a command is the one its closing event tells.
THEOREM ResultsAgree == Spec => []ResultNamesItsEvent
<1>1. IndInv => ResultNamesItsEvent
  BY DEF IndInv
<1> QED
  BY <1>1, Invariance, PTL
-----------------------------------------------------------------------------
(* The ledger implements CommandOutcomes.                                  *)

\* An empty ledger has answered nobody.
LEMMA InitOutcomes == Init => Outcomes!Init
<1> SUFFICES ASSUME Init PROVE Outcomes!Init
  OBVIOUS
<1>1. \A c \in Command : Answer(cmdStatus[c]) = "unknown"
  BY DEF Init, Answer, OpenStatus
<1>2. starts = [c \in Command |-> 0]
  BY DEF Init
<1> QED
  BY <1>1, <1>2 DEF Outcomes!Init

\* Every transaction opens one command, settles one, or is invisible to clients.
LEMMA StepOutcomes == IndInv /\ [Next]_vars => [Outcomes!Next]_(Outcomes!outcomeVars)
<1> DEFINE told == [c \in Command |-> Answer(cmdStatus[c])]
<1> SUFFICES ASSUME IndInv, [Next]_vars
             PROVE  Outcomes!Next \/ (told' = told /\ starts' = starts)
  BY DEF Outcomes!outcomeVars
<1>a. /\ starts \in [Command -> Nat] /\ starts' \in [Command -> Nat]
  BY TypeStep DEF IndInv, TypeOK
<1>1. CASE UNCHANGED tables
  BY <1>1 DEF tables, commandVars, historyVars
<1>2. ASSUME NEW p \in Process, NEW c \in Command, NEW s \in Session,
             Begun(p, c, s) \/ Resumed(p, c, s)
      PROVE  Outcomes!Next
  <2> DEFINE taken == {d \in Command : cmdStatus[d] \in OpenStatus /\ cmdStatus'[d] = "interrupted"}
  <2>1. starts' = [starts EXCEPT ![c] = @ + 1]
    BY <1>a, <1>2 DEF Begun, Resumed, Registered
  <2>2. cmdStatus[c] = "none" /\ cmdStatus'[c] = "accepted"
    BY <1>2 DEF Begun, Resumed, Registered
  <2>3. \A d \in Command : d # c => \/ cmdStatus'[d] = cmdStatus[d]
                                    \/ d \in taken
    BY <1>2 DEF Begun, Resumed, Registered
  <2>4. \A d \in taken : told[d] = "open" /\ told'[d] = "interrupted" /\ d # c
    BY <2>2 DEF Answer, OpenStatus
  <2>5. told[c] = "unknown" /\ told'[c] = "open"
    BY <2>2 DEF Answer, OpenStatus
  <2>6. \A d \in Command : told'[d] = IF d = c THEN "open"
                                      ELSE IF d \in taken THEN "interrupted"
                                      ELSE told[d]
    BY <2>3, <2>4, <2>5
  <2>7. told' = [d \in Command |-> IF d = c THEN "open"
                                   ELSE IF d \in taken THEN "interrupted"
                                   ELSE told[d]]
    BY <2>6
  <2>8. Outcomes!Open(c, taken)
    BY <2>1, <2>4, <2>5, <2>7 DEF Outcomes!Open
  <2> QED
    BY <2>8 DEF Outcomes!Next
<1>3. ASSUME NEW c \in Command, NEW answer \in SettledStatus,
             cmdStatus[c] \in OpenStatus,
             \A d \in Command : cmdStatus'[d] = IF d = c THEN answer ELSE cmdStatus[d],
             UNCHANGED starts
      PROVE  Outcomes!Next
  <2>1. told[c] = "open"
    BY <1>3 DEF Answer, OpenStatus
  <2>2. \A d \in Command : told'[d] = IF d = c THEN answer ELSE told[d]
    BY <1>3 DEF Answer, SettledStatus, OpenStatus
  <2>3. told' = [told EXCEPT ![c] = answer]
    BY <2>2
  <2>4. Outcomes!Settle(c, answer)
    BY <1>3, <2>1, <2>3 DEF Outcomes!Settle
  <2> QED
    BY <2>4 DEF Outcomes!Next, Outcomes!Settled, SettledStatus
<1>4. ASSUME NEW p \in Process, NEW c \in Command, NEW s \in Session, Rejected(p, c, s)
      PROVE  Outcomes!Next
  <2>1. "rejected" \in SettledStatus /\ cmdStatus[c] \in OpenStatus
    BY <1>4 DEF Rejected, SettledStatus, OpenStatus
  <2> QED
    BY <1>3, <1>4, <2>1 DEF Rejected
<1>5. ASSUME NEW p \in Process, NEW c \in Command, NEW s \in Session, NEW e \in Event,
             NEW k \in Terminal, TerminalAppended(p, c, s, e, k)
      PROVE  Outcomes!Next
  <2>1. TerminalCommandStatus(k) \in SettledStatus
    BY DEF TerminalCommandStatus, SettledStatus
  <2> QED
    BY <1>3, <1>5, <2>1 DEF TerminalAppended, Appended
<1>6. ASSUME NEW p \in Process, NEW c \in Command, NEW s \in Session,
             MessageRecorded(p, c, s) \/ \E e \in Event : FactAppended(p, c, s, e)
      PROVE  told' = told /\ starts' = starts
  <2>1. \A d \in Command : \/ cmdStatus'[d] = cmdStatus[d]
                           \/ cmdStatus[d] = "accepted" /\ cmdStatus'[d] = "running"
    BY <1>6 DEF MessageRecorded, FactAppended
  <2>2. \A d \in Command : told'[d] = told[d]
    BY <2>1 DEF Answer, OpenStatus
  <2> QED
    BY <1>6, <2>2 DEF MessageRecorded, FactAppended, Appended
<1> QED
  BY <1>1, <1>2, <1>4, <1>5, <1>6, Effects

\* A command is executed at most once and its answer is final.
THEOREM ImplementsOutcomes == Spec => RefinesCommandOutcomes
<1>1. Init => Outcomes!Init
  BY InitOutcomes
<1>2. IndInv /\ [Next]_vars => [Outcomes!Next]_(Outcomes!outcomeVars)
  BY StepOutcomes
<1> QED
  BY <1>1, <1>2, Invariance, PTL DEF Spec, RefinesCommandOutcomes, Outcomes!Spec
=============================================================================

