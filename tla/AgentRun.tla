------------------------------ MODULE AgentRun ------------------------------
(***************************************************************************)
(* One run of the agent (internal/agent/runtime.go, Agent.Run) over the two *)
(* logs of its session: the public events, kept here as the projection      *)
(* reduceRecord makes of them, and the private messages.  A run asks the    *)
(* model, records its answer, then prepares, authorizes and executes each   *)
(* call of the answer.  Every durable write is an action of its own, so     *)
(* that a cancellation, a failing store or a crash can come between any two.*)
(*                                                                          *)
(* Emit(ctx, ..) and RecordMessage(ctx, ..) fail once the context is done;  *)
(* those under context.WithoutCancel do not.  A write may also fail, or its *)
(* broadcast may fail after the commit, at most MaxFaults times.            *)
(***************************************************************************)
EXTENDS Naturals, Sequences, FiniteSets, Functions

CONSTANTS
    Reads,              \* tool calls with only read and state effects
    Writes,             \* tool calls that write one file through the journal
    Commands,           \* tool calls with execute or network effects
    Request,            \* what a call asks for: tool name and arguments
    RepeatedLimit,      \* the repeated call that ends a run (3 in the code)
    MaxTurns,           \* model requests of a run
    MaxToolCalls,       \* the tool budget of a run,
    MaxCommandCalls,    \* and its share for commands
    MaxAnswerCalls,     \* bound: calls in one answer of the model
    MaxRuns,            \* bound: runs of the session
    MaxFaults,          \* bound: failing writes
    None

Call == Reads \cup Writes \cup Commands
Run  == 1..MaxRuns

ASSUME CallsAreDistinct == Reads \cap Writes = {} /\ Reads \cap Commands = {} /\ Writes \cap Commands = {}

ASSUME RequestOfEveryCall == DOMAIN Request = Call

ASSUME LimitsAreNaturals ==
    /\ {RepeatedLimit, MaxTurns, MaxToolCalls, MaxCommandCalls, MaxAnswerCalls, MaxRuns, MaxFaults} \subseteq Nat
    /\ MaxRuns > 0

VARIABLES
    context,      \* private messages of the session, in order
    messages,     \* the runs of the message.completed events, in order
    tools,        \* phase the events give a call of a run (ToolView.Phase)
    approvals,    \* what the events say of the approval of a call of a run
    recoveries,   \* the recovery.resolved events
    status,       \* what the events say of a run (RunView.Status)
    journal,      \* patch journal of a call of a run
    effects,      \* the pairs <<run, call>> that changed something outside
    run,          \* number of the current run
    pc,           \* where Agent.Run is
    ctxDone,      \* the context of the run is cancelled
    shielded,     \* it was cancelled before Run began (startContext)
    recovery,     \* RunRequest.Recovery
    turn,         \* state.Turn
    todo,         \* calls of the last answer not handled yet, the current first
    failed,       \* toolOutcome.failed of the current call
    reserved,     \* state.ToolCalls and state.CommandCalls
    repeats,      \* repetitionTracker: last call and how often in a row
    ending,       \* terminal event finishError is about to emit
    overflowed,   \* addUsage found that a sum of the run no longer fits
    faults        \* failed writes so far

publicVars  == <<messages, tools, approvals, recoveries, status>>
sessionVars == <<context, publicVars, journal, effects>>
requestVars == <<run, shielded, overflowed>>
stateVars   == <<turn, reserved, repeats>>
vars == <<sessionVars, requestVars, stateVars, recovery, todo, failed, pc, ctxDone, ending, faults>>

-----------------------------------------------------------------------------
Phase         == {"none", "proposed", "running", "completed"}
JournalStatus == {"none", "prepared", "verified", "conflict", "aborted"}
Terminal      == {"completed", "failed", "cancelled"}
RecoveryKind  == {"reapprove", "retry_read", "retry_write", "verify_write"}
Step == {"start", "user", "ask", "answer", "message", "complete", "pick", "propose", "authorize",
         "asking", "granted", "executing", "intent", "ran", "succeeded", "failed", "tell",
         "resolve", "finish"}

Message  == [role : {"user", "assistant", "tool"}, run : Run, calls : Seq(Call)]
Recovery == [source : Run, call : Call, kind : RecoveryKind]

TypeOK ==
    /\ context \in Seq(Message)
    /\ messages \in Seq(Run)
    /\ tools \in [Run -> [Call -> Phase]]
    /\ approvals \in [Run -> [Call -> {"none", "pending", "resolved"}]]
    /\ recoveries \subseteq [run : Run, source : Run, call : Call]
    /\ status \in [Run -> {"none", "running"} \cup Terminal]
    /\ journal \in [Run -> [Call -> JournalStatus]]
    /\ effects \subseteq Run \X (Writes \cup Commands)
    /\ run \in Run
    /\ pc \in Step \cup {"returned", "dead"}
    /\ {ctxDone, shielded, failed, overflowed} \subseteq BOOLEAN
    /\ recovery \in Recovery \cup {None}
    /\ turn \in 0..MaxTurns
    /\ todo \in Seq(Call)
    /\ reserved \in [calls : 0..MaxToolCalls, commands : 0..MaxCommandCalls]
    /\ repeats.count \in Nat
    /\ ending \in Terminal
    /\ faults \in 0..MaxFaults

ForEveryCall(value) == [r \in Run |-> [c \in Call |-> value]]

\* A new RunState, repetitionTracker and RunRequest; the context may be done already.
NewRun(r, action, done) ==
    /\ run' = r /\ pc' = "start"
    /\ ctxDone' = done /\ shielded' = done
    /\ recovery' = action
    /\ todo' = IF action = None THEN <<>> ELSE <<action.call>>
    /\ turn' = 0 /\ failed' = FALSE /\ ending' = "failed" /\ overflowed' = FALSE
    /\ reserved' = [calls |-> 0, commands |-> 0]
    /\ repeats' = [request |-> None, count |-> 0]

Init ==
    /\ context = <<>> /\ messages = <<>>
    /\ tools = ForEveryCall("none")
    /\ approvals = ForEveryCall("none")
    /\ recoveries = {}
    /\ status = [r \in Run |-> "none"]
    /\ journal = ForEveryCall("none")
    /\ effects = {}
    /\ run = 1 /\ pc = "start"
    /\ ctxDone \in BOOLEAN /\ shielded = ctxDone
    /\ recovery = None
    /\ turn = 0 /\ todo = <<>> /\ failed = FALSE
    /\ reserved = [calls |-> 0, commands |-> 0]
    /\ repeats = [request |-> None, count |-> 0]
    /\ ending = "failed" /\ overflowed = FALSE
    /\ faults = 0

-----------------------------------------------------------------------------
\* How the run goes on after a write.

Active == pc \notin {"returned", "dead"}

\* The run handles the call it recovers, not one of an answer.
Recovering == recovery # None

Current == Head(todo)

\* The event is durable.  The run goes on at `next', or, when the broadcast
\* after the commit fails, where a failed Emit leads.
Emitted(next, error) ==
    \/ pc' = next /\ UNCHANGED faults
    \/ faults < MaxFaults /\ faults' = faults + 1 /\ pc' = error

Recorded(role, calls) == context' = Append(context, [role |-> role, run |-> run, calls |-> calls])

ToolIs(phase)     == tools' = [tools EXCEPT ![run][Current] = phase]
ApprovalIs(state) == approvals' = [approvals EXCEPT ![run][Current] = state]
JournalIs(state)  == journal' = [journal EXCEPT ![run][Current] = state]

FinishIfCancelled(end) ==          \* mutant: failures leave no terminal event
    pc' = (IF end = "cancelled" THEN "finish" ELSE "returned") /\ ending' = end

\* finishError: the run ends with a terminal event.
FinishWith(end) == pc' = "finish" /\ ending' = end

\* Where Run goes when the write at a step fails: it returns the error as it
\* is, without a terminal event, or ends through finishError.
FatalSteps     == {"start", "ask", "message", "complete", "propose", "granted", "succeeded",
                   "failed", "resolve", "finish"}
RecordingSteps == {"user", "answer", "tell"}

\* Writes under context.WithoutCancel, startContext when it is one.
ShieldedSteps == {"ask", "failed", "tell", "finish"} \cup (IF shielded THEN {"start", "user"} ELSE {})

WriteFails ==
    /\ pc \in FatalSteps \cup RecordingSteps
    /\ \/ ctxDone /\ pc \notin ShieldedSteps /\ UNCHANGED faults
       \/ faults < MaxFaults /\ faults' = faults + 1
    /\ IF pc \in FatalSteps
       THEN pc' = "returned" /\ UNCHANGED ending
       ELSE FinishWith(IF faults' = faults THEN "cancelled" ELSE "failed")
    /\ UNCHANGED <<sessionVars, requestVars, stateVars, recovery, todo, failed, ctxDone>>

\* A write that takes the context of the run goes through only before it is done.
Unshielded == ~ctxDone \/ pc \in ShieldedSteps

-----------------------------------------------------------------------------
\* The conversation.

Start ==
    /\ pc = "start" /\ Unshielded
    /\ status' = [status EXCEPT ![run] = "running"]
    /\ Emitted(IF Recovering THEN "pick" ELSE "user", "returned")
    /\ UNCHANGED <<context, messages, tools, approvals, recoveries, journal, effects, requestVars,
                   stateVars, recovery, todo, failed, ctxDone, ending>>

RecordUser ==
    /\ pc = "user" /\ Unshielded
    /\ Recorded("user", <<>>)
    /\ pc' = "ask"
    /\ UNCHANGED <<publicVars, journal, effects, requestVars, stateVars, recovery, todo, failed,
                   ctxDone, ending, faults>>

\* The calls the model may answer with: new ids, in some order.
Fresh   == Call \ UNION {Range(context[i].calls) : i \in DOMAIN context}
Answers == {s \in UNION {[1..n -> Fresh] : n \in 0..MaxAnswerCalls} : IsInjective(s)}

\* Top of the loop, the model's answer and the usage event that accounts for it.
AskModel ==
    /\ pc = "ask" /\ turn < MaxTurns /\ ~ctxDone
    /\ turn' = turn + 1
    /\ \E calls \in Answers : todo' = calls
    /\ Emitted("answer", "returned")
    /\ UNCHANGED <<sessionVars, requestVars, reserved, repeats, recovery, failed, ctxDone, ending>>

\* The usage event is durable, but a sum of the run, of tokens or of cost, no
\* longer fits its integer: addUsage refuses, and Run returns its error as it is,
\* whether or not the stream ended well.
SumsOverflow ==
    /\ pc = "ask" /\ turn < MaxTurns
    /\ turn' = turn + 1
    /\ overflowed' = TRUE /\ pc' = "returned"
    /\ UNCHANGED <<sessionVars, run, shielded, reserved, repeats, recovery, todo, failed, ctxDone,
                   ending, faults>>

\* Capabilities, Build, Stream or validateResponse fails, or the stream is cut.
ProviderFails ==
    /\ pc = "ask" /\ turn < MaxTurns
    /\ turn' = turn + 1
    /\ \E end \in {"failed", "cancelled"} : FinishWith(end)
    /\ UNCHANGED <<sessionVars, requestVars, reserved, repeats, recovery, todo, failed, ctxDone, faults>>

\* The loop ends: no turn is left, or the context is done.
LoopEnd == IF turn = MaxTurns THEN "failed" ELSE "cancelled"

LeaveLoop ==
    /\ pc = "ask" /\ (turn = MaxTurns \/ ctxDone)
    /\ FinishWith(LoopEnd)
    /\ UNCHANGED <<sessionVars, requestVars, stateVars, recovery, todo, failed, ctxDone, faults>>

RecordAnswer ==
    /\ pc = "answer" /\ ~ctxDone
    /\ Recorded("assistant", todo)
    /\ pc' = "message"
    /\ UNCHANGED <<publicVars, journal, effects, requestVars, stateVars, recovery, todo, failed,
                   ctxDone, ending, faults>>

CompleteMessage ==
    /\ pc = "message" /\ ~ctxDone
    /\ messages' = Append(messages, run)
    /\ Emitted(IF todo = <<>> THEN "complete" ELSE "pick", "returned")
    /\ UNCHANGED <<context, tools, approvals, recoveries, status, journal, effects, requestVars,
                   stateVars, recovery, todo, failed, ctxDone, ending>>

Terminate(end) ==
    /\ status' = [status EXCEPT ![run] = end]
    /\ Emitted("returned", "returned")
    /\ UNCHANGED <<context, messages, tools, approvals, recoveries, journal, effects, requestVars,
                   stateVars, recovery, todo, failed, ctxDone, ending>>

Complete == pc = "complete" /\ ~ctxDone /\ Terminate("completed")
Finish   == pc = "finish" /\ Terminate(ending)

-----------------------------------------------------------------------------
\* One tool call: executeOne, and executeRecovered for the recovered call.

\* state.reserveToolCall
BudgetLeft(c) ==
    /\ reserved.calls < MaxToolCalls
    /\ c \in Commands => reserved.commands < MaxCommandCalls

\* tracker.observeCall
ObservedPerAnswer(c) ==                                  \* mutant: starts anew with every answer
    IF repeats.request = Request[c] /\ context[Len(context)].role = "tool" THEN repeats.count + 1 ELSE 1

Observed(c) == IF repeats.request = Request[c] THEN repeats.count + 1 ELSE 1

\* The call takes its share of the budget; the same call once too often ends the run.
Pick ==
    /\ pc = "pick" /\ BudgetLeft(Current)
    /\ reserved' = [calls    |-> reserved.calls + 1,
                    commands |-> reserved.commands + IF Current \in Commands THEN 1 ELSE 0]
    /\ IF Recovering
       THEN pc' = "propose" /\ UNCHANGED <<repeats, ending>>
       ELSE /\ repeats' = [request |-> Request[Current], count |-> Observed(Current)]
            /\ IF Observed(Current) >= RepeatedLimit
               THEN FinishWith("failed")
               ELSE pc' = "propose" /\ UNCHANGED ending
    /\ UNCHANGED <<sessionVars, requestVars, turn, recovery, todo, failed, ctxDone, faults>>

BudgetSpent ==
    /\ pc = "pick" /\ ~BudgetLeft(Current)
    /\ FinishWith("failed")
    /\ UNCHANGED <<sessionVars, requestVars, stateVars, recovery, todo, failed, ctxDone, faults>>

Verifying == Recovering /\ recovery.kind = "verify_write"

\* Steps of a call that change the phase of its tool.
Propose ==
    /\ pc = "propose" /\ ~ctxDone
    /\ ToolIs("proposed")
    /\ Emitted(IF Verifying THEN "succeeded" ELSE "authorize", "returned")
    /\ UNCHANGED <<approvals, failed>>

\* An unknown tool, or arguments that Prepare refuses: proposed, then failed.
PrepareFails ==
    /\ pc = "propose" /\ ~Verifying
    /\ ToolIs("proposed")
    /\ Emitted("failed", "returned")
    /\ UNCHANGED <<approvals, failed>>

StartTool ==
    /\ pc = "granted" /\ ~ctxDone
    /\ ToolIs("running")
    /\ Emitted("executing", "returned")
    /\ UNCHANGED <<approvals, failed>>

Succeed ==
    /\ pc = "succeeded" /\ ~ctxDone
    /\ ToolIs("completed") /\ failed' = FALSE
    /\ Emitted("tell", "returned")
    /\ UNCHANGED approvals

\* failedTool, and the failing ends of executeOne: emitted under WithoutCancel.
FailTool ==
    /\ pc = "failed"
    /\ ToolIs("completed") /\ failed' = TRUE
    /\ Emitted("tell", "returned")
    /\ UNCHANGED approvals

\* Authorizer.Authorize and Reauthorize.  Policy denial, a wrong directory, no
\* broker, a done context or a failing event all come back as a failed tool.
Refuse ==
    /\ pc = "authorize" /\ pc' = "failed"
    /\ UNCHANGED <<tools, approvals, failed, faults>>

\* DecisionAllow; Reauthorize asks even then.
Allow ==
    /\ pc = "authorize" /\ ~ctxDone /\ ~Recovering
    /\ pc' = "granted"
    /\ UNCHANGED <<tools, approvals, failed, faults>>

RequestApproval ==
    /\ pc = "authorize" /\ ~ctxDone
    /\ ApprovalIs("pending")
    /\ Emitted("asking", "failed")
    /\ UNCHANGED <<tools, failed>>

\* The user decides, and approval.resolved says so.
ApprovalDecided(next) ==
    /\ pc = "asking" /\ ~ctxDone
    /\ ApprovalIs("resolved")
    /\ Emitted(next, "failed")
    /\ UNCHANGED <<tools, failed>>

MayGiveUpBeforeDone == pc = "asking" /\ ~ctxDone   \* mutant: a done context does not wake it up
MayGiveUp           == pc = "asking"

\* broker.Decide returns an error: the context is done, the broker is closed,
\* its input ends, or the answers make no sense.
Unanswered ==
    /\ MayGiveUp
    /\ pc' = "failed"
    /\ UNCHANGED <<tools, approvals, failed, faults>>

ToolStep ==
    /\ \/ Propose \/ PrepareFails \/ StartTool \/ Succeed \/ FailTool
       \/ Refuse \/ Allow \/ RequestApproval
    /\ UNCHANGED <<context, messages, recoveries, status, journal, effects, requestVars, stateVars,
                   recovery, todo, ctxDone, ending>>

ApprovalStep ==
    /\ \/ ApprovalDecided("granted") \/ ApprovalDecided("failed") \/ Unanswered
    /\ UNCHANGED <<context, messages, recoveries, status, journal, effects, requestVars, stateVars,
                   recovery, todo, ctxDone, ending>>

\* Tool.Execute.  It may fail at any point; a read, a command, or a write:
\* intent journalled, file replaced, result checked.
ToolFails ==
    /\ pc \in {"executing", "intent", "ran"} /\ pc' = "failed"
    /\ UNCHANGED <<journal, effects>>

Read ==
    /\ pc = "executing" /\ Current \in Reads
    /\ pc' = "succeeded"
    /\ UNCHANGED <<journal, effects>>

RecordIntent ==
    /\ pc = "executing" /\ Current \in Writes
    /\ JournalIs("prepared") /\ pc' = "intent"
    /\ UNCHANGED effects

TakeEffect ==
    /\ \/ pc = "executing" /\ Current \in Commands
       \/ pc = "intent"
    /\ effects' = effects \cup {<<run, Current>>} /\ pc' = "ran"
    /\ UNCHANGED journal

CommandEnds ==
    /\ pc = "ran" /\ Current \in Commands
    /\ pc' = "succeeded"
    /\ UNCHANGED <<journal, effects>>

VerifyPost ==
    /\ pc = "ran" /\ Current \in Writes
    /\ \/ JournalIs("verified") /\ pc' = "succeeded"
       \/ JournalIs("conflict") /\ pc' = "failed"
    /\ UNCHANGED effects

ExecuteStep ==
    /\ \/ ToolFails \/ Read \/ RecordIntent \/ TakeEffect \/ CommandEnds \/ VerifyPost
    /\ UNCHANGED <<context, publicVars, requestVars, stateVars, recovery, todo, failed, ctxDone,
                   ending, faults>>

\* The result becomes a private message.  A failure once too often in a row
\* ends the run; which failures are the same is left open.
Tell ==
    /\ pc = "tell"
    /\ Recorded("tool", <<Current>>)
    /\ IF Recovering
       THEN pc' = "resolve" /\ UNCHANGED <<todo, ending>>
       ELSE /\ todo' = Tail(todo)
            /\ \/ pc' = (IF Len(todo) = 1 THEN "ask" ELSE "pick") /\ UNCHANGED ending
               \/ failed /\ FinishWith("failed")
    /\ UNCHANGED <<publicVars, journal, effects, requestVars, stateVars, recovery, failed, ctxDone, faults>>

\* recovery.resolved ties the result to the call of the earlier run.
Resolve ==
    /\ pc = "resolve" /\ ~ctxDone
    /\ recoveries' = recoveries \cup {[run |-> run, source |-> recovery.source, call |-> recovery.call]}
    /\ recovery' = None /\ todo' = <<>>
    /\ Emitted("user", "returned")
    /\ UNCHANGED <<context, messages, tools, approvals, status, journal, effects, requestVars,
                   stateVars, failed, ctxDone, ending>>

-----------------------------------------------------------------------------
\* What the run does by itself, the user's answers left out.
RunStep ==
    \/ Start \/ RecordUser \/ AskModel \/ SumsOverflow \/ ProviderFails \/ LeaveLoop \/ RecordAnswer
    \/ CompleteMessage \/ Complete \/ Finish \/ Pick \/ BudgetSpent \/ Tell \/ Resolve
    \/ ToolStep \/ ExecuteStep \/ WriteFails

Cancel ==
    /\ Active /\ ~ctxDone
    /\ ctxDone' = TRUE
    /\ UNCHANGED <<sessionVars, requestVars, stateVars, recovery, todo, failed, pc, ending, faults>>

Next == RunStep \/ ApprovalStep \/ Cancel

\* A step of the run that can be taken is taken; a broker whose context is
\* done returns.  Nobody makes the user answer.
Fairness == WF_vars(RunStep) /\ WF_vars(ctxDone /\ ApprovalStep)

Spec == Init /\ [][Next]_vars /\ Fairness

-----------------------------------------------------------------------------
(***************************************************************************)
(* A run proposes no more calls than its budget, and no more commands than  *)
(* the share of commands: denied, failed and recovered calls count too.     *)
(***************************************************************************)
Proposed(r) == {c \in Call : tools[r][c] # "none"}

WithinBudget ==
    \A r \in Run :
        /\ Cardinality(Proposed(r)) <= MaxToolCalls
        /\ Cardinality(Proposed(r) \cap Commands) <= MaxCommandCalls

(***************************************************************************)
(* A run never answers RepeatedLimit calls of one request in a row, also    *)
(* when they come in different answers of the model.                        *)
(***************************************************************************)
Results(r)       == {i \in DOMAIN context : context[i].role = "tool" /\ context[i].run = r}
Between(r, i, j) == {n \in Results(r) : i <= n /\ n <= j}
RequestAt(i)     == Request[context[i].calls[1]]

NoRepeatedCalls ==
    \A r \in Run : \A i \in Results(r), j \in Results(r) :
        (\A n \in Between(r, i, j) : RequestAt(n) = RequestAt(i)) =>
            Cardinality(Between(r, i, j)) < RepeatedLimit

\* Both limits of a run that begins a session.
LimitsHold == WithinBudget /\ NoRepeatedCalls

(***************************************************************************)
(* A run that returned without a terminal event was cancelled, could not    *)
(* write, or could not add up what it used: no limit, denial or failure of  *)
(* a tool or of the model ends a run silently.                              *)
(***************************************************************************)
SilentEndHasACause ==
    pc = "returned" /\ status[run] \notin Terminal => ctxDone \/ faults > 0 \/ overflowed

(***************************************************************************)
(* What the documents promise of a cancelled run: one that started, was     *)
(* cancelled and returned, every write it was free to make and every sum    *)
(* having succeeded, has a terminal event.                                  *)
(***************************************************************************)
CancelledRunsTerminate ==
    pc = "returned" /\ ctxDone /\ status[run] # "none" /\ faults = 0 /\ ~overflowed =>
        status[run] \in Terminal

(***************************************************************************)
(* A cancelled run returns, whatever it is doing: waiting for an approval,  *)
(* for the model, for a tool, or between two of them.                       *)
(***************************************************************************)
CancelReturns == ctxDone ~> ~Active
=============================================================================
