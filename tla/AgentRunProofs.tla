--------------------------- MODULE AgentRunProofs ---------------------------
(***************************************************************************)
(* Theorems about one run of the agent (AgentRun, for any calls and limits) *)
(* and about a session of several runs (SessionResume, for any number of    *)
(* runs that die, end and are resumed).                                     *)
(***************************************************************************)
EXTENDS SessionResume, FiniteSetTheorems, SequenceTheorems, TLAPS

-----------------------------------------------------------------------------
(***************************************************************************)
(* Types.                                                                  *)
(***************************************************************************)

Place == Step \cup {"returned", "dead"}

CallSteps == {"pick", "propose", "authorize", "asking", "granted", "executing", "intent", "ran",
              "succeeded", "failed", "tell"}

Conversation == {"user", "ask", "answer", "message", "complete"}

\* A run handles a call while one is left, and records an intent for a write; one
\* that recovers a call handles that call and nothing else.
WellTyped ==
  /\ TypeOK
  /\ pc \in CallSteps \cup {"resolve"} => todo # <<>>
  /\ recovery # None => todo = <<recovery.call>> /\ pc \notin Conversation
  /\ pc = "resolve" => recovery # None
  /\ pc = "intent" => Head(todo) \in Writes

\* A run that begins a session recovers nothing.
Typed == WellTyped /\ recovery = None

LEMMA RunsAreNumbered == 1 \in Run
BY LimitsAreNaturals DEF Run

LEMMA OneIsSome == ASSUME NEW c PROVE <<c>> # <<>>
<1>1. Len(<<c>>) = 1 /\ Len(<<>>) = 0
  OBVIOUS
<1> QED
  BY <1>1

LEMMA EmittedType ==
  ASSUME TypeOK, NEW next \in Place, NEW error \in Place, Emitted(next, error)
  PROVE  pc' \in {next, error} /\ faults' \in 0..MaxFaults
BY LimitsAreNaturals DEF TypeOK, Emitted

LEMMA RecordedType ==
  ASSUME TypeOK, NEW role \in {"user", "assistant", "tool"}, NEW calls \in Seq(Call), Recorded(role, calls)
  PROVE  context' \in Seq(Message)
<1>1. [role |-> role, run |-> run, calls |-> calls] \in Message
  BY DEF TypeOK, Message
<1> QED
  BY <1>1 DEF TypeOK, Recorded

LEMMA AnswersAreCalls == Answers \subseteq Seq(Call)
<1> SUFFICES ASSUME NEW s \in Answers PROVE s \in Seq(Call)
  OBVIOUS
<1>1. PICK n \in 0..MaxAnswerCalls : s \in [1..n -> Fresh]
  BY DEF Answers
<1>2. s \in [1..n -> Call] /\ n \in Nat
  BY <1>1, LimitsAreNaturals DEF Fresh
<1> QED
  BY <1>2, SeqDef

LEMMA CurrentIsCall == ASSUME WellTyped, pc \in CallSteps PROVE Current \in Call /\ Tail(todo) \in Seq(Call)
BY DEF WellTyped, TypeOK, Current

LEMMA InitTyped == ASSUME Init PROVE Typed
<1>1. 0 \in 0..MaxToolCalls /\ 0 \in 0..MaxCommandCalls /\ 0 \in 0..MaxTurns /\ 0 \in 0..MaxFaults
  BY LimitsAreNaturals
<1>2. reserved \in [calls : 0..MaxToolCalls, commands : 0..MaxCommandCalls] /\ repeats.count \in Nat
  BY <1>1 DEF Init
<1>3. context \in Seq(Message) /\ messages \in Seq(Run) /\ todo \in Seq(Call)
  BY DEF Init
<1>4. /\ tools \in [Run -> [Call -> Phase]]
      /\ approvals \in [Run -> [Call -> {"none", "pending", "resolved"}]]
      /\ journal \in [Run -> [Call -> JournalStatus]]
      /\ status \in [Run -> {"none", "running"} \cup Terminal]
  BY DEF Init, ForEveryCall, Phase, JournalStatus
<1>5. run \in Run /\ pc \in Step /\ ending \in Terminal
      /\ pc \notin CallSteps \cup Conversation \cup {"resolve", "intent"}
  BY RunsAreNumbered DEF Init, Step, Terminal, CallSteps, Conversation
<1> QED
  BY <1>1, <1>2, <1>3, <1>4, <1>5 DEF Init, Typed, WellTyped, TypeOK

LEMMA ConversationTyped ==
  ASSUME WellTyped, Start \/ RecordUser \/ AskModel \/ RecordAnswer \/ CompleteMessage \/ Complete \/ Finish
  PROVE  WellTyped'
<1> USE DEF sessionVars, publicVars, requestVars, stateVars
<1>1. CASE Start
  <2>1. pc' \in {IF Recovering THEN "pick" ELSE "user", "returned"} /\ faults' \in 0..MaxFaults
    BY <1>1, EmittedType DEF Start, WellTyped, Place, Step
  <2>2. status' \in [Run -> {"none", "running"} \cup Terminal]
    BY <1>1 DEF Start, WellTyped, TypeOK
  <2>3. pc' \in CallSteps => todo # <<>>
    <3> SUFFICES ASSUME Recovering PROVE todo # <<>>
      BY <2>1 DEF CallSteps
    <3> QED
      BY OneIsSome DEF Recovering, WellTyped
  <2>4. recovery # None => todo = <<recovery.call>> /\ pc' \notin Conversation
    BY <2>1 DEF Recovering, WellTyped, Conversation
  <2> QED
    BY <1>1, <2>1, <2>2, <2>3, <2>4
    DEF Start, sessionVars, publicVars, requestVars, stateVars, WellTyped, TypeOK, Step, CallSteps
<1>2. CASE RecordUser
  <2>1. context' \in Seq(Message)
    <3>1. <<>> \in Seq(Call)
      OBVIOUS
    <3> QED
      BY <1>2, <3>1, RecordedType DEF RecordUser, WellTyped
  <2> QED
    BY <1>2, <2>1 DEF RecordUser, WellTyped, TypeOK, Step, CallSteps, Conversation
<1>3. CASE AskModel
  <2>1. pc' \in {"answer", "returned"} /\ faults' \in 0..MaxFaults
    BY <1>3, EmittedType DEF AskModel, WellTyped, Place, Step
  <2>2. turn' \in 0..MaxTurns /\ todo' \in Seq(Call)
    BY <1>3, AnswersAreCalls, LimitsAreNaturals DEF AskModel, WellTyped, TypeOK
  <2> QED
    BY <1>3, <2>1, <2>2 DEF AskModel, WellTyped, TypeOK, Step, CallSteps, Conversation
<1>4. CASE RecordAnswer
  <2>1. context' \in Seq(Message)
    BY <1>4, RecordedType DEF RecordAnswer, WellTyped, TypeOK
  <2> QED
    BY <1>4, <2>1 DEF RecordAnswer, WellTyped, TypeOK, Step, CallSteps, Conversation
<1>5. CASE CompleteMessage
  <2>1. pc' \in {IF todo = <<>> THEN "complete" ELSE "pick", "returned"} /\ faults' \in 0..MaxFaults
    BY <1>5, EmittedType DEF CompleteMessage, WellTyped, Place, Step
  <2>2. messages' \in Seq(Run)
    BY <1>5 DEF CompleteMessage, WellTyped, TypeOK
  <2> QED
    BY <1>5, <2>1, <2>2 DEF CompleteMessage, WellTyped, TypeOK, Step, CallSteps, Conversation
<1>6. ASSUME NEW end \in Terminal, Terminate(end) PROVE WellTyped'
  <2>1. pc' = "returned" /\ faults' \in 0..MaxFaults
    BY <1>6, EmittedType DEF Terminate, WellTyped, Place, Step
  <2>2. status' \in [Run -> {"none", "running"} \cup Terminal]
    BY <1>6 DEF Terminate, WellTyped, TypeOK
  <2> QED
    BY <1>6, <2>1, <2>2 DEF Terminate, WellTyped, TypeOK, Step, CallSteps, Conversation
<1>7. ending \in Terminal /\ "completed" \in Terminal
  BY DEF WellTyped, TypeOK, Terminal
<1> QED
  BY <1>1, <1>2, <1>3, <1>4, <1>5, <1>6, <1>7 DEF Complete, Finish

LEMMA LimitsTyped ==
  ASSUME WellTyped,
         SumsOverflow \/ ProviderFails \/ LeaveLoop \/ Pick \/ BudgetSpent \/ Tell \/ Cancel \/ WriteFails
  PROVE  WellTyped'
<1> USE DEF sessionVars, publicVars, requestVars, stateVars
<1>1. CASE ProviderFails
  <2>1. turn' \in 0..MaxTurns
    BY <1>1, LimitsAreNaturals DEF ProviderFails, WellTyped, TypeOK
  <2> QED
    BY <1>1, <2>1 DEF ProviderFails, FinishWith, WellTyped, TypeOK, Step, Terminal, CallSteps, Conversation
<1>2. CASE LeaveLoop
  BY <1>2 DEF LeaveLoop, LoopEnd, FinishWith, WellTyped, TypeOK, Step, Terminal, CallSteps, Conversation
<1>3. CASE Pick
  <2>1. reserved' \in [calls : 0..MaxToolCalls, commands : 0..MaxCommandCalls]
    <3>1. /\ reserved.calls \in Nat /\ reserved.commands \in Nat /\ MaxToolCalls \in Nat /\ MaxCommandCalls \in Nat
          /\ reserved.commands <= MaxCommandCalls /\ reserved.calls < MaxToolCalls
          /\ Current \in Commands => reserved.commands < MaxCommandCalls
      BY <1>3, LimitsAreNaturals DEF Pick, BudgetLeft, WellTyped, TypeOK
    <3>2. CASE Current \in Commands
      BY <1>3, <3>1, <3>2 DEF Pick
    <3>3. CASE Current \notin Commands
      BY <1>3, <3>1, <3>3 DEF Pick
    <3> QED
      BY <3>2, <3>3
  <2>2. Observed(Current) \in Nat
    BY DEF Observed, WellTyped, TypeOK
  <2>3. repeats'.count \in Nat /\ pc' \in {"finish", "propose"} /\ ending' \in Terminal
    BY <1>3, <2>2 DEF Pick, Recovering, FinishWith, WellTyped, TypeOK, Terminal
  <2> QED
    BY <1>3, <2>1, <2>3 DEF Pick, WellTyped, TypeOK, Step, CallSteps, Conversation
<1>4. CASE BudgetSpent
  BY <1>4 DEF BudgetSpent, FinishWith, WellTyped, TypeOK, Step, Terminal, CallSteps, Conversation
<1>5. CASE Tell
  <2>1. Current \in Call /\ Tail(todo) \in Seq(Call) /\ todo \in Seq(Call) /\ todo # <<>>
    BY <1>5, CurrentIsCall DEF Tell, CallSteps, Conversation, WellTyped, TypeOK
  <2>2. context' \in Seq(Message)
    <3>1. <<Current>> \in Seq(Call)
      BY <2>1
    <3> QED
      BY <1>5, <3>1, RecordedType DEF Tell, WellTyped
  <2>3. /\ \/ Recovering /\ pc' = "resolve" /\ todo' = todo
           \/ /\ ~ Recovering /\ todo' = Tail(todo)
              /\ pc' \in {"ask", "pick", "finish"}
              /\ pc' = "pick" => Len(todo) # 1
        /\ ending' \in Terminal
    BY <1>5 DEF Tell, Recovering, FinishWith, WellTyped, TypeOK, Terminal
  <2>4. Len(todo) # 1 => Tail(todo) # <<>>
    <3>1. Len(todo) \in Nat /\ Len(todo) # 0 /\ Len(Tail(todo)) = Len(todo) - 1
      BY <2>1
    <3>2. Len(<<>>) = 0
      OBVIOUS
    <3> QED
      BY <3>1, <3>2
  <2>5. UNCHANGED <<messages, tools, approvals, recoveries, status, journal, effects, run, shielded, overflowed,
                    turn, reserved, repeats, recovery, failed, ctxDone, faults>>
    BY <1>5 DEF Tell
  <2>6. CASE Recovering
    <3>1. pc' = "resolve" /\ todo' = todo
      BY <2>3, <2>6
    <3> QED
      BY <2>1, <2>2, <2>3, <2>5, <2>6, <3>1 DEF Recovering, WellTyped, TypeOK, Step, CallSteps, Conversation
  <2>7. CASE ~ Recovering
    <3>1. todo' = Tail(todo) /\ pc' \in {"ask", "pick", "finish"} /\ (pc' \in CallSteps => Tail(todo) # <<>>)
      BY <2>3, <2>4, <2>7 DEF CallSteps
    <3> QED
      BY <2>1, <2>2, <2>3, <2>5, <2>7, <3>1 DEF Recovering, WellTyped, TypeOK, Step, CallSteps, Conversation
  <2> QED
    BY <2>6, <2>7
<1>6. CASE Cancel
  BY <1>6 DEF Cancel, WellTyped, TypeOK
<1>7. CASE WriteFails
  <2>1. pc' \in {"returned", "finish"} /\ ending' \in Terminal
    BY <1>7 DEF WriteFails, FinishWith, WellTyped, TypeOK, Terminal
  <2>2. faults' \in 0..MaxFaults
    BY <1>7, LimitsAreNaturals DEF WriteFails, WellTyped, TypeOK
  <2> QED
    BY <1>7, <2>1, <2>2 DEF WriteFails, WellTyped, TypeOK, Step, CallSteps, Conversation
<1>8. CASE SumsOverflow
  <2>1. turn' \in 0..MaxTurns
    BY <1>8, LimitsAreNaturals DEF SumsOverflow, WellTyped, TypeOK
  <2> QED
    BY <1>8, <2>1 DEF SumsOverflow, WellTyped, TypeOK, CallSteps, Conversation
<1> QED
  BY <1>1, <1>2, <1>3, <1>4, <1>5, <1>6, <1>7, <1>8

\* A step of one call that leaves its place among the steps of a call, or gives up.
LEMMA CallStepTyped ==
  ASSUME WellTyped, pc \in CallSteps, pc' \in CallSteps \cup {"returned"}, faults' \in 0..MaxFaults,
         tools' \in [Run -> [Call -> Phase]], approvals' \in [Run -> [Call -> {"none", "pending", "resolved"}]],
         journal' \in [Run -> [Call -> JournalStatus]], effects' \subseteq Run \X (Writes \cup Commands),
         failed' \in BOOLEAN, pc' = "intent" => Head(todo) \in Writes,
         UNCHANGED <<context, messages, recoveries, status, requestVars, stateVars, recovery, todo, ctxDone, ending>>
  PROVE  WellTyped'
<1>1. pc' \in Step \cup {"returned", "dead"} /\ pc' # "resolve" /\ (pc' \in CallSteps => todo' # <<>>)
  BY DEF WellTyped, CallSteps, Step
<1>2. recovery' # None => todo' = <<recovery'.call>> /\ pc' \notin Conversation
  BY DEF WellTyped, CallSteps, Conversation
<1> QED
  BY <1>1, <1>2 DEF WellTyped, TypeOK, requestVars, stateVars

LEMMA ToolTyped == ASSUME WellTyped, ToolStep PROVE WellTyped'
<1>1. pc \in CallSteps
  BY DEF ToolStep, Propose, PrepareFails, StartTool, Succeed, FailTool, Refuse, Allow, RequestApproval, CallSteps, Conversation
<1>2. Current \in Call
  BY <1>1, CurrentIsCall
<1>3. ASSUME NEW phase \in Phase, ToolIs(phase) PROVE tools' \in [Run -> [Call -> Phase]]
  BY <1>2, <1>3 DEF ToolIs, WellTyped, TypeOK
<1>4. ASSUME NEW state \in {"pending", "resolved"}, ApprovalIs(state)
      PROVE  approvals' \in [Run -> [Call -> {"none", "pending", "resolved"}]]
  BY <1>2, <1>4 DEF ApprovalIs, WellTyped, TypeOK
<1>5. {"proposed", "running", "completed"} \subseteq Phase
  BY DEF Phase
<1>6. tools' \in [Run -> [Call -> Phase]]
  BY <1>3, <1>5 DEF ToolStep, Propose, PrepareFails, StartTool, Succeed, FailTool, Refuse, Allow, RequestApproval,
                    WellTyped, TypeOK
<1>7. approvals' \in [Run -> [Call -> {"none", "pending", "resolved"}]] /\ failed' \in BOOLEAN
  BY <1>4 DEF ToolStep, Propose, PrepareFails, StartTool, Succeed, FailTool, Refuse, Allow, RequestApproval,
              WellTyped, TypeOK
<1>8. pc' \in (CallSteps \ {"intent"}) \cup {"returned"} /\ faults' \in 0..MaxFaults
  <2>1. ASSUME NEW next \in CallSteps \ {"intent"}, NEW error \in {"failed", "returned"}, Emitted(next, error)
        PROVE  pc' \in (CallSteps \ {"intent"}) \cup {"returned"} /\ faults' \in 0..MaxFaults
    BY <2>1, EmittedType DEF WellTyped, Place, Step, CallSteps, Conversation
  <2>2. {"succeeded", "authorize", "failed", "executing", "tell", "asking", "granted"}
          \subseteq CallSteps \ {"intent"}
    BY DEF CallSteps, Conversation
  <2>3. CASE Propose \/ PrepareFails \/ StartTool \/ Succeed \/ FailTool \/ RequestApproval
    BY <2>1, <2>2, <2>3 DEF Propose, PrepareFails, StartTool, Succeed, FailTool, RequestApproval
  <2>4. CASE Refuse \/ Allow
    BY <2>2, <2>4 DEF Refuse, Allow, WellTyped, TypeOK
  <2> QED
    BY <2>3, <2>4 DEF ToolStep
<1>9. UNCHANGED <<context, messages, recoveries, status, journal, effects, requestVars, stateVars,
                  recovery, todo, ctxDone, ending>>
  BY DEF ToolStep
<1> QED
  BY <1>1, <1>6, <1>7, <1>8, <1>9, CallStepTyped DEF WellTyped, TypeOK

LEMMA ApprovalTyped == ASSUME WellTyped, ApprovalStep PROVE WellTyped'
<1>1. pc \in CallSteps
  BY DEF ApprovalStep, ApprovalDecided, Unanswered, MayGiveUp, CallSteps, Conversation
<1>2. Current \in Call
  BY <1>1, CurrentIsCall
<1>3. ASSUME NEW next \in {"granted", "failed"}, ApprovalDecided(next)
      PROVE  /\ approvals' \in [Run -> [Call -> {"none", "pending", "resolved"}]]
             /\ pc' \in {"granted", "failed"} /\ faults' \in 0..MaxFaults
             /\ UNCHANGED <<tools, failed>>
  <2>1. pc' \in {next, "failed"} /\ faults' \in 0..MaxFaults
    BY <1>3, EmittedType DEF ApprovalDecided, WellTyped, Place, Step
  <2> QED
    BY <1>2, <1>3, <2>1 DEF ApprovalDecided, ApprovalIs, WellTyped, TypeOK, CallSteps, Conversation
<1>4. CASE Unanswered
  BY <1>1, <1>4, CallStepTyped DEF ApprovalStep, Unanswered, WellTyped, TypeOK, CallSteps, Conversation
<1>5. CASE ~ Unanswered
  BY <1>1, <1>3, <1>5, CallStepTyped DEF ApprovalStep, WellTyped, TypeOK, CallSteps, Conversation
<1> QED
  BY <1>4, <1>5

LEMMA ExecuteTyped == ASSUME WellTyped, ExecuteStep PROVE WellTyped'
<1>1. pc \in CallSteps
  BY DEF ExecuteStep, ToolFails, Read, RecordIntent, TakeEffect, CommandEnds, VerifyPost, CallSteps, Conversation
<1>2. Current \in Call
  BY <1>1, CurrentIsCall
<1>3. pc' \in CallSteps
  BY DEF ExecuteStep, ToolFails, Read, RecordIntent, TakeEffect, CommandEnds, VerifyPost, CallSteps, Conversation
<1>4. ASSUME NEW state \in {"prepared", "verified", "conflict"}, JournalIs(state)
      PROVE  journal' \in [Run -> [Call -> JournalStatus]]
  BY <1>2, <1>4 DEF JournalIs, JournalStatus, WellTyped, TypeOK
<1>5. journal' \in [Run -> [Call -> JournalStatus]]
  BY <1>4 DEF ExecuteStep, ToolFails, Read, RecordIntent, TakeEffect, CommandEnds, VerifyPost, WellTyped, TypeOK
<1>6. pc' = "intent" => Head(todo) \in Writes
  BY DEF ExecuteStep, ToolFails, Read, RecordIntent, TakeEffect, CommandEnds, VerifyPost, Current
<1>7. effects' \subseteq Run \X (Writes \cup Commands)
  <2>1. CASE TakeEffect
    <3>1. Current \in Writes \cup Commands
      BY <2>1 DEF TakeEffect, Current, WellTyped
    <3> QED
      BY <2>1, <3>1 DEF TakeEffect, WellTyped, TypeOK
  <2>2. CASE ~ TakeEffect
    BY <2>2 DEF ExecuteStep, ToolFails, Read, RecordIntent, CommandEnds, VerifyPost, WellTyped, TypeOK
  <2> QED
    BY <2>1, <2>2
<1>8. UNCHANGED <<context, publicVars, requestVars, stateVars, recovery, todo, failed, ctxDone, ending, faults>>
  BY DEF ExecuteStep
<1> QED
  BY <1>1, <1>3, <1>5, <1>6, <1>7, <1>8, CallStepTyped DEF publicVars, WellTyped, TypeOK

LEMMA ResolveTyped == ASSUME WellTyped, Resolve PROVE WellTyped' /\ recovery' = None
<1>1. pc' \in {"user", "returned"} /\ faults' \in 0..MaxFaults
  BY EmittedType DEF Resolve, WellTyped, Place, Step
<1>2. recovery \in Recovery
  BY DEF Resolve, WellTyped, TypeOK
<1>3. recoveries' \subseteq [run : Run, source : Run, call : Call]
  BY <1>2 DEF Resolve, Recovery, WellTyped, TypeOK
<1>4. todo' \in Seq(Call) /\ recovery' = None
  BY DEF Resolve
<1> QED
  BY <1>1, <1>3, <1>4
  DEF Resolve, sessionVars, requestVars, stateVars, WellTyped, TypeOK, Step, CallSteps, Conversation

LEMMA StaysWellTyped == ASSUME WellTyped, [Next]_vars PROVE WellTyped'
<1>1. CASE UNCHANGED vars
  BY <1>1 DEF vars, sessionVars, publicVars, requestVars, stateVars, WellTyped, TypeOK
<1> QED
  BY <1>1, ConversationTyped, LimitsTyped, ToolTyped, ApprovalTyped, ExecuteTyped, ResolveTyped DEF Next, RunStep

LEMMA StaysTyped == ASSUME Typed, [Next]_vars PROVE Typed'
<1>1. recovery' = None
  <2> USE DEF Typed
  <2>1. CASE Start \/ RecordUser \/ AskModel \/ SumsOverflow \/ ProviderFails \/ LeaveLoop \/ RecordAnswer
             \/ CompleteMessage
    BY <2>1 DEF Start, RecordUser, AskModel, SumsOverflow, ProviderFails, LeaveLoop, RecordAnswer, CompleteMessage
  <2>2. CASE Complete \/ Finish \/ Pick \/ BudgetSpent \/ Tell \/ Resolve \/ WriteFails \/ Cancel
    BY <2>2 DEF Complete, Finish, Terminate, Pick, BudgetSpent, Tell, Resolve, WriteFails, Cancel
  <2>3. CASE ToolStep \/ ApprovalStep \/ ExecuteStep \/ UNCHANGED vars
    BY <2>3 DEF ToolStep, ApprovalStep, ExecuteStep, vars
  <2> QED
    BY <2>1, <2>2, <2>3 DEF Next, RunStep
<1> QED
  BY <1>1, StaysWellTyped DEF Typed

\* Every state of a run is of its type.
THEOREM RunTypes == Spec => []TypeOK
<1>1. Typed => TypeOK
  BY DEF Typed, WellTyped
<1> QED
  BY <1>1, InitTyped, StaysTyped, PTL DEF Spec

LEMMA AlwaysTyped == Spec => []Typed
BY InitTyped, StaysTyped, PTL DEF Spec

-----------------------------------------------------------------------------
(***************************************************************************)
(* How a run ends.                                                         *)
(***************************************************************************)

LEMMA SilenceStaysCaused ==
  ASSUME Typed, SilentEndHasACause, [Next]_vars
  PROVE  SilentEndHasACause'
<1> SUFFICES ASSUME pc' = "returned", status'[run'] \notin Terminal PROVE ctxDone' \/ faults' > 0 \/ overflowed'
  BY DEF SilentEndHasACause
<1>1. faults \in Nat /\ MaxFaults \in Nat
  BY LimitsAreNaturals DEF Typed, WellTyped, TypeOK
<1>2. ASSUME NEW next, next # "returned", NEW error, Emitted(next, error) PROVE faults' > 0
  BY <1>1, <1>2 DEF Emitted
<1>3. ASSUME NEW end \in Terminal, Terminate(end) PROVE FALSE
  BY <1>3 DEF Terminate, requestVars, Typed, WellTyped, TypeOK
<1>4. "completed" \in Terminal /\ ending \in Terminal
  BY DEF Terminal, Typed, WellTyped, TypeOK
<1>5. CASE Start \/ AskModel \/ CompleteMessage
  BY <1>2, <1>5 DEF Start, AskModel, CompleteMessage
<1>6. CASE RecordUser \/ ProviderFails \/ LeaveLoop \/ RecordAnswer \/ Pick \/ BudgetSpent \/ Tell
  BY <1>6 DEF RecordUser, ProviderFails, LeaveLoop, RecordAnswer, Pick, BudgetSpent, Tell, FinishWith
<1>7. CASE Complete \/ Finish
  BY <1>3, <1>4, <1>7 DEF Complete, Finish
<1>8. CASE Propose \/ PrepareFails \/ StartTool \/ Succeed \/ FailTool \/ RequestApproval
  BY <1>2, <1>8 DEF Propose, PrepareFails, StartTool, Succeed, FailTool, RequestApproval
<1>9. CASE Refuse \/ Allow \/ Unanswered
  BY <1>9 DEF Refuse, Allow, Unanswered
<1>10. CASE ApprovalDecided("granted") \/ ApprovalDecided("failed")
  BY <1>2, <1>10 DEF ApprovalDecided
<1>11. CASE ExecuteStep
  BY <1>11 DEF ExecuteStep, ToolFails, Read, RecordIntent, TakeEffect, CommandEnds, VerifyPost
<1>12. CASE WriteFails
  BY <1>1, <1>12 DEF WriteFails, FinishWith
<1>13. CASE Cancel
  BY <1>13 DEF Cancel
<1>14. CASE UNCHANGED vars
  BY <1>14 DEF vars, sessionVars, publicVars, requestVars, SilentEndHasACause
<1>15. ~ Resolve
  BY DEF Resolve, Typed, WellTyped
<1>16. CASE SumsOverflow
  BY <1>16 DEF SumsOverflow
<1> QED
  BY <1>5, <1>6, <1>7, <1>8, <1>9, <1>10, <1>11, <1>12, <1>13, <1>14, <1>15, <1>16
  DEF Next, RunStep, ToolStep, ApprovalStep

\* A run that returned without a terminal event was cancelled, could not write or
\* could not add up what it used: no limit, denial or failure of a tool or of the
\* model ends a run silently.
THEOREM SilenceIsCaused == Spec => []SilentEndHasACause
<1>1. Init => SilentEndHasACause
  BY DEF Init, SilentEndHasACause
<1> QED
  BY <1>1, SilenceStaysCaused, AlwaysTyped, PTL DEF Spec

-----------------------------------------------------------------------------
(***************************************************************************)
(* The budget.                                                             *)
(***************************************************************************)

\* Where the current call has been proposed.
Shown == CallSteps \ {"pick", "propose", "tell"}

\* What a call that has its share and was not proposed yet adds.
Due          == IF pc = "propose" THEN 1 ELSE 0
DueToCommand == IF pc = "propose" /\ Head(todo) \in Commands THEN 1 ELSE 0

\* Every proposed call of the run has its share of the budget.
Accounted ==
  /\ IsFiniteSet(Proposed(run))
  /\ Cardinality(Proposed(run)) + Due <= reserved.calls
  /\ Cardinality(Proposed(run) \cap Commands) + DueToCommand <= reserved.commands
  /\ pc \in Shown => Head(todo) \in Proposed(run)

LEMMA Counts ==
  ASSUME WellTyped, Accounted
  PROVE  /\ Cardinality(Proposed(run)) \in Nat /\ Cardinality(Proposed(run) \cap Commands) \in Nat
         /\ reserved.calls \in 0..MaxToolCalls /\ reserved.commands \in 0..MaxCommandCalls
<1>1. IsFiniteSet(Proposed(run)) /\ IsFiniteSet(Proposed(run) \cap Commands)
  BY FS_Subset DEF Accounted
<1> QED
  BY <1>1, FS_CardinalityType DEF WellTyped, TypeOK

\* What the budget says of run r.
KeepsBudget(r) ==
  /\ Cardinality(Proposed(r)) <= MaxToolCalls
  /\ Cardinality(Proposed(r) \cap Commands) <= MaxCommandCalls

LEMMA NothingProposed ==
  ASSUME Proposed(run) = {}, pc \notin Shown, pc # "propose", reserved.calls = 0, reserved.commands = 0
  PROVE  Accounted
<1>1. /\ IsFiniteSet(Proposed(run))
      /\ Cardinality(Proposed(run)) = 0 /\ Cardinality(Proposed(run) \cap Commands) = 0
  BY FS_EmptySet
<1>2. Due = 0 /\ DueToCommand = 0
  BY DEF Due, DueToCommand
<1> QED
  BY <1>1, <1>2 DEF Accounted

LEMMA RunKeepsBudget == ASSUME WellTyped, Accounted PROVE KeepsBudget(run)
<1>1. Due \in Nat /\ DueToCommand \in Nat
  BY DEF Due, DueToCommand
<1> QED
  BY <1>1, Counts, LimitsAreNaturals DEF Accounted, KeepsBudget

LEMMA IdleKeepsBudget == ASSUME NEW r, Proposed(r) = {} PROVE KeepsBudget(r)
<1>1. Cardinality(Proposed(r)) = 0 /\ Cardinality(Proposed(r) \cap Commands) = 0
  BY FS_EmptySet
<1> QED
  BY <1>1, LimitsAreNaturals DEF KeepsBudget

\* A call that takes its share.
LEMMA PickAccounts ==
  ASSUME WellTyped, Accounted, Pick
  PROVE  Accounted' /\ UNCHANGED run /\ \A r \in Run : Proposed(r)' = Proposed(r)
<1>1. UNCHANGED <<tools, run, todo>>
  BY DEF Pick, sessionVars, publicVars, requestVars
<1>2. \A r \in Run : Proposed(r)' = Proposed(r)
  BY <1>1 DEF Proposed
<1>3. run \in Run /\ Proposed(run)' = Proposed(run)
  BY <1>1, <1>2 DEF WellTyped, TypeOK, Proposed
<1>4. pc = "pick" /\ pc' \in {"propose", "finish"}
  BY DEF Pick, Recovering, FinishWith, WellTyped
<1>5. reserved' = [calls |-> reserved.calls + 1,
                   commands |-> reserved.commands + IF Head(todo) \in Commands THEN 1 ELSE 0]
  BY DEF Pick, Current
<1>6. Cardinality(Proposed(run)) + Due' <= reserved'.calls
  BY <1>4, <1>5, Counts DEF Due, Accounted
<1>7. Cardinality(Proposed(run) \cap Commands) + DueToCommand' <= reserved'.commands
  <2>1. CASE Head(todo) \in Commands
    BY <1>1, <1>4, <1>5, <2>1, Counts DEF DueToCommand, Accounted
  <2>2. CASE Head(todo) \notin Commands
    BY <1>1, <1>4, <1>5, <2>2, Counts DEF DueToCommand, Accounted
  <2> QED
    BY <2>1, <2>2
<1>8. pc' \notin Shown
  BY <1>4 DEF Shown, CallSteps
<1> QED
  BY <1>1, <1>2, <1>3, <1>6, <1>7, <1>8 DEF Accounted

\* A call that is proposed.
LEMMA ProposalAccounts ==
  ASSUME WellTyped, Accounted, ToolStep, Propose \/ PrepareFails
  PROVE  Accounted' /\ UNCHANGED run /\ \A r \in Run : r # run => Proposed(r)' = Proposed(r)
<1>1. pc = "propose" /\ pc' # "propose" /\ tools' = [tools EXCEPT ![run][Head(todo)] = "proposed"]
  BY DEF Propose, PrepareFails, ToolIs, Current, Emitted
<1>2. UNCHANGED <<run, todo, reserved>>
  BY DEF ToolStep, requestVars, stateVars
<1>3. run \in Run /\ Head(todo) \in Call /\ tools \in [Run -> [Call -> Phase]]
  BY <1>1, CurrentIsCall DEF WellTyped, TypeOK, CallSteps, Current
<1>4. \A r \in Run : r # run => Proposed(r)' = Proposed(r)
  BY <1>1, <1>3 DEF Proposed
<1>5. Proposed(run)' = Proposed(run) \cup {Head(todo)}
  BY <1>1, <1>2, <1>3 DEF Proposed
<1>6. IsFiniteSet(Proposed(run)') /\ Cardinality(Proposed(run)') <= Cardinality(Proposed(run)) + 1
  <2>1. IsFiniteSet(Proposed(run)) /\ Cardinality(Proposed(run)) \in Nat
    BY Counts DEF Accounted
  <2> QED
    BY <1>5, <2>1, FS_AddElement
<1>7. Cardinality((Proposed(run) \cap Commands)') <= Cardinality(Proposed(run) \cap Commands) + DueToCommand
  <2>1. IsFiniteSet(Proposed(run) \cap Commands)
    BY FS_Subset DEF Accounted
  <2>2. CASE Head(todo) \in Commands
    <3>1. (Proposed(run) \cap Commands)' = (Proposed(run) \cap Commands) \cup {Head(todo)}
      BY <1>5, <2>2
    <3>2. DueToCommand = 1
      BY <1>1, <2>2 DEF DueToCommand
    <3> QED
      BY <2>1, <3>1, <3>2, FS_AddElement, Counts
  <2>3. CASE Head(todo) \notin Commands
    <3>1. (Proposed(run) \cap Commands)' = Proposed(run) \cap Commands
      BY <1>5, <2>3
    <3>2. DueToCommand = 0
      BY <2>3 DEF DueToCommand
    <3> QED
      BY <3>1, <3>2, Counts
  <2> QED
    BY <2>2, <2>3
<1>8. Cardinality(Proposed(run)') <= reserved.calls
  <2>1. Due = 1
    BY <1>1 DEF Due
  <2>2. Cardinality(Proposed(run)') \in Nat
    BY <1>6, FS_CardinalityType
  <2> QED
    BY <1>6, <2>1, <2>2, Counts DEF Accounted
<1>9. Cardinality((Proposed(run) \cap Commands)') <= reserved.commands
  <2>1. Cardinality((Proposed(run) \cap Commands)') \in Nat
    BY <1>6, FS_Subset, FS_CardinalityType
  <2>2. DueToCommand \in Nat
    BY DEF DueToCommand
  <2> QED
    BY <1>7, <2>1, <2>2, Counts DEF Accounted
<1>10. Due' = 0 /\ DueToCommand' = 0
  BY <1>1 DEF Due, DueToCommand
<1>11. Cardinality(Proposed(run)') \in Nat /\ Cardinality((Proposed(run) \cap Commands)') \in Nat
  BY <1>6, FS_Subset, FS_CardinalityType
<1> QED
  BY <1>2, <1>4, <1>5, <1>6, <1>8, <1>9, <1>10, <1>11 DEF Accounted

\* Whatever else happens proposes nothing.
LEMMA OthersAccount ==
  ASSUME WellTyped, Accounted, \A r \in Run : Proposed(r)' = Proposed(r), UNCHANGED <<run, reserved>>,
         pc' = "propose" => pc = "propose" /\ UNCHANGED todo, pc' \in Shown => pc \in Shown /\ UNCHANGED todo
  PROVE  Accounted'
<1>1. run \in Run /\ Proposed(run)' = Proposed(run)
  BY DEF WellTyped, TypeOK, Proposed
<1>2. Due' \in {0, Due} /\ DueToCommand' \in {0, DueToCommand} /\ Due \in Nat /\ DueToCommand \in Nat
  BY DEF Due, DueToCommand
<1> QED
  BY <1>1, <1>2, Counts DEF Accounted

LEMMA StaysAccounted ==
  ASSUME WellTyped, Accounted, [Next]_vars
  PROVE  Accounted' /\ UNCHANGED run /\ \A r \in Run : r # run => Proposed(r)' = Proposed(r)
<1> USE DEF sessionVars, publicVars, requestVars, stateVars
<1>1. ASSUME UNCHANGED tools PROVE \A r \in Run : Proposed(r)' = Proposed(r)
  BY <1>1 DEF Proposed
<1>2. ASSUME ToolStep, NEW phase \in Phase \ {"none"}, ToolIs(phase), pc \in Shown
      PROVE  \A r \in Run : Proposed(r)' = Proposed(r)
  <2>1. run \in Run /\ Head(todo) \in Call /\ tools[run][Head(todo)] # "none" /\ tools \in [Run -> [Call -> Phase]]
    BY <1>2 DEF Accounted, Proposed, WellTyped, TypeOK
  <2>2. tools' = [tools EXCEPT ![run][Head(todo)] = phase]
    BY <1>2 DEF ToolIs, Current
  <2> QED
    BY <2>1, <2>2 DEF Proposed
<1>3. CASE Start \/ RecordUser \/ AskModel \/ RecordAnswer \/ CompleteMessage \/ Complete \/ Finish
  <2>1. pc' \notin Shown \cup {"propose"}
    BY <1>3 DEF Start, RecordUser, AskModel, RecordAnswer, CompleteMessage, Complete, Finish, Terminate, Emitted,
                Recovering, Shown, CallSteps
  <2> QED
    BY <1>1, <1>3, <2>1, OthersAccount
    DEF Start, RecordUser, AskModel, RecordAnswer, CompleteMessage, Complete, Finish, Terminate
<1>4. CASE SumsOverflow \/ ProviderFails \/ LeaveLoop \/ BudgetSpent \/ Tell \/ Resolve \/ WriteFails
  <2>1. pc' \notin Shown \cup {"propose"}
    BY <1>4 DEF SumsOverflow, ProviderFails, LeaveLoop, BudgetSpent, Tell, Resolve, WriteFails, FinishWith, Emitted,
                Recovering, Shown, CallSteps
  <2> QED
    BY <1>1, <1>4, <2>1, OthersAccount DEF SumsOverflow, ProviderFails, LeaveLoop, BudgetSpent, Tell, Resolve, WriteFails
<1>5. CASE ToolStep
  <2>1. CASE Propose \/ PrepareFails
    BY <1>5, <2>1, ProposalAccounts
  <2>2. CASE StartTool \/ Succeed \/ FailTool
    <3>1. pc \in Shown /\ pc' # "propose"
      BY <2>2 DEF StartTool, Succeed, FailTool, Emitted, Shown, CallSteps
    <3>2. \A r \in Run : Proposed(r)' = Proposed(r)
      BY <1>2, <1>5, <2>2, <3>1 DEF StartTool, Succeed, FailTool, Phase
    <3> QED
      BY <1>5, <3>1, <3>2, OthersAccount DEF ToolStep
  <2>3. CASE Refuse \/ Allow \/ RequestApproval
    <3>1. pc \in Shown /\ pc' # "propose" /\ UNCHANGED tools
      BY <2>3 DEF Refuse, Allow, RequestApproval, Emitted, Shown, CallSteps
    <3> QED
      BY <1>1, <1>5, <3>1, OthersAccount DEF ToolStep
  <2> QED
    BY <1>5, <2>1, <2>2, <2>3 DEF ToolStep
<1>6. CASE ApprovalStep
  <2>1. pc \in Shown /\ pc' # "propose" /\ UNCHANGED tools
    BY <1>6 DEF ApprovalStep, ApprovalDecided, Unanswered, MayGiveUp, Emitted, Shown, CallSteps
  <2> QED
    BY <1>1, <1>6, <2>1, OthersAccount DEF ApprovalStep
<1>7. CASE ExecuteStep
  <2>1. pc \in Shown /\ pc' # "propose"
    BY <1>7 DEF ExecuteStep, ToolFails, Read, RecordIntent, TakeEffect, CommandEnds, VerifyPost, Shown, CallSteps
  <2> QED
    BY <1>1, <1>7, <2>1, OthersAccount DEF ExecuteStep
<1>8. CASE Cancel
  BY <1>1, <1>8, OthersAccount DEF Cancel
<1>9. CASE UNCHANGED vars
  BY <1>1, <1>9, OthersAccount DEF vars
<1> QED
  BY <1>3, <1>4, <1>5, <1>6, <1>7, <1>8, <1>9, PickAccounts DEF Next, RunStep

\* A run proposes no more calls than its budget, and no more commands than the
\* share of commands: denied and failed calls count too.
THEOREM BudgetHolds == Spec => []WithinBudget
<1> DEFINE OneRun == \A r \in Run : r # run => Proposed(r) = {}
<1>1. ASSUME Init PROVE Accounted /\ OneRun
  <2>1. \A r \in Run : Proposed(r) = {}
    BY <1>1 DEF Init, ForEveryCall, Proposed
  <2>2. Proposed(run) = {}
    BY <1>1, <2>1, RunsAreNumbered DEF Init
  <2>3. pc \notin Shown /\ pc # "propose" /\ reserved.calls = 0 /\ reserved.commands = 0
    BY <1>1 DEF Init, Shown, CallSteps
  <2> QED
    BY <2>1, <2>2, <2>3, NothingProposed
<1>2. ASSUME Typed, Accounted /\ OneRun, [Next]_vars PROVE (Accounted /\ OneRun)'
  BY <1>2, StaysAccounted DEF Typed
<1>3. ASSUME Typed, Accounted /\ OneRun PROVE WithinBudget
  <2> SUFFICES ASSUME NEW r \in Run PROVE KeepsBudget(r)
    BY DEF WithinBudget, KeepsBudget
  <2>1. CASE r = run
    BY <1>3, <2>1, RunKeepsBudget DEF Typed
  <2>2. CASE r # run
    BY <1>3, <2>2, IdleKeepsBudget
  <2> QED
    BY <2>1, <2>2
<1> QED
  BY <1>1, <1>2, <1>3, AlwaysTyped, PTL DEF Spec

-----------------------------------------------------------------------------
(***************************************************************************)
(* Repetitions.                                                            *)
(***************************************************************************)

\* The results of the run from the i-th message on.
Row(i) == {n \in Results(run) : i <= n}

Uniform(i) == \A n \in Row(i) : RequestAt(n) = RequestAt(i)

\* Where a call has been counted and has no result yet, and where nothing more
\* gets one.
Counted == CallSteps \ {"pick"}
Over    == {"finish", "returned", "dead"}

\* The tracker knows how often the last request was answered in a row.
Tracked ==
  /\ \A r \in Run : r # run => Results(r) = {}
  /\ pc \in Counted =>
       repeats.request = Request[Head(todo)] /\ 1 <= repeats.count /\ repeats.count < RepeatedLimit
  /\ pc \in Counted =>
       \A i \in Results(run) :
         Uniform(i) /\ RequestAt(i) = Request[Head(todo)] => Cardinality(Row(i)) + 1 <= repeats.count
  /\ pc \notin Counted \cup Over =>
       \A i \in Results(run) :
         Uniform(i) => RequestAt(i) = repeats.request /\ Cardinality(Row(i)) <= repeats.count

LEMMA ResultsAreFinite ==
  ASSUME Typed, NEW S \in SUBSET Results(run)
  PROVE  IsFiniteSet(S) /\ Cardinality(S) \in Nat
<1>1. S \subseteq 1..Len(context) /\ Len(context) \in Nat
  BY DEF Results, Typed, WellTyped, TypeOK
<1>2. IsFiniteSet(1..Len(context))
  BY <1>1, FS_Interval
<1> QED
  BY <1>1, <1>2, FS_Subset, FS_CardinalityType

\* A message that is no result leaves the results as they are.
LEMMA SameResults ==
  ASSUME Typed, \/ UNCHANGED context
                \/ \E role \in {"user", "assistant"} : \E calls : Recorded(role, calls)
  PROVE  /\ \A r : Results(r)' = Results(r)
         /\ \A n \in DOMAIN context : RequestAt(n)' = RequestAt(n)
<1>1. CASE UNCHANGED context
  BY <1>1 DEF Results, RequestAt
<1>2. ASSUME NEW role \in {"user", "assistant"}, NEW calls, Recorded(role, calls)
      PROVE  /\ \A r : Results(r)' = Results(r)
             /\ \A n \in DOMAIN context : RequestAt(n)' = RequestAt(n)
  <2> DEFINE message == [role |-> role, run |-> run, calls |-> calls]
  <2>1. context' = Append(context, message) /\ message.role # "tool"
    BY <1>2 DEF Recorded
  <2> HIDE DEF message
  <2>2. /\ DOMAIN context' = DOMAIN context \cup {Len(context) + 1}
        /\ \A n \in DOMAIN context : context'[n] = context[n]
        /\ context'[Len(context) + 1] = message
    BY <2>1 DEF Typed, WellTyped, TypeOK
  <2> QED
    BY <2>1, <2>2 DEF Results, RequestAt
<1> QED
  BY <1>1, <1>2

\* Nothing is answered and nothing counted.
LEMMA OthersTrack ==
  ASSUME Typed, Tracked, \A r : Results(r)' = Results(r), \A n \in DOMAIN context : RequestAt(n)' = RequestAt(n),
         UNCHANGED <<run, repeats>>, pc' \in Counted => pc \in Counted /\ UNCHANGED todo,
         pc' \notin Counted \cup Over => pc \notin Counted \cup Over
  PROVE  Tracked'
<1>1. Results(run)' = Results(run) /\ Results(run) \subseteq DOMAIN context
  BY DEF Results
<1>2. \A i \in Results(run) : Row(i)' = Row(i) /\ Uniform(i)' = Uniform(i) /\ RequestAt(i)' = RequestAt(i)
  BY <1>1 DEF Row, Uniform
<1> QED
  BY <1>1, <1>2 DEF Tracked

LEMMA PickTracks == ASSUME Typed, Tracked, Pick PROVE Tracked'
<1>1. pc = "pick" /\ pc \notin Counted \cup Over /\ UNCHANGED <<context, run, todo>>
  BY DEF Pick, Counted, Over, CallSteps, sessionVars, requestVars
<1>2. /\ repeats' = [request |-> Request[Head(todo)], count |-> Observed(Head(todo))]
      /\ pc' = "finish" \/ (pc' = "propose" /\ Observed(Head(todo)) < RepeatedLimit)
  <2>1. Observed(Current) \in Nat /\ RepeatedLimit \in Nat
    BY LimitsAreNaturals DEF Observed, Typed, WellTyped, TypeOK
  <2> QED
    BY <2>1 DEF Pick, Recovering, FinishWith, Current, Typed, WellTyped
<1>3. \A r : Results(r)' = Results(r)
  BY <1>1 DEF Results
<1>4. Results(run)' = Results(run) /\ \A i : Row(i)' = Row(i) /\ Uniform(i)' = Uniform(i) /\ RequestAt(i)' = RequestAt(i)
  BY <1>1 DEF Results, Row, Uniform, RequestAt
<1>5. repeats.count \in Nat /\ Observed(Head(todo)) \in Nat /\ 1 <= Observed(Head(todo))
  BY DEF Observed, Typed, WellTyped, TypeOK
<1>6. ASSUME NEW i \in Results(run), Uniform(i), RequestAt(i) = Request[Head(todo)]
      PROVE  Cardinality(Row(i)) + 1 <= Observed(Head(todo))
  <2>1. RequestAt(i) = repeats.request /\ Cardinality(Row(i)) <= repeats.count
    BY <1>1, <1>6 DEF Tracked
  <2>2. Observed(Head(todo)) = repeats.count + 1
    BY <1>6, <2>1 DEF Observed
  <2>3. Cardinality(Row(i)) \in Nat
    BY ResultsAreFinite DEF Row
  <2> QED
    BY <1>5, <2>1, <2>2, <2>3
<1>7. pc' \notin Counted => pc' \in Over
  BY <1>2 DEF Counted, Over, CallSteps
<1>8. pc' \in Counted => Observed(Head(todo)) < RepeatedLimit
  BY <1>2 DEF Counted, CallSteps
<1> QED
  BY <1>1, <1>2, <1>3, <1>4, <1>5, <1>6, <1>7, <1>8 DEF Tracked

\* A result is one more of its row, or begins a new one.
LEMMA TellTracks ==
  ASSUME Typed, Tracked, Tell, NoRepeatedCalls
  PROVE  Tracked' /\ NoRepeatedCalls'
<1>0. PICK new : new = Len(context) + 1
  OBVIOUS
<1> DEFINE message == [role |-> "tool", run |-> run, calls |-> <<Head(todo)>>]
<1>1. pc = "tell" /\ pc \in Counted /\ UNCHANGED <<run, repeats>> /\ pc' \notin Counted /\ run \in Run
  BY DEF Tell, Recovering, FinishWith, Counted, CallSteps, requestVars, stateVars, Typed, WellTyped, TypeOK
<1>2. /\ DOMAIN context' = DOMAIN context \cup {new}
      /\ new \in Nat /\ new \notin DOMAIN context
      /\ \A n \in DOMAIN context : n \in Nat /\ n < new /\ context'[n] = context[n]
      /\ context'[new] = message
  BY <1>0 DEF Tell, Recorded, Current, Typed, WellTyped, TypeOK
<1>3. /\ Results(run)' = Results(run) \cup {new}
      /\ \A r \in Run : Results(r)' = IF r = run THEN Results(run) \cup {new} ELSE Results(r)
  BY <1>1, <1>2 DEF Results
<1>4. /\ \A n \in Results(run) : n \in DOMAIN context /\ RequestAt(n)' = RequestAt(n)
      /\ RequestAt(new)' = Request[Head(todo)]
  BY <1>2 DEF Results, RequestAt
<1>5. \A i \in Results(run) : Row(i)' = Row(i) \cup {new} /\ new \notin Row(i)
  BY <1>1, <1>2, <1>3, <1>4 DEF Row
<1>6. new \in Nat /\ Row(new)' = {new}
  BY <1>0, <1>1, <1>2, <1>3, <1>4 DEF Row, Typed, WellTyped, TypeOK
<1>7. /\ repeats.request = Request[Head(todo)]
      /\ repeats.count \in Nat /\ 1 <= repeats.count /\ repeats.count < RepeatedLimit /\ RepeatedLimit \in Nat
  BY <1>1, LimitsAreNaturals DEF Tracked, Typed, WellTyped, TypeOK
<1>8. ASSUME NEW i \in Results(run)', Uniform(i)'
      PROVE  /\ RequestAt(i)' = repeats.request
             /\ Cardinality(Row(i)') <= repeats.count /\ Cardinality(Row(i)') \in Nat
  <2>1. CASE i = new
    <3>1. Cardinality(Row(i)') = 1
      BY <1>6, <2>1, FS_Singleton
    <3> QED
      BY <1>4, <1>7, <2>1, <3>1
  <2>2. CASE i \in Results(run)
    <3>1. RequestAt(i) = Request[Head(todo)] /\ RequestAt(i)' = RequestAt(i)
      BY <1>4, <1>5, <1>8, <2>2 DEF Uniform
    <3>2. Uniform(i)
      BY <1>4, <1>5, <1>8, <2>2 DEF Uniform, Row
    <3>3. Cardinality(Row(i)) + 1 <= repeats.count
      BY <1>1, <2>2, <3>1, <3>2 DEF Tracked
    <3>4. IsFiniteSet(Row(i)) /\ Cardinality(Row(i)) \in Nat
      BY ResultsAreFinite DEF Row
    <3>5. Cardinality(Row(i)') = Cardinality(Row(i)) + 1
      BY <1>5, <2>2, <3>4, FS_AddElement
    <3> QED
      BY <1>7, <3>1, <3>3, <3>4, <3>5
  <2> QED
    BY <1>3, <2>1, <2>2
<1>9. Tracked'
  BY <1>1, <1>3, <1>8 DEF Tracked
<1>10. ASSUME NEW r \in Run, NEW i \in Results(r)', NEW j \in Results(r)',
              \A n \in Between(r, i, j)' : RequestAt(n)' = RequestAt(i)'
       PROVE  Cardinality(Between(r, i, j)') < RepeatedLimit
  <2>1. r = run
    BY <1>3, <1>10 DEF Tracked
  <2> USE <2>1
  <2>2. /\ Results(r)' = Results(run) \cup {new}
        /\ \A n \in Results(run) : n \in Nat /\ n < new
        /\ Between(r, i, j)' = {n \in Results(run) \cup {new} : i <= n /\ n <= j}
        /\ Row(i)' = {n \in Results(run) \cup {new} : i <= n}
    BY <1>1, <1>2, <1>3, <1>4 DEF Between, Row
  <2>3. CASE j = new
    <3>1. Between(r, i, j)' = Row(i)'
      BY <1>2, <2>3, <2>2
    <3>2. Uniform(i)'
      BY <1>10, <3>1 DEF Uniform
    <3>3. i \in Results(run)'
      BY <1>3, <1>10, <2>2
    <3> QED
      BY <1>7, <1>8, <3>1, <3>2, <3>3
  <2>4. CASE j # new /\ i # new
    <3>1. i \in Results(run) /\ j \in Results(run)
      BY <1>10, <2>4, <2>2
    <3>2. Between(r, i, j)' = Between(r, i, j)
      BY <1>2, <2>2, <3>1 DEF Between
    <3>3. \A n \in Between(r, i, j) : RequestAt(n) = RequestAt(i)
      BY <1>4, <1>10, <2>1, <3>1, <3>2 DEF Between
    <3> QED
      BY <2>1, <3>1, <3>2, <3>3 DEF NoRepeatedCalls
  <2>5. CASE j # new /\ i = new
    <3>1. Between(r, i, j)' = {}
      BY <1>2, <1>10, <2>5, <2>2
    <3> QED
      BY <1>7, <3>1, FS_EmptySet
  <2> QED
    BY <2>3, <2>4, <2>5
<1>11. NoRepeatedCalls'
  BY <1>10 DEF NoRepeatedCalls
<1> QED
  BY <1>9, <1>11

LEMMA SameRepetitions ==
  ASSUME Typed, NoRepeatedCalls, \A r : Results(r)' = Results(r), \A n \in DOMAIN context : RequestAt(n)' = RequestAt(n)
  PROVE  NoRepeatedCalls'
<1>1. \A r : Results(r) \subseteq DOMAIN context
  BY DEF Results
<1> QED
  BY <1>1 DEF NoRepeatedCalls, Between

LEMMA StaysTracked ==
  ASSUME Typed, Tracked, NoRepeatedCalls, [Next]_vars
  PROVE  Tracked' /\ NoRepeatedCalls'
<1> USE DEF sessionVars, publicVars, requestVars, stateVars
<1>1. ASSUME \/ UNCHANGED context
             \/ \E role \in {"user", "assistant"} : \E calls : Recorded(role, calls),
             UNCHANGED <<run, repeats>>, pc' \in Counted => pc \in Counted /\ UNCHANGED todo,
             pc' \notin Counted \cup Over => pc \notin Counted \cup Over
      PROVE  Tracked' /\ NoRepeatedCalls'
  BY <1>1, SameResults, OthersTrack, SameRepetitions
<1>2. CASE Start \/ RecordUser \/ AskModel \/ RecordAnswer \/ CompleteMessage \/ Complete \/ Finish
  <2>1. pc' \notin Counted /\ (pc' \notin Over => pc \notin Counted \cup Over)
    BY <1>2 DEF Start, RecordUser, AskModel, RecordAnswer, CompleteMessage, Complete, Finish, Terminate, Emitted,
                Recovering, Counted, Over, CallSteps
  <2>2. UNCHANGED context \/ \E role \in {"user", "assistant"} : \E calls : Recorded(role, calls)
    BY <1>2 DEF Start, RecordUser, AskModel, RecordAnswer, CompleteMessage, Complete, Finish, Terminate
  <2> QED
    BY <1>1, <1>2, <2>1, <2>2
    DEF Start, RecordUser, AskModel, RecordAnswer, CompleteMessage, Complete, Finish, Terminate
<1>3. CASE SumsOverflow \/ ProviderFails \/ LeaveLoop \/ BudgetSpent \/ WriteFails
  <2>1. pc' \in Over
    BY <1>3 DEF SumsOverflow, ProviderFails, LeaveLoop, BudgetSpent, WriteFails, FinishWith, Over
  <2> QED
    BY <1>1, <1>3, <2>1 DEF SumsOverflow, ProviderFails, LeaveLoop, BudgetSpent, WriteFails, Over, Counted, CallSteps
<1>4. CASE ToolStep
  <2>1. pc \in Counted /\ pc' \in Counted \cup Over
    BY <1>4 DEF ToolStep, Propose, PrepareFails, StartTool, Succeed, FailTool, Refuse, Allow, RequestApproval, Emitted,
                Counted, Over, CallSteps
  <2> QED
    BY <1>1, <1>4, <2>1 DEF ToolStep
<1>5. CASE ApprovalStep
  <2>1. pc \in Counted /\ pc' \in Counted
    BY <1>5 DEF ApprovalStep, ApprovalDecided, Unanswered, MayGiveUp, Emitted, Counted, CallSteps
  <2> QED
    BY <1>1, <1>5, <2>1 DEF ApprovalStep
<1>6. CASE ExecuteStep
  <2>1. pc \in Counted /\ pc' \in Counted
    BY <1>6 DEF ExecuteStep, ToolFails, Read, RecordIntent, TakeEffect, CommandEnds, VerifyPost, Counted, CallSteps
  <2> QED
    BY <1>1, <1>6, <2>1 DEF ExecuteStep
<1>7. CASE Cancel
  BY <1>1, <1>7 DEF Cancel
<1>8. CASE UNCHANGED vars
  BY <1>1, <1>8 DEF vars
<1>9. CASE Pick
  <2>1. UNCHANGED context
    BY <1>9 DEF Pick
  <2> QED
    BY <1>9, <2>1, PickTracks, SameResults, SameRepetitions
<1>10. ~ Resolve
  BY DEF Resolve, Typed, WellTyped
<1> QED
  BY <1>2, <1>3, <1>4, <1>5, <1>6, <1>7, <1>8, <1>9, <1>10, TellTracks DEF Next, RunStep

\* A run never answers RepeatedLimit calls of one request in a row, also when they
\* come in different answers of the model.
THEOREM RepetitionsEnd == Spec => []NoRepeatedCalls
<1>1. Init => Tracked /\ NoRepeatedCalls
  BY DEF Init, Results, Between, Tracked, NoRepeatedCalls, Counted, CallSteps
<1>2. ASSUME Typed, Tracked /\ NoRepeatedCalls, [Next]_vars PROVE (Tracked /\ NoRepeatedCalls)'
  BY <1>2, StaysTracked
<1> QED
  BY <1>1, <1>2, AlwaysTyped, PTL DEF Spec

\* A run stays within its budget and never repeats one request too often.
THEOREM LimitsAreKept == Spec => []LimitsHold
<1>1. WithinBudget /\ NoRepeatedCalls => LimitsHold
  BY DEF LimitsHold
<1> QED
  BY <1>1, BudgetHolds, RepetitionsEnd, PTL

-----------------------------------------------------------------------------
(***************************************************************************)
(* A session of several runs.                                               *)
(***************************************************************************)

-----------------------------------------------------------------------------
(***************************************************************************)
(* The invariant: what the two logs say of the calls and their effects.     *)
(***************************************************************************)

\* The conversation holds a result of call c.
Told(c) == \E i \in DOMAIN context : IsResultOf(i, c)

\* Where the calls in `todo' are calls of the conversation, and where the current
\* one has not been tried.
Working == {"start", "message", "resolve"} \cup CallSteps
Before  == {"start", "message", "pick", "propose", "authorize"}

\* A call is asked for by one run.
AskedOnce ==
  \A i, m \in DOMAIN context : \A c \in Call :
    Asks(i, c) /\ Asks(m, c) => context[i].run = context[m].run

Dialogue ==
  /\ AskedOnce
  /\ \A z \in recoveries : AskedIn(<<z.source, z.call>>) /\ Told(z.call)
  /\ recovery # None => AskedIn(<<recovery.source, recovery.call>>)
  /\ recovery # None /\ pc = "resolve" => Told(recovery.call)
  /\ pc = "answer" => Range(todo) \subseteq Fresh
  /\ pc \in Working => Range(todo) \cap Fresh = {}
  /\ IsInjective(todo)

\* Call c of run r has left nothing that would survive the run.
Untried(r, c) == approvals[r][c] # "pending" /\ <<r, c>> \notin effects

\* A call of `todo' whose turn has not come.
Ahead(c) == c \in Range(todo) /\ (pc \in Before \/ (pc \in CallSteps /\ c # Head(todo)))

\* What had an effect was allowed and started, and no journal denies it.
LeavesTrace(x) ==
  /\ tools[x[1]][x[2]] \in {"running", "completed"}
  /\ approvals[x[1]][x[2]] # "pending"
  /\ x[2] \in Writes => journal[x[1]][x[2]] # "aborted"

Traces ==
  /\ \A r \in Run, c \in Call : c \in Fresh \/ r > run => Untried(r, c)
  /\ \A c \in Call : Ahead(c) => Untried(run, c)
  /\ \A x \in effects : LeavesTrace(x)
  /\ pc \in {"asking", "granted"} => <<run, Head(todo)>> \notin effects
  /\ pc \in {"granted", "executing", "intent"} => approvals[run][Head(todo)] # "pending"
  /\ pc \in {"executing", "intent", "ran"} => tools[run][Head(todo)] = "running"
  /\ pc = "intent" => journal[run][Head(todo)] = "prepared"

\* Where the run handles a call: the one effect the conversation may not tell.
Handling == pc \in CallSteps \/ (pc = "start" /\ recovery # None)

Knowledge ==
  /\ Verifying => pc \notin {"authorize", "asking", "granted", "executing", "intent", "ran"}
  /\ pc \in Working /\ ~ Verifying =>
       \A c \in Range(todo) : \A x \in effects : x[2] = c => x[1] = run
  /\ pc \notin Over => \A x \in effects : Told(x[2]) \/ (Handling /\ x[2] = Head(todo))

Settled == WellTyped /\ Dialogue /\ Traces /\ Knowledge

-----------------------------------------------------------------------------
(***************************************************************************)
(* Sequences of calls, and the conversation as it grows.                    *)
(***************************************************************************)

LEMMA CallsLeft ==
  ASSUME NEW s \in Seq(Call), s # <<>>, IsInjective(s)
  PROVE  /\ Head(s) \in Range(s) /\ Head(s) \in Call
         /\ Range(Tail(s)) \subseteq Range(s) \ {Head(s)}
         /\ IsInjective(Tail(s))
<1>1. /\ Len(s) \in Nat /\ Len(s) # 0 /\ DOMAIN s = 1..Len(s) /\ Head(s) = s[1] /\ \A n \in 1..Len(s) : s[n] \in Call
  OBVIOUS
<1>2. /\ DOMAIN Tail(s) = 1..(Len(s) - 1)
      /\ \A n \in 1..(Len(s) - 1) : Tail(s)[n] = s[n + 1]
  <2>1. Tail(s) \in Seq(Call) /\ Len(Tail(s)) = Len(s) - 1 /\ \A n \in 1..Len(Tail(s)) : Tail(s)[n] = s[n + 1]
    BY HeadTailProperties
  <2> QED
    BY <2>1
<1>3. 1 \in DOMAIN s
  BY <1>1
<1>4. \A n \in 1..(Len(s) - 1) : n + 1 \in DOMAIN s /\ n + 1 # 1
  BY <1>1
<1>5. \A n, m \in 1..(Len(s) - 1) : n + 1 = m + 1 => n = m
  BY <1>1
<1>6. Range(s) = {s[n] : n \in DOMAIN s} /\ Range(Tail(s)) = {Tail(s)[n] : n \in DOMAIN Tail(s)}
  BY DEF Range
<1>7. Head(s) \in Range(s) /\ Head(s) \in Call
  BY <1>1, <1>3, <1>6
<1>8. Range(Tail(s)) \subseteq Range(s) \ {Head(s)}
  <2> SUFFICES ASSUME NEW n \in 1..(Len(s) - 1) PROVE Tail(s)[n] \in Range(s) /\ Tail(s)[n] # Head(s)
    BY <1>2, <1>6
  <2>1. Tail(s)[n] = s[n + 1] /\ n + 1 \in DOMAIN s /\ n + 1 # 1
    BY <1>2, <1>4
  <2> QED
    BY <1>1, <1>3, <1>6, <2>1 DEF IsInjective
<1>9. IsInjective(Tail(s))
  <2> SUFFICES ASSUME NEW n \in 1..(Len(s) - 1), NEW m \in 1..(Len(s) - 1), Tail(s)[n] = Tail(s)[m]
               PROVE  n = m
    BY <1>2 DEF IsInjective
  <2>1. s[n + 1] = s[m + 1] /\ n + 1 \in DOMAIN s /\ m + 1 \in DOMAIN s
    BY <1>2, <1>4
  <2> QED
    BY <1>5, <2>1 DEF IsInjective
<1> QED
  BY <1>7, <1>8, <1>9

LEMMA OneCall == ASSUME NEW c PROVE Range(<<c>>) = {c} /\ IsInjective(<<c>>) /\ Head(<<c>>) = c
<1>1. DOMAIN <<c>> = {1} /\ <<c>>[1] = c
  OBVIOUS
<1> QED
  BY <1>1 DEF Range, IsInjective

LEMMA NoCalls == Range(<<>>) = {} /\ IsInjective(<<>>)
<1>1. DOMAIN <<>> = {}
  OBVIOUS
<1> QED
  BY <1>1 DEF Range, IsInjective

\* A message is added; the others stay as they are.
LEMMA OneMessageMore ==
  ASSUME TypeOK, NEW role, NEW calls, Recorded(role, calls)
  PROVE  /\ DOMAIN context' = DOMAIN context \cup {Len(context) + 1}
         /\ \A i \in DOMAIN context : context'[i] = context[i]
         /\ context'[Len(context) + 1].role = role
         /\ context'[Len(context) + 1].run = run
         /\ context'[Len(context) + 1].calls = calls
         /\ Len(context) + 1 \notin DOMAIN context
<1> DEFINE message == [role |-> role, run |-> run, calls |-> calls]
<1>1. context' = Append(context, message) /\ context \in Seq(Message)
  BY DEF Recorded, TypeOK
<1> HIDE DEF message
<1>2. DOMAIN context' = DOMAIN context \cup {Len(context) + 1}
  BY <1>1
<1>3. \A i \in DOMAIN context : context'[i] = context[i]
  BY <1>1
<1>4. context'[Len(context) + 1] = message
  BY <1>1
<1>5. Len(context) + 1 \notin DOMAIN context
  BY <1>1
<1> QED
  BY <1>2, <1>3, <1>4, <1>5 DEF message

LEMMA ContextGrows ==
  ASSUME TypeOK, NEW role, NEW calls, UNCHANGED context \/ Recorded(role, calls)
  PROVE  /\ Fresh' \subseteq Fresh
         /\ \A k : AskedIn(k) => AskedIn(k)'
         /\ \A c : Told(c) => Told(c)'
<1>1. /\ DOMAIN context \subseteq DOMAIN context'
      /\ \A i \in DOMAIN context : context'[i] = context[i]
  BY OneMessageMore
<1>2. \A k : AskedIn(k) => AskedIn(k)'
  BY <1>1 DEF AskedIn, Asks, IsAssistant
<1>3. \A c : Told(c) => Told(c)'
  BY <1>1 DEF Told, IsResultOf, IsTool
<1>4. Fresh' \subseteq Fresh
  BY <1>1 DEF Fresh
<1> QED
  BY <1>2, <1>3, <1>4

LEMMA FreshCalls ==
  \A c \in Call : c \in Fresh <=> \A i \in DOMAIN context : c \notin Range(context[i].calls)
BY DEF Fresh

LEMMA EffectTyped ==
  ASSUME TypeOK, NEW x \in effects
  PROVE  x = <<x[1], x[2]>> /\ x[1] \in Run /\ x[2] \in Writes \cup Commands /\ x[2] \in Call
BY DEF TypeOK, Call

-----------------------------------------------------------------------------
(***************************************************************************)
(* Who asked for a call, and which results there are.                       *)
(***************************************************************************)

LEMMA DialogueKept ==
  ASSUME Dialogue, UNCHANGED <<context, recoveries, recovery, todo>>,
         pc' \in {"answer", "resolve"} => pc' = pc, pc' \in Working => pc \in Working
  PROVE  Dialogue'
<1>1. AskedOnce'
  BY DEF Dialogue, AskedOnce, Asks, IsAssistant
<1>2. (\A z \in recoveries : AskedIn(<<z.source, z.call>>) /\ Told(z.call))'
  BY DEF Dialogue, AskedIn, Asks, IsAssistant, Told, IsResultOf, IsTool
<1>3. (recovery # None => AskedIn(<<recovery.source, recovery.call>>))'
  BY DEF Dialogue, AskedIn, Asks, IsAssistant
<1>4. (recovery # None /\ pc = "resolve" => Told(recovery.call))'
  BY DEF Dialogue, Told, IsResultOf, IsTool
<1>5. Fresh' = Fresh
  BY DEF Fresh
<1> QED
  BY <1>1, <1>2, <1>3, <1>4, <1>5 DEF Dialogue

\* A message that asks for nothing.
LEMMA NothingAsked ==
  ASSUME TypeOK, Dialogue, NEW role, role # "assistant", NEW calls, Recorded(role, calls), UNCHANGED recoveries
  PROVE  /\ AskedOnce'
         /\ (\A z \in recoveries : AskedIn(<<z.source, z.call>>) /\ Told(z.call))'
<1>1. /\ DOMAIN context' = DOMAIN context \cup {Len(context) + 1}
      /\ \A i \in DOMAIN context : context'[i] = context[i]
      /\ context'[Len(context) + 1].role # "assistant"
  BY OneMessageMore
<1>2. AskedOnce'
  BY <1>1 DEF Dialogue, AskedOnce, Asks, IsAssistant
<1> QED
  BY <1>2, ContextGrows DEF Dialogue

LEMMA UserDialogue == ASSUME WellTyped, Dialogue, RecordUser PROVE Dialogue'
<1>1. TypeOK /\ recovery = None /\ UNCHANGED <<recoveries, recovery, todo>> /\ pc' = "ask"
  BY DEF RecordUser, WellTyped, Conversation, publicVars
<1>2. AskedOnce' /\ (\A z \in recoveries : AskedIn(<<z.source, z.call>>) /\ Told(z.call))'
  BY <1>1, NothingAsked DEF RecordUser
<1> QED
  BY <1>1, <1>2 DEF Dialogue, Working, CallSteps

LEMMA AskDialogue == ASSUME WellTyped, Dialogue, AskModel PROVE Dialogue'
<1>1. UNCHANGED <<context, recoveries, recovery>> /\ recovery = None /\ pc' \in {"answer", "returned"}
  BY DEF AskModel, Emitted, sessionVars, publicVars, WellTyped, Conversation
<1>2. todo' \in Answers
  BY DEF AskModel
<1>3. IsInjective(todo') /\ Range(todo') \subseteq Fresh
  <2>1. PICK n \in 0..MaxAnswerCalls : todo' \in [1..n -> Fresh]
    BY <1>2 DEF Answers
  <2>2. Range(todo') \subseteq Fresh
    BY <2>1 DEF Range
  <2> QED
    BY <1>2, <2>2 DEF Answers
<1>4. AskedOnce' /\ (\A z \in recoveries : AskedIn(<<z.source, z.call>>) /\ Told(z.call))' /\ Fresh' = Fresh
  BY <1>1 DEF Dialogue, AskedOnce, Asks, IsAssistant, AskedIn, Told, IsResultOf, IsTool, Fresh
<1> QED
  BY <1>1, <1>3, <1>4 DEF Dialogue, Working, CallSteps

LEMMA AnswerDialogue == ASSUME WellTyped, Dialogue, RecordAnswer PROVE Dialogue'
<1>1. /\ TypeOK /\ recovery = None /\ UNCHANGED <<recoveries, recovery, todo, run>>
      /\ pc = "answer" /\ pc' = "message"
  BY DEF RecordAnswer, WellTyped, Conversation, publicVars, requestVars
<1>2. PICK new : new = Len(context) + 1
  OBVIOUS
<1>3. /\ DOMAIN context' = DOMAIN context \cup {new} /\ new \notin DOMAIN context
      /\ \A i \in DOMAIN context : context'[i] = context[i]
      /\ context'[new].calls = todo /\ context'[new].run = run
  BY <1>1, <1>2, OneMessageMore DEF RecordAnswer
<1>4. AskedOnce'
  <2>1. \A i \in DOMAIN context, c \in Range(todo) : c \notin Range(context[i].calls)
    BY <1>1, FreshCalls DEF Dialogue, Fresh
  <2> QED
    BY <1>3, <2>1 DEF Dialogue, AskedOnce, Asks, IsAssistant
<1>5. \A c \in Range(todo') : c \notin Fresh'
  BY <1>1, <1>3 DEF Fresh
<1>6. (\A z \in recoveries : AskedIn(<<z.source, z.call>>) /\ Told(z.call))'
  BY <1>1, ContextGrows DEF RecordAnswer, Dialogue
<1> QED
  BY <1>1, <1>4, <1>5, <1>6 DEF Dialogue

\* What a result changes.
LEMMA TellFacts ==
  ASSUME WellTyped, Dialogue, Tell
  PROVE  /\ pc = "tell" /\ Head(todo) \in Range(todo) /\ (\A c : c = Head(todo) => Told(c)')
         /\ \/ pc' = "resolve" /\ recovery # None /\ todo' = todo
            \/ /\ pc' \in {"ask", "pick", "finish"} /\ recovery = None
               /\ todo' = Tail(todo) /\ Range(todo') \subseteq Range(todo) \ {Head(todo)}
         /\ IsInjective(todo')
         /\ UNCHANGED <<tools, approvals, recoveries, journal, effects, run, recovery>>
         /\ Recorded("tool", <<Head(todo)>>)
<1>1. /\ pc = "tell" /\ todo \in Seq(Call) /\ todo # <<>> /\ IsInjective(todo)
  BY DEF Tell, WellTyped, TypeOK, CallSteps, Dialogue
<1>2. Recorded("tool", <<Head(todo)>>)
  BY DEF Tell, Current
<1>3. ASSUME NEW c, c = Head(todo) PROVE Told(c)'
  BY <1>2, <1>3, OneMessageMore DEF Told, IsResultOf, IsTool, WellTyped
<1>4. CASE recovery # None
  BY <1>1, <1>2, <1>3, <1>4, CallsLeft DEF Tell, Recovering, publicVars, requestVars
<1>5. CASE recovery = None
  <2>1. pc' \in {"ask", "pick", "finish"} /\ todo' = Tail(todo)
    BY <1>5 DEF Tell, Recovering, FinishWith
  <2> QED
    BY <1>1, <1>2, <1>3, <1>5, <2>1, CallsLeft DEF Tell, publicVars, requestVars
<1> QED
  BY <1>4, <1>5

LEMMA TellDialogue == ASSUME WellTyped, Dialogue, Tell PROVE Dialogue'
<1>1. /\ Fresh' \subseteq Fresh
      /\ \A k : AskedIn(k) => AskedIn(k)'
  BY TellFacts, ContextGrows DEF WellTyped
<1>2. AskedOnce' /\ (\A z \in recoveries : AskedIn(<<z.source, z.call>>) /\ Told(z.call))'
  BY TellFacts, NothingAsked DEF WellTyped
<1>3. Range(todo) \cap Fresh = {} /\ Range(todo') \subseteq Range(todo)
  BY TellFacts DEF Dialogue, Working, CallSteps
<1>4. (recovery # None /\ pc = "resolve" => Told(recovery.call))'
  <2> SUFFICES ASSUME recovery' # None, pc' = "resolve" PROVE Told(recovery.call)'
    OBVIOUS
  <2>1. recovery' = recovery /\ todo = <<recovery.call>> /\ (\A c : c = Head(todo) => Told(c)')
    BY TellFacts DEF WellTyped
  <2>2. Head(todo) = recovery.call
    BY <2>1, OneCall
  <2>3. \A c : c = recovery.call => Told(c)'
    BY <2>1, <2>2
  <2> QED
    BY <2>1, <2>3 DEF Told, IsResultOf, IsTool
<1>5. (recovery # None => AskedIn(<<recovery.source, recovery.call>>))'
  BY <1>1, TellFacts DEF Dialogue
<1>6. pc' # "answer" /\ IsInjective(todo')
  BY TellFacts
<1> QED
  BY <1>1, <1>2, <1>3, <1>4, <1>5, <1>6 DEF Dialogue

LEMMA ResolveDialogue == ASSUME WellTyped, Dialogue, Resolve PROVE Dialogue'
<1>1. /\ UNCHANGED context /\ recovery' = None /\ todo' = <<>> /\ pc' \in {"user", "returned"}
      /\ recovery # None /\ pc = "resolve"
      /\ recoveries' = recoveries \cup {[run |-> run, source |-> recovery.source, call |-> recovery.call]}
  BY DEF Resolve, Emitted, WellTyped
<1>2. AskedOnce'
  BY <1>1 DEF Dialogue, AskedOnce, Asks, IsAssistant
<1>3. (\A z \in recoveries : AskedIn(<<z.source, z.call>>) /\ Told(z.call))'
  <2>1. AskedIn(<<recovery.source, recovery.call>>) /\ Told(recovery.call)
    BY <1>1 DEF Dialogue
  <2>2. ASSUME NEW z \in recoveries' PROVE AskedIn(<<z.source, z.call>>) /\ Told(z.call)
    <3>1. CASE z \in recoveries
      BY <3>1 DEF Dialogue
    <3>2. CASE z \notin recoveries
      <4>1. z.source = recovery.source /\ z.call = recovery.call
        BY <1>1, <3>2
      <4> QED
        BY <2>1, <4>1
    <3> QED
      BY <3>1, <3>2
  <2> QED
    BY <1>1, <2>2 DEF AskedIn, Asks, IsAssistant, Told, IsResultOf, IsTool
<1>4. Range(todo') = {} /\ IsInjective(todo')
  BY <1>1, NoCalls
<1>5. pc' \notin {"answer", "resolve"}
  BY <1>1
<1> QED
  BY <1>1, <1>2, <1>3, <1>4, <1>5 DEF Dialogue

-----------------------------------------------------------------------------
(***************************************************************************)
(* What a call leaves behind.                                               *)
(***************************************************************************)

\* Where the current call is being decided or executed.
Tried == {"asking", "granted", "executing", "intent", "ran"}

LEMMA EntryIs ==
  ASSUME NEW S, NEW table \in [Run -> [Call -> S]], NEW r \in Run, NEW c \in Call, NEW value,
         NEW q \in Run, NEW d \in Call
  PROVE  [table EXCEPT ![r][c] = value][q][d] = IF q = r /\ d = c THEN value ELSE table[q][d]
OBVIOUS

LEMMA CurrentFacts ==
  ASSUME WellTyped, Dialogue, pc \in CallSteps
  PROVE  /\ Head(todo) \in Call /\ Head(todo) \in Range(todo) /\ Head(todo) \notin Fresh
         /\ run \in Run /\ run \in Nat
<1>1. todo \in Seq(Call) /\ todo # <<>> /\ IsInjective(todo) /\ run \in Run
  BY DEF WellTyped, TypeOK, Dialogue
<1>2. Head(todo) \in Call /\ Head(todo) \in Range(todo)
  BY <1>1, CallsLeft
<1>3. Range(todo) \cap Fresh = {}
  BY DEF Dialogue, Working
<1> QED
  BY <1>1, <1>2, <1>3 DEF Run

\* A step that writes nothing about calls and tries none.
LEMMA TracesKept ==
  ASSUME Traces, UNCHANGED <<tools, approvals, journal, effects, run>>, Fresh' \subseteq Fresh,
         \A c \in Call : Ahead(c)' => Untried(run, c),
         pc' \in Tried => pc' = pc /\ todo' = todo
  PROVE  Traces'
<1>1. (\A r \in Run, c \in Call : c \in Fresh \/ r > run => Untried(r, c))'
  BY DEF Traces, Untried
<1>2. (\A c \in Call : Ahead(c) => Untried(run, c))'
  BY DEF Untried
<1>3. (\A x \in effects : LeavesTrace(x))'
  BY DEF Traces, LeavesTrace
<1>4. /\ (pc \in {"asking", "granted"} => <<run, Head(todo)>> \notin effects)'
      /\ (pc \in {"granted", "executing", "intent"} => approvals[run][Head(todo)] # "pending")'
      /\ (pc \in {"executing", "intent", "ran"} => tools[run][Head(todo)] = "running")'
      /\ (pc = "intent" => journal[run][Head(todo)] = "prepared")'
  BY DEF Traces, Tried
<1> QED
  BY <1>1, <1>2, <1>3, <1>4 DEF Traces

LEMMA SilentTraces ==
  ASSUME Traces, UNCHANGED <<tools, approvals, journal, effects, run, todo>>, Fresh' \subseteq Fresh,
         pc' \in Before => pc \in Before, pc' \in CallSteps => pc \in Before \cup CallSteps,
         pc' \in Tried => pc' = pc
  PROVE  Traces'
<1>1. ASSUME NEW c \in Call, Ahead(c)' PROVE Untried(run, c)
  BY <1>1 DEF Traces, Ahead
<1> QED
  BY <1>1, TracesKept

\* The rest of the calls keep waiting when the current one is tried.
LEMMA RestWaits ==
  ASSUME Traces, UNCHANGED todo, pc' \in CallSteps \cup Over, pc' \in Before => pc \in Before,
         pc \in Before \cup CallSteps, NEW c \in Call, Ahead(c)'
  PROVE  Untried(run, c) /\ (pc' \notin Before => c # Head(todo))
BY DEF Traces, Ahead, Over, Before

LEMMA AllowTraces == ASSUME WellTyped, Dialogue, Traces, ToolStep, Allow PROVE Traces'
<1>1. /\ pc = "authorize" /\ pc' = "granted"
      /\ UNCHANGED <<context, tools, approvals, journal, effects, run, todo>>
  BY DEF ToolStep, Allow, requestVars
<1>2. Untried(run, Head(todo))
  BY <1>1, CurrentFacts DEF Traces, Ahead, Before, CallSteps
<1>3. \A c \in Call : Ahead(c)' => Untried(run, c)
  BY <1>1, RestWaits DEF CallSteps, Before
<1>4. (\A r \in Run, c \in Call : c \in Fresh \/ r > run => Untried(r, c))' /\ (\A x \in effects : LeavesTrace(x))'
  BY <1>1 DEF Traces, Untried, LeavesTrace, Fresh
<1> QED
  BY <1>1, <1>2, <1>3, <1>4 DEF Traces, Untried

\* A call changes the phase of its tool.
LEMMA ToolTraces ==
  ASSUME WellTyped, Dialogue, Traces, NEW phase \in Phase, ToolIs(phase), pc \in CallSteps,
         UNCHANGED <<context, approvals, journal, effects, run, todo>>,
         phase \in {"running", "completed"} \/ <<run, Head(todo)>> \notin effects,
         pc' \in CallSteps \cup Over, pc' \in Before => pc \in Before, pc' \notin Tried \ {"executing"},
         pc' = "executing" => phase = "running" /\ approvals[run][Head(todo)] # "pending"
  PROVE  Traces'
<1>1. Head(todo) \in Call /\ run \in Run /\ tools \in [Run -> [Call -> Phase]] /\ TypeOK
  BY CurrentFacts DEF WellTyped, TypeOK
<1>2. \A q \in Run, d \in Call : tools'[q][d] = IF q = run /\ d = Head(todo) THEN phase ELSE tools[q][d]
  BY <1>1, EntryIs DEF ToolIs, Current
<1>3. (\A r \in Run, c \in Call : c \in Fresh \/ r > run => Untried(r, c))'
  BY DEF Traces, Untried, Fresh
<1>4. (\A c \in Call : Ahead(c) => Untried(run, c))'
  BY RestWaits DEF Untried
<1>5. ASSUME NEW x \in effects PROVE LeavesTrace(x)'
  <2>1. x = <<x[1], x[2]>> /\ x[1] \in Run /\ x[2] \in Call
    BY <1>1, EffectTyped
  <2> QED
    BY <1>2, <2>1 DEF Traces, LeavesTrace
<1>6. tools'[run][Head(todo)] = phase
  BY <1>1, <1>2
<1> QED
  BY <1>3, <1>4, <1>5, <1>6 DEF Traces, Tried

LEMMA ApprovalTraces ==
  ASSUME WellTyped, Dialogue, Traces, NEW state \in {"pending", "resolved"}, ApprovalIs(state),
         pc \in {"authorize", "asking"},
         UNCHANGED <<context, tools, journal, effects, run, todo>>,
         pc' \in {"asking", "granted", "failed"}, pc' = "granted" => state = "resolved"
  PROVE  Traces'
<1>1. /\ Head(todo) \in Call /\ run \in Run /\ Head(todo) \notin Fresh /\ run \in Nat
      /\ approvals \in [Run -> [Call -> {"none", "pending", "resolved"}]] /\ TypeOK
  BY CurrentFacts DEF WellTyped, TypeOK, CallSteps
<1>2. \A q \in Run, d \in Call : approvals'[q][d] = IF q = run /\ d = Head(todo) THEN state ELSE approvals[q][d]
  BY <1>1, EntryIs DEF ApprovalIs, Current
<1>3. <<run, Head(todo)>> \notin effects
  BY CurrentFacts DEF Traces, Ahead, Before, Untried, CallSteps
<1>4. (\A r \in Run, c \in Call : c \in Fresh \/ r > run => Untried(r, c))'
  <2> SUFFICES ASSUME NEW r \in Run, NEW c \in Call, c \in Fresh \/ r > run PROVE Untried(r, c)'
    BY DEF Fresh
  <2>1. ~ (r = run /\ c = Head(todo)) /\ Untried(r, c)
    BY <1>1 DEF Traces
  <2> QED
    BY <1>2, <2>1 DEF Untried
<1>5. (\A c \in Call : Ahead(c) => Untried(run, c))'
  <2> SUFFICES ASSUME NEW c \in Call, Ahead(c)' PROVE Untried(run, c)'
    OBVIOUS
  <2>1. Untried(run, c) /\ c # Head(todo)
    BY RestWaits DEF CallSteps, Before
  <2> QED
    BY <1>1, <1>2, <2>1 DEF Untried
<1>6. ASSUME NEW x \in effects PROVE LeavesTrace(x)'
  <2>1. x = <<x[1], x[2]>> /\ x[1] \in Run /\ x[2] \in Call
    BY <1>1, EffectTyped
  <2> QED
    BY <1>2, <1>3, <2>1 DEF Traces, LeavesTrace
<1>7. approvals'[run][Head(todo)] = state
  BY <1>1, <1>2
<1> QED
  BY <1>3, <1>4, <1>5, <1>6, <1>7 DEF Traces

LEMMA JournalTraces ==
  ASSUME WellTyped, Dialogue, Traces, NEW state \in JournalStatus \ {"aborted"}, JournalIs(state),
         pc \in {"executing", "ran"}, pc' \in {"intent", "succeeded", "failed"},
         pc' = "intent" => pc = "executing" /\ state = "prepared",
         UNCHANGED <<context, tools, approvals, effects, run, todo>>
  PROVE  Traces'
<1>1. /\ Head(todo) \in Call /\ run \in Run /\ TypeOK /\ journal \in [Run -> [Call -> JournalStatus]]
  BY CurrentFacts DEF WellTyped, TypeOK, CallSteps
<1>2. \A q \in Run, d \in Call : journal'[q][d] = IF q = run /\ d = Head(todo) THEN state ELSE journal[q][d]
  BY <1>1, EntryIs DEF JournalIs, Current
<1>3. (\A r \in Run, c \in Call : c \in Fresh \/ r > run => Untried(r, c))'
  BY DEF Traces, Untried, Fresh
<1>4. (\A c \in Call : Ahead(c) => Untried(run, c))'
  BY RestWaits DEF Untried, CallSteps, Before
<1>5. ASSUME NEW x \in effects PROVE LeavesTrace(x)'
  <2>1. x = <<x[1], x[2]>> /\ x[1] \in Run /\ x[2] \in Call
    BY <1>1, EffectTyped
  <2> QED
    BY <1>2, <2>1 DEF Traces, LeavesTrace
<1>6. journal'[run][Head(todo)] = state
  BY <1>1, <1>2
<1> QED
  BY <1>3, <1>4, <1>5, <1>6 DEF Traces

LEMMA EffectTraces ==
  ASSUME WellTyped, Dialogue, Traces, TakeEffect, UNCHANGED <<context, tools, approvals, run, todo>>
  PROVE  Traces'
<1>1. /\ pc \in {"executing", "intent"} /\ pc' = "ran" /\ UNCHANGED journal
      /\ effects' = effects \cup {<<run, Head(todo)>>}
      /\ pc = "executing" => Head(todo) \in Commands
  BY DEF TakeEffect, Current
<1>2. Head(todo) \in Call /\ run \in Run /\ Head(todo) \notin Fresh /\ run \in Nat
  BY <1>1, CurrentFacts DEF CallSteps
<1>3. (\A r \in Run, c \in Call : c \in Fresh \/ r > run => Untried(r, c))'
  <2> SUFFICES ASSUME NEW r \in Run, NEW c \in Call, c \in Fresh \/ r > run PROVE Untried(r, c)'
    BY DEF Fresh
  <2>1. ~ (r = run /\ c = Head(todo)) /\ Untried(r, c)
    BY <1>2 DEF Traces
  <2> QED
    BY <1>1, <2>1 DEF Untried
<1>4. (\A c \in Call : Ahead(c) => Untried(run, c))'
  <2> SUFFICES ASSUME NEW c \in Call, Ahead(c)' PROVE Untried(run, c)'
    OBVIOUS
  <2>1. Untried(run, c) /\ c # Head(todo)
    BY <1>1, RestWaits DEF CallSteps, Before
  <2> QED
    BY <1>1, <2>1 DEF Untried
<1>5. LeavesTrace(<<run, Head(todo)>>)
  <2>1. tools[run][Head(todo)] = "running" /\ approvals[run][Head(todo)] # "pending"
    BY <1>1 DEF Traces
  <2>2. Head(todo) \in Writes => journal[run][Head(todo)] # "aborted"
    BY <1>1, CallsAreDistinct DEF Traces
  <2> QED
    BY <2>1, <2>2 DEF LeavesTrace
<1>6. \A x \in effects' : LeavesTrace(x)
  BY <1>1, <1>5 DEF Traces
<1>7. (\A x \in effects : LeavesTrace(x))'
  BY <1>1, <1>6 DEF LeavesTrace
<1>8. tools[run][Head(todo)] = "running"
  BY <1>1 DEF Traces
<1> QED
  BY <1>1, <1>3, <1>4, <1>7, <1>8 DEF Traces

LEMMA ToolStepTraces == ASSUME WellTyped, Dialogue, Traces, ToolStep PROVE Traces'
<1>1. /\ UNCHANGED <<context, journal, effects, run, todo>> /\ Fresh' = Fresh
  BY DEF ToolStep, requestVars, Fresh
<1>2. CASE Propose \/ PrepareFails
  <2>1. pc = "propose" /\ ToolIs("proposed") /\ UNCHANGED approvals /\ pc' \in {"succeeded", "authorize", "failed", "returned"}
    BY <1>2 DEF Propose, PrepareFails, Emitted
  <2>2. <<run, Head(todo)>> \notin effects
    BY <2>1, CurrentFacts DEF Traces, Ahead, Before, Untried, CallSteps
  <2> QED
    BY <1>1, <2>1, <2>2, ToolTraces DEF Phase, CallSteps, Over, Before, Tried
<1>3. CASE StartTool
  <2>1. pc = "granted" /\ ToolIs("running") /\ UNCHANGED approvals /\ pc' \in {"executing", "returned"}
    BY <1>3 DEF StartTool, Emitted
  <2> QED
    BY <1>1, <2>1, ToolTraces DEF Phase, CallSteps, Over, Before, Tried, Traces
<1>4. CASE Succeed \/ FailTool
  <2>1. pc \in {"succeeded", "failed"} /\ ToolIs("completed") /\ UNCHANGED approvals /\ pc' \in {"tell", "returned"}
    BY <1>4 DEF Succeed, FailTool, Emitted
  <2> QED
    BY <1>1, <2>1, ToolTraces DEF Phase, CallSteps, Over, Before, Tried
<1>5. CASE Refuse
  BY <1>1, <1>5, SilentTraces DEF Refuse, CallSteps, Before, Tried
<1>6. CASE RequestApproval
  <2>1. pc = "authorize" /\ ApprovalIs("pending") /\ UNCHANGED tools /\ pc' \in {"asking", "failed"}
    BY <1>6 DEF RequestApproval, Emitted
  <2> QED
    BY <1>1, <2>1, ApprovalTraces
<1> QED
  BY <1>2, <1>3, <1>4, <1>5, <1>6, AllowTraces DEF ToolStep

LEMMA ApprovalStepTraces == ASSUME WellTyped, Dialogue, Traces, ApprovalStep PROVE Traces'
<1>1. /\ UNCHANGED <<context, tools, journal, effects, run, todo>> /\ Fresh' = Fresh
  BY DEF ApprovalStep, ApprovalDecided, Unanswered, requestVars, Fresh
<1>2. CASE Unanswered
  BY <1>1, <1>2, SilentTraces DEF Unanswered, MayGiveUp, CallSteps, Before, Tried
<1>3. CASE ApprovalDecided("granted") \/ ApprovalDecided("failed")
  <2>1. pc = "asking" /\ ApprovalIs("resolved") /\ pc' \in {"granted", "failed"}
    BY <1>3 DEF ApprovalDecided, Emitted
  <2> QED
    BY <1>1, <2>1, ApprovalTraces
<1> QED
  BY <1>2, <1>3 DEF ApprovalStep

LEMMA ExecuteTraces == ASSUME WellTyped, Dialogue, Traces, ExecuteStep PROVE Traces'
<1>1. /\ UNCHANGED <<context, tools, approvals, run, todo>> /\ Fresh' = Fresh
  BY DEF ExecuteStep, publicVars, requestVars, Fresh
<1>2. CASE ToolFails \/ Read \/ CommandEnds
  BY <1>1, <1>2, SilentTraces DEF ToolFails, Read, CommandEnds, CallSteps, Before, Tried
<1>3. CASE RecordIntent
  BY <1>1, <1>3, JournalTraces DEF RecordIntent, JournalStatus
<1>4. CASE VerifyPost
  BY <1>1, <1>4, JournalTraces DEF VerifyPost, JournalStatus
<1>5. CASE TakeEffect
  BY <1>1, <1>5, EffectTraces
<1> QED
  BY <1>2, <1>3, <1>4, <1>5 DEF ExecuteStep

LEMMA AnswerTraces == ASSUME WellTyped, Dialogue, Traces, RecordAnswer PROVE Traces'
<1>1. /\ pc = "answer" /\ pc' = "message" /\ Recorded("assistant", todo)
      /\ UNCHANGED <<tools, approvals, journal, effects, run, todo>>
  BY DEF RecordAnswer, publicVars, requestVars
<1>2. Fresh' \subseteq Fresh
  BY <1>1, ContextGrows DEF WellTyped
<1>3. ASSUME NEW c \in Call, Ahead(c)' PROVE Untried(run, c)
  <2>1. c \in Fresh /\ run \in Run
    BY <1>1, <1>3 DEF Ahead, Dialogue, WellTyped, TypeOK
  <2> QED
    BY <2>1 DEF Traces
<1> QED
  BY <1>1, <1>2, <1>3, TracesKept DEF Tried

LEMMA TellTraces == ASSUME WellTyped, Dialogue, Traces, Tell PROVE Traces'
<1>1. Fresh' \subseteq Fresh
  BY TellFacts, ContextGrows DEF WellTyped
<1>2. ASSUME NEW c \in Call, Ahead(c)' PROVE Untried(run, c)
  <2>1. pc' \notin Over /\ pc' \in Before \cup CallSteps /\ c \in Range(todo') /\ pc = "tell"
    BY <1>2, TellFacts DEF Ahead, Over, Before, CallSteps
  <2>2. c \in Range(todo) /\ c # Head(todo)
    BY <2>1, TellFacts DEF Before, CallSteps
  <2> QED
    BY <2>1, <2>2 DEF Traces, Ahead, CallSteps
<1>3. pc' \notin Tried
  BY TellFacts DEF Tried
<1> QED
  BY <1>1, <1>2, <1>3, TellFacts, TracesKept

LEMMA OtherTraces ==
  ASSUME WellTyped, Dialogue, Traces,
         \/ Start \/ RecordUser \/ AskModel \/ ProviderFails \/ LeaveLoop \/ CompleteMessage \/ Complete \/ Finish
         \/ SumsOverflow \/ Pick \/ BudgetSpent \/ Resolve \/ WriteFails \/ Cancel \/ Crash \/ UNCHANGED vars
  PROVE  Traces'
<1> USE DEF sessionVars, publicVars, requestVars, stateVars
<1>1. Fresh' \subseteq Fresh
  <2>1. CASE RecordUser
    BY <2>1, ContextGrows DEF RecordUser, WellTyped
  <2>2. CASE ~ RecordUser
    <3>1. UNCHANGED context
      BY <2>2 DEF Start, AskModel, SumsOverflow, ProviderFails, LeaveLoop, CompleteMessage, Complete, Finish, Terminate,
                  Pick, BudgetSpent, Resolve, WriteFails, Cancel, Crash, vars
    <3> QED
      BY <3>1 DEF Fresh
  <2> QED
    BY <2>1, <2>2
<1>2. CASE Start \/ RecordUser \/ CompleteMessage \/ Complete \/ Finish
  BY <1>1, <1>2, SilentTraces
  DEF Start, RecordUser, CompleteMessage, Complete, Finish, Terminate, Emitted, CallSteps, Before, Tried
<1>3. CASE SumsOverflow \/ LeaveLoop \/ BudgetSpent \/ WriteFails \/ Crash \/ Cancel \/ UNCHANGED vars
  BY <1>1, <1>3, SilentTraces
  DEF SumsOverflow, LeaveLoop, BudgetSpent, FinishWith, WriteFails, Crash, Cancel, vars, CallSteps, Before, Tried
<1>4. CASE Pick \/ ProviderFails
  <2>1. pc' \in {"propose", "finish"} /\ (Pick => pc = "pick") /\ (ProviderFails => pc' = "finish")
    BY <1>4 DEF Pick, ProviderFails, FinishWith
  <2> QED
    BY <1>1, <1>4, <2>1, SilentTraces DEF Pick, ProviderFails, CallSteps, Before, Tried
<1>5. CASE AskModel \/ Resolve
  <2>1. pc' \in {"answer", "user", "returned"} /\ UNCHANGED <<tools, approvals, journal, effects, run>>
    BY <1>5 DEF AskModel, Resolve, Emitted
  <2>2. \A c \in Call : ~ Ahead(c)'
    BY <2>1 DEF Ahead, Before, CallSteps
  <2> QED
    BY <1>1, <2>1, <2>2, TracesKept DEF Tried
<1> QED
  BY <1>2, <1>3, <1>4, <1>5

-----------------------------------------------------------------------------
(***************************************************************************)
(* Which effects the conversation tells.                                    *)
(***************************************************************************)

Executing == {"authorize", "asking", "granted", "executing", "intent", "ran"}

LEMMA KnowledgeKept ==
  ASSUME Knowledge, UNCHANGED <<effects, run, recovery, todo>>, \A c : Told(c) => Told(c)',
         Verifying /\ pc' \in Executing => pc \in Executing, pc' \in Working => pc \in Working,
         pc' \notin Over => pc \notin Over /\ (Handling => Handling')
  PROVE  Knowledge'
<1>1. (Verifying => pc \notin Executing)'
  BY DEF Knowledge, Verifying, Recovering, Executing
<1>2. (pc \in Working /\ ~ Verifying => \A c \in Range(todo) : \A x \in effects : x[2] = c => x[1] = run)'
  BY DEF Knowledge, Verifying, Recovering
<1>3. (pc \notin Over => \A x \in effects : Told(x[2]) \/ (Handling /\ x[2] = Head(todo)))'
  BY DEF Knowledge
<1> QED
  BY <1>1, <1>2, <1>3 DEF Knowledge, Executing

LEMMA SameContext == ASSUME UNCHANGED context PROVE \A c : Told(c) => Told(c)'
BY DEF Told, IsResultOf, IsTool

LEMMA ConversationKnowledge ==
  ASSUME WellTyped, Dialogue, Traces, Knowledge,
         \/ Start \/ RecordUser \/ AskModel \/ RecordAnswer \/ CompleteMessage \/ Complete \/ Finish
  PROVE  Knowledge'
<1> USE DEF publicVars, requestVars, sessionVars
<1>1. CASE Start
  <2>1. /\ pc = "start" /\ pc' \in {"pick", "user", "returned"} /\ (pc' = "user" => recovery = None)
        /\ UNCHANGED <<context, effects, run, recovery, todo>>
    BY <1>1 DEF Start, Emitted, Recovering
  <2> QED
    BY <2>1, KnowledgeKept, SameContext DEF Handling, Executing, Working, Over, CallSteps
<1>2. CASE RecordUser
  <2>1. pc = "user" /\ pc' = "ask" /\ UNCHANGED <<effects, run, recovery, todo>> /\ \A c : Told(c) => Told(c)'
    BY <1>2, ContextGrows DEF RecordUser, WellTyped
  <2> QED
    BY <2>1, KnowledgeKept DEF Handling, Executing, Working, Over, CallSteps
<1>3. CASE AskModel
  <2>1. /\ pc = "ask" /\ pc' \in {"answer", "returned"} /\ recovery = None /\ recovery' = None
        /\ UNCHANGED <<context, effects>>
    BY <1>3 DEF AskModel, Emitted, WellTyped, Conversation
  <2>2. \A x \in effects : Told(x[2])
    BY <2>1 DEF Knowledge, Handling, Over, CallSteps
  <2>3. (\A x \in effects : Told(x[2]))'
    BY <2>1, <2>2 DEF Told, IsResultOf, IsTool
  <2> QED
    BY <2>1, <2>3 DEF Knowledge, Verifying, Recovering, Working, CallSteps
<1>4. CASE RecordAnswer
  <2>1. /\ pc = "answer" /\ pc' = "message" /\ recovery = None /\ Recorded("assistant", todo)
        /\ UNCHANGED <<effects, recovery, run, todo>>
    BY <1>4 DEF RecordAnswer, WellTyped, Conversation
  <2>2. \A c : Told(c) => Told(c)'
    BY <2>1, ContextGrows DEF WellTyped
  <2>3. ASSUME NEW x \in effects PROVE Told(x[2]) /\ x[2] \notin Range(todo)
    <3>1. Told(x[2])
      BY <2>1 DEF Knowledge, Handling, Over, CallSteps
    <3>2. x = <<x[1], x[2]>> /\ x[1] \in Run /\ x[2] \in Call
      BY EffectTyped DEF WellTyped
    <3>3. x[2] \notin Fresh
      BY <3>2 DEF Traces, Untried
    <3> QED
      BY <2>1, <3>1, <3>3 DEF Dialogue
  <2> QED
    BY <2>1, <2>2, <2>3 DEF Knowledge, Verifying, Recovering
<1>5. CASE CompleteMessage
  <2>1. pc = "message" /\ pc' \in {"complete", "pick", "returned"} /\ UNCHANGED <<context, effects, run, recovery, todo>>
    BY <1>5 DEF CompleteMessage, Emitted
  <2> QED
    BY <2>1, KnowledgeKept, SameContext DEF Handling, Executing, Working, Over, CallSteps
<1>6. CASE Complete \/ Finish
  <2>1. pc' = "returned" /\ UNCHANGED <<context, effects, run, recovery, todo>>
    BY <1>6 DEF Complete, Finish, Terminate, Emitted
  <2> QED
    BY <2>1, KnowledgeKept, SameContext DEF Executing, Working, Over, CallSteps
<1> QED
  BY <1>1, <1>2, <1>3, <1>4, <1>5, <1>6

LEMMA LimitsKnowledge ==
  ASSUME Knowledge,
         \/ SumsOverflow \/ ProviderFails \/ LeaveLoop \/ Pick \/ BudgetSpent \/ WriteFails \/ Cancel \/ Crash
         \/ UNCHANGED vars
  PROVE  Knowledge'
<1>1. UNCHANGED <<context, effects, run, recovery, todo>>
  BY DEF SumsOverflow, ProviderFails, LeaveLoop, Pick, BudgetSpent, WriteFails, Cancel, Crash, vars, sessionVars, requestVars
<1>2. \/ pc' \in Over
      \/ pc = "pick" /\ pc' = "propose"
      \/ pc' = pc
  BY DEF SumsOverflow, ProviderFails, LeaveLoop, Pick, BudgetSpent, WriteFails, Cancel, Crash, vars, FinishWith, Over
<1>3. Over \cap Working = {} /\ Over \cap Executing = {}
  BY DEF Over, Working, Executing, CallSteps
<1>4. CASE pc' \in Over
  BY <1>1, <1>3, <1>4, KnowledgeKept, SameContext
<1>5. CASE pc = "pick" /\ pc' = "propose"
  BY <1>1, <1>5, KnowledgeKept, SameContext DEF Handling, Executing, Working, Over, CallSteps
<1>6. CASE pc' = pc
  BY <1>1, <1>6, KnowledgeKept, SameContext DEF Handling
<1> QED
  BY <1>2, <1>4, <1>5, <1>6

LEMMA CallKnowledge == ASSUME Knowledge, ToolStep \/ ApprovalStep PROVE Knowledge'
<1>1. UNCHANGED <<context, effects, run, recovery, todo>>
  BY DEF ToolStep, ApprovalStep, requestVars
<1>2. pc \in CallSteps /\ pc' \in CallSteps \cup {"returned"}
  BY DEF ToolStep, Propose, PrepareFails, StartTool, Succeed, FailTool, Refuse, Allow, RequestApproval, ApprovalStep,
         ApprovalDecided, Unanswered, MayGiveUp, Emitted, CallSteps
<1>3. Verifying /\ pc' \in Executing => pc \in Executing
  BY DEF ToolStep, Propose, PrepareFails, StartTool, Succeed, FailTool, Refuse, Allow, RequestApproval, ApprovalStep,
         ApprovalDecided, Unanswered, MayGiveUp, Emitted, Executing
<1> QED
  BY <1>1, <1>2, <1>3, KnowledgeKept, SameContext DEF Handling, Working, Over, CallSteps

LEMMA ExecuteKnowledge == ASSUME Knowledge, ExecuteStep PROVE Knowledge'
<1>1. UNCHANGED <<context, run, recovery, todo>>
  BY DEF ExecuteStep, requestVars
<1>2. pc \in {"executing", "intent", "ran"} /\ pc' \in {"intent", "ran", "succeeded", "failed"}
  BY DEF ExecuteStep, ToolFails, Read, RecordIntent, TakeEffect, CommandEnds, VerifyPost
<1>3. ~ Verifying
  BY <1>2 DEF Knowledge
<1>4. CASE UNCHANGED effects
  BY <1>1, <1>2, <1>3, <1>4, KnowledgeKept, SameContext DEF Handling, Working, Over, CallSteps
<1>5. CASE effects' = effects \cup {<<run, Head(todo)>>}
  <2>1. ~ Verifying' /\ pc' \in Working /\ Handling' /\ pc \in Working /\ pc \notin Over
    BY <1>1, <1>2, <1>3 DEF Verifying, Recovering, Working, Handling, Over, CallSteps
  <2>2. ASSUME NEW x \in effects' PROVE Told(x[2])' \/ x[2] = Head(todo)
    <3>1. CASE x \in effects
      BY <1>1, <2>1, <3>1 DEF Knowledge, Told, IsResultOf, IsTool
    <3>2. CASE x = <<run, Head(todo)>>
      BY <3>2
    <3> QED
      BY <1>5, <3>1, <3>2
  <2>3. ASSUME NEW x \in effects', x[2] \in Range(todo) PROVE x[1] = run
    <3>1. CASE x \in effects
      BY <1>3, <2>1, <2>3, <3>1 DEF Knowledge
    <3>2. CASE x = <<run, Head(todo)>>
      BY <3>2
    <3> QED
      BY <1>5, <3>1, <3>2
  <2> QED
    BY <1>1, <2>1, <2>2, <2>3 DEF Knowledge
<1>6. UNCHANGED effects \/ effects' = effects \cup {<<run, Head(todo)>>}
  BY DEF ExecuteStep, ToolFails, Read, RecordIntent, TakeEffect, CommandEnds, VerifyPost, Current
<1> QED
  BY <1>4, <1>5, <1>6

LEMMA TellKnowledge == ASSUME WellTyped, Dialogue, Knowledge, Tell PROVE Knowledge'
<1>1. \A c : Told(c) => Told(c)'
  BY TellFacts, ContextGrows DEF WellTyped
<1>2. (\A x \in effects : Told(x[2]))'
  <2>1. pc \notin Over
    BY TellFacts DEF Over
  <2>2. ASSUME NEW x \in effects PROVE Told(x[2])'
    <3>1. Told(x[2]) \/ x[2] = Head(todo)
      BY <2>1 DEF Knowledge
    <3> QED
      BY <1>1, <3>1, TellFacts
  <2> QED
    BY <2>2, TellFacts
<1>3. ASSUME pc' \in Working, ~ Verifying', NEW c \in Range(todo'), NEW x \in effects', x[2] = c
      PROVE  x[1] = run'
  <2>1. pc \in Working /\ ~ Verifying /\ c \in Range(todo) /\ x \in effects /\ run' = run
    BY <1>3, TellFacts DEF Verifying, Recovering, Working, CallSteps
  <2> QED
    BY <1>3, <2>1 DEF Knowledge
<1>4. pc' \notin Executing
  BY TellFacts DEF Executing
<1> QED
  BY <1>2, <1>3, <1>4 DEF Knowledge, Executing

LEMMA ResolveKnowledge == ASSUME WellTyped, Knowledge, Resolve PROVE Knowledge'
<1>1. /\ pc = "resolve" /\ pc' \in {"user", "returned"} /\ recovery' = None /\ UNCHANGED <<context, effects>>
  BY DEF Resolve, Emitted
<1>2. \A x \in effects : Told(x[2])
  BY <1>1 DEF Knowledge, Handling, Over, CallSteps
<1>3. (\A x \in effects : Told(x[2]))'
  BY <1>1, <1>2 DEF Told, IsResultOf, IsTool
<1> QED
  BY <1>1, <1>3 DEF Knowledge, Verifying, Recovering, Working, CallSteps

-----------------------------------------------------------------------------
(***************************************************************************)
(* What a resume may assume of the session it finds.                        *)
(***************************************************************************)

LEMMA JournalsDecided ==
  ASSUME TypeOK, NEW j \in RecoveredJournals
  PROVE  /\ j \in [Run -> [Call -> JournalStatus]]
         /\ \A r \in Run, c \in Call :
              <<r, c>> \in effects \ Undone(j) /\ journal[r][c] # "aborted" => j[r][c] # "aborted"
<1>1. PICK files \in [Incomplete -> {"pre", "post", "other"}] : j = Decided(files)
  BY DEF RecoveredJournals
<1>2. ASSUME NEW r \in Run, NEW c \in Call
      PROVE  /\ j[r][c] \in JournalStatus
             /\ <<r, c>> \in effects \ Undone(j) /\ journal[r][c] # "aborted" => j[r][c] # "aborted"
  <2>1. CASE <<r, c>> \in Incomplete
    <3>1. j[r][c] = Decision(files[<<r, c>>]) /\ files[<<r, c>>] \in {"pre", "post", "other"}
      BY <1>1, <2>1 DEF Decided
    <3> QED
      BY <2>1, <3>1 DEF Decision, JournalStatus, Undone
  <2>2. CASE <<r, c>> \notin Incomplete
    BY <1>1, <2>2 DEF Decided, TypeOK
  <2> QED
    BY <2>1, <2>2
<1>3. \A r \in Run : j[r] = [c \in Call |-> j[r][c]]
  BY <1>1 DEF Decided
<1>4. j = [r \in Run |-> j[r]]
  BY <1>1 DEF Decided
<1> QED
  BY <1>2, <1>3, <1>4

LEMMA OneAsker ==
  ASSUME AskedOnce, NEW r, NEW s, NEW c \in Call, AskedIn(<<r, c>>), AskedIn(<<s, c>>)
  PROVE  r = s
BY DEF AskedOnce, AskedIn

\* A call that had an effect has a result, or is the call to recover.
LEMMA EffectIsToldOrOpen ==
  ASSUME TypeOK, Dialogue, Traces, ResultsAgree, NEW x \in effects
  PROVE  Told(x[2]) \/ x \in Candidates
<1>1. /\ x = <<x[1], x[2]>> /\ x[1] \in Run /\ x[2] \in Call /\ x \in Run \X Call
      /\ tools[x[1]][x[2]] \in {"running", "completed"} /\ approvals[x[1]][x[2]] # "pending"
  BY EffectTyped DEF Traces, LeavesTrace
<1>2. CASE tools[x[1]][x[2]] = "completed"
  BY <1>1, <1>2 DEF ResultsAgree, PublicResults, PrivateResults, Told, IsResultOf
<1>3. CASE tools[x[1]][x[2]] = "running" /\ Recovered(x[1], x[2])
  BY <1>3 DEF Recovered, Dialogue
<1>4. CASE tools[x[1]][x[2]] = "running" /\ ~ Recovered(x[1], x[2])
  BY <1>1, <1>4 DEF Candidates, Interrupted, Undecided
<1> QED
  BY <1>1, <1>2, <1>3, <1>4

\* Unless its journal has verified the effect, the call to recover had none that
\* still stands.
LEMMA RecoveredHadNone ==
  ASSUME TypeOK, Dialogue, Traces, NEW j \in RecoveredJournals, CanResume(j), NEW k \in Candidates,
         KindOf(k, j) # "verify_write", NEW x \in effects \ Undone(j), x[2] = k[2]
  PROVE  FALSE
<1>1. /\ x = <<x[1], x[2]>> /\ x[1] \in Run /\ x[2] \in Call /\ x[2] \in Writes \cup Commands
      /\ tools[x[1]][x[2]] \in {"running", "completed"} /\ approvals[x[1]][x[2]] # "pending"
      /\ x[2] \in Writes => journal[x[1]][x[2]] # "aborted"
  BY EffectTyped DEF Traces, LeavesTrace
<1>2. k = <<k[1], k[2]>> /\ k[1] \in Run /\ k[2] \in Call /\ ~ Recovered(k[1], k[2])
  BY DEF Candidates, Undecided, Interrupted
<1>3. /\ \A l \in Candidates : l = k
      /\ Recoverable(k, j) /\ AskedIn(k) /\ ResultsAgree /\ ContextInOrder
  BY DEF CanResume, SelectionFails, BoundariesAgree
<1>4. AskedOnce /\ \A z \in recoveries : AskedIn(<<z.source, z.call>>)
  BY DEF Dialogue
<1>5. CASE x[1] = k[1]
  <2>1. k \notin Undecided
    BY <1>1, <1>5 DEF Undecided
  <2>2. KindOf(k, j) \in {"retry_read", "retry_write"}
    BY <1>3, <2>1 DEF Recoverable, KindOf
  <2>3. k[2] \notin Reads
    BY <1>1, CallsAreDistinct
  <2>4. k[2] \in Writes /\ j[k[1]][k[2]] = "aborted"
    BY <2>1, <2>2, <2>3 DEF KindOf
  <2>5. <<k[1], k[2]>> \in effects \ Undone(j) /\ journal[k[1]][k[2]] # "aborted"
    BY <1>1, <1>2, <1>5, <2>4
  <2> QED
    BY <1>2, <2>4, <2>5, JournalsDecided
<1>6. CASE x[1] # k[1] /\ tools[x[1]][x[2]] = "running"
  <2>1. CASE Recovered(x[1], x[2])
    <3>1. AskedIn(<<x[1], x[2]>>)
      BY <1>4, <2>1 DEF Recovered
    <3> QED
      BY <1>1, <1>2, <1>3, <1>4, <1>6, <3>1, OneAsker
  <2>2. CASE ~ Recovered(x[1], x[2])
    <3>1. x \in Candidates
      BY <1>1, <1>6, <2>2 DEF Candidates, Interrupted, Undecided
    <3> QED
      BY <1>3, <1>6, <3>1
  <2> QED
    BY <2>1, <2>2
<1>7. CASE x[1] # k[1] /\ tools[x[1]][x[2]] = "completed"
  <2>1. PICK i \in PrivateResults : context[i].run = x[1] /\ context[i].calls = <<x[2]>>
    <3>1. <<x[1], x[2]>> \in PublicResults
      BY <1>1, <1>7 DEF PublicResults
    <3> QED
      BY <1>3, <3>1 DEF ResultsAgree
  <2>2. ResultFits(i) /\ context[i].calls[1] = x[2] /\ i \in DOMAIN context
    BY <1>3, <2>1 DEF ContextInOrder, PrivateResults
  <2>3. PICK q \in Pending(i - 1) :
          /\ q[2] = x[2]
          /\ q[1] = x[1] \/ [run |-> x[1], source |-> q[1], call |-> x[2]] \in recoveries
    BY <2>1, <2>2 DEF ResultFits
  <2>4. AskedIn(<<q[1], x[2]>>)
    <3>1. PICK m \in 1..(i - 1) : context[m].run = q[1] /\ Asks(m, q[2])
      BY <2>3 DEF Pending
    <3>2. m \in DOMAIN context
      <4>1. DOMAIN context = 1..Len(context) /\ Len(context) \in Nat
        BY DEF TypeOK
      <4> QED
        BY <2>2, <3>1, <4>1
    <3> QED
      BY <2>3, <3>1, <3>2 DEF AskedIn
  <2>5. q[1] = k[1]
    BY <1>1, <1>2, <1>3, <1>4, <2>4, OneAsker
  <2>6. [run |-> x[1], source |-> k[1], call |-> k[2]] \in recoveries
    BY <1>7, <2>3, <2>5
  <2>7. Recovered(k[1], k[2])
    BY <2>6 DEF Recovered
  <2> QED
    BY <1>2, <2>7
<1> QED
  BY <1>1, <1>5, <1>6, <1>7

LEMMA PlanIsSound ==
  ASSUME TypeOK, Dialogue, Traces, NEW j \in RecoveredJournals, CanResume(j), NEW p, p = PlannedRecovery(j)
  PROVE  /\ p \in Recovery \cup {None}
         /\ p = None => \A x \in effects : Told(x[2])
         /\ p # None => /\ AskedIn(<<p.source, p.call>>)
                        /\ p.kind # "verify_write" => \A x \in effects \ Undone(j) : x[2] # p.call
                        /\ \A x \in effects : Told(x[2]) \/ x[2] = p.call
<1>1. \A x \in effects : Told(x[2]) \/ x \in Candidates
  BY EffectIsToldOrOpen DEF CanResume, BoundariesAgree
<1>2. CASE Candidates = {}
  BY <1>1, <1>2 DEF PlannedRecovery, NoRecovery
<1>3. CASE Candidates # {}
  <2>1. PICK k \in Candidates : k = CHOOSE l \in Candidates : TRUE
    BY <1>3
  <2>2. p = [source |-> k[1], call |-> k[2], kind |-> KindOf(k, j)]
    BY <1>3, <2>1 DEF PlannedRecovery
  <2>3. /\ k = <<k[1], k[2]>> /\ k[1] \in Run /\ k[2] \in Call
        /\ \A l \in Candidates : l = k
        /\ Recoverable(k, j) /\ AskedIn(k)
    BY DEF Candidates, Undecided, Interrupted, CanResume, SelectionFails
  <2>4. KindOf(k, j) \in RecoveryKind
    BY <2>3 DEF Recoverable, KindOf, RecoveryKind
  <2>5. p \in Recovery /\ p # None
    BY <2>2, <2>3, <2>4, NoneIsNoRecovery DEF Recovery
  <2>6. p.source = k[1] /\ p.call = k[2] /\ p.kind = KindOf(k, j)
    BY <2>2
  <2>7. AskedIn(<<p.source, p.call>>)
    BY <2>3, <2>6
  <2>8. p.kind # "verify_write" => \A x \in effects \ Undone(j) : x[2] # p.call
    BY <2>6, RecoveredHadNone
  <2>9. \A x \in effects : Told(x[2]) \/ x[2] = p.call
    BY <1>1, <2>3, <2>6
  <2> QED
    BY <2>5, <2>7, <2>8, <2>9
<1> QED
  BY <1>2, <1>3

-----------------------------------------------------------------------------
(***************************************************************************)
(* A session that is resumed, and one that is not.                          *)
(***************************************************************************)

LEMMA JournalTyped ==
  ASSUME WellTyped, ~ Active, NEW j \in RecoveredJournals, journal' = j, effects' = effects \ Undone(j),
         UNCHANGED <<context, publicVars, faults, requestVars, stateVars, recovery, todo, failed, pc, ctxDone, ending>>
  PROVE  WellTyped'
<1>1. journal' \in [Run -> [Call -> JournalStatus]]
  BY JournalsDecided DEF WellTyped
<1> QED
  BY <1>1 DEF publicVars, requestVars, stateVars, WellTyped, TypeOK

LEMMA RunTyped ==
  ASSUME WellTyped, NEW j \in RecoveredJournals, journal' = j, effects' = effects \ Undone(j),
         run < MaxRuns, NEW p \in Recovery \cup {None}, NEW done \in BOOLEAN, NewRun(run + 1, p, done),
         UNCHANGED <<context, publicVars, faults>>
  PROVE  WellTyped'
<1>1. journal' \in [Run -> [Call -> JournalStatus]]
  BY JournalsDecided DEF WellTyped
<1>2. run' \in Run
  BY LimitsAreNaturals DEF NewRun, WellTyped, TypeOK, Run
<1>3. turn' \in 0..MaxTurns /\ reserved' \in [calls : 0..MaxToolCalls, commands : 0..MaxCommandCalls] /\ repeats'.count \in Nat
  BY LimitsAreNaturals DEF NewRun
<1>4. todo' \in Seq(Call)
  <2>1. CASE p = None
    BY <2>1 DEF NewRun
  <2>2. CASE p # None
    <3>1. p.call \in Call /\ todo' = <<p.call>>
      BY <2>2 DEF NewRun, Recovery
    <3> QED
      BY <3>1
  <2> QED
    BY <2>1, <2>2
<1>5. /\ pc' = "start" /\ recovery' = p /\ ctxDone' = done /\ shielded' = done /\ failed' = FALSE
      /\ overflowed' = FALSE /\ ending' = "failed"
      /\ p # None => todo' = <<p.call>>
  BY DEF NewRun
<1>6. pc' \in Step /\ pc' \notin CallSteps \cup Conversation \cup {"resolve", "intent"} /\ ending' \in Terminal
  BY <1>5 DEF Step, CallSteps, Conversation, Terminal
<1> QED
  BY <1>1, <1>2, <1>3, <1>4, <1>5, <1>6 DEF publicVars, WellTyped, TypeOK

\* A decided journal denies no effect that stands.
LEMMA TracesStand ==
  ASSUME TypeOK, Traces, NEW j \in RecoveredJournals, journal' = j, effects' = effects \ Undone(j),
         UNCHANGED <<tools, approvals>>
  PROVE  (\A x \in effects : LeavesTrace(x))'
<1> SUFFICES ASSUME NEW x \in effects \ Undone(j) PROVE LeavesTrace(x)'
  OBVIOUS
<1>1. x = <<x[1], x[2]>> /\ x[1] \in Run /\ x[2] \in Call /\ LeavesTrace(x)
  BY EffectTyped DEF Traces
<1>2. x[2] \in Writes => j[x[1]][x[2]] # "aborted"
  BY <1>1, JournalsDecided DEF LeavesTrace
<1> QED
  BY <1>1, <1>2 DEF LeavesTrace

LEMMA RestSettles ==
  ASSUME Settled, ~ Active, NEW j \in RecoveredJournals, journal' = j, effects' = effects \ Undone(j),
         UNCHANGED <<context, publicVars, faults, requestVars, stateVars, recovery, todo, failed, pc, ctxDone, ending>>
  PROVE  Settled'
<1>1. WellTyped' /\ TypeOK
  BY JournalTyped DEF Settled, WellTyped
<1>2. UNCHANGED <<context, tools, approvals, recoveries, run, recovery, todo, pc>> /\ pc \in Over
  BY DEF publicVars, requestVars, Active, Over
<1>3. pc' \notin Working \cup Before \cup CallSteps \cup Executing \cup {"answer", "intent"}
  BY <1>2 DEF Over, Working, Before, CallSteps, Executing
<1>4. Dialogue'
  BY <1>2, DialogueKept DEF Settled
<1>5. Knowledge'
  BY <1>2, <1>3 DEF Knowledge, Executing
<1>6. Traces'
  <2>1. (\A x \in effects : LeavesTrace(x))'
    BY <1>1, <1>2, TracesStand DEF Settled
  <2>2. (\A r \in Run, c \in Call : c \in Fresh \/ r > run => Untried(r, c))'
    BY <1>2 DEF Settled, Traces, Untried, Fresh
  <2>3. (\A c \in Call : Ahead(c) => Untried(run, c))'
    BY <1>3 DEF Ahead
  <2> QED
    BY <1>3, <2>1, <2>2, <2>3 DEF Traces, CallSteps
<1> QED
  BY <1>1, <1>4, <1>5, <1>6 DEF Settled

LEMMA NewRunSettles ==
  ASSUME Settled, NEW j \in RecoveredJournals, journal' = j, effects' = effects \ Undone(j),
         run < MaxRuns, CanResume(j),
         NEW p, p = PlannedRecovery(j), NEW done \in BOOLEAN, NewRun(run + 1, p, done),
         UNCHANGED <<context, publicVars, faults>>
  PROVE  Settled'
<1>1. TypeOK /\ WellTyped /\ Dialogue /\ Traces /\ Knowledge /\ run \in Run /\ run \in Nat
  BY DEF Settled, WellTyped, TypeOK, Run
<1>2. /\ p \in Recovery \cup {None}
      /\ p = None => \A x \in effects : Told(x[2])
      /\ p # None => /\ AskedIn(<<p.source, p.call>>)
                     /\ p.kind # "verify_write" => \A x \in effects \ Undone(j) : x[2] # p.call
                     /\ \A x \in effects : Told(x[2]) \/ x[2] = p.call
  BY <1>1, PlanIsSound
<1>3. WellTyped'
  BY <1>1, <1>2, RunTyped
<1>4. /\ UNCHANGED <<context, tools, approvals, recoveries>> /\ effects' = effects \ Undone(j)
      /\ run' = run + 1 /\ pc' = "start" /\ recovery' = p
      /\ p = None => todo' = <<>>
      /\ p # None => todo' = <<p.call>>
  BY DEF NewRun, publicVars
<1>5. /\ IsInjective(todo')
      /\ p = None => Range(todo') = {}
      /\ p # None => Range(todo') = {p.call} /\ Head(todo') = p.call
  BY <1>4, NoCalls, OneCall
<1>6. Dialogue'
  <2>1. AskedOnce' /\ (\A z \in recoveries : AskedIn(<<z.source, z.call>>) /\ Told(z.call))'
    BY <1>1, <1>4 DEF Dialogue, AskedOnce, Asks, IsAssistant, AskedIn, Told, IsResultOf, IsTool
  <2>2. (recovery # None => AskedIn(<<recovery.source, recovery.call>>))'
    BY <1>2, <1>4 DEF AskedIn, Asks, IsAssistant
  <2>3. Range(todo') \cap Fresh' = {}
    <3>1. Fresh' = Fresh
      BY <1>4 DEF Fresh
    <3>2. p # None => p.call \notin Fresh
      BY <1>2 DEF AskedIn, Asks, Fresh
    <3> QED
      BY <1>5, <3>1, <3>2
  <2> QED
    BY <1>4, <1>5, <2>1, <2>2, <2>3 DEF Dialogue
<1>7. Traces'
  <2>1. \A r \in Run, c \in Call : c \in Fresh \/ r > run => Untried(r, c)
    BY <1>1 DEF Traces
  <2>2. (\A r \in Run, c \in Call : c \in Fresh \/ r > run => Untried(r, c))'
    <3> SUFFICES ASSUME NEW r \in Run, NEW c \in Call, c \in Fresh \/ r > run + 1 PROVE Untried(r, c)
      BY <1>4 DEF Untried, Fresh
    <3>1. r > run + 1 => r > run
      BY <1>1 DEF Run
    <3> QED
      BY <2>1, <3>1
  <2>3. (\A c \in Call : Ahead(c) => Untried(run, c))'
    <3>1. run + 1 > run /\ run + 1 \in Run
      BY <1>1, <1>3, <1>4 DEF WellTyped, TypeOK
    <3>2. \A c \in Call : Untried(run + 1, c)
      BY <2>1, <3>1
    <3> QED
      BY <1>4, <3>2 DEF Untried
  <2>4. (\A x \in effects : LeavesTrace(x))'
    BY <1>1, <1>4, TracesStand
  <2> QED
    BY <1>4, <2>2, <2>3, <2>4 DEF Traces
<1>8. Knowledge'
  <2>1. ASSUME ~ Verifying', NEW c \in Range(todo'), NEW x \in effects', x[2] = c PROVE FALSE
    <3>1. p # None /\ c = p.call /\ p.kind # "verify_write"
      BY <1>4, <1>5, <2>1 DEF Verifying, Recovering
    <3> QED
      BY <1>2, <1>4, <2>1, <3>1
  <2>2. ASSUME NEW x \in effects' PROVE Told(x[2])' \/ (Handling' /\ x[2] = Head(todo'))
    <3>1. Told(x[2]) \/ (p # None /\ x[2] = Head(todo'))
      BY <1>2, <1>4, <1>5, <2>2
    <3> QED
      BY <1>4, <3>1 DEF Told, IsResultOf, IsTool, Handling
  <2> QED
    BY <1>4, <2>1, <2>2 DEF Knowledge
<1> QED
  BY <1>3, <1>6, <1>7, <1>8 DEF Settled

LEMMA ResumeSettles == ASSUME Settled, Resume PROVE Settled'
<1>1. ~ Active /\ UNCHANGED <<context, publicVars, faults>>
  BY DEF Resume
<1>2. PICK j \in RecoveredJournals :
        /\ journal' = j /\ effects' = effects \ Undone(j)
        /\ IF run < MaxRuns /\ CanResume(j)
           THEN \E done \in BOOLEAN : NewRun(run + 1, PlannedRecovery(j), done)
           ELSE UNCHANGED <<requestVars, stateVars, recovery, todo, failed, pc, ctxDone, ending>>
  BY DEF Resume
<1>3. CASE run < MaxRuns /\ CanResume(j)
  <2>1. PICK done \in BOOLEAN : NewRun(run + 1, PlannedRecovery(j), done)
    BY <1>2, <1>3
  <2> QED
    BY <1>1, <1>2, <1>3, <2>1, NewRunSettles
<1>4. CASE ~ (run < MaxRuns /\ CanResume(j))
  <2>1. UNCHANGED <<requestVars, stateVars, recovery, todo, failed, pc, ctxDone, ending>>
    BY <1>2, <1>4
  <2> QED
    BY <1>1, <1>2, <2>1, RestSettles
<1> QED
  BY <1>3, <1>4

-----------------------------------------------------------------------------
(***************************************************************************)
(* The session.                                                             *)
(***************************************************************************)

LEMMA InitSettled == ASSUME Init PROVE Settled
<1>1. WellTyped
  BY InitTyped DEF Typed
<1>2. /\ DOMAIN context = {} /\ recoveries = {} /\ effects = {} /\ recovery = None /\ pc = "start" /\ todo = <<>>
      /\ \A r \in Run, c \in Call : approvals[r][c] = "none"
  BY DEF Init, ForEveryCall
<1>3. Range(todo) = {} /\ IsInjective(todo)
  BY <1>2, NoCalls
<1>4. Dialogue
  BY <1>2, <1>3 DEF Dialogue, AskedOnce
<1>5. Traces
  BY <1>2, <1>3 DEF Traces, Untried, Ahead
<1>6. Knowledge
  BY <1>2, <1>3 DEF Knowledge
<1> QED
  BY <1>1, <1>4, <1>5, <1>6 DEF Settled

LEMMA StaysSettled == ASSUME Settled, [SessionNext]_vars PROVE Settled'
<1>1. WellTyped /\ Dialogue /\ Traces /\ Knowledge
  BY DEF Settled
<1>2. CASE Resume
  BY <1>2, ResumeSettles
<1>3. CASE Crash
  <2>1. WellTyped'
    BY <1>1, <1>3 DEF Crash, sessionVars, publicVars, requestVars, stateVars, WellTyped, TypeOK, CallSteps, Conversation
  <2>2. Dialogue'
    BY <1>1, <1>3, DialogueKept DEF Crash, sessionVars, publicVars, Working, CallSteps
  <2> QED
    BY <1>1, <1>3, <2>1, <2>2, OtherTraces, LimitsKnowledge DEF Settled
<1>4. CASE [Next]_vars
  <2>1. WellTyped'
    BY <1>1, <1>4, StaysWellTyped
  <2>2. Dialogue'
    <3> USE DEF sessionVars, publicVars
    <3>1. CASE Start \/ CompleteMessage \/ Complete \/ Finish
      BY <1>1, <3>1, DialogueKept DEF Start, CompleteMessage, Complete, Finish, Terminate, Emitted, Working, CallSteps
    <3>2. CASE SumsOverflow \/ ProviderFails \/ LeaveLoop \/ BudgetSpent \/ WriteFails \/ Cancel \/ UNCHANGED vars
      BY <1>1, <3>2, DialogueKept
      DEF SumsOverflow, ProviderFails, LeaveLoop, BudgetSpent, WriteFails, Cancel, vars, FinishWith, Working, CallSteps
    <3>3. CASE Pick
      <4>1. pc = "pick" /\ pc' \in {"propose", "finish"} /\ UNCHANGED <<context, recoveries, recovery, todo>>
        BY <3>3 DEF Pick, FinishWith
      <4> QED
        BY <1>1, <4>1, DialogueKept DEF Working, CallSteps
    <3>4. CASE ToolStep \/ ApprovalStep \/ ExecuteStep
      <4>1. pc \in CallSteps /\ pc' \in CallSteps \cup {"returned"} /\ UNCHANGED <<context, recoveries, recovery, todo>>
        BY <3>4 DEF ToolStep, Propose, PrepareFails, StartTool, Succeed, FailTool, Refuse, Allow, RequestApproval,
                    ApprovalStep, ApprovalDecided, Unanswered, MayGiveUp, Emitted,
                    ExecuteStep, ToolFails, Read, RecordIntent, TakeEffect, CommandEnds, VerifyPost, CallSteps
      <4> QED
        BY <1>1, <4>1, DialogueKept DEF Working, CallSteps
    <3> QED
      BY <1>1, <1>4, <3>1, <3>2, <3>3, <3>4, UserDialogue, AskDialogue, AnswerDialogue, TellDialogue, ResolveDialogue
      DEF Next, RunStep
  <2>3. Traces'
    BY <1>1, <1>4, OtherTraces, AnswerTraces, TellTraces, ToolStepTraces, ApprovalStepTraces, ExecuteTraces
    DEF Next, RunStep
  <2>4. Knowledge'
    BY <1>1, <1>4, ConversationKnowledge, LimitsKnowledge, CallKnowledge, ExecuteKnowledge, TellKnowledge, ResolveKnowledge
    DEF Next, RunStep
  <2> QED
    BY <2>1, <2>2, <2>3, <2>4 DEF Settled
<1> QED
  BY <1>2, <1>3, <1>4 DEF SessionNext

LEMMA AlwaysSettled == SessionSpec => []Settled
BY InitSettled, StaysSettled, PTL DEF SessionSpec

\* Every state of a session is of its type.
THEOREM SessionTypes == SessionSpec => []TypeOK
<1>1. Settled => TypeOK
  BY DEF Settled, WellTyped
<1> QED
  BY <1>1, AlwaysSettled, PTL

LEMMA EffectsStayOnce == ASSUME Settled, EffectsOnce, [SessionNext]_vars PROVE EffectsOnce'
<1>1. CASE effects' \subseteq effects
  BY <1>1 DEF EffectsOnce
<1>2. CASE ExecuteStep /\ TakeEffect
  <2>1. effects' = effects \cup {<<run, Head(todo)>>} /\ pc \in {"executing", "intent"}
    BY <1>2 DEF TakeEffect, Current
  <2>2. WellTyped /\ Dialogue /\ Knowledge /\ TypeOK
    BY DEF Settled, WellTyped
  <2>3. Head(todo) \in Range(todo)
    BY <2>1, <2>2, CurrentFacts DEF CallSteps
  <2>4. ASSUME NEW x \in effects, x[2] = Head(todo) PROVE x = <<run, Head(todo)>>
    <3>1. x = <<x[1], x[2]>>
      BY <2>2, EffectTyped
    <3>2. x[1] = run
      BY <2>1, <2>2, <2>3, <2>4 DEF Knowledge, Working, CallSteps
    <3> QED
      BY <2>4, <3>1, <3>2
  <2> QED
    BY <2>1, <2>4 DEF EffectsOnce
<1>3. effects' \subseteq effects \/ (ExecuteStep /\ TakeEffect)
  <2> USE DEF sessionVars
  <2>1. CASE Start \/ RecordUser \/ AskModel \/ SumsOverflow \/ ProviderFails \/ LeaveLoop \/ RecordAnswer \/ CompleteMessage
             \/ Complete \/ Finish
    BY <2>1 DEF Start, RecordUser, AskModel, SumsOverflow, ProviderFails, LeaveLoop, RecordAnswer, CompleteMessage,
                Complete, Finish, Terminate
  <2>2. CASE Pick \/ BudgetSpent \/ Tell \/ Resolve \/ ToolStep \/ ApprovalStep \/ WriteFails \/ Cancel \/ Crash \/ Resume
             \/ UNCHANGED vars
    BY <2>2 DEF Pick, BudgetSpent, Tell, Resolve, ToolStep, ApprovalStep, WriteFails, Cancel, Crash, Resume, vars
  <2>3. CASE ExecuteStep
    BY <2>3 DEF ExecuteStep, ToolFails, Read, RecordIntent, CommandEnds, VerifyPost
  <2> QED
    BY <2>1, <2>2, <2>3 DEF SessionNext, Next, RunStep
<1> QED
  BY <1>1, <1>2, <1>3

\* A call of a write or command tool takes effect at most once in the session,
\* however often its run dies, is cancelled or cannot write, and however often the
\* session is resumed: a write takes effect again only after the user undid it.
THEOREM ResumeRepeatsNothing == SessionSpec => []EffectsOnce
<1>1. Init => EffectsOnce
  BY DEF Init, EffectsOnce
<1> QED
  BY <1>1, EffectsStayOnce, AlwaysSettled, PTL DEF SessionSpec

\* When the model is asked, every effect the session had so far has a result in
\* the conversation.
THEOREM ResumeForgetsNothing == SessionSpec => []ModelKnowsEffects
<1>1. ASSUME Settled PROVE ModelKnowsEffects
  BY <1>1 DEF Settled, Knowledge, ModelKnowsEffects, Told, Handling, Over, CallSteps
<1> QED
  BY <1>1, AlwaysSettled, PTL

-----------------------------------------------------------------------------
(***************************************************************************)
(* The budget of every run.                                                *)
(***************************************************************************)

\* The runs before the current one kept their budget, those after it did nothing.
OthersKeepBudget == \A r \in Run : (r < run => KeepsBudget(r)) /\ (r > run => Proposed(r) = {})

SessionAccounted == Accounted /\ OthersKeepBudget

LEMMA StepKeepsBudget ==
  ASSUME WellTyped, SessionAccounted, Accounted', UNCHANGED run, \A r \in Run : r # run => Proposed(r)' = Proposed(r)
  PROVE  SessionAccounted'
<1> SUFFICES ASSUME NEW r \in Run PROVE (r < run => KeepsBudget(r)') /\ (r > run => Proposed(r)' = {})
  BY DEF SessionAccounted, OthersKeepBudget
<1>1. CASE r = run
  BY <1>1 DEF WellTyped, TypeOK, Run
<1>2. CASE r # run
  BY <1>2 DEF SessionAccounted, OthersKeepBudget, KeepsBudget
<1> QED
  BY <1>1, <1>2

LEMMA QuietKeepsBudget ==
  ASSUME WellTyped, SessionAccounted, UNCHANGED <<tools, run, reserved, todo>>, pc' = pc \/ pc' = "dead"
  PROVE  SessionAccounted'
<1>1. \A r \in Run : Proposed(r)' = Proposed(r)
  BY DEF Proposed
<1>2. Accounted'
  BY <1>1, OthersAccount DEF SessionAccounted, Shown, CallSteps
<1> QED
  BY <1>1, <1>2, StepKeepsBudget

LEMMA NewRunKeepsBudget ==
  ASSUME WellTyped, SessionAccounted, UNCHANGED tools, run < MaxRuns, NEW p, NEW done, NewRun(run + 1, p, done)
  PROVE  SessionAccounted'
<1>1. run \in Run /\ run \in Nat /\ run' = run + 1 /\ run + 1 \in Run
  BY LimitsAreNaturals DEF NewRun, WellTyped, TypeOK, Run
<1>2. \A r : Proposed(r)' = Proposed(r) /\ KeepsBudget(r)' = KeepsBudget(r)
  BY DEF Proposed, KeepsBudget
<1>3. Accounted'
  <2>1. Proposed(run + 1) = {}
    BY <1>1 DEF SessionAccounted, OthersKeepBudget
  <2>2. Proposed(run)' = {}
    BY <1>1, <2>1 DEF Proposed
  <2>3. pc' \notin Shown /\ pc' # "propose" /\ reserved'.calls = 0 /\ reserved'.commands = 0
    BY DEF NewRun, Shown, CallSteps
  <2>4. /\ IsFiniteSet(Proposed(run)')
        /\ Cardinality(Proposed(run)') = 0 /\ Cardinality((Proposed(run) \cap Commands)') = 0
    BY <2>2, FS_EmptySet
  <2>5. Due' = 0 /\ DueToCommand' = 0
    BY <2>3 DEF Due, DueToCommand
  <2> QED
    BY <2>3, <2>4, <2>5 DEF Accounted
<1>4. ASSUME NEW r \in Run PROVE (r < run + 1 => KeepsBudget(r)) /\ (r > run + 1 => Proposed(r) = {})
  <2>1. r \in Nat
    BY DEF Run
  <2>2. CASE r = run
    BY <1>1, <2>2, RunKeepsBudget DEF SessionAccounted
  <2>3. CASE r < run
    BY <1>1, <2>1, <2>3 DEF SessionAccounted, OthersKeepBudget
  <2>4. CASE r > run
    BY <1>1, <2>1, <2>4 DEF SessionAccounted, OthersKeepBudget
  <2> QED
    BY <1>1, <2>1, <2>2, <2>3, <2>4
<1> QED
  BY <1>1, <1>2, <1>3, <1>4 DEF SessionAccounted, OthersKeepBudget

LEMMA SessionStaysAccounted ==
  ASSUME WellTyped, SessionAccounted, [SessionNext]_vars
  PROVE  SessionAccounted'
<1>1. CASE [Next]_vars
  BY <1>1, StaysAccounted, StepKeepsBudget DEF SessionAccounted
<1>2. CASE Crash
  BY <1>2, QuietKeepsBudget DEF Crash, sessionVars, publicVars, requestVars, stateVars
<1>3. CASE Resume
  <2>1. UNCHANGED tools
    BY <1>3 DEF Resume, publicVars
  <2>2. PICK j \in RecoveredJournals :
          IF run < MaxRuns /\ CanResume(j)
          THEN \E done \in BOOLEAN : NewRun(run + 1, PlannedRecovery(j), done)
          ELSE UNCHANGED <<requestVars, stateVars, recovery, todo, failed, pc, ctxDone, ending>>
    BY <1>3 DEF Resume
  <2>3. CASE run < MaxRuns /\ CanResume(j)
    BY <2>1, <2>2, <2>3, NewRunKeepsBudget
  <2>4. CASE ~ (run < MaxRuns /\ CanResume(j))
    BY <2>1, <2>2, <2>4, QuietKeepsBudget DEF requestVars, stateVars
  <2> QED
    BY <2>3, <2>4
<1> QED
  BY <1>1, <1>2, <1>3 DEF SessionNext

\* Every run of a session keeps the budget, also one that begins with a call it
\* recovers: that call takes its share like the others.
THEOREM EveryRunKeepsBudget == SessionSpec => []WithinBudget
<1>1. ASSUME Init PROVE SessionAccounted
  <2>1. \A r \in Run : Proposed(r) = {}
    BY <1>1 DEF Init, ForEveryCall, Proposed
  <2>2. run = 1 /\ Proposed(run) = {} /\ pc \notin Shown /\ pc # "propose" /\ reserved.calls = 0 /\ reserved.commands = 0
    BY <1>1, <2>1, RunsAreNumbered DEF Init, Shown, CallSteps
  <2>3. \A r \in Run : ~ (r < 1)
    BY DEF Run
  <2> QED
    BY <2>1, <2>2, <2>3, NothingProposed DEF SessionAccounted, OthersKeepBudget
<1>2. ASSUME Settled, SessionAccounted, [SessionNext]_vars PROVE SessionAccounted'
  BY <1>2, SessionStaysAccounted DEF Settled
<1>3. ASSUME Settled, SessionAccounted PROVE WithinBudget
  <2> SUFFICES ASSUME NEW r \in Run PROVE KeepsBudget(r)
    BY DEF WithinBudget, KeepsBudget
  <2>1. run \in Run /\ run \in Nat /\ r \in Nat
    BY <1>3 DEF Settled, WellTyped, TypeOK, Run
  <2>2. CASE r = run
    BY <1>3, <2>2, RunKeepsBudget DEF Settled, SessionAccounted
  <2>3. CASE r < run
    BY <1>3, <2>3 DEF SessionAccounted, OthersKeepBudget
  <2>4. CASE r > run
    BY <1>3, <2>4, IdleKeepsBudget DEF SessionAccounted, OthersKeepBudget
  <2> QED
    BY <2>1, <2>2, <2>3, <2>4
<1> QED
  BY <1>1, <1>2, <1>3, AlwaysSettled, PTL DEF SessionSpec

-----------------------------------------------------------------------------
(***************************************************************************)
(* The two logs of a session agree.                                         *)
(***************************************************************************)

\* Run r is one that recovered a call.
RecoveredIn(r) == \E x \in recoveries : x.run = r

\* Message i is the task of run r.
IsTaskOf(i, r) == context[i].role = "user" /\ context[i].run = r

\* Where `todo' has calls this run has not answered.
Waiting == {"start", "message"} \cup CallSteps

\* A call is recovered once, and a run recovers one call.
RecoveriesDiffer ==
  /\ \A x \in recoveries : x.run <= run
  /\ ~ RecoveryFactsClash
  /\ recovery # None => ~ Recovered(recovery.source, recovery.call) /\ \A x \in recoveries : x.run # run

OneTask ==
  /\ \A i \in DOMAIN context : context[i].run <= run
  /\ \A i, m \in DOMAIN context : IsTaskOf(i, context[m].run) /\ IsTaskOf(m, context[m].run) => i = m
  /\ pc \in {"start", "user"} \/ recovery # None => \A i \in DOMAIN context : ~ IsTaskOf(i, run)

\* A run tells a result once, and only of a call that is completed.
ResultsStand ==
  /\ \A i \in PrivateResults : \E c \in Call : context[i].calls = <<c>> /\ tools[context[i].run][c] = "completed"
  /\ \A i, m \in PrivateResults : context[i].run = context[m].run /\ context[i].calls = context[m].calls => i = m
  /\ pc \in Waiting => \A i \in PrivateResults, c \in Range(todo) : context[i].run = run => context[i].calls # <<c>>
  /\ pc = "tell" => tools[run][Head(todo)] = "completed"

LaterRunsAreBlank ==
  /\ \A r \in Run : r > run => status[r] = "none" /\ \A c \in Call : tools[r][c] = "none"
  /\ Active => status[run] \notin Terminal

Books == RecoveriesDiffer /\ OneTask /\ ResultsStand /\ LaterRunsAreBlank

LEMMA InitBooks == ASSUME Init PROVE Books
<1>1. /\ DOMAIN context = {} /\ recoveries = {} /\ recovery = None /\ pc = "start"
      /\ \A r \in Run : status[r] = "none" /\ \A c \in Call : tools[r][c] = "none"
      /\ run \in Run
  BY RunsAreNumbered DEF Init, ForEveryCall
<1>2. RecoveriesDiffer /\ OneTask
  BY <1>1 DEF RecoveriesDiffer, RecoveryFactsClash, OneTask
<1>3. ResultsStand /\ LaterRunsAreBlank
  BY <1>1 DEF ResultsStand, PrivateResults, LaterRunsAreBlank, Terminal
<1> QED
  BY <1>2, <1>3 DEF Books

\* A run that begins.
LEMMA NewRunBooks ==
  ASSUME Settled, Books, NEW j \in RecoveredJournals, run < MaxRuns, CanResume(j),
         NEW p, p = PlannedRecovery(j), NEW done \in BOOLEAN, NewRun(run + 1, p, done),
         UNCHANGED <<context, publicVars>>
  PROVE  Books'
<1>1. /\ TypeOK /\ run \in Nat /\ run + 1 > run
      /\ \A r \in Run : r \in Nat
  BY DEF Settled, WellTyped, TypeOK, Run
<1>2. /\ UNCHANGED <<context, tools, recoveries, status>>
      /\ run' = run + 1 /\ pc' = "start" /\ recovery' = p
      /\ p = None => todo' = <<>>
  BY DEF NewRun, publicVars
<1>3. \A x \in recoveries : x.run \in Run
  BY <1>1 DEF TypeOK
<1>4. \A i \in DOMAIN context : context[i].run \in Run
  <2>1. context \in Seq(Message)
    BY <1>1 DEF TypeOK
  <2>2. \A i \in DOMAIN context : context[i] \in Message
    BY <2>1
  <2> QED
    BY <2>2 DEF Message
<1>5. p # None => ~ Recovered(p.source, p.call)
  <2> SUFFICES ASSUME p # None PROVE ~ Recovered(p.source, p.call)
    OBVIOUS
  <2>1. Candidates # {}
    BY DEF PlannedRecovery, NoRecovery
  <2>2. PICK k \in Candidates : k = CHOOSE l \in Candidates : TRUE
    BY <2>1
  <2>3. p.source = k[1] /\ p.call = k[2]
    BY <2>1, <2>2 DEF PlannedRecovery
  <2> QED
    BY <2>2, <2>3 DEF Candidates, Undecided, Interrupted
<1>6. \A x \in recoveries : x.run <= run + 1 /\ x.run # run + 1
  BY <1>1, <1>3 DEF Books, RecoveriesDiffer
<1>7. \A i \in DOMAIN context : context[i].run <= run + 1 /\ context[i].run # run + 1
  BY <1>1, <1>4 DEF Books, OneTask
<1>8. RecoveriesDiffer'
  BY <1>2, <1>5, <1>6 DEF Books, RecoveriesDiffer, RecoveryFactsClash, Recovered
<1>9. OneTask'
  BY <1>2, <1>7 DEF Books, OneTask, IsTaskOf
<1>10. ResultsStand'
  BY <1>2, <1>7 DEF Books, ResultsStand, PrivateResults, IsTool
<1>11. LaterRunsAreBlank'
  <2>1. run + 1 \in Run
    BY <1>1, LimitsAreNaturals DEF Run
  <2> QED
    BY <1>1, <1>2, <2>1 DEF Books, LaterRunsAreBlank, Terminal
<1> QED
  BY <1>8, <1>9, <1>10, <1>11 DEF Books

LEMMA RecoveriesKept ==
  ASSUME RecoveriesDiffer, UNCHANGED <<recoveries, run, recovery>>
  PROVE  RecoveriesDiffer'
BY DEF RecoveriesDiffer, RecoveryFactsClash, Recovered

LEMMA TasksKept ==
  ASSUME OneTask, UNCHANGED <<context, run, recovery>>, pc' \in {"start", "user"} => pc \in {"start", "user"}
  PROVE  OneTask'
BY DEF OneTask, IsTaskOf

LEMMA ResultsKept ==
  ASSUME ResultsStand, UNCHANGED <<context, tools, run, todo>>,
         pc' \in Waiting => pc \in Waiting, pc' = "tell" => pc = "tell"
  PROVE  ResultsStand'
BY DEF ResultsStand, PrivateResults, IsTool

LEMMA BlanksKept ==
  ASSUME LaterRunsAreBlank, UNCHANGED <<tools, status, run>>, Active' => Active
  PROVE  LaterRunsAreBlank'
BY DEF LaterRunsAreBlank

\* A step that changes neither log.
LEMMA BooksKept ==
  ASSUME Books, UNCHANGED <<context, recoveries, tools, status, run, recovery, todo>>,
         Active' => Active, pc' \in {"start", "user"} => pc \in {"start", "user"},
         pc' \in Waiting => pc \in Waiting, pc' = "tell" => pc = "tell"
  PROVE  Books'
BY RecoveriesKept, TasksKept, ResultsKept, BlanksKept DEF Books

\* A step of a call writes what the events say of the current call.
LEMMA ToolBooks ==
  ASSUME WellTyped, Dialogue, Books, ToolStep
  PROVE  Books'
<1>1. /\ pc \in CallSteps \ {"pick", "tell"} /\ pc' \in CallSteps \cup {"returned"}
      /\ pc' # "pick" /\ (pc' = "tell" => tools' = [tools EXCEPT ![run][Head(todo)] = "completed"])
      /\ \/ UNCHANGED tools
         \/ \E phase \in Phase : tools' = [tools EXCEPT ![run][Head(todo)] = phase]
      /\ UNCHANGED <<context, recoveries, status, run, recovery, todo>>
  BY DEF ToolStep, Propose, PrepareFails, StartTool, Succeed, FailTool, Refuse, Allow, RequestApproval, Emitted,
         ToolIs, Current, CallSteps, Phase, requestVars
<1>2. /\ Head(todo) \in Call /\ Head(todo) \in Range(todo) /\ run \in Run /\ run \in Nat
      /\ tools \in [Run -> [Call -> Phase]] /\ \A r \in Run : r \in Nat
  BY <1>1, CurrentFacts DEF WellTyped, TypeOK, Run
<1>3. \A r \in Run, c \in Call : ~ (r = run /\ c = Head(todo)) => tools'[r][c] = tools[r][c]
  BY <1>1, <1>2, EntryIs
<1>4. pc' = "tell" => tools'[run][Head(todo)] = "completed"
  BY <1>1, <1>2, EntryIs
<1>5. \A i \in PrivateResults : \A c : context[i].calls = <<c>> => ~ (context[i].run = run /\ c = Head(todo))
  BY <1>1, <1>2 DEF Books, ResultsStand, Waiting
<1>6. \A i \in DOMAIN context : context[i].run \in Run
  <2>1. context \in Seq(Message)
    BY DEF WellTyped, TypeOK
  <2>2. \A i \in DOMAIN context : context[i] \in Message
    BY <2>1
  <2> QED
    BY <2>2 DEF Message
<1>7. ResultsStand'
  <2>1. PrivateResults' = PrivateResults /\ PrivateResults \subseteq DOMAIN context
    BY <1>1 DEF PrivateResults, IsTool
  <2>2. ASSUME NEW i \in PrivateResults
        PROVE  \E c \in Call : context[i].calls = <<c>> /\ tools'[context[i].run][c] = "completed"
    <3>1. PICK c \in Call : context[i].calls = <<c>> /\ tools[context[i].run][c] = "completed"
      BY DEF Books, ResultsStand
    <3> QED
      BY <1>3, <1>5, <1>6, <2>1, <3>1
  <2>3. pc \in Waiting
    BY <1>1 DEF Waiting
  <2> QED
    BY <1>1, <1>4, <2>1, <2>2, <2>3 DEF Books, ResultsStand
<1>8. LaterRunsAreBlank'
  <2>1. \A r \in Run : r > run => \A c \in Call : tools'[r][c] = tools[r][c]
    BY <1>2, <1>3
  <2>2. Active
    BY <1>1 DEF Active, CallSteps
  <2> QED
    BY <1>1, <2>1, <2>2 DEF Books, LaterRunsAreBlank
<1> QED
  BY <1>1, <1>7, <1>8, RecoveriesKept, TasksKept DEF Books, CallSteps

LEMMA UserBooks == ASSUME WellTyped, Books, RecordUser PROVE Books'
<1>1. /\ TypeOK /\ recovery = None /\ pc = "user" /\ pc' = "ask"
      /\ UNCHANGED <<tools, recoveries, status, run, recovery, todo>>
  BY DEF RecordUser, WellTyped, Conversation, publicVars, requestVars
<1>2. PICK new : new = Len(context) + 1
  OBVIOUS
<1>3. /\ DOMAIN context' = DOMAIN context \cup {new} /\ new \notin DOMAIN context
      /\ \A i \in DOMAIN context : context'[i] = context[i]
      /\ context'[new].role = "user" /\ context'[new].run = run
  BY <1>1, <1>2, OneMessageMore DEF RecordUser
<1>4. run <= run
  BY <1>1 DEF TypeOK, Run
<1>5. OneTask'
  BY <1>1, <1>3, <1>4 DEF Books, OneTask, IsTaskOf
<1>6. ResultsStand'
  <2>1. PrivateResults' = PrivateResults
    BY <1>3 DEF PrivateResults, IsTool
  <2>2. \A i \in PrivateResults : context'[i] = context[i]
    BY <1>3 DEF PrivateResults
  <2> QED
    BY <1>1, <2>1, <2>2 DEF Books, ResultsStand, Waiting, CallSteps
<1> QED
  BY <1>1, <1>5, <1>6, RecoveriesKept, BlanksKept DEF Books, Active

LEMMA AnswerBooks == ASSUME WellTyped, Dialogue, Books, RecordAnswer PROVE Books'
<1>1. /\ TypeOK /\ recovery = None /\ pc = "answer" /\ pc' = "message"
      /\ UNCHANGED <<tools, recoveries, status, run, recovery, todo>>
  BY DEF RecordAnswer, WellTyped, Conversation, publicVars, requestVars
<1>2. PICK new : new = Len(context) + 1
  OBVIOUS
<1>3. /\ DOMAIN context' = DOMAIN context \cup {new} /\ new \notin DOMAIN context
      /\ \A i \in DOMAIN context : context'[i] = context[i]
      /\ context'[new].role = "assistant" /\ context'[new].run = run
  BY <1>1, <1>2, OneMessageMore DEF RecordAnswer
<1>4. run <= run
  BY <1>1 DEF TypeOK, Run
<1>5. OneTask'
  BY <1>1, <1>3, <1>4 DEF Books, OneTask, IsTaskOf
<1>6. ResultsStand'
  <2>1. PrivateResults' = PrivateResults
    BY <1>3 DEF PrivateResults, IsTool
  <2>2. \A i \in PrivateResults : context'[i] = context[i] /\ i \in DOMAIN context
    BY <1>3 DEF PrivateResults
  <2>3. ASSUME NEW i \in PrivateResults, NEW c \in Range(todo) PROVE context[i].calls # <<c>>
    <3>1. c \in Call /\ c \in Fresh
      BY <1>1 DEF Dialogue, Fresh
    <3>2. c \notin Range(context[i].calls)
      BY <2>2, <3>1, FreshCalls
    <3> QED
      BY <3>2, OneCall
  <2> QED
    BY <1>1, <2>1, <2>2, <2>3 DEF Books, ResultsStand
<1> QED
  BY <1>1, <1>5, <1>6, RecoveriesKept, BlanksKept DEF Books, Active

LEMMA TellBooks == ASSUME WellTyped, Dialogue, Books, Tell PROVE Books'
<1>1. /\ TypeOK /\ pc = "tell" /\ pc' \in {"resolve", "ask", "pick", "finish"}
      /\ pc' = "pick" => Range(todo') \subseteq Range(todo) \ {Head(todo)}
      /\ UNCHANGED <<tools, recoveries, status, run, recovery>>
      /\ Head(todo) \in Call /\ Head(todo) \in Range(todo)
      /\ Recorded("tool", <<Head(todo)>>)
  BY TellFacts, CurrentFacts DEF Tell, WellTyped, publicVars, CallSteps
<1>2. PICK new : new = Len(context) + 1
  OBVIOUS
<1>3. /\ DOMAIN context' = DOMAIN context \cup {new} /\ new \notin DOMAIN context
      /\ \A i \in DOMAIN context : context'[i] = context[i]
      /\ context'[new].role = "tool" /\ context'[new].run = run /\ context'[new].calls = <<Head(todo)>>
  BY <1>1, <1>2, OneMessageMore
<1>4. run <= run
  BY <1>1 DEF TypeOK, Run
<1>5. OneTask'
  BY <1>1, <1>3, <1>4 DEF Books, OneTask, IsTaskOf
<1>6. ResultsStand'
  <2>1. PrivateResults' = PrivateResults \cup {new} /\ new \notin PrivateResults
    BY <1>3 DEF PrivateResults, IsTool
  <2>2. \A i \in PrivateResults : context'[i] = context[i] /\ i # new
    BY <1>3 DEF PrivateResults
  <2>3. \A i \in PrivateResults, c \in Range(todo) : context[i].run = run => context[i].calls # <<c>>
    BY <1>1 DEF Books, ResultsStand, Waiting, CallSteps
  <2>4. tools[run][Head(todo)] = "completed"
    BY <1>1 DEF Books, ResultsStand
  <2>5. \A c, d : <<c>> = <<d>> => c = d
    BY OneCall
  <2>6. (\A i \in PrivateResults : \E c \in Call : context[i].calls = <<c>> /\ tools[context[i].run][c] = "completed")'
    BY <1>1, <1>3, <2>1, <2>2, <2>4 DEF Books, ResultsStand
  <2>7. (\A i, m \in PrivateResults :
           context[i].run = context[m].run /\ context[i].calls = context[m].calls => i = m)'
    BY <1>1, <1>3, <2>1, <2>2, <2>3 DEF Books, ResultsStand
  <2>8. pc' \in Waiting => pc' = "pick"
    BY <1>1 DEF Waiting, CallSteps
  <2>9. ASSUME pc' = "pick", NEW i \in PrivateResults', NEW c \in Range(todo'), context'[i].run = run
        PROVE  context'[i].calls # <<c>>
    <3>1. c \in Range(todo) /\ c # Head(todo)
      BY <1>1, <2>9
    <3>2. CASE i = new
      BY <1>3, <2>5, <3>1, <3>2
    <3>3. CASE i # new
      BY <2>1, <2>2, <2>3, <2>9, <3>1, <3>3
    <3> QED
      BY <3>2, <3>3
  <2> QED
    BY <1>1, <2>6, <2>7, <2>8, <2>9 DEF ResultsStand
<1> QED
  BY <1>1, <1>5, <1>6, RecoveriesKept, BlanksKept DEF Books, Active

LEMMA ResolveBooks == ASSUME WellTyped, Books, Resolve PROVE Books'
<1>1. /\ TypeOK /\ pc = "resolve" /\ recovery # None /\ recovery' = None /\ pc' \in {"user", "returned"}
      /\ recoveries' = recoveries \cup {[run |-> run, source |-> recovery.source, call |-> recovery.call]}
      /\ UNCHANGED <<context, tools, status, run>>
  BY DEF Resolve, Emitted, WellTyped, requestVars
<1>2. PICK new : new = [run |-> run, source |-> recovery.source, call |-> recovery.call]
  OBVIOUS
<1>3. new.run = run /\ new.source = recovery.source /\ new.call = recovery.call /\ recoveries' = recoveries \cup {new}
  BY <1>1, <1>2
<1>4. run <= run
  BY <1>1 DEF TypeOK, Run
<1>5. RecoveriesDiffer'
  BY <1>1, <1>3, <1>4 DEF Books, RecoveriesDiffer, RecoveryFactsClash, Recovered
<1>6. OneTask'
  BY <1>1 DEF Books, OneTask, IsTaskOf
<1>7. ResultsStand'
  BY <1>1 DEF Books, ResultsStand, PrivateResults, IsTool, Waiting, CallSteps
<1> QED
  BY <1>1, <1>5, <1>6, <1>7, BlanksKept DEF Books, Active

LEMMA StatusBooks == ASSUME WellTyped, Books, Start \/ Complete \/ Finish PROVE Books'
<1>1. /\ UNCHANGED <<context, tools, recoveries, run, recovery, todo>> /\ Active
      /\ \/ pc = "start" /\ status' = [status EXCEPT ![run] = "running"]
            /\ pc' \in {IF Recovering THEN "pick" ELSE "user", "returned"}
         \/ \E end \in Terminal : pc' = "returned" /\ status' = [status EXCEPT ![run] = end]
  BY DEF Start, Complete, Finish, Terminate, Emitted, WellTyped, TypeOK, Terminal, requestVars, Active
<1>2. run \in Run /\ run \in Nat /\ status \in [Run -> {"none", "running"} \cup Terminal] /\ \A r \in Run : r \in Nat
  BY DEF WellTyped, TypeOK, Run
<1>3. LaterRunsAreBlank'
  <2>1. \A r \in Run : r > run => status'[r] = status[r]
    BY <1>1, <1>2
  <2>2. Active' => status'[run] = "running"
    BY <1>1, <1>2 DEF Active
  <2> QED
    BY <1>1, <2>1, <2>2 DEF Books, LaterRunsAreBlank, Terminal
<1>4. ResultsStand'
  BY <1>1, ResultsKept DEF Books, Waiting, CallSteps
<1> QED
  BY <1>1, <1>3, <1>4, RecoveriesKept, TasksKept DEF Books

LEMMA AskBooks == ASSUME Books, AskModel PROVE Books'
<1>1. /\ UNCHANGED <<context, tools, recoveries, status, run, recovery>> /\ pc = "ask" /\ pc' \in {"answer", "returned"}
  BY DEF AskModel, Emitted, sessionVars, publicVars, requestVars
<1>2. ResultsStand'
  BY <1>1 DEF Books, ResultsStand, PrivateResults, IsTool, Waiting, CallSteps
<1> QED
  BY <1>1, <1>2, RecoveriesKept, TasksKept, BlanksKept DEF Books, Active

LEMMA StaysBooks == ASSUME Settled, Books, [SessionNext]_vars PROVE Books'
<1>1. WellTyped /\ Dialogue
  BY DEF Settled
<1> USE DEF sessionVars, publicVars, requestVars
<1>2. CASE SumsOverflow \/ ProviderFails \/ LeaveLoop \/ BudgetSpent \/ WriteFails \/ Cancel \/ Crash
           \/ UNCHANGED vars
  BY <1>2, BooksKept
  DEF SumsOverflow, ProviderFails, LeaveLoop, BudgetSpent, WriteFails, FatalSteps, RecordingSteps, Cancel, Crash, vars, FinishWith, Active,
      Waiting, CallSteps
<1>3. CASE Pick \/ CompleteMessage
  <2>1. /\ pc \in {"pick", "message"} /\ pc' \in {"propose", "finish", "complete", "pick", "returned"}
        /\ UNCHANGED <<context, recoveries, tools, status, run, recovery, todo>>
    BY <1>3 DEF Pick, FinishWith, CompleteMessage, Emitted
  <2> QED
    BY <1>1, <2>1, BooksKept DEF Active, Waiting, CallSteps
<1>4. CASE ApprovalStep \/ ExecuteStep
  <2>1. /\ pc \in CallSteps /\ pc' \in CallSteps \ {"tell"}
        /\ UNCHANGED <<context, recoveries, tools, status, run, recovery, todo>>
    BY <1>4 DEF ApprovalStep, ApprovalDecided, Unanswered, MayGiveUp, Emitted, CallSteps,
                ExecuteStep, ToolFails, Read, RecordIntent, TakeEffect, CommandEnds, VerifyPost
  <2> QED
    BY <2>1, BooksKept DEF Active, Waiting, CallSteps
<1>5. CASE Resume
  <2>1. ~ Active /\ UNCHANGED <<context, publicVars>>
    BY <1>5 DEF Resume
  <2>2. PICK j \in RecoveredJournals :
          IF run < MaxRuns /\ CanResume(j)
          THEN \E done \in BOOLEAN : NewRun(run + 1, PlannedRecovery(j), done)
          ELSE UNCHANGED <<requestVars, stateVars, recovery, todo, failed, pc, ctxDone, ending>>
    BY <1>5 DEF Resume
  <2>3. CASE run < MaxRuns /\ CanResume(j)
    <3>1. PICK done \in BOOLEAN : NewRun(run + 1, PlannedRecovery(j), done)
      BY <2>2, <2>3
    <3> QED
      BY <2>1, <2>3, <3>1, NewRunBooks
  <2>4. CASE ~ (run < MaxRuns /\ CanResume(j))
    <3>1. UNCHANGED <<context, recoveries, tools, status, run, recovery, todo, pc>>
      BY <2>1, <2>2, <2>4
    <3> QED
      BY <3>1, BooksKept DEF Active
  <2> QED
    BY <2>3, <2>4
<1> QED
  BY <1>1, <1>2, <1>3, <1>4, <1>5, ToolBooks, UserBooks, AnswerBooks, TellBooks, ResolveBooks, StatusBooks, AskBooks
  DEF SessionNext, Next, RunStep

-----------------------------------------------------------------------------
(***************************************************************************)
(* What the analysis of a resume compares, of a run that works or has ended *)
(* and whose writes have all succeeded.                                     *)
(***************************************************************************)

Whole == faults = 0 /\ (Active \/ status[run] \in Terminal)

\* The runs of the public answers, with the one whose fact comes next.
Expected == IF pc = "message" THEN Append(messages, run) ELSE messages

ResultsMatch ==
  \A k \in PublicResults :
    \/ \E i \in PrivateResults : context[i].run = k[1] /\ context[i].calls = <<k[2]>>
    \/ pc = "tell" /\ k = <<run, Head(todo)>>

TasksMatch ==
  \A r \in Run : r < run /\ status[r] # "none" =>
    (\E i \in DOMAIN context : IsTaskOf(i, r)) \/ RecoveredIn(r)

\* Where the current call may be one the events do not close yet.
OpenSteps == {"authorize", "asking", "granted", "executing", "intent", "ran", "succeeded", "failed"}

\* The calls of earlier runs are over, but for the one that is recovered.
CallsAreClosed ==
  \A r \in Run, c \in Call :
    /\ r < run /\ (tools[r][c] \in {"proposed", "running"} \/ approvals[r][c] = "pending") =>
         Recovered(r, c) \/ (recovery # None /\ r = recovery.source /\ c = recovery.call)
    /\ tools[run][c] \in {"proposed", "running"} => pc \in OpenSteps /\ c = Head(todo)

\* The result of a recovered call, before its recovery is on record.
IsUnresolved(i) ==
  /\ pc = "resolve" /\ i = Len(context) /\ context[i].run = run /\ context[i].calls = <<recovery.call>>
  /\ <<recovery.source, recovery.call>> \in Pending(i - 1)

MessagesInOrder ==
  \A i \in DOMAIN context : IF IsTool(i) THEN ResultFits(i) \/ IsUnresolved(i) ELSE Pending(i - 1) = {}

\* Where no call is open.
Idle == pc \in {"resolve", "user", "ask", "answer", "complete"} \/ (pc = "start" /\ recovery = None)

OpenCalls ==
  /\ recovery # None /\ pc # "resolve" =>
       \/ Pending(Len(context)) = {<<recovery.source, recovery.call>>}
       \/ Pending(Len(context)) = {} /\ Told(recovery.call)
  /\ Idle => Pending(Len(context)) = {}
  /\ recovery = None /\ pc \in {"message"} \cup CallSteps =>
       Pending(Len(context)) = {<<run, c>> : c \in Range(todo)}

Agreed ==
  /\ AnswersAre(Expected)
  /\ ResultsMatch /\ TasksMatch /\ CallsAreClosed
  /\ ResultsPairUp => MessagesInOrder /\ OpenCalls

Agreement == Whole => Agreed

LEMMA ContextFacts ==
  ASSUME TypeOK
  PROVE  /\ Len(context) \in Nat /\ DOMAIN context = 1..Len(context)
         /\ \A i \in DOMAIN context : context[i].run \in Run /\ context[i].calls \in Seq(Call)
<1>1. context \in Seq(Message)
  BY DEF TypeOK
<1>2. \A i \in DOMAIN context : context[i] \in Message
  BY <1>1
<1> QED
  BY <1>1, <1>2 DEF Message

\* The conversation a message is added to keeps what was pending in it.
LEMMA PendingKept ==
  ASSUME TypeOK, NEW n, n \in 0..Len(context), NEW role, NEW calls, UNCHANGED context \/ Recorded(role, calls)
  PROVE  Pending(n)' = Pending(n)
<1>1. \A i \in 1..n : i \in DOMAIN context /\ \A m \in i..n : m \in DOMAIN context
  BY ContextFacts
<1>2. \A i \in DOMAIN context : context'[i] = context[i]
  BY OneMessageMore
<1>3. \A i \in 1..n : \A m \in i..n : context'[i] = context[i] /\ context'[m] = context[m]
  BY <1>1, <1>2
<1>4. ASSUME NEW i \in 1..n, NEW c
      PROVE  /\ context'[i].run = context[i].run /\ (Asks(i, c)' <=> Asks(i, c))
             /\ \A m \in i..n : (IsResultOf(m, c)' <=> IsResultOf(m, c))
  <2>1. i \in i..n
    BY <1>1
  <2> QED
    BY <1>3, <2>1 DEF Asks, IsAssistant, IsResultOf, IsTool
<1>5. ASSUME NEW k \in Run \X Call PROVE k \in Pending(n)' <=> k \in Pending(n)
  BY <1>4 DEF Pending
<1>6. Pending(n)' \subseteq Run \X Call /\ Pending(n) \subseteq Run \X Call
  BY DEF Pending
<1> QED
  BY <1>5, <1>6

\* What is pending after one more message.
LEMMA PendingNext ==
  ASSUME TypeOK, NEW new, new = Len(context) + 1, NEW role, NEW calls, Recorded(role, calls)
  PROVE  Pending(new)' = {k \in Pending(Len(context)) : ~ (role = "tool" /\ calls = <<k[2]>>)}
                           \cup {k \in Run \X Call : role = "assistant" /\ k[1] = run /\ k[2] \in Range(calls)}
<1>1. PICK old : old = Len(context)
  OBVIOUS
<1>2. /\ old \in Nat /\ new = old + 1 /\ DOMAIN context = 1..old /\ new \notin DOMAIN context
      /\ \A i \in DOMAIN context : context'[i] = context[i]
      /\ context'[new].role = role /\ context'[new].run = run /\ context'[new].calls = calls
  BY <1>1, OneMessageMore, ContextFacts
<1>3. ASSUME NEW r \in Run, NEW c \in Call
      PROVE  (\E i \in 1..old : /\ context[i].run = r /\ Asks(i, c)
                                /\ \A m \in i..old : ~ IsResultOf(m, c)) /\ ~ (role = "tool" /\ calls = <<c>>)
             <=> (\E i \in 1..old : /\ context'[i].run = r /\ Asks(i, c)'
                                    /\ \A m \in i..new : ~ IsResultOf(m, c)')
  <2>1. \A i \in 1..old : context'[i] = context[i] /\ (\A m \in i..old : context'[m] = context[m] /\ m \in i..new)
    BY <1>2
  <2>2. \A i \in 1..old : new \in i..new /\ \A m \in i..new : m \in i..old \/ m = new
    BY <1>2
  <2>3. \A i \in 1..old : (Asks(i, c)' <=> Asks(i, c)) /\ \A m \in i..old : (IsResultOf(m, c)' <=> IsResultOf(m, c))
    BY <2>1 DEF Asks, IsAssistant, IsResultOf, IsTool
  <2>4. IsResultOf(new, c)' <=> (role = "tool" /\ calls = <<c>>)
    BY <1>2 DEF IsResultOf, IsTool
  <2> QED
    BY <2>1, <2>2, <2>3, <2>4
<1>4. ASSUME NEW r \in Run, NEW c \in Call
      PROVE  (context'[new].run = r /\ Asks(new, c)' /\ \A m \in new..new : ~ IsResultOf(m, c)')
               <=> role = "assistant" /\ r = run /\ c \in Range(calls)
  <2>1. new..new = {new}
    BY <1>2
  <2> QED
    BY <1>2, <2>1 DEF Asks, IsAssistant, IsResultOf, IsTool
<1>5. \A i : i \in 1..new <=> i \in 1..old \/ i = new
  BY <1>2
<1>6. ASSUME NEW k \in Run \X Call
      PROVE  k \in Pending(new)' <=>
               (k \in Pending(old) /\ ~ (role = "tool" /\ calls = <<k[2]>>))
                 \/ (role = "assistant" /\ k[1] = run /\ k[2] \in Range(calls))
  <2>1. k[1] \in Run /\ k[2] \in Call
    OBVIOUS
  <2>2. k \in Pending(new)' <=> \E i \in 1..new : /\ context'[i].run = k[1] /\ Asks(i, k[2])'
                                                  /\ \A m \in i..new : ~ IsResultOf(m, k[2])'
    BY DEF Pending
  <2>3. k \in Pending(old) <=> \E i \in 1..old : /\ context[i].run = k[1] /\ Asks(i, k[2])
                                                 /\ \A m \in i..old : ~ IsResultOf(m, k[2])
    BY DEF Pending
  <2> QED
    BY <1>3, <1>4, <1>5, <2>1, <2>2, <2>3
<1>7. Pending(new)' \subseteq Run \X Call /\ Pending(old) \subseteq Run \X Call
  BY DEF Pending
<1> QED
  BY <1>1, <1>6, <1>7

\* A call that was asked for and is not pending has a result.
LEMMA AskedAndSettled ==
  ASSUME TypeOK, NEW k \in Run \X Call, AskedIn(k), k \notin Pending(Len(context))
  PROVE  Told(k[2])
<1>1. PICK i \in DOMAIN context : context[i].run = k[1] /\ Asks(i, k[2])
  BY DEF AskedIn
<1>2. PICK m \in i..Len(context) : IsResultOf(m, k[2])
  BY <1>1, ContextFacts DEF Pending
<1>3. m \in DOMAIN context
  BY <1>1, <1>2, ContextFacts
<1> QED
  BY <1>2, <1>3 DEF Told

-----------------------------------------------------------------------------
\* The answers of the model.

LEMMA FiniteConversation == ASSUME TypeOK PROVE IsFiniteSet(DOMAIN context) /\ IsFiniteSet(Assistants)
<1>1. IsFiniteSet(DOMAIN context)
  BY ContextFacts, FS_Interval
<1> QED
  BY <1>1, FS_Subset DEF Assistants

LEMMA AnswersKept ==
  ASSUME TypeOK, NEW role, role # "assistant", NEW calls, UNCHANGED context \/ Recorded(role, calls),
         NEW runs, AnswersAre(runs)
  PROVE  AnswersAre(runs)'
<1>1. Assistants' = Assistants /\ \A i \in Assistants : context'[i] = context[i]
  BY OneMessageMore DEF Assistants, IsAssistant
<1> QED
  BY <1>1 DEF AnswersAre

LEMMA AnswerAdded ==
  ASSUME TypeOK, NEW calls, Recorded("assistant", calls), NEW runs \in Seq(Run), AnswersAre(runs),
         NEW more, more = Append(runs, run)
  PROVE  AnswersAre(more)'
<1>1. PICK new : new = Len(context) + 1
  OBVIOUS
<1>2. /\ DOMAIN context' = DOMAIN context \cup {new} /\ new \notin DOMAIN context
      /\ \A i \in DOMAIN context : context'[i] = context[i]
      /\ context'[new].role = "assistant" /\ context'[new].run = run
  BY <1>1, OneMessageMore
<1>3. new \in Nat /\ \A i \in DOMAIN context : i \in Nat /\ i < new
  BY <1>1, ContextFacts
<1>4. /\ Assistants' = Assistants \cup {new} /\ new \notin Assistants
      /\ \A i \in Assistants : i \in DOMAIN context
  BY <1>2 DEF Assistants, IsAssistant
<1>5. /\ IsFiniteSet(Assistants) /\ Cardinality(Assistants) = Len(runs) /\ Len(runs) \in Nat
      /\ Cardinality(Assistants') = Len(runs) + 1
  <2>1. IsFiniteSet(Assistants) /\ Cardinality(Assistants) = Len(runs) /\ Len(runs) \in Nat
    BY FiniteConversation DEF AnswersAre
  <2>2. Cardinality(Assistants \cup {new}) = Cardinality(Assistants) + 1
    BY <1>4, <2>1, FS_AddElement
  <2> QED
    BY <1>4, <2>1, <2>2
<1>6. /\ Len(more) = Len(runs) + 1 /\ more[Len(runs) + 1] = run
      /\ \A n \in 1..Len(runs) : more[n] = runs[n]
  <2>1. run \in Run
    BY DEF TypeOK
  <2> QED
    BY <2>1
<1>7. ASSUME NEW i \in Assistants
      PROVE  more[Cardinality({m \in Assistants' : m <= i})] = context'[i].run
  <2>1. {m \in Assistants' : m <= i} = {m \in Assistants : m <= i}
    BY <1>2, <1>4, <1>3
  <2>2. Cardinality({m \in Assistants : m <= i}) \in 1..Len(runs)
    <3>1. i \in {m \in Assistants : m <= i}
      BY <1>2, <1>4, <1>3
    <3>2. IsFiniteSet({m \in Assistants : m <= i}) /\ Cardinality({m \in Assistants : m <= i}) <= Len(runs)
      BY <1>5, FS_Subset
    <3> QED
      BY <1>5, <3>1, <3>2, FS_EmptySet, FS_CardinalityType
  <2> QED
    BY <1>2, <1>4, <1>6, <2>1, <2>2 DEF AnswersAre
<1>8. more[Cardinality({m \in Assistants' : m <= new})] = context'[new].run
  <2>1. {m \in Assistants' : m <= new} = Assistants'
    BY <1>4, <1>3
  <2> QED
    BY <1>2, <1>5, <1>6, <2>1
<1> QED
  BY <1>4, <1>5, <1>6, <1>7, <1>8 DEF AnswersAre

-----------------------------------------------------------------------------
\* Steps of a run whose writes succeed.

LEMMA EmittedWhole ==
  ASSUME TypeOK, NEW next, NEW error, Emitted(next, error), faults' = 0
  PROVE  pc' = next
BY LimitsAreNaturals DEF TypeOK, Emitted

\* The conversation stays, and where the run is says as much of it as before.
LEMMA OpenCallsKept ==
  ASSUME OpenCalls, MessagesInOrder, UNCHANGED <<context, recoveries, run, recovery>>,
         pc = "resolve" <=> pc' = "resolve", Idle' => Idle,
         recovery = None /\ pc' \in {"message"} \cup CallSteps => pc \in {"message"} \cup CallSteps /\ todo' = todo
  PROVE  OpenCalls' /\ MessagesInOrder'
<1>1. \A n : Pending(n)' = Pending(n)
  BY DEF Pending, Asks, IsAssistant, IsResultOf, IsTool
<1>2. \A c : Told(c)' <=> Told(c)
  BY DEF Told, IsResultOf, IsTool
<1>3. Len(context') = Len(context)
  OBVIOUS
<1>4. OpenCalls'
  <2>1. (recovery # None /\ pc # "resolve" =>
           \/ Pending(Len(context)) = {<<recovery.source, recovery.call>>}
           \/ Pending(Len(context)) = {} /\ Told(recovery.call))'
    BY <1>1, <1>2 DEF OpenCalls
  <2>2. (Idle => Pending(Len(context)) = {})'
    BY <1>1 DEF OpenCalls
  <2>3. (recovery = None /\ pc \in {"message"} \cup CallSteps =>
           Pending(Len(context)) = {<<run, c>> : c \in Range(todo)})'
    BY <1>1 DEF OpenCalls
  <2> QED
    BY <2>1, <2>2, <2>3 DEF OpenCalls
<1>5. MessagesInOrder'
  <2> SUFFICES ASSUME NEW i \in DOMAIN context
               PROVE  (IF IsTool(i) THEN ResultFits(i) \/ IsUnresolved(i) ELSE Pending(i - 1) = {})'
    BY DEF MessagesInOrder
  <2>1. /\ IsTool(i)' <=> IsTool(i)
        /\ ResultFits(i) => ResultFits(i)'
        /\ IsUnresolved(i) => IsUnresolved(i)'
        /\ Pending(i - 1)' = Pending(i - 1)
    BY <1>1 DEF IsTool, ResultFits, IsUnresolved
  <2>2. IF IsTool(i) THEN ResultFits(i) \/ IsUnresolved(i) ELSE Pending(i - 1) = {}
    BY DEF MessagesInOrder
  <2> QED
    BY <2>1, <2>2
<1> QED
  BY <1>4, <1>5

LEMMA PairsKept == ASSUME UNCHANGED context PROVE ResultsPairUp' <=> ResultsPairUp
BY DEF ResultsPairUp, PrivateResults, IsTool

LEMMA ExpectedKept ==
  ASSUME TypeOK, AnswersAre(Expected), UNCHANGED <<context, messages, run>>, pc' = "message" <=> pc = "message"
  PROVE  AnswersAre(Expected)'
<1>1. Expected' = Expected
  BY DEF Expected
<1>2. \A runs : AnswersAre(runs) => AnswersAre(runs)'
  BY DEF AnswersAre, Assistants, IsAssistant
<1> QED
  BY <1>1, <1>2 DEF AnswersAre

LEMMA TaskKept ==
  ASSUME TypeOK, TasksMatch, NEW role, NEW calls, UNCHANGED context \/ Recorded(role, calls), UNCHANGED run,
         recoveries \subseteq recoveries', \A r \in Run : r < run => status'[r] = status[r]
  PROVE  TasksMatch'
<1>1. DOMAIN context \subseteq DOMAIN context' /\ \A i \in DOMAIN context : context'[i] = context[i]
  BY OneMessageMore
<1>2. \A i \in DOMAIN context, r \in Run : IsTaskOf(i, r) => IsTaskOf(i, r)' /\ i \in DOMAIN context'
  BY <1>1 DEF IsTaskOf
<1>3. \A r \in Run : RecoveredIn(r) => RecoveredIn(r)'
  BY DEF RecoveredIn
<1> QED
  BY <1>2, <1>3 DEF TasksMatch

LEMMA ResultsMatchKept ==
  ASSUME TypeOK, ResultsMatch, NEW role, NEW calls, UNCHANGED context \/ Recorded(role, calls),
         UNCHANGED <<tools, run>>, pc = "tell" => pc' = "tell" /\ todo' = todo
  PROVE  ResultsMatch'
<1>1. DOMAIN context \subseteq DOMAIN context' /\ \A i \in DOMAIN context : context'[i] = context[i]
  BY OneMessageMore
<1>2. PublicResults' = PublicResults
  BY DEF PublicResults
<1>3. \A i \in PrivateResults : i \in PrivateResults' /\ context'[i] = context[i]
  BY <1>1 DEF PrivateResults, IsTool
<1> QED
  BY <1>2, <1>3 DEF ResultsMatch

LEMMA ClosedKept ==
  ASSUME TypeOK, CallsAreClosed, UNCHANGED <<tools, recovery, run>>, recoveries \subseteq recoveries',
         \A r \in Run : r < run => approvals'[r] = approvals[r],
         pc \in OpenSteps => pc' \in OpenSteps /\ todo' = todo
  PROVE  CallsAreClosed'
<1>1. \A r, c : Recovered(r, c) => Recovered(r, c)'
  BY DEF Recovered
<1> QED
  BY <1>1 DEF CallsAreClosed

\* A step that changes neither log of what it compares.
LEMMA AgreedKept ==
  ASSUME TypeOK, Agreed, UNCHANGED <<context, messages, tools, recoveries, run, recovery>>,
         \A r \in Run : r < run => approvals'[r] = approvals[r] /\ status'[r] = status[r],
         pc' = "message" <=> pc = "message", pc = "resolve" <=> pc' = "resolve", Idle' => Idle,
         pc = "tell" => pc' = "tell" /\ todo' = todo,
         pc \in OpenSteps => pc' \in OpenSteps /\ todo' = todo,
         recovery = None /\ pc' \in {"message"} \cup CallSteps => pc \in {"message"} \cup CallSteps /\ todo' = todo
  PROVE  Agreed'
<1>1. AnswersAre(Expected)'
  BY ExpectedKept DEF Agreed
<1>2. ResultsMatch'
  BY ResultsMatchKept DEF Agreed
<1>3. TasksMatch'
  BY TaskKept DEF Agreed
<1>4. CallsAreClosed'
  BY ClosedKept DEF Agreed
<1>5. ResultsPairUp' => MessagesInOrder' /\ OpenCalls'
  BY PairsKept, OpenCallsKept DEF Agreed
<1> QED
  BY <1>1, <1>2, <1>3, <1>4, <1>5 DEF Agreed

LEMMA EarlierRunsDiffer ==
  ASSUME TypeOK
  PROVE  /\ \A r \in Run : r < run => r # run
         /\ faults \in Nat
BY LimitsAreNaturals DEF TypeOK, Run

\* Before the model is asked, and while it is.
LEMMA ConversationAgrees ==
  ASSUME WellTyped, Agreed, faults' = 0,
         Start \/ AskModel \/ ProviderFails \/ LeaveLoop \/ Pick \/ BudgetSpent \/ Complete \/ Finish
  PROVE  Agreed'
<1>1. /\ TypeOK /\ UNCHANGED <<context, messages, tools, approvals, recoveries, run, recovery>>
      /\ \/ pc = "start" /\ pc' = (IF Recovering THEN "pick" ELSE "user")
         \/ pc = "ask" /\ pc' \in {"answer", "finish"} /\ recovery = None
         \/ pc = "pick" /\ pc' \in {"propose", "finish"} /\ UNCHANGED todo
         \/ pc \in {"complete", "finish"} /\ pc' = "returned"
      /\ UNCHANGED status \/ \E end : status' = [status EXCEPT ![run] = end]
  <2> USE DEF sessionVars, publicVars, requestVars
  <2>1. TypeOK
    BY DEF WellTyped
  <2>2. CASE Start
    BY <2>1, <2>2, EmittedWhole DEF Start
  <2>3. CASE AskModel \/ ProviderFails \/ LeaveLoop
    BY <2>1, <2>3, EmittedWhole DEF AskModel, ProviderFails, LeaveLoop, FinishWith, WellTyped, Conversation
  <2>4. CASE Pick \/ BudgetSpent
    BY <2>1, <2>4 DEF Pick, BudgetSpent, FinishWith
  <2>5. ASSUME NEW end, Terminate(end)
        PROVE  /\ UNCHANGED <<context, messages, tools, approvals, recoveries, run, recovery>> /\ pc' = "returned"
               /\ status' = [status EXCEPT ![run] = end]
    BY <2>1, <2>5, EmittedWhole DEF Terminate
  <2> QED
    BY <2>1, <2>2, <2>3, <2>4, <2>5 DEF Complete, Finish
<1>2. \A r \in Run : r < run => status'[r] = status[r]
  BY <1>1, EarlierRunsDiffer DEF TypeOK
<1>3. recovery = None /\ pc' \in {"message"} \cup CallSteps => pc \in {"message"} \cup CallSteps /\ todo' = todo
  BY <1>1 DEF Recovering, CallSteps
<1>4. Idle' => Idle
  BY <1>1 DEF Recovering, Idle
<1>5. pc # "tell" /\ pc \notin OpenSteps
  BY <1>1 DEF OpenSteps
<1> QED
  BY <1>1, <1>2, <1>3, <1>4, <1>5, AgreedKept

\* A run that cannot write because it is cancelled.
LEMMA CancelledAgrees ==
  ASSUME WellTyped, Books, Agreed, faults' = 0, Active' \/ status'[run'] \in Terminal, Cancel \/ WriteFails
  PROVE  Agreed'
<1>1. TypeOK /\ UNCHANGED <<context, messages, tools, approvals, recoveries, status, run, recovery, todo>> /\ Active
  BY DEF Cancel, WriteFails, FatalSteps, RecordingSteps, Active, sessionVars, publicVars, requestVars, WellTyped
<1>2. status[run] \notin Terminal
  BY <1>1 DEF Books, LaterRunsAreBlank
<1>3. \/ pc' = pc
      \/ pc \in {"user", "answer"} /\ pc' = "finish"
  BY <1>1, <1>2, EarlierRunsDiffer
  DEF Cancel, WriteFails, FatalSteps, RecordingSteps, ShieldedSteps, FinishWith, Active
<1>4. Idle' => Idle
  BY <1>1, <1>3 DEF Idle
<1> QED
  BY <1>1, <1>3, <1>4, AgreedKept DEF OpenSteps, CallSteps

\* A call that is decided or executed.
LEMMA CallAgrees ==
  ASSUME WellTyped, Agreed, faults' = 0,
         ApprovalStep \/ ExecuteStep \/ (ToolStep /\ (Refuse \/ Allow \/ RequestApproval))
  PROVE  Agreed'
<1>1. /\ TypeOK /\ UNCHANGED <<context, messages, tools, recoveries, status, run, recovery, todo>>
      /\ pc \in OpenSteps /\ pc' \in OpenSteps
      /\ UNCHANGED approvals \/ \E state : approvals' = [approvals EXCEPT ![run][Current] = state]
  <2> USE DEF sessionVars, publicVars, requestVars, OpenSteps
  <2>1. TypeOK
    BY DEF WellTyped
  <2>2. CASE ApprovalStep
    BY <2>1, <2>2, EmittedWhole DEF ApprovalStep, ApprovalDecided, Unanswered, MayGiveUp, ApprovalIs
  <2>3. CASE ExecuteStep
    BY <2>1, <2>3 DEF ExecuteStep, ToolFails, Read, RecordIntent, TakeEffect, CommandEnds, VerifyPost
  <2>4. CASE ToolStep /\ (Refuse \/ Allow \/ RequestApproval)
    BY <2>1, <2>4, EmittedWhole DEF ToolStep, Refuse, Allow, RequestApproval, ApprovalIs
  <2> QED
    BY <2>2, <2>3, <2>4
<1>2. \A r \in Run : r < run => approvals'[r] = approvals[r]
  BY <1>1, EarlierRunsDiffer DEF TypeOK
<1>3. pc \in CallSteps /\ pc \notin {"message", "resolve", "tell"} /\ pc' \notin {"message", "resolve"}
  BY <1>1 DEF OpenSteps, CallSteps
<1>4. ~ Idle'
  BY <1>1 DEF OpenSteps, Idle
<1> QED
  BY <1>1, <1>2, <1>3, <1>4, AgreedKept

\* A call changes the phase of its tool.
LEMMA ToolAgrees ==
  ASSUME WellTyped, Dialogue, Agreed, faults' = 0, ToolStep,
         Propose \/ PrepareFails \/ StartTool \/ Succeed \/ FailTool
  PROVE  Agreed'
<1>1. /\ TypeOK /\ UNCHANGED <<context, messages, approvals, recoveries, status, run, recovery, todo>>
      /\ pc \in {"propose", "granted", "succeeded", "failed"}
      /\ \/ pc' \in OpenSteps /\ \E phase \in {"proposed", "running"} : tools' = [tools EXCEPT ![run][Head(todo)] = phase]
         \/ pc' = "tell" /\ tools' = [tools EXCEPT ![run][Head(todo)] = "completed"]
  BY EmittedWhole DEF ToolStep, Propose, PrepareFails, StartTool, Succeed, FailTool, ToolIs, Current, OpenSteps,
                      requestVars, WellTyped
<1>2. pc \in CallSteps /\ pc' \in CallSteps /\ pc \notin {"message", "resolve", "tell"} /\ pc' \notin {"message", "resolve"}
  BY <1>1 DEF CallSteps, OpenSteps
<1>3. /\ Head(todo) \in Call /\ run \in Run /\ tools \in [Run -> [Call -> Phase]]
      /\ \A r \in Run : r < run => r # run
  BY <1>1, <1>2, CurrentFacts, EarlierRunsDiffer DEF TypeOK
<1>4. \A r \in Run, c \in Call : ~ (r = run /\ c = Head(todo)) => tools'[r][c] = tools[r][c]
  BY <1>1, <1>3, EntryIs
<1>5. \/ pc' \in OpenSteps /\ tools'[run][Head(todo)] \in {"proposed", "running"}
      \/ pc' = "tell" /\ tools'[run][Head(todo)] = "completed"
  BY <1>1, <1>3, EntryIs
<1>6. AnswersAre(Expected)'
  BY <1>1, <1>2, ExpectedKept DEF Agreed
<1>7. ResultsMatch'
  <2>1. \A k \in PublicResults' : k \in PublicResults \/ (pc' = "tell" /\ k = <<run, Head(todo)>>)
    <3> SUFFICES ASSUME NEW r \in Run, NEW c \in Call, tools'[r][c] = "completed"
                 PROVE  tools[r][c] = "completed" \/ (pc' = "tell" /\ <<r, c>> = <<run, Head(todo)>>)
      BY DEF PublicResults
    <3> QED
      BY <1>4, <1>5
  <2>2. \A i \in PrivateResults : i \in PrivateResults'
    BY <1>1 DEF PrivateResults, IsTool
  <2> QED
    BY <1>1, <1>2, <2>1, <2>2 DEF Agreed, ResultsMatch
<1>8. TasksMatch'
  BY <1>1, TaskKept DEF Agreed
<1>9. CallsAreClosed'
  <2>1. ASSUME NEW r \in Run, NEW c \in Call, r < run, tools'[r][c] \in {"proposed", "running"} \/ approvals'[r][c] = "pending"
        PROVE  Recovered(r, c)' \/ (recovery # None /\ r = recovery.source /\ c = recovery.call)
    <3>1. Recovered(r, c)' <=> Recovered(r, c)
      BY <1>1 DEF Recovered
    <3> QED
      BY <1>1, <1>3, <1>4, <2>1, <3>1 DEF Agreed, CallsAreClosed
  <2>2. ASSUME NEW c \in Call, tools'[run][c] \in {"proposed", "running"}
        PROVE  pc' \in OpenSteps /\ c = Head(todo)
    <3>1. CASE c = Head(todo)
      BY <1>5, <2>2, <3>1
    <3>2. CASE c # Head(todo)
      BY <1>3, <1>4, <2>2, <3>2 DEF Agreed, CallsAreClosed
    <3> QED
      BY <3>1, <3>2
  <2> QED
    BY <1>1, <2>1, <2>2 DEF CallsAreClosed
<1>10. ResultsPairUp' => MessagesInOrder' /\ OpenCalls'
  <2>1. ~ Idle'
    BY <1>1 DEF Idle, OpenSteps
  <2> QED
    BY <1>1, <1>2, <2>1, PairsKept, OpenCallsKept DEF Agreed
<1> QED
  BY <1>6, <1>7, <1>8, <1>9, <1>10 DEF Agreed

\* Two results that answer the same call were two before the message that was added.
LEMMA PairsWere ==
  ASSUME TypeOK, NEW role, NEW calls, Recorded(role, calls), ResultsPairUp'
  PROVE  ResultsPairUp
<1>1. /\ DOMAIN context \subseteq DOMAIN context'
      /\ \A i \in DOMAIN context : context'[i] = context[i]
  BY OneMessageMore
<1> QED
  BY <1>1 DEF ResultsPairUp, PrivateResults, IsTool

\* A message keeps the order of those before it.
LEMMA OrderKept ==
  ASSUME TypeOK, MessagesInOrder, pc # "resolve", NEW role, NEW calls, Recorded(role, calls), UNCHANGED recoveries,
         NEW i, i \in DOMAIN context
  PROVE  IF IsTool(i)' THEN ResultFits(i)' ELSE Pending(i - 1)' = {}
<1>1. context'[i] = context[i] /\ Pending(i - 1)' = Pending(i - 1)
  <2>1. i - 1 \in 0..Len(context)
    BY ContextFacts
  <2> QED
    BY <2>1, PendingKept, OneMessageMore
<1>2. IF IsTool(i) THEN ResultFits(i) ELSE Pending(i - 1) = {}
  BY DEF MessagesInOrder, IsUnresolved
<1> QED
  BY <1>1, <1>2 DEF IsTool, ResultFits

\* A message that is no result, added where no call is open.
LEMMA MessageAddedAtRest ==
  ASSUME TypeOK, MessagesInOrder, OpenCalls, Idle, pc # "resolve", NEW role, role # "tool", NEW calls,
         Recorded(role, calls), UNCHANGED recoveries
  PROVE  MessagesInOrder'
<1>1. PICK new : new = Len(context) + 1
  OBVIOUS
<1>2. /\ DOMAIN context' = DOMAIN context \cup {new} /\ new \notin DOMAIN context
      /\ context'[new].role = role
  BY <1>1, OneMessageMore
<1>3. Pending(new - 1)' = {}
  <2>1. Len(context) \in 0..Len(context) /\ new - 1 = Len(context)
    BY <1>1, ContextFacts
  <2>2. \A n : n = Len(context) => Pending(n)' = Pending(n)
    BY <2>1, PendingKept
  <2>3. PICK n : n = Len(context)
    OBVIOUS
  <2>4. Pending(n)' = {} /\ new - 1 = n
    BY <2>1, <2>2, <2>3 DEF OpenCalls
  <2> QED
    BY <2>4
<1>4. ~ IsTool(new)'
  BY <1>2 DEF IsTool
<1>5. ASSUME NEW i \in DOMAIN context' PROVE (IF IsTool(i) THEN ResultFits(i) ELSE Pending(i - 1) = {})'
  <2>1. CASE i = new
    BY <1>3, <1>4, <2>1
  <2>2. CASE i \in DOMAIN context
    BY <2>2, OrderKept
  <2> QED
    BY <1>2, <2>1, <2>2
<1> QED
  BY <1>5 DEF MessagesInOrder

LEMMA UserAgrees == ASSUME WellTyped, Agreed, RecordUser PROVE Agreed'
<1>1. /\ TypeOK /\ recovery = None /\ pc = "user" /\ pc' = "ask" /\ Recorded("user", <<>>)
      /\ UNCHANGED <<messages, tools, approvals, recoveries, status, run, recovery, todo>>
  BY DEF RecordUser, WellTyped, Conversation, publicVars, requestVars
<1>2. AnswersAre(Expected)'
  <2>1. Expected' = messages /\ AnswersAre(messages)
    BY <1>1 DEF Agreed, Expected
  <2>2. \A l : l = messages => AnswersAre(l)'
    BY <1>1, <2>1, AnswersKept
  <2> QED
    BY <1>1, <2>1, <2>2 DEF AnswersAre
<1>3. ResultsMatch' /\ TasksMatch'
  BY <1>1, ResultsMatchKept, TaskKept DEF Agreed
<1>4. CallsAreClosed'
  BY <1>1, ClosedKept DEF Agreed, OpenSteps
<1>5. ASSUME ResultsPairUp' PROVE MessagesInOrder' /\ OpenCalls'
  <2>1. MessagesInOrder /\ OpenCalls
    BY <1>1, <1>5, PairsWere DEF Agreed
  <2>2. Idle
    BY <1>1 DEF Idle
  <2>3. MessagesInOrder'
    BY <1>1, <2>1, <2>2, MessageAddedAtRest
  <2>4. PICK new : new = Len(context) + 1
    OBVIOUS
  <2>5. Pending(new)' = {} /\ Len(context') = new
    <3>1. Len(context') = new
      BY <1>1, <2>4 DEF TypeOK, Recorded
    <3>2. Pending(Len(context)) = {}
      BY <2>1, <2>2 DEF OpenCalls
    <3> QED
      BY <1>1, <2>4, <3>1, <3>2, PendingNext
  <2>6. (Pending(Len(context)) = {})'
    BY <2>5
  <2>7. OpenCalls'
    BY <1>1, <2>6 DEF OpenCalls, CallSteps
  <2> QED
    BY <2>3, <2>7
<1> QED
  BY <1>2, <1>3, <1>4, <1>5 DEF Agreed

LEMMA AnswerAgrees == ASSUME WellTyped, Dialogue, Agreed, RecordAnswer PROVE Agreed'
<1>1. /\ TypeOK /\ recovery = None /\ pc = "answer" /\ pc' = "message" /\ Recorded("assistant", todo)
      /\ UNCHANGED <<messages, tools, approvals, recoveries, status, run, recovery, todo>>
      /\ run \in Run /\ messages \in Seq(Run) /\ Range(todo) \subseteq Call
  BY DEF RecordAnswer, WellTyped, TypeOK, Conversation, publicVars, requestVars, Dialogue, Fresh
<1>2. AnswersAre(Expected)'
  <2>1. Expected' = Append(messages, run) /\ AnswersAre(messages)
    BY <1>1 DEF Agreed, Expected
  <2>2. \A l : l = Append(messages, run) => AnswersAre(l)'
    BY <1>1, <2>1, AnswerAdded
  <2> QED
    BY <1>1, <2>1, <2>2 DEF AnswersAre
<1>3. ResultsMatch' /\ TasksMatch'
  BY <1>1, ResultsMatchKept, TaskKept DEF Agreed
<1>4. CallsAreClosed'
  BY <1>1, ClosedKept DEF Agreed, OpenSteps
<1>5. ASSUME ResultsPairUp' PROVE MessagesInOrder' /\ OpenCalls'
  <2>1. MessagesInOrder /\ OpenCalls
    BY <1>1, <1>5, PairsWere DEF Agreed
  <2>2. Idle
    BY <1>1 DEF Idle
  <2>3. MessagesInOrder'
    BY <1>1, <2>1, <2>2, MessageAddedAtRest
  <2>4. PICK new : new = Len(context) + 1
    OBVIOUS
  <2>5. Pending(new)' = {<<run, c>> : c \in Range(todo)} /\ Len(context') = new
    <3>1. Len(context') = new
      BY <1>1, <2>4 DEF TypeOK, Recorded
    <3>2. Pending(Len(context)) = {}
      BY <2>1, <2>2 DEF OpenCalls
    <3>3. Pending(new)' = {k \in Run \X Call : k[1] = run /\ k[2] \in Range(todo)}
      BY <1>1, <2>4, <3>2, PendingNext
    <3>4. {k \in Run \X Call : k[1] = run /\ k[2] \in Range(todo)} = {<<run, c>> : c \in Range(todo)}
      BY <1>1
    <3> QED
      BY <3>1, <3>3, <3>4
  <2>6. (Pending(Len(context)) = {<<run, c>> : c \in Range(todo)})'
    BY <1>1, <2>5
  <2>7. OpenCalls'
    BY <1>1, <2>6 DEF OpenCalls, Idle
  <2> QED
    BY <2>3, <2>7
<1> QED
  BY <1>2, <1>3, <1>4, <1>5 DEF Agreed

LEMMA MessageAgrees == ASSUME WellTyped, Agreed, faults' = 0, CompleteMessage PROVE Agreed'
<1>1. /\ TypeOK /\ recovery = None /\ pc = "message" /\ pc' = (IF todo = <<>> THEN "complete" ELSE "pick")
      /\ messages' = Append(messages, run)
      /\ UNCHANGED <<context, tools, approvals, recoveries, status, run, recovery, todo>>
  BY EmittedWhole DEF CompleteMessage, WellTyped, Conversation, requestVars
<1>2. AnswersAre(Expected)'
  <2>1. Expected' = Expected
    BY <1>1 DEF Expected
  <2>2. \A runs : AnswersAre(runs) => AnswersAre(runs)'
    BY <1>1 DEF AnswersAre, Assistants, IsAssistant
  <2> QED
    BY <2>1, <2>2 DEF Agreed, AnswersAre
<1>3. ResultsMatch' /\ TasksMatch'
  BY <1>1, ResultsMatchKept, TaskKept DEF Agreed
<1>4. CallsAreClosed'
  BY <1>1, ClosedKept DEF Agreed, OpenSteps
<1>5. ASSUME ResultsPairUp' PROVE MessagesInOrder' /\ OpenCalls'
  <2>1. MessagesInOrder /\ OpenCalls
    BY <1>1, <1>5, PairsKept DEF Agreed
  <2>2. Pending(Len(context)) = {<<run, c>> : c \in Range(todo)}
    BY <1>1, <2>1 DEF OpenCalls
  <2>3. pc' = "complete" => Pending(Len(context)) = {}
    BY <1>1, <2>2, NoCalls
  <2>4. \A n : Pending(n)' = Pending(n)
    BY <1>1 DEF Pending, Asks, IsAssistant, IsResultOf, IsTool
  <2>5. MessagesInOrder'
    <3> SUFFICES ASSUME NEW i \in DOMAIN context
                 PROVE  (IF IsTool(i) THEN ResultFits(i) ELSE Pending(i - 1) = {})'
      BY <1>1 DEF MessagesInOrder
    <3>1. IF IsTool(i) THEN ResultFits(i) ELSE Pending(i - 1) = {}
      BY <1>1, <2>1 DEF MessagesInOrder, IsUnresolved
    <3> QED
      BY <1>1, <2>4, <3>1 DEF IsTool, ResultFits
  <2>6. OpenCalls'
    <3>1. (Pending(Len(context)))' = Pending(Len(context))
      BY <1>1, <2>4
    <3> QED
      BY <1>1, <2>2, <2>3, <3>1 DEF OpenCalls, Idle
  <2> QED
    BY <2>5, <2>6
<1> QED
  BY <1>2, <1>3, <1>4, <1>5 DEF Agreed

LEMMA RestOfCalls ==
  ASSUME NEW s \in Seq(Call), s # <<>>, IsInjective(s)
  PROVE  Range(Tail(s)) = Range(s) \ {Head(s)} /\ (Len(s) = 1 => Range(Tail(s)) = {})
<1>1. /\ Len(s) \in Nat /\ Len(s) # 0 /\ DOMAIN s = 1..Len(s) /\ Head(s) = s[1]
      /\ DOMAIN Tail(s) = 1..(Len(s) - 1)
      /\ \A n \in 1..(Len(s) - 1) : Tail(s)[n] = s[n + 1]
  <2>1. Tail(s) \in Seq(Call) /\ Len(Tail(s)) = Len(s) - 1 /\ \A n \in 1..Len(Tail(s)) : Tail(s)[n] = s[n + 1]
    BY HeadTailProperties
  <2> QED
    BY <2>1
<1>2. Range(s) = {s[n] : n \in DOMAIN s} /\ Range(Tail(s)) = {Tail(s)[n] : n \in DOMAIN Tail(s)}
  BY DEF Range
<1>3. ASSUME NEW n \in DOMAIN s, s[n] # Head(s) PROVE s[n] \in Range(Tail(s))
  <2>1. n - 1 \in 1..(Len(s) - 1) /\ n - 1 + 1 = n
    BY <1>1, <1>3
  <2>2. Tail(s)[n - 1] = s[n]
    BY <1>1, <2>1
  <2> QED
    BY <1>1, <1>2, <2>1, <2>2
<1>4. Range(Tail(s)) \subseteq Range(s) \ {Head(s)}
  BY CallsLeft
<1>5. Len(s) = 1 => Range(Tail(s)) = {}
  BY <1>1, <1>2
<1> QED
  BY <1>2, <1>3, <1>4, <1>5

LEMMA TellAgrees == ASSUME WellTyped, Dialogue, Agreed, Tell PROVE Agreed'
<1>1. /\ TypeOK /\ pc = "tell" /\ todo \in Seq(Call) /\ todo # <<>> /\ IsInjective(todo)
      /\ Head(todo) \in Call /\ Head(todo) \in Range(todo) /\ run \in Run
      /\ Recorded("tool", <<Head(todo)>>)
      /\ UNCHANGED <<messages, tools, approvals, recoveries, status, run, recovery>>
  BY CurrentFacts DEF Tell, Current, WellTyped, TypeOK, publicVars, requestVars, CallSteps, Dialogue
<1>2. \/ recovery # None /\ pc' = "resolve" /\ Head(todo) = recovery.call
      \/ /\ recovery = None /\ todo' = Tail(todo) /\ pc' \in {"ask", "pick", "finish"}
         /\ pc' = "ask" => Len(todo) = 1
  <2>1. recovery # None => todo = <<recovery.call>>
    BY DEF WellTyped
  <2>2. recovery # None => Head(todo) = recovery.call
    BY <2>1, OneCall
  <2> QED
    BY <2>2 DEF Tell, Recovering, FinishWith
<1>3. PICK old : old = Len(context)
  OBVIOUS
<1>4. PICK new : new = Len(context) + 1
  OBVIOUS
<1>5. /\ DOMAIN context' = DOMAIN context \cup {new} /\ new \notin DOMAIN context
      /\ \A i \in DOMAIN context : context'[i] = context[i]
      /\ context'[new].role = "tool" /\ context'[new].run = run /\ context'[new].calls = <<Head(todo)>>
  BY <1>1, <1>4, OneMessageMore
<1>6. new - 1 = old /\ old \in 0..Len(context) /\ Len(context') = new
  <2>1. context \in Seq(Message)
    BY <1>1 DEF TypeOK
  <2> QED
    BY <1>1, <1>3, <1>4, <2>1 DEF Recorded
<1>7. AnswersAre(Expected)'
  <2>1. Expected' = messages /\ AnswersAre(messages)
    BY <1>1, <1>2 DEF Agreed, Expected
  <2>2. \A l : l = messages => AnswersAre(l)'
    BY <1>1, <2>1, AnswersKept
  <2> QED
    BY <1>1, <2>1, <2>2 DEF AnswersAre
<1>8. ResultsMatch'
  <2>1. PublicResults' = PublicResults
    BY <1>1 DEF PublicResults
  <2>2. \A i \in PrivateResults : i \in PrivateResults' /\ context'[i] = context[i]
    BY <1>5 DEF PrivateResults, IsTool
  <2>3. new \in PrivateResults'
    BY <1>5 DEF PrivateResults, IsTool
  <2>4. ASSUME NEW k \in PublicResults
        PROVE  \E i \in PrivateResults' : context'[i].run = k[1] /\ context'[i].calls = <<k[2]>>
    <3>1. CASE k = <<run, Head(todo)>>
      BY <1>5, <2>3, <3>1
    <3>2. CASE k # <<run, Head(todo)>>
      BY <2>2, <3>2 DEF Agreed, ResultsMatch
    <3> QED
      BY <3>1, <3>2
  <2> QED
    BY <2>1, <2>4 DEF ResultsMatch
<1>9. TasksMatch' /\ CallsAreClosed'
  BY <1>1, TaskKept, ClosedKept DEF Agreed, OpenSteps
<1>10. ASSUME ResultsPairUp' PROVE MessagesInOrder' /\ OpenCalls'
  <2>1. MessagesInOrder /\ OpenCalls
    BY <1>1, <1>10, PairsWere DEF Agreed
  <2>2. ASSUME NEW i \in DOMAIN context, NEW c, c = Head(todo), IsResultOf(i, c) PROVE FALSE
    <3>1. i \in PrivateResults' /\ new \in PrivateResults' /\ context'[i].calls = context'[new].calls
      BY <1>5, <2>2 DEF PrivateResults, IsTool, IsResultOf
    <3> QED
      BY <1>5, <1>10, <3>1 DEF ResultsPairUp
  <2>3. \E r \in Run : /\ Pending(old) = {<<r, c>> : c \in Range(todo)}
                       /\ \/ recovery = None /\ r = run
                          \/ recovery # None /\ r = recovery.source /\ Range(todo) = {recovery.call}
    <3>1. CASE recovery = None
      BY <1>1, <1>3, <2>1, <3>1 DEF OpenCalls, CallSteps
    <3>2. CASE recovery # None
      <4>1. Range(todo) = {recovery.call} /\ recovery.source \in Run /\ recovery.call = Head(todo)
        BY <1>1, <1>2, <3>2, OneCall DEF WellTyped, TypeOK, Recovery
      <4>2. ~ Told(recovery.call)
        BY <2>2, <4>1 DEF Told
      <4>3. Pending(old) = {<<recovery.source, recovery.call>>}
        BY <1>1, <1>3, <2>1, <3>2, <4>2 DEF OpenCalls
      <4> QED
        BY <3>2, <4>1, <4>3
    <3> QED
      BY <3>1, <3>2
  <2>4. PICK r \in Run : /\ Pending(old) = {<<r, c>> : c \in Range(todo)}
                         /\ \/ recovery = None /\ r = run
                            \/ recovery # None /\ r = recovery.source /\ Range(todo) = {recovery.call}
    BY <2>3
  <2>5. Pending(new)' = {<<r, c>> : c \in Range(todo) \ {Head(todo)}}
    <3>1. Pending(new)' = {k \in Pending(old) : ~ (<<Head(todo)>> = <<k[2]>>)}
      BY <1>1, <1>3, <1>4, PendingNext
    <3>2. \A c : <<Head(todo)>> = <<c>> <=> c = Head(todo)
      BY OneCall
    <3> QED
      BY <2>4, <3>1, <3>2
  <2>6. OpenCalls'
    <3>1. CASE recovery # None
      <4>1. Pending(new)' = {}
        BY <1>2, <2>4, <2>5, <3>1
      <4>2. (Pending(Len(context)) = {})'
        BY <1>6, <4>1
      <4> QED
        BY <1>1, <1>2, <3>1, <4>2 DEF OpenCalls
    <3>2. CASE recovery = None
      <4>1. Pending(new)' = {<<run, c>> : c \in Range(todo')} /\ (pc' = "ask" => Range(todo') = {})
        BY <1>1, <1>2, <2>4, <2>5, <3>2, RestOfCalls
      <4>2. /\ (Pending(Len(context)) = {<<run, c>> : c \in Range(todo)})'
            /\ pc' = "ask" => (Pending(Len(context)) = {})'
        BY <1>1, <1>6, <4>1
      <4> QED
        BY <1>1, <1>2, <3>2, <4>2 DEF OpenCalls, Idle
    <3> QED
      BY <3>1, <3>2
  <2>7. <<r, Head(todo)>> \in Pending(new - 1)'
    <3>1. Pending(old)' = Pending(old)
      BY <1>1, <1>6, PendingKept
    <3> QED
      BY <1>1, <1>6, <2>4, <3>1
  <2>8. ResultFits(new)' \/ IsUnresolved(new)'
    <3>1. CASE recovery # None
      BY <1>1, <1>2, <1>5, <1>6, <2>4, <2>7, <3>1 DEF IsUnresolved
    <3>2. CASE recovery = None
      <4>1. <<r, Head(todo)>>[1] = context'[new].run /\ <<r, Head(todo)>>[2] = context'[new].calls[1]
        BY <1>5, <2>4, <3>2
      <4> QED
        BY <2>7, <4>1 DEF ResultFits
    <3> QED
      BY <3>1, <3>2
  <2>9. \A i \in DOMAIN context : IF IsTool(i)' THEN ResultFits(i)' ELSE Pending(i - 1)' = {}
    BY <1>1, <2>1, OrderKept
  <2>10. IsTool(new)'
    BY <1>5 DEF IsTool
  <2>11. MessagesInOrder'
    <3> SUFFICES ASSUME NEW i \in DOMAIN context'
                 PROVE  (IF IsTool(i) THEN ResultFits(i) \/ IsUnresolved(i) ELSE Pending(i - 1) = {})'
      BY DEF MessagesInOrder
    <3>1. CASE i = new
      BY <2>8, <2>10, <3>1
    <3>2. CASE i \in DOMAIN context
      BY <2>9, <3>2
    <3> QED
      BY <1>5, <3>1, <3>2
  <2> QED
    BY <2>6, <2>11
<1> QED
  BY <1>7, <1>8, <1>9, <1>10 DEF Agreed

LEMMA ResolveAgrees == ASSUME WellTyped, Agreed, faults' = 0, Resolve PROVE Agreed'
<1>1. /\ TypeOK /\ recovery # None /\ pc = "resolve" /\ pc' = "user" /\ recovery' = None
      /\ recoveries' = recoveries \cup {[run |-> run, source |-> recovery.source, call |-> recovery.call]}
      /\ UNCHANGED <<context, messages, tools, approvals, status, run>>
  BY EmittedWhole DEF Resolve, WellTyped, requestVars
<1>2. AnswersAre(Expected)' /\ ResultsMatch' /\ TasksMatch'
  BY <1>1, ExpectedKept, ResultsMatchKept, TaskKept DEF Agreed
<1>3. CallsAreClosed'
  <2>1. PICK new : new = [run |-> run, source |-> recovery.source, call |-> recovery.call]
    OBVIOUS
  <2>2. \A r, c : Recovered(r, c) => Recovered(r, c)'
    BY <1>1 DEF Recovered
  <2>3. ASSUME NEW r, NEW c, r = recovery.source, c = recovery.call PROVE Recovered(r, c)'
    <3>1. new \in recoveries' /\ new.source = r /\ new.call = c
      BY <1>1, <2>1, <2>3
    <3> QED
      BY <3>1 DEF Recovered
  <2> QED
    BY <1>1, <2>2, <2>3 DEF Agreed, CallsAreClosed, OpenSteps
<1>4. ASSUME ResultsPairUp' PROVE MessagesInOrder' /\ OpenCalls'
  <2>1. MessagesInOrder /\ OpenCalls
    BY <1>1, <1>4, PairsKept DEF Agreed
  <2>2. \A n : Pending(n)' = Pending(n)
    BY <1>1 DEF Pending, Asks, IsAssistant, IsResultOf, IsTool
  <2>3. Pending(Len(context)) = {}
    BY <1>1, <2>1 DEF OpenCalls, Idle
  <2>4. OpenCalls'
    <3>1. (Pending(Len(context)))' = Pending(Len(context))
      BY <1>1, <2>2
    <3> QED
      BY <1>1, <2>3, <3>1 DEF OpenCalls, CallSteps
  <2>5. MessagesInOrder'
    <3> SUFFICES ASSUME NEW i \in DOMAIN context
                 PROVE  (IF IsTool(i) THEN ResultFits(i) ELSE Pending(i - 1) = {})'
      BY <1>1 DEF MessagesInOrder
    <3>1. IF IsTool(i) THEN ResultFits(i) \/ IsUnresolved(i) ELSE Pending(i - 1) = {}
      BY <2>1 DEF MessagesInOrder
    <3>2. ResultFits(i) => ResultFits(i)'
      BY <1>1, <2>2 DEF ResultFits
    <3>3. ASSUME IsUnresolved(i) PROVE ResultFits(i)'
      <4>1. PICK k \in Pending(i - 1) : k = <<recovery.source, recovery.call>>
        BY <3>3 DEF IsUnresolved
      <4>2. /\ k[1] = recovery.source /\ k[2] = recovery.call
            /\ context[i].run = run /\ context[i].calls = <<recovery.call>>
        BY <3>3, <4>1 DEF IsUnresolved
      <4>3. context[i].calls[1] = recovery.call
        BY <4>2
      <4> QED
        BY <1>1, <2>2, <4>1, <4>2, <4>3 DEF ResultFits
    <3> QED
      BY <1>1, <2>2, <3>1, <3>2, <3>3 DEF IsTool
  <2> QED
    BY <2>4, <2>5
<1> QED
  BY <1>2, <1>3, <1>4 DEF Agreed

\* The tasks of a run that the session counts.
LEMMA CountedTasks ==
  ASSUME TypeOK, NEW r
  PROVE  /\ UserMessages(r) = 1 => \E i \in DOMAIN context : IsTaskOf(i, r)
         /\ OneTask => \/ UserMessages(r) = 1
                       \/ UserMessages(r) = 0 /\ \A i \in DOMAIN context : ~ IsTaskOf(i, r)
<1> DEFINE tasks == {i \in DOMAIN context : context[i].role = "user" /\ context[i].run = r}
<1>1. UserMessages(r) = Cardinality(tasks) /\ \A i \in DOMAIN context : i \in tasks <=> IsTaskOf(i, r)
  BY DEF UserMessages, IsTaskOf
<1>2. UserMessages(r) = 1 => \E i \in DOMAIN context : IsTaskOf(i, r)
  <2>1. Cardinality({}) = 0
    BY FS_EmptySet
  <2>2. tasks = {} => UserMessages(r) = 0
    BY <1>1, <2>1
  <2> QED
    BY <1>1, <2>2
<1>3. ASSUME OneTask, NEW i \in tasks PROVE tasks = {i}
  BY <1>1, <1>3 DEF OneTask, IsTaskOf
<1>4. ASSUME OneTask
      PROVE  \/ UserMessages(r) = 1
             \/ UserMessages(r) = 0 /\ \A i \in DOMAIN context : ~ IsTaskOf(i, r)
  <2>1. CASE tasks = {}
    BY <1>1, <2>1, FS_EmptySet
  <2>2. CASE tasks # {}
    <3>1. PICK i : i \in tasks
      BY <2>2
    <3>2. tasks = {i}
      BY <1>3, <1>4, <3>1
    <3> QED
      BY <1>1, <3>2, FS_Singleton
  <2> QED
    BY <2>1, <2>2
<1> QED
  BY <1>2, <1>4

\* A run that begins finds what its plan was made from.
LEMMA NewRunAgrees ==
  ASSUME Settled, Books, NEW j \in RecoveredJournals, run < MaxRuns, CanResume(j),
         NEW p, p = PlannedRecovery(j), NEW done \in BOOLEAN, NewRun(run + 1, p, done),
         UNCHANGED <<context, publicVars>>
  PROVE  Agreed'
<1>1. /\ TypeOK /\ run \in Nat
      /\ \A r \in Run : r \in Nat
  BY DEF Settled, WellTyped, TypeOK, Run
<1>2. /\ UNCHANGED <<context, messages, tools, approvals, recoveries, status>>
      /\ run' = run + 1 /\ pc' = "start" /\ recovery' = p
  BY DEF NewRun, publicVars
<1>3. \A k \in Candidates : k = <<k[1], k[2]>> /\ k \in Run \X Call /\ AskedIn(k)
  BY DEF CanResume, Candidates, Undecided, Interrupted
<1>4. \/ Candidates = {} /\ p = None
      \/ \E k \in Candidates : Candidates = {k} /\ p # None /\ p.source = k[1] /\ p.call = k[2]
  <2>1. CASE Candidates = {}
    BY <2>1 DEF PlannedRecovery, NoRecovery
  <2>2. CASE Candidates # {}
    <3>1. PICK k \in Candidates : k = CHOOSE l \in Candidates : TRUE
      BY <2>2
    <3>2. p = [source |-> k[1], call |-> k[2], kind |-> KindOf(k, j)]
      BY <2>2, <3>1 DEF PlannedRecovery
    <3>3. p # None
      <4>1. KindOf(k, j) \in RecoveryKind
        BY DEF CanResume, SelectionFails, Recoverable, KindOf, RecoveryKind
      <4> QED
        BY <1>3, <3>2, <4>1, NoneIsNoRecovery DEF Recovery
    <3>4. Candidates = {k}
      BY DEF CanResume, SelectionFails
    <3> QED
      BY <3>2, <3>3, <3>4
  <2> QED
    BY <2>1, <2>2
<1>5. AnswersAre(Expected)'
  <2>1. Expected' = messages /\ AnswersAre(messages)
    BY <1>2 DEF Expected, CanResume, BoundariesAgree
  <2> QED
    BY <1>2, <2>1 DEF AnswersAre, Assistants, IsAssistant
<1>6. ResultsMatch'
  <2>1. \A k \in PublicResults : \E i \in PrivateResults : context[i].run = k[1] /\ context[i].calls = <<k[2]>>
    BY DEF CanResume, BoundariesAgree, ResultsAgree
  <2> QED
    BY <1>2, <2>1 DEF ResultsMatch, PublicResults, PrivateResults, IsTool
<1>7. TasksMatch'
  <2>1. ASSUME NEW r \in Run, status[r] # "none" PROVE (\E i \in DOMAIN context : IsTaskOf(i, r)) \/ RecoveredIn(r)
    BY <1>1, <2>1, CountedTasks DEF CanResume, BoundariesAgree, RecoveredIn
  <2> QED
    BY <1>2, <2>1 DEF TasksMatch, IsTaskOf, RecoveredIn
<1>8. CallsAreClosed'
  <2>1. ASSUME NEW r \in Run, NEW c \in Call, tools[r][c] \in {"proposed", "running"} \/ approvals[r][c] = "pending"
        PROVE  Recovered(r, c) \/ (p # None /\ r = p.source /\ c = p.call)
    <3>1. Recovered(r, c) \/ <<r, c>> \in Candidates
      BY <2>1 DEF Candidates, Undecided, Interrupted
    <3> QED
      BY <1>4, <3>1
  <2>2. \A c \in Call : run + 1 \in Run => tools[run + 1][c] = "none"
    <3>1. run + 1 > run
      BY <1>1
    <3> QED
      BY <3>1 DEF Books, LaterRunsAreBlank
  <2>3. ASSUME NEW r, NEW c, Recovered(r, c) PROVE Recovered(r, c)'
    BY <1>2, <2>3 DEF Recovered
  <2>4. run + 1 \in Run
    BY <1>1, LimitsAreNaturals DEF Run
  <2>5. ASSUME NEW r \in Run, NEW c \in Call, tools'[r][c] \in {"proposed", "running"} \/ approvals'[r][c] = "pending"
        PROVE  Recovered(r, c)' \/ (recovery' # None /\ r = recovery'.source /\ c = recovery'.call)
    BY <1>2, <2>1, <2>3, <2>5
  <2>6. \A c \in Call : tools'[run'][c] = "none"
    BY <1>2, <2>2, <2>4
  <2> QED
    BY <2>5, <2>6 DEF CallsAreClosed
<1>9. MessagesInOrder' /\ OpenCalls'
  <2>1. \A n : Pending(n)' = Pending(n)
    BY <1>2 DEF Pending, Asks, IsAssistant, IsResultOf, IsTool
  <2>2. (Pending(Len(context)))' = Pending(Len(context)) /\ \A c : Told(c)' <=> Told(c)
    BY <1>2, <2>1 DEF Told, IsResultOf, IsTool
  <2>3. MessagesInOrder'
    <3> SUFFICES ASSUME NEW i \in DOMAIN context
                 PROVE  (IF IsTool(i) THEN ResultFits(i) ELSE Pending(i - 1) = {})'
      BY <1>2 DEF MessagesInOrder
    <3>1. IF IsTool(i) THEN ResultFits(i) ELSE Pending(i - 1) = {}
      BY DEF CanResume, ContextInOrder
    <3> QED
      BY <1>2, <2>1, <3>1 DEF IsTool, ResultFits
  <2>4. Pending(Len(context)) = {} \/ Pending(Len(context)) = Candidates
    BY DEF CanResume, OpenCallsCovered
  <2>5. ASSUME NEW k \in Candidates, Candidates = {k}, p.source = k[1], p.call = k[2]
        PROVE  \/ Pending(Len(context)) = {<<p.source, p.call>>}
               \/ Pending(Len(context)) = {} /\ Told(p.call)
    <3>1. CASE Pending(Len(context)) = {}
      BY <1>1, <1>3, <2>5, <3>1, AskedAndSettled
    <3>2. CASE Pending(Len(context)) # {}
      BY <1>3, <2>4, <2>5, <3>2
    <3> QED
      BY <3>1, <3>2
  <2>6. OpenCalls'
    BY <1>2, <1>4, <2>2, <2>4, <2>5 DEF OpenCalls, Idle, CallSteps
  <2> QED
    BY <2>3, <2>6
<1> QED
  BY <1>5, <1>6, <1>7, <1>8, <1>9 DEF Agreed

LEMMA InitAgrees == ASSUME Init PROVE Agreement
<1>1. /\ DOMAIN context = {} /\ context = <<>> /\ messages = <<>> /\ recovery = None /\ pc = "start" /\ run = 1
      /\ \A r \in Run, c \in Call : tools[r][c] = "none"
  BY DEF Init, ForEveryCall
<1>2. AnswersAre(Expected)
  <2>1. Assistants = {} /\ Expected = <<>>
    BY <1>1 DEF Assistants, Expected
  <2>2. Cardinality({}) = 0 /\ Len(<<>>) = 0
    BY FS_EmptySet
  <2> QED
    BY <2>1, <2>2 DEF AnswersAre
<1>3. ResultsMatch
  BY <1>1 DEF ResultsMatch, PublicResults
<1>4. \A r \in Run : ~ (r < run)
  BY <1>1 DEF Run
<1>5. TasksMatch /\ CallsAreClosed
  BY <1>1, <1>4, RunsAreNumbered DEF TasksMatch, CallsAreClosed
<1>6. MessagesInOrder
  BY <1>1 DEF MessagesInOrder
<1>7. OpenCalls
  <2>1. Len(context) = 0 /\ \A i : ~ (i \in 1..0)
    BY <1>1
  <2>2. Pending(Len(context)) = {}
    BY <2>1 DEF Pending
  <2> QED
    BY <1>1, <2>2 DEF OpenCalls, CallSteps
<1> QED
  BY <1>2, <1>3, <1>5, <1>6, <1>7 DEF Agreement, Agreed

LEMMA StaysAgreed == ASSUME Settled, Books, Agreement, [SessionNext]_vars PROVE Agreement'
<1>1. WellTyped /\ Dialogue /\ TypeOK
  BY DEF Settled, WellTyped
<1> SUFFICES ASSUME Whole' PROVE Agreed'
  BY DEF Agreement
<1>2. faults' = 0 /\ (Active' \/ status'[run'] \in Terminal)
  BY DEF Whole
<1>3. CASE Resume
  <2>1. PICK j \in RecoveredJournals :
          IF run < MaxRuns /\ CanResume(j)
          THEN \E done \in BOOLEAN : NewRun(run + 1, PlannedRecovery(j), done)
          ELSE UNCHANGED <<requestVars, stateVars, recovery, todo, failed, pc, ctxDone, ending>>
    BY <1>3 DEF Resume
  <2>2. UNCHANGED <<context, publicVars, faults>>
    BY <1>3 DEF Resume
  <2>3. CASE run < MaxRuns /\ CanResume(j)
    <3>1. PICK done \in BOOLEAN : NewRun(run + 1, PlannedRecovery(j), done)
      BY <2>1, <2>3
    <3> QED
      BY <2>2, <2>3, <3>1, NewRunAgrees
  <2>4. CASE ~ (run < MaxRuns /\ CanResume(j))
    <3>1. UNCHANGED <<context, messages, approvals, recoveries, tools, status, run, recovery, todo, pc, faults>>
      BY <2>1, <2>2, <2>4 DEF publicVars, requestVars
    <3>2. Agreed
      BY <3>1 DEF Agreement, Whole, Active
    <3>3. Idle' => Idle
      BY <3>1 DEF Idle
    <3> QED
      BY <1>1, <3>1, <3>2, <3>3, AgreedKept
  <2> QED
    BY <2>3, <2>4
<1>4. CASE UNCHANGED vars
  <2>1. UNCHANGED <<context, messages, approvals, recoveries, tools, status, run, recovery, todo, pc, faults>>
    BY <1>4 DEF vars, sessionVars, publicVars, requestVars
  <2>2. Agreed
    BY <2>1 DEF Agreement, Whole, Active
  <2>3. Idle' => Idle
    BY <2>1 DEF Idle
  <2> QED
    BY <1>1, <2>1, <2>2, <2>3, AgreedKept
<1>5. ~ Crash /\ ~ SumsOverflow
  <2> SUFFICES ASSUME Crash \/ SumsOverflow PROVE FALSE
    OBVIOUS
  <2>1. Active /\ ~ Active' /\ UNCHANGED <<status, run>>
    BY DEF Crash, SumsOverflow, Active, sessionVars, publicVars, requestVars
  <2> QED
    BY <1>2, <2>1 DEF Books, LaterRunsAreBlank
<1>6. CASE Next
  <2>1. Active /\ faults = 0
    <3>1. Active
      BY <1>5, <1>6 DEF Next, RunStep, Start, RecordUser, AskModel, ProviderFails, LeaveLoop, RecordAnswer, CompleteMessage,
                  Complete, Finish, Pick, BudgetSpent, Tell, Resolve, WriteFails, FatalSteps, RecordingSteps,
                  ToolStep, Propose, PrepareFails, StartTool, Succeed, FailTool, Refuse, Allow, RequestApproval,
                  ApprovalStep, ApprovalDecided, Unanswered, MayGiveUp,
                  ExecuteStep, ToolFails, Read, RecordIntent, TakeEffect, CommandEnds, VerifyPost, Cancel, Active
    <3>2. faults \in Nat /\ (faults' = faults \/ faults' = faults + 1)
      BY <1>1, <1>5, <1>6, EarlierRunsDiffer
      DEF Next, RunStep, Start, RecordUser, AskModel, ProviderFails, LeaveLoop, RecordAnswer, CompleteMessage,
          Complete, Finish, Terminate, Pick, BudgetSpent, Tell, Resolve, WriteFails, Emitted,
          ToolStep, Propose, PrepareFails, StartTool, Succeed, FailTool, Refuse, Allow, RequestApproval,
          ApprovalStep, ApprovalDecided, Unanswered, ExecuteStep, Cancel
    <3> QED
      BY <1>2, <3>1, <3>2
  <2>2. Agreed
    BY <2>1 DEF Agreement, Whole
  <2> QED
    BY <1>1, <1>2, <1>5, <1>6, <2>2, ConversationAgrees, CancelledAgrees, CallAgrees, ToolAgrees, UserAgrees, AnswerAgrees,
       MessageAgrees, TellAgrees, ResolveAgrees
    DEF Next, RunStep, ToolStep
<1> QED
  BY <1>3, <1>4, <1>5, <1>6 DEF SessionNext

\* Where no result waits to be told, the two logs have the same ones.
LEMMA SameResultsInBothLogs ==
  ASSUME TypeOK, ResultsStand, ResultsMatch, pc # "tell"
  PROVE  ResultsAgree
<1> DEFINE answered == [i \in PrivateResults |-> <<context[i].run, context[i].calls[1]>>]
<1>1. \A k \in PublicResults : \E i \in PrivateResults : context[i].run = k[1] /\ context[i].calls = <<k[2]>>
  BY DEF ResultsMatch
<1>2. \A i \in PrivateResults : i \in DOMAIN context
  BY DEF PrivateResults
<1>3. ASSUME NEW i \in PrivateResults
      PROVE  /\ <<context[i].run, context[i].calls[1]>> \in PublicResults
             /\ context[i].calls = <<context[i].calls[1]>>
  <2>1. PICK c \in Call : context[i].calls = <<c>> /\ tools[context[i].run][c] = "completed"
    BY DEF ResultsStand
  <2>2. context[i].calls[1] = c /\ context[i].run \in Run
    BY <1>2, <2>1, ContextFacts
  <2> QED
    BY <2>1, <2>2 DEF PublicResults
<1>4. answered \in Injection(PrivateResults, PublicResults)
  <2>1. answered \in [PrivateResults -> PublicResults]
    BY <1>3
  <2>2. ASSUME NEW i \in PrivateResults, NEW m \in PrivateResults, answered[i] = answered[m] PROVE i = m
    <3>1. context[i].run = context[m].run /\ context[i].calls[1] = context[m].calls[1]
      BY <2>2
    <3>2. context[i].calls = context[m].calls
      BY <1>3, <3>1
    <3> QED
      BY <3>1, <3>2 DEF ResultsStand
  <2> QED
    BY <2>1, <2>2 DEF Injection, IsInjective
<1>5. answered \in Surjection(PrivateResults, PublicResults)
  <2>1. answered \in [PrivateResults -> PublicResults]
    BY <1>3
  <2>2. ASSUME NEW k \in PublicResults PROVE \E i \in PrivateResults : answered[i] = k
    <3>1. PICK i \in PrivateResults : context[i].run = k[1] /\ context[i].calls = <<k[2]>>
      BY <1>1
    <3>2. k = <<k[1], k[2]>>
      BY DEF PublicResults
    <3> QED
      BY <3>1, <3>2
  <2> QED
    BY <2>1, <2>2 DEF Surjection
<1>6. ExistsBijection(PrivateResults, PublicResults)
  BY <1>4, <1>5 DEF ExistsBijection, Bijection
<1>7. IsFiniteSet(PrivateResults)
  BY <1>2, FiniteConversation, FS_Subset
<1>8. Cardinality(PrivateResults) = Cardinality(PublicResults)
  BY <1>6, <1>7, FS_Bijection
<1> QED
  BY <1>1, <1>8 DEF ResultsAgree

\* A run that recorded its task and wrote its terminal event, every write having
\* succeeded, can be resumed with nothing to recover: the two logs agree wherever a
\* run may end.  Left out: calls a limit left unanswered, an approval nobody
\* decided, and sessions in which a call already has two results.
THEOREM EndedRunsAreResumed == SessionSpec => []EndedRunsResume
<1>1. ASSUME Settled, Books, Agreement PROVE EndedRunsResume
  <2> SUFFICES ASSUME pc = "returned", status[run] \in Terminal, faults = 0, UserMessages(run) = 1,
                      Pending(Len(context)) = {}, Undecided = {}, ResultsPairUp, NEW j \in RecoveredJournals
               PROVE  CanResume(j) /\ PlannedRecovery(j) = NoRecovery
    BY DEF EndedRunsResume
  <2>1. TypeOK /\ run \in Run /\ run \in Nat /\ \A r \in Run : r \in Nat
    BY <1>1 DEF Settled, WellTyped, TypeOK, Run
  <2>2. Agreed /\ MessagesInOrder
    BY <1>1 DEF Agreement, Agreed, Whole
  <2>3. PICK i \in DOMAIN context : IsTaskOf(i, run)
    BY <2>1, CountedTasks
  <2>4. recovery = None /\ context # <<>>
    BY <1>1, <2>3 DEF Books, OneTask
  <2>5. Candidates = {}
    <3> SUFFICES ASSUME NEW r \in Run, NEW c \in Call, tools[r][c] \in {"proposed", "running"}, ~ Recovered(r, c)
                 PROVE  FALSE
      BY DEF Candidates, Interrupted
    <3>1. CASE r < run
      BY <2>2, <2>4, <3>1 DEF Agreed, CallsAreClosed
    <3>2. CASE r = run
      BY <2>2, <3>2 DEF Agreed, CallsAreClosed, OpenSteps
    <3>3. CASE r > run
      BY <1>1, <3>3 DEF Books, LaterRunsAreBlank
    <3>4. r \in Nat /\ run \in Nat
      BY <2>1
    <3> QED
      BY <3>1, <3>2, <3>3, <3>4
  <2>6. AnswersAre(messages)
    <3>1. Expected = messages
      BY DEF Expected
    <3> QED
      BY <2>2, <3>1 DEF Agreed
  <2>7. ResultsAgree
    BY <1>1, <2>1, <2>2, SameResultsInBothLogs DEF Books, Agreed
  <2>8. \A r \in Run : \/ UserMessages(r) = 1
                       \/ UserMessages(r) = 0 /\ \A m \in DOMAIN context : ~ IsTaskOf(m, r)
    BY <1>1, <2>1, CountedTasks DEF Books
  <2>9. ASSUME NEW r \in Run, status[r] # "none", UserMessages(r) # 1 PROVE UserMessages(r) = 0 /\ RecoveredIn(r)
    <3>1. r < run
      <4>1. r # run
        BY <2>9
      <4>2. ~ (r > run)
        BY <1>1, <2>9 DEF Books, LaterRunsAreBlank
      <4> QED
        BY <2>1, <4>1, <4>2
    <3> QED
      BY <2>2, <2>8, <2>9, <3>1 DEF Agreed, TasksMatch
  <2>10. BoundariesAgree /\ \A r \in Run : UserMessages(r) <= 1
    BY <2>6, <2>7, <2>8, <2>9 DEF BoundariesAgree, RecoveredIn
  <2>11. ContextInOrder
    BY <2>2 DEF MessagesInOrder, IsUnresolved, ContextInOrder
  <2>12. ~ RecoveryFactsClash /\ ~ SelectionFails(j) /\ OpenCallsCovered
    BY <1>1, <2>5 DEF Books, RecoveriesDiffer, SelectionFails, OpenCallsCovered
  <2> QED
    BY <2>4, <2>5, <2>10, <2>11, <2>12 DEF CanResume, PlannedRecovery
<1> QED
  BY <1>1, InitSettled, StaysSettled, InitBooks, StaysBooks, InitAgrees, StaysAgreed, PTL DEF SessionSpec
=============================================================================
