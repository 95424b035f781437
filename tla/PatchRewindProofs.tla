------------------------- MODULE PatchRewindProofs -------------------------
(***************************************************************************)
(* Theorems about the patch journal and its rewinds: PatchRewind, for any  *)
(* number of writes, runs, resumes, rewinds and contents.                  *)
(***************************************************************************)
EXTENDS PatchRewind, TLAPS

-----------------------------------------------------------------------------
(***************************************************************************)
(* Types.                                                                  *)
(***************************************************************************)

LEMMA AbsentIsContent == Absent \in Content
BY DEF Content

LEMMA EventType == ASSUME TypeOK PROVE EventEmitted \in [Resumer -> Analysis]
<1>1. \A q \in Resumer : [resumer[q] EXCEPT !.fresh = FALSE] \in Analysis
  BY DEF TypeOK, WriteTypeOK, Analysis
<1> QED
  BY <1>1 DEF EventEmitted

LEMMA ObservedType == \A c : Observed(c) \in Observation
BY DEF Observed, Observation

LEMMA FileType ==
  ASSUME TypeOK, NEW content \in Content, NEW stale \in SUBSET (Call \cup Rewind), FileBecomes(content, stale)
  PROVE  file' \in Content /\ postSeen' \subseteq Call /\ raced' \subseteq Call \cup Rewind
BY DEF TypeOK, WriteTypeOK, FileBecomes

LEMMA CheckedType == Checked \subseteq Call \cup Rewind
BY DEF Checked

LEMMA TransitionType ==
  ASSUME TypeOK, NEW c, NEW status \in JournalStatus, Transition(c, status)
  PROVE  journal' \in [Call -> JournalStatus]
BY DEF TypeOK, WriteTypeOK, Transition

LEMMA RunTypes ==
  ASSUME TypeOK, (\E r \in Run : BeginRun(r)) \/ EndRun \/ ResolveRecovery, UNCHANGED rewindVars
  PROVE  TypeOK'
<1>1. CASE \E r \in Run : BeginRun(r)
  BY <1>1 DEF TypeOK, WriteTypeOK, BeginRun, rewindVars, journalVars, fileVars, toolVars
<1>2. CASE EndRun
  BY <1>2, EventType DEF TypeOK, WriteTypeOK, EndRun, rewindVars, journalVars, fileVars, toolVars
<1>3. CASE ResolveRecovery
  BY <1>3, EventType DEF TypeOK, WriteTypeOK, ResolveRecovery, rewindVars, journalVars, fileVars, toolVars
<1> QED
  BY <1>1, <1>2, <1>3

\* A write that was approved has a text to write.
Intended == \A c \in Call : writer[c] # "idle" => post[c].text \in Text

LEMMA WriteTypes ==
  ASSUME TypeOK, Intended, NEW c \in Call, Write(c), UNCHANGED rewindVars
  PROVE  TypeOK'
<1>1. ASSUME NEW text \in Text, Approve(c, text) PROVE TypeOK'
  <2>1. live \in Run
    BY <1>1 DEF Approve, TypeOK, WriteTypeOK
  <2>3. [text |-> file.text, mode |-> NewMode] \in Content /\ [text |-> text, mode |-> NewMode] \in Content
    BY NewModeIsMode DEF TypeOK, WriteTypeOK, Content, Absent
  <2>2. /\ runOf' \in [Call -> Run \cup {None}] /\ pre' \in [Call -> Content] /\ post' \in [Call -> Content]
        /\ writer' \in [Call -> WriterAt]
    BY <1>1, <2>1, <2>3 DEF Approve, TypeOK, WriteTypeOK, WriterAt
  <2> QED
    BY <1>1, <2>2, EventType DEF Approve, TypeOK, WriteTypeOK, rewindVars, fileVars
<1>8. CASE BeginExecute(c)
  <2>1. post[c].text \in Text
    BY <1>8 DEF BeginExecute, Intended
  <2>2. [post[c] EXCEPT !.mode = file.mode] \in Content
    BY <2>1, NewModeIsMode DEF TypeOK, WriteTypeOK, Content, Absent
  <2>3. pre' \in [Call -> Content] /\ post' \in [Call -> Content] /\ writer' \in [Call -> WriterAt]
    BY <1>8, <2>2 DEF BeginExecute, TypeOK, WriteTypeOK, WriterAt
  <2> QED
    BY <1>8, <2>3 DEF BeginExecute, TypeOK, WriteTypeOK, rewindVars, fileVars, ledgerVars
<1>2. CASE RecordIntent(c)
  BY <1>2 DEF RecordIntent, TypeOK, WriteTypeOK, rewindVars, ledgerVars, WriterAt, JournalStatus, Incomplete
<1>3. CASE Stage(c) \/ Fail(c)
  BY <1>3 DEF Stage, Fail, TypeOK, WriteTypeOK, rewindVars, journalVars, fileVars, ledgerVars, WriterAt
<1>4. CASE Replace(c, Checked \ {c})
  <2>1. post[c] \in Content /\ Checked \ {c} \in SUBSET (Call \cup Rewind)
    BY CheckedType DEF TypeOK, WriteTypeOK
  <2>2. /\ file' \in Content /\ postSeen' \subseteq Call /\ raced' \subseteq Call \cup Rewind
    BY <1>4, <2>1, FileType DEF Replace
  <2>3. clobbered' \subseteq Call \cup Rewind /\ writer' \in [Call -> WriterAt]
    BY <1>4 DEF Replace, TypeOK, WriteTypeOK, WriterAt
  <2> QED
    BY <1>4, <2>2, <2>3 DEF Replace, TypeOK, WriteTypeOK, rewindVars, journalVars, ledgerVars
<1>5. CASE MarkApplied(c) \/ VerifyPost(c)
  <2>1. PostDecision(c) \in JournalStatus /\ "applied" \in JournalStatus
    BY DEF PostDecision, JournalStatus, Incomplete
  <2>2. journal' \in [Call -> JournalStatus]
    BY <1>5, <2>1, TransitionType DEF MarkApplied, VerifyPost
  <2>3. writer' \in [Call -> WriterAt]
    BY <1>5 DEF MarkApplied, VerifyPost, TypeOK, WriteTypeOK, WriterAt
  <2> QED
    BY <1>5, <2>2, <2>3 DEF MarkApplied, VerifyPost, TypeOK, WriteTypeOK, rewindVars, fileVars, ledgerVars
<1>6. CASE ObservePost(c)
  BY <1>6 DEF ObservePost, TypeOK, WriteTypeOK, rewindVars, journalVars, fileVars, ledgerVars, WriterAt
<1>7. CASE Report(c)
  BY <1>7, EventType DEF Report, TypeOK, WriteTypeOK, rewindVars, journalVars, fileVars, WriterAt
<1> QED
  BY <1>1, <1>2, <1>3, <1>4, <1>5, <1>6, <1>7, <1>8 DEF Write

LEMMA EditTypes ==
  ASSUME TypeOK, NEW content \in Content, UserEdits(content, Checked), UNCHANGED rewindVars
  PROVE  TypeOK'
<1>1. file' \in Content /\ postSeen' \subseteq Call /\ raced' \subseteq Call \cup Rewind
  BY CheckedType, FileType DEF UserEdits
<1> QED
  BY <1>1 DEF UserEdits, TypeOK, WriteTypeOK, rewindVars, journalVars, ledgerVars, toolVars

LEMMA NoAnalysisType == NoAnalysis \in Analysis
BY DEF NoAnalysis, Analysis, Observation

LEMMA ResumeTypes ==
  ASSUME TypeOK, NEW q \in Resumer, Resume(q), UNCHANGED rewindVars
  PROVE  TypeOK'
<1>1. resumer[q] \in Analysis /\ resumer \in [Resumer -> Analysis]
  BY DEF TypeOK, WriteTypeOK
<1>2. CASE Analyze(q)
  <2> DEFINE seen == [NoAnalysis EXCEPT !.at = "recovering", !.fresh = TRUE,
                                        !.todo = {c \in Call : journal[c] \in Incomplete}]
  <2>1. seen \in Analysis
    BY NoAnalysisType DEF Analysis
  <2>2. resumer' \in [Resumer -> Analysis]
    BY <1>1, <1>2, <2>1 DEF Analyze
  <2> QED
    BY <1>2, <2>2 DEF Analyze, TypeOK, WriteTypeOK, rewindVars, journalVars, fileVars, ledgerVars, toolVars
<1>3. ASSUME NEW c \in Call, ObserveIncomplete(q, c) PROVE TypeOK'
  <2>1. resumer' \in [Resumer -> Analysis]
    BY <1>1, <1>3, ObservedType DEF ObserveIncomplete, Analysis
  <2> QED
    BY <1>3, <2>1 DEF ObserveIncomplete, TypeOK, WriteTypeOK, rewindVars, journalVars, fileVars, ledgerVars, toolVars
<1>4. CASE Recover(q)
  <2>1. RecoveryDecision(resumer[q].seen) \in JournalStatus
    BY DEF RecoveryDecision, JournalStatus, Incomplete
  <2>2. journal' \in [Call -> JournalStatus]
    BY <1>4, <2>1, TransitionType DEF Recover
  <2>3. [resumer[q] EXCEPT !.at = "recovering", !.call = None, !.seen = "other"] \in Analysis
    BY <1>1 DEF Analysis, Observation
  <2>4. resumer' \in [Resumer -> Analysis]
    BY <1>1, <1>4, <2>3, NoAnalysisType DEF Recover
  <2> QED
    BY <1>4, <2>2, <2>4 DEF Recover, TypeOK, WriteTypeOK, rewindVars, fileVars, ledgerVars, toolVars
<1>5. CASE Plan(q)
  <2> DEFINE open == Started \ reported
  <2> DEFINE call == IF open = {} THEN None ELSE CHOOSE c \in open : TRUE
  <2>1. call \in Call \cup {None}
    BY DEF Started
  <2> HIDE DEF call
  <2>2. [resumer[q] EXCEPT !.at = "ready", !.call = call] \in Analysis
    BY <1>1, <2>1 DEF Analysis
  <2>3. resumer' \in [Resumer -> Analysis]
    BY <1>1, <1>5, <2>2, NoAnalysisType DEF Plan, call
  <2> QED
    BY <1>5, <2>3 DEF Plan, TypeOK, WriteTypeOK, rewindVars, journalVars, fileVars, ledgerVars, toolVars
<1> QED
  BY <1>2, <1>3, <1>4, <1>5 DEF Resume

LEMMA TakeOverTypes ==
  ASSUME TypeOK, NEW q \in Resumer, NEW r \in Run, BeginResumeCommandRun(q, r)
  PROVE  TypeOK'
<1>1. resumer[q].call \in Call \cup {None}
  BY DEF TypeOK, WriteTypeOK, Analysis
<1>2. resumer' \in [Resumer -> Analysis]
  BY NoAnalysisType DEF BeginResumeCommandRun, TakeOver, TypeOK, WriteTypeOK
<1>3. cmd' \in [Rewind -> {"none"} \cup OpenStatus \cup SettledStatus]
  BY DEF BeginResumeCommandRun, TypeOK, SettledStatus
<1> QED
  BY <1>1, <1>2, <1>3
  DEF BeginResumeCommandRun, TakeOver, TypeOK, WriteTypeOK, journalVars, fileVars, toolVars

\* A command that is anywhere names a write.
Registered == \A k \in Rewind :
  /\ cmd[k] # "none" => target[k] \in Call
  /\ rewinder[k] # "idle" => cmd[k] # "none"

LEMMA RewindTypes ==
  ASSUME TypeOK, Registered, NEW k \in Rewind, DoRewind(k)
  PROVE  TypeOK'
<1> USE DEF writeVars, journalVars, fileVars, ledgerVars, toolVars
<1> DEFINE Status == {"none"} \cup OpenStatus \cup SettledStatus
<1>1. ASSUME NEW c \in Call, BeginRewindCommand(k, c) PROVE TypeOK'
  BY <1>1 DEF BeginRewindCommand, TypeOK, WriteTypeOK, OpenStatus, RewinderAt
<1>2. ASSUME NEW status \in {"rejected", "failed"}, Refuse(k, status) PROVE TypeOK'
  BY <1>2 DEF Refuse, TypeOK, WriteTypeOK, SettledStatus, RewinderAt
<1>3. CASE ApproveRewind(k) \/ StageRewind(k) \/ CheckRestored(k)
  BY <1>3 DEF ApproveRewind, StageRewind, CheckRestored, TypeOK, WriteTypeOK, RewinderAt
<1>4. CASE StartRewind(k)
  BY <1>4 DEF StartRewind, TypeOK, WriteTypeOK, OpenStatus, RewinderAt
<1>5. CASE Restore(k)
  <2>1. pre[target[k]] \in Content /\ Checked \ {k} \in SUBSET (Call \cup Rewind)
    BY <1>5, CheckedType DEF Restore, Registered, TypeOK, WriteTypeOK
  <2>2. /\ file' \in Content /\ postSeen' \subseteq Call /\ raced' \subseteq Call \cup Rewind
    BY <1>5, <2>1, FileType DEF Restore
  <2>3. clobbered' \subseteq Call \cup Rewind /\ rewinder' \in [Rewind -> RewinderAt]
    BY <1>5 DEF Restore, TypeOK, WriteTypeOK, RewinderAt
  <2> QED
    BY <1>5, <2>2, <2>3 DEF Restore, TypeOK, WriteTypeOK
<1>6. CASE CompleteRewind(k)
  BY <1>6 DEF CompleteRewind, SettleRunning, TypeOK, WriteTypeOK, SettledStatus, JournalStatus, RewinderAt
<1>7. CASE InterruptUnstarted(k)
  BY <1>7 DEF InterruptUnstarted, TypeOK, WriteTypeOK, SettledStatus
<1>8. CASE ObserveRewind(k)
  BY <1>8, ObservedType DEF ObserveRewind, TypeOK, WriteTypeOK
<1>9. ASSUME NEW seen \in Observation, RecoverRewindCommand(k, seen) PROVE TypeOK'
  <2>1. RecoveredJournal(seen) \in JournalStatus /\ RecoveredCommand(seen) \in SettledStatus
    BY DEF RecoveredJournal, RecoveredCommand, JournalStatus, SettledStatus
  <2>2. /\ cmd' \in [Rewind -> Status]
        /\ journal' \in [Call -> JournalStatus]
        /\ bound' \in [Call -> Rewind \cup {None}]
        /\ answers' \in [Rewind -> SUBSET Observation]
    BY <1>9, <2>1 DEF RecoverRewindCommand, SettleRunning, TypeOK, WriteTypeOK
  <2> QED
    BY <1>9, <2>2 DEF RecoverRewindCommand, TypeOK, WriteTypeOK
<1> QED
  BY <1>1, <1>2, <1>3, <1>4, <1>5, <1>6, <1>7, <1>8, <1>9 DEF DoRewind

LEMMA StaysRegistered ==
  ASSUME TypeOK, Registered, [Next]_vars
  PROVE  Registered'
<1>1. CASE UNCHANGED <<cmd, target, rewinder>>
  BY <1>1 DEF Registered
<1>2. ASSUME NEW q \in Resumer, NEW r \in Run, BeginResumeCommandRun(q, r) PROVE Registered'
  BY <1>2 DEF BeginResumeCommandRun, InterruptedByResume, OpenStatus, Registered, TypeOK
<1>3. ASSUME NEW k \in Rewind, NEW c \in Call, BeginRewindCommand(k, c) PROVE Registered'
  BY <1>3 DEF BeginRewindCommand, Registered, TypeOK
<1>4. ASSUME NEW k \in Rewind, \/ \E status \in {"rejected", "failed"} : Refuse(k, status)
                             \/ ApproveRewind(k) \/ StartRewind(k) \/ StageRewind(k) \/ Restore(k)
                             \/ CheckRestored(k) \/ CompleteRewind(k)
      PROVE  Registered'
  BY <1>4 DEF Refuse, ApproveRewind, StartRewind, StageRewind, Restore, CheckRestored, CompleteRewind,
              SettleRunning, writeVars, Registered, TypeOK
<1>5. ASSUME NEW k \in Rewind, InterruptUnstarted(k) \/ ObserveRewind(k) PROVE Registered'
  BY <1>5 DEF InterruptUnstarted, ObserveRewind, Registered, TypeOK
<1>6. ASSUME NEW k \in Rewind, NEW seen \in Observation, RecoverRewindCommand(k, seen) PROVE Registered'
  <2>1. RecoveredCommand(seen) # "none"
    BY DEF RecoveredCommand
  <2> QED
    BY <1>6, <2>1 DEF RecoverRewindCommand, SettleRunning, Registered, TypeOK
<1> QED
  BY <1>1, <1>2, <1>3, <1>4, <1>5, <1>6 DEF Next, DoRewind, rewindVars, vars

LEMMA StaysIntended ==
  ASSUME TypeOK, Intended, [Next]_vars
  PROVE  Intended'
<1> USE DEF TypeOK, WriteTypeOK
<1>1. ASSUME UNCHANGED post, \A c \in Call : writer[c] = "idle" => writer'[c] = "idle" PROVE Intended'
  BY <1>1 DEF Intended
<1>2. ASSUME NEW c \in Call, NEW text \in Text, Approve(c, text) PROVE Intended'
  <2>1. \A d \in Call : post'[d] = IF d = c THEN [text |-> text, mode |-> NewMode] ELSE post[d]
    BY <1>2 DEF Approve
  <2>2. \A d \in Call : d # c => writer'[d] = writer[d]
    BY <1>2 DEF Approve
  <2> QED
    BY <2>1, <2>2 DEF Intended
<1>3. ASSUME NEW c \in Call, BeginExecute(c) PROVE Intended'
  <2>1. \A d \in Call : post'[d] = IF d = c THEN [post[d] EXCEPT !.mode = file.mode] ELSE post[d]
    BY <1>3 DEF BeginExecute
  <2>2. \A d \in Call : [post[d] EXCEPT !.mode = file.mode].text = post[d].text
    BY DEF Content, Absent
  <2>3. \A d \in Call : writer'[d] # "idle" => writer[d] # "idle"
    BY <1>3 DEF BeginExecute
  <2> QED
    BY <2>1, <2>2, <2>3 DEF Intended
<1>4. ASSUME NEW c \in Call, \/ RecordIntent(c) \/ Stage(c) \/ Replace(c, Checked \ {c}) \/ MarkApplied(c)
                             \/ ObservePost(c) \/ VerifyPost(c) \/ Fail(c) \/ Report(c)
      PROVE  Intended'
  BY <1>1, <1>4 DEF RecordIntent, Stage, Replace, MarkApplied, ObservePost, VerifyPost, Fail, Report, journalVars
<1>5. ASSUME UNCHANGED <<post, writer>> PROVE Intended'
  BY <1>1, <1>5
<1>6. ASSUME NEW q \in Resumer, Resume(q) \/ \E r \in Run : BeginResumeCommandRun(q, r) PROVE Intended'
  BY <1>5, <1>6 DEF Resume, Analyze, ObserveIncomplete, Recover, Plan, BeginResumeCommandRun, TakeOver, journalVars, toolVars
<1>7. ASSUME NEW k \in Rewind, DoRewind(k) PROVE Intended'
  BY <1>5, <1>7 DEF DoRewind, BeginRewindCommand, Refuse, ApproveRewind, StartRewind, StageRewind, Restore,
              CheckRestored, CompleteRewind, InterruptUnstarted, ObserveRewind, RecoverRewindCommand,
              writeVars, journalVars, toolVars
<1>8. ASSUME (\E r \in Run : BeginRun(r)) \/ EndRun \/ ResolveRecovery
              \/ \E content \in Content : UserEdits(content, Checked)
      PROVE  Intended'
  BY <1>5, <1>8 DEF BeginRun, EndRun, ResolveRecovery, UserEdits, journalVars, toolVars
<1>9. ASSUME UNCHANGED vars PROVE Intended'
  BY <1>5, <1>9 DEF vars, writeVars, journalVars, toolVars
<1> QED
  BY <1>2, <1>3, <1>4, <1>6, <1>7, <1>8, <1>9 DEF Next, Write

Typed == TypeOK /\ Registered /\ Intended

LEMMA InitTyped == ASSUME Init PROVE Typed
<1>1. NoAnalysis \in Analysis
  BY NoAnalysisType
<1>2. WriteTypeOK
  BY <1>1, AbsentIsContent DEF Init, WriteInit, WriteTypeOK, JournalStatus, WriterAt
<1>3. TypeOK
  BY <1>2 DEF Init, TypeOK, OpenStatus, RewinderAt
<1> QED
  BY <1>3 DEF Init, WriteInit, Typed, Registered, Intended

LEMMA StaysTyped == ASSUME Typed, [Next]_vars PROVE Typed'
<1>1. Registered' /\ Intended'
  BY StaysRegistered, StaysIntended DEF Typed
<1> SUFFICES TypeOK'
  BY <1>1 DEF Typed
<1> USE DEF Typed
<1>2. CASE UNCHANGED vars
  <2>1. WriteTypeOK'
    BY <1>2 DEF TypeOK, WriteTypeOK, vars, writeVars, journalVars, fileVars, ledgerVars, toolVars
  <2> QED
    BY <1>2, <2>1 DEF TypeOK, vars, rewindVars
<1>3. ASSUME (\E r \in Run : BeginRun(r)) \/ EndRun \/ ResolveRecovery, UNCHANGED rewindVars PROVE TypeOK'
  BY <1>3, RunTypes
<1>4. ASSUME NEW c \in Call, Write(c), UNCHANGED rewindVars PROVE TypeOK'
  BY <1>4, WriteTypes
<1>5. ASSUME NEW content \in Content, UserEdits(content, Checked), UNCHANGED rewindVars PROVE TypeOK'
  BY <1>5, EditTypes
<1>6. ASSUME NEW q \in Resumer, Resume(q), UNCHANGED rewindVars PROVE TypeOK'
  BY <1>6, ResumeTypes
<1>7. ASSUME NEW q \in Resumer, NEW r \in Run, BeginResumeCommandRun(q, r) PROVE TypeOK'
  BY <1>7, TakeOverTypes
<1>8. ASSUME NEW k \in Rewind, DoRewind(k) PROVE TypeOK'
  BY <1>8, RewindTypes
<1> QED
  BY <1>2, <1>3, <1>4, <1>5, <1>6, <1>7, <1>8 DEF Next

\* Every state of the journal and its rewinds is of its type.
THEOREM JournalTypes == Spec => []TypeOK
<1>1. Spec => []Typed
  BY InitTyped, StaysTyped, PTL DEF Spec
<1>2. Typed => TypeOK
  BY DEF Typed
<1> QED
  BY <1>1, <1>2, PTL

-----------------------------------------------------------------------------
(***************************************************************************)
(* How a journal moves.                                                    *)
(***************************************************************************)

\* Where a write stands and what its journal says go together, and what a
\* resuming process has seen is of a journal that exists.
Positions == \A c \in Call :
  /\ writer[c] \in {"idle", "approved", "executing"} => journal[c] = "none"
  /\ writer[c] \in {"intent", "staged", "replaced", "applied", "observed"} => journal[c] # "none"

Analyses == \A q \in Resumer :
  /\ \A c \in resumer[q].todo : journal[c] # "none"
  /\ resumer[q].at = "observed" => resumer[q].call \in Call /\ journal[resumer[q].call] # "none"

\* The only moves of a journal.
Opened(c) ==
  /\ journal[c] = "none"
  /\ journal' = [journal EXCEPT ![c] = "prepared"]
  /\ writer[c] = "executing"
  /\ writer' = [writer EXCEPT ![c] = "intent"]

Decided(c) ==
  /\ journal[c] \in Incomplete
  /\ \E status \in {"applied", "verified", "conflict", "aborted"} : journal' = [journal EXCEPT ![c] = status]

Undone(c) ==
  /\ journal[c] = "verified"
  /\ bound[c] # None
  /\ \E status \in {"rewound", "conflict"} : journal' = [journal EXCEPT ![c] = status]

LEMMA TransitionMoves ==
  ASSUME TypeOK, NEW c \in Call, NEW status \in {"applied", "verified", "conflict", "aborted"}, Transition(c, status)
  PROVE  UNCHANGED journal \/ Decided(c)
BY DEF TypeOK, WriteTypeOK, Transition, Decided

LEMMA JournalMoves ==
  ASSUME Typed, Positions, Analyses, [Next]_vars
  PROVE  UNCHANGED journal \/ \E c \in Call : Opened(c) \/ Decided(c) \/ Undone(c)
<1>1. ASSUME NEW c \in Call, RecordIntent(c) PROVE Opened(c)
  BY <1>1 DEF RecordIntent, Opened, Positions
<1>2. ASSUME NEW c \in Call, MarkApplied(c) \/ VerifyPost(c) PROVE UNCHANGED journal \/ Decided(c)
  <2>1. PostDecision(c) \in {"verified", "conflict"}
    BY DEF PostDecision
  <2> QED
    BY <1>2, <2>1, TransitionMoves DEF MarkApplied, VerifyPost, Typed
<1>3. ASSUME NEW q \in Resumer, Recover(q) PROVE UNCHANGED journal \/ Decided(resumer[q].call)
  <2>1. RecoveryDecision(resumer[q].seen) \in {"verified", "conflict", "aborted"}
    BY DEF RecoveryDecision
  <2>2. resumer[q].call \in Call
    BY <1>3 DEF Recover, Analyses
  <2> QED
    BY <1>3, <2>1, <2>2, TransitionMoves DEF Recover, Typed
<1>4. ASSUME NEW k \in Rewind, CompleteRewind(k) PROVE Undone(target[k]) /\ target[k] \in Call
  BY <1>4, NoneIsNobody DEF CompleteRewind, OutcomeAccepted, Undone, Typed, Registered
<1>5. ASSUME NEW k \in Rewind, NEW seen \in Observation, RecoverRewindCommand(k, seen)
      PROVE  UNCHANGED journal \/ (Undone(target[k]) /\ target[k] \in Call)
  <2>1. CASE ~ OutcomeAccepted(k)
    BY <1>5, <2>1 DEF RecoverRewindCommand
  <2>2. CASE OutcomeAccepted(k)
    <3>1. target[k] \in Call /\ bound[target[k]] # None /\ journal[target[k]] = "verified"
      BY <2>2, NoneIsNobody DEF OutcomeAccepted, Typed, Registered
    <3>2. journal' = [journal EXCEPT ![target[k]] = RecoveredJournal(seen)]
      BY <1>5, <2>2 DEF RecoverRewindCommand
    <3>3. RecoveredJournal(seen) \in {"rewound", "conflict", "verified"}
      BY DEF RecoveredJournal
    <3> QED
      BY <3>1, <3>2, <3>3 DEF Undone, Typed, TypeOK, WriteTypeOK
  <2> QED
    BY <2>1, <2>2
<1>6. ASSUME NEW q \in Resumer, NEW r \in Run, BeginResumeCommandRun(q, r) PROVE UNCHANGED journal
  BY <1>6 DEF BeginResumeCommandRun, TakeOver, journalVars
<1>7. ASSUME NEW c \in Call, Write(c), ~ RecordIntent(c), ~ MarkApplied(c), ~ VerifyPost(c) PROVE UNCHANGED journal
  BY <1>7 DEF Write, Approve, BeginExecute, Stage, Replace, ObservePost, Fail, Report, journalVars
<1>8. ASSUME NEW q \in Resumer, Resume(q), ~ Recover(q) PROVE UNCHANGED journal
  BY <1>8 DEF Resume, Analyze, ObserveIncomplete, Plan, journalVars
<1>9. ASSUME NEW k \in Rewind, DoRewind(k), ~ CompleteRewind(k),
             ~ \E seen \in Observation : RecoverRewindCommand(k, seen)
      PROVE  UNCHANGED journal
  BY <1>9 DEF DoRewind, BeginRewindCommand, Refuse, ApproveRewind, StartRewind, StageRewind, Restore, CheckRestored,
              InterruptUnstarted, ObserveRewind, writeVars, journalVars
<1>10. ASSUME (\E r \in Run : BeginRun(r)) \/ EndRun \/ ResolveRecovery
              \/ \E content \in Content : UserEdits(content, Checked)
       PROVE  UNCHANGED journal
  BY <1>10 DEF BeginRun, EndRun, ResolveRecovery, UserEdits, journalVars
<1>11. CASE UNCHANGED vars
  BY <1>11 DEF vars, writeVars, journalVars
<1>12. ASSUME NEW q \in Resumer, Recover(q)
       PROVE  UNCHANGED journal \/ \E c \in Call : Decided(c)
  BY <1>3, <1>12 DEF Recover, Analyses
<1> QED
  BY <1>1, <1>2, <1>4, <1>5, <1>6, <1>7, <1>8, <1>9, <1>10, <1>11, <1>12 DEF Next

\* A journal that exists keeps existing, and a decided one stays decided.
LEMMA JournalKept ==
  ASSUME Typed, Positions, Analyses, [Next]_vars, NEW c \in Call
  PROVE  /\ journal[c] # "none" => journal'[c] # "none"
         /\ journal[c] \notin Incomplete \cup {"none"} => journal'[c] \notin Incomplete \cup {"none"}
         /\ journal'[c] # journal[c] /\ journal[c] = "none" => writer[c] = "executing" /\ writer'[c] = "intent"
BY JournalMoves DEF Opened, Decided, Undone, Typed, TypeOK, WriteTypeOK, Incomplete

\* The steps of a write, as far as its place is concerned.
LEMMA WriterMoves ==
  ASSUME Typed, [Next]_vars, NEW c \in Call, writer'[c] # writer[c]
  PROVE  \/ \E text \in Text : Approve(c, text)
         \/ BeginExecute(c) \/ RecordIntent(c) \/ Stage(c) \/ Replace(c, Checked \ {c}) \/ MarkApplied(c)
         \/ ObservePost(c) \/ VerifyPost(c) \/ Fail(c) \/ Report(c)
<1>1. ASSUME NEW d \in Call, Write(d), d # c PROVE UNCHANGED writer[c]
  BY <1>1 DEF Write, Approve, BeginExecute, RecordIntent, Stage, Replace, MarkApplied, ObservePost, VerifyPost, Fail, Report,
              Typed, TypeOK, WriteTypeOK
<1>2. ASSUME UNCHANGED writer PROVE FALSE
  BY <1>2
<1>3. ASSUME NEW q \in Resumer, NEW r \in Run, BeginResumeCommandRun(q, r) PROVE FALSE
  BY <1>2, <1>3 DEF BeginResumeCommandRun, TakeOver, toolVars
<1>4. ASSUME NEW q \in Resumer, Resume(q) PROVE FALSE
  BY <1>2, <1>4 DEF Resume, Analyze, ObserveIncomplete, Recover, Plan, toolVars
<1>5. ASSUME NEW k \in Rewind, DoRewind(k) PROVE FALSE
  BY <1>2, <1>5 DEF DoRewind, BeginRewindCommand, Refuse, ApproveRewind, StartRewind, StageRewind, Restore,
              CheckRestored, CompleteRewind, InterruptUnstarted, ObserveRewind, RecoverRewindCommand,
              writeVars, toolVars
<1>6. ASSUME (\E r \in Run : BeginRun(r)) \/ EndRun \/ ResolveRecovery
              \/ \E content \in Content : UserEdits(content, Checked)
      PROVE  FALSE
  BY <1>2, <1>6 DEF BeginRun, EndRun, ResolveRecovery, UserEdits, toolVars
<1>7. ASSUME UNCHANGED vars PROVE FALSE
  BY <1>2, <1>7 DEF vars, writeVars, toolVars
<1>8. PICK d \in Call : Write(d)
  BY <1>3, <1>4, <1>5, <1>6, <1>7 DEF Next
<1>9. d = c
  BY <1>1, <1>8
<1> QED
  BY <1>8, <1>9 DEF Write

LEMMA StaysPositioned ==
  ASSUME Typed, Positions, Analyses, [Next]_vars
  PROVE  Positions'
<1> SUFFICES ASSUME NEW c \in Call
             PROVE  /\ writer'[c] \in {"idle", "approved", "executing"} => journal'[c] = "none"
                    /\ writer'[c] \in {"intent", "staged", "replaced", "applied", "observed"} => journal'[c] # "none"
  BY DEF Positions
<1>1. CASE writer'[c] = writer[c]
  BY <1>1, JournalKept DEF Positions
<1>2. ASSUME writer'[c] # writer[c], NEW text \in Text, Approve(c, text)
      PROVE  writer'[c] = "approved" /\ journal'[c] = "none"
  BY <1>2 DEF Approve, Positions, Typed, TypeOK, WriteTypeOK
<1>6. CASE BeginExecute(c)
  BY <1>6 DEF BeginExecute, Positions, Typed, TypeOK, WriteTypeOK
<1>3. CASE RecordIntent(c)
  BY <1>3 DEF RecordIntent, Typed, TypeOK, WriteTypeOK
<1>4. CASE Stage(c) \/ Replace(c, Checked \ {c}) \/ MarkApplied(c) \/ ObservePost(c)
  <2>1. journal[c] # "none"
    BY <1>4 DEF Positions, Stage, Replace, MarkApplied, ObservePost
  <2>2. writer'[c] \notin {"idle", "approved", "executing"}
    BY <1>4 DEF Stage, Replace, MarkApplied, ObservePost, Typed, TypeOK, WriteTypeOK
  <2> QED
    BY <2>1, <2>2, JournalKept
<1>5. CASE VerifyPost(c) \/ Fail(c) \/ Report(c)
  BY <1>5 DEF VerifyPost, Fail, Report, Typed, TypeOK, WriteTypeOK
<1> QED
  BY <1>1, <1>2, <1>3, <1>4, <1>5, <1>6, WriterMoves

\* What a resuming process remembers changes by its own steps, except that an
\* event of the session makes it old.
LEMMA ResumerMoves ==
  ASSUME Typed, [Next]_vars, NEW q \in Resumer
  PROVE  \/ resumer'[q] = resumer[q]
         \/ resumer'[q] = [resumer[q] EXCEPT !.fresh = FALSE]
         \/ Analyze(q) \/ \E c \in Call : ObserveIncomplete(q, c)
         \/ Recover(q) \/ Plan(q) \/ \E r \in Run : BeginResumeCommandRun(q, r)
<1>1. resumer \in [Resumer -> Analysis]
  BY DEF Typed, TypeOK, WriteTypeOK
<1>2. CASE resumer' = EventEmitted
  BY <1>2 DEF EventEmitted
<1>3. ASSUME NEW p \in Resumer, Resume(p) \/ \E r \in Run : BeginResumeCommandRun(p, r), p # q
      PROVE  UNCHANGED resumer[q]
  BY <1>1, <1>3 DEF Resume, Analyze, ObserveIncomplete, Recover, Plan, BeginResumeCommandRun, TakeOver
<1>4. CASE \E p \in Resumer : Resume(p) \/ \E r \in Run : BeginResumeCommandRun(p, r)
  BY <1>3, <1>4 DEF Resume
<1>5. CASE \E c \in Call : Write(c)
  BY <1>2, <1>5 DEF Write, Approve, BeginExecute, RecordIntent, Stage, Replace, MarkApplied,
         ObservePost, VerifyPost, Fail, Report
<1>6. CASE \E k \in Rewind : DoRewind(k)
  BY <1>6 DEF DoRewind, BeginRewindCommand, Refuse, ApproveRewind, StartRewind, StageRewind, Restore, CheckRestored,
              CompleteRewind, InterruptUnstarted, ObserveRewind, RecoverRewindCommand, writeVars
<1>7. CASE (\E r \in Run : BeginRun(r)) \/ EndRun \/ ResolveRecovery
           \/ \E content \in Content : UserEdits(content, Checked)
  BY <1>2, <1>7 DEF BeginRun, EndRun, ResolveRecovery, UserEdits
<1>8. CASE UNCHANGED vars
  BY <1>8 DEF vars, writeVars
<1> QED
  BY <1>4, <1>5, <1>6, <1>7, <1>8 DEF Next

LEMMA StaysAnalyzed ==
  ASSUME Typed, Positions, Analyses, [Next]_vars
  PROVE  Analyses'
<1> SUFFICES ASSUME NEW q \in Resumer
             PROVE  /\ \A c \in resumer'[q].todo : journal'[c] # "none"
                    /\ resumer'[q].at = "observed" =>
                         resumer'[q].call \in Call /\ journal'[resumer'[q].call] # "none"
  BY DEF Analyses
<1>1. resumer[q] \in Analysis /\ resumer \in [Resumer -> Analysis]
  BY DEF Typed, TypeOK, WriteTypeOK
<1>2. \A c \in Call : journal[c] # "none" => journal'[c] # "none"
  BY JournalKept
<1>3. CASE /\ resumer'[q].todo \subseteq resumer[q].todo
           /\ \/ resumer'[q].at # "observed"
              \/ resumer'[q].at = resumer[q].at /\ resumer'[q].call = resumer[q].call
  BY <1>1, <1>2, <1>3 DEF Analyses, Analysis
<1>4. CASE resumer'[q] = [resumer[q] EXCEPT !.fresh = FALSE]
  BY <1>1, <1>3, <1>4 DEF Analysis
<1>5. CASE Analyze(q)
  <2>1. /\ resumer'[q].at = "recovering"
        /\ resumer'[q].todo = {c \in Call : journal[c] \in Incomplete}
    BY <1>1, <1>5 DEF Analyze, NoAnalysis
  <2> QED
    BY <1>2, <2>1 DEF Incomplete
<1>6. ASSUME NEW c \in Call, ObserveIncomplete(q, c)
      PROVE  /\ \A d \in resumer'[q].todo : journal'[d] # "none"
             /\ resumer'[q].call \in Call /\ journal'[resumer'[q].call] # "none"
  <2>1. resumer'[q].todo = resumer[q].todo \ {c} /\ resumer'[q].call = c
    BY <1>1, <1>6 DEF ObserveIncomplete, Analysis
  <2>2. journal[c] # "none" /\ resumer[q].todo \subseteq Call
    BY <1>1, <1>6 DEF ObserveIncomplete, Analyses, Analysis
  <2> QED
    BY <1>2, <2>1, <2>2 DEF Analyses
<1>7. CASE resumer'[q] = NoAnalysis
  BY <1>7 DEF NoAnalysis
<1>8. CASE Recover(q)
  <2>1. CASE resumer'[q] = [resumer[q] EXCEPT !.at = "recovering", !.call = None, !.seen = "other"]
    BY <1>1, <1>3, <2>1 DEF Analysis
  <2> QED
    BY <1>1, <1>7, <1>8, <2>1 DEF Recover
<1>9. CASE Plan(q)
  <2>1. ASSUME NEW call, resumer'[q] = [resumer[q] EXCEPT !.at = "ready", !.call = call]
        PROVE  /\ resumer'[q].todo \subseteq resumer[q].todo
               /\ resumer'[q].at # "observed"
    BY <1>1, <2>1 DEF Analysis
  <2>2. resumer'[q] = NoAnalysis \/ \E call : resumer'[q] = [resumer[q] EXCEPT !.at = "ready", !.call = call]
    BY <1>1, <1>9 DEF Plan
  <2> QED
    BY <1>3, <1>7, <2>1, <2>2
<1>10. CASE \E r \in Run : BeginResumeCommandRun(q, r)
  BY <1>1, <1>7, <1>10 DEF BeginResumeCommandRun, TakeOver
<1> QED
  BY <1>3, <1>4, <1>5, <1>6, <1>8, <1>9, <1>10, ResumerMoves

Kept == Typed /\ Positions /\ Analyses

LEMMA InitKept == ASSUME Init PROVE Kept
<1>1. Positions
  BY DEF Init, WriteInit, Positions
<1>2. \A q \in Resumer : resumer[q] = NoAnalysis
  BY DEF Init, WriteInit
<1> QED
  BY <1>1, <1>2, InitTyped DEF Kept, Analyses, NoAnalysis

LEMMA StaysKept == ASSUME Kept, [Next]_vars PROVE Kept'
BY StaysTyped, StaysPositioned, StaysAnalyzed DEF Kept

LEMMA AlwaysKept == Spec => []Kept
BY InitKept, StaysKept, PTL DEF Spec

\* A journal gets one decision, whoever else decides about it at the same time:
\* the journal implements JournalOutcomes.
THEOREM ImplementsJournal == Spec => RefinesJournalOutcomes
<1> DEFINE fate == [c \in Call |-> IF journal[c] \in Incomplete THEN "open" ELSE journal[c]]
<1>1. Init => Outcomes!Init
  BY DEF Init, WriteInit, Outcomes!Init, Incomplete
<1>2. ASSUME Kept, [Next]_vars PROVE [Outcomes!Next]_fate
  <2>1. journal \in [Call -> JournalStatus]
    BY <1>2 DEF Kept, Typed, TypeOK, WriteTypeOK
  <2>2. ASSUME NEW c \in Call, Opened(c) PROVE Outcomes!Open(c)
    BY <2>1, <2>2 DEF Opened, Outcomes!Open, Incomplete
  <2>3. ASSUME NEW c \in Call, Decided(c)
        PROVE  fate' = fate \/ \E decision \in Outcomes!Decision : Outcomes!Decide(c, decision)
    <3>1. PICK status \in {"applied", "verified", "conflict", "aborted"} : journal' = [journal EXCEPT ![c] = status]
      BY <2>3 DEF Decided
    <3>2. CASE status = "applied"
      BY <2>1, <2>3, <3>1, <3>2 DEF Decided, Incomplete
    <3>3. CASE status # "applied"
      BY <2>1, <2>3, <3>1, <3>3 DEF Decided, Incomplete, Outcomes!Decision, Outcomes!Decide
    <3> QED
      BY <3>2, <3>3
  <2>4. ASSUME NEW c \in Call, Undone(c) PROVE \E end \in {"rewound", "conflict"} : Outcomes!Undo(c, end)
    BY <2>1, <2>4 DEF Undone, Outcomes!Undo, Incomplete
  <2>5. CASE UNCHANGED journal
    BY <2>5
  <2> QED
    BY <1>2, <2>2, <2>3, <2>4, <2>5, JournalMoves DEF Kept, Outcomes!Next
<1> QED
  BY <1>1, <1>2, AlwaysKept, PTL DEF Spec, RefinesJournalOutcomes, Outcomes!Spec

-----------------------------------------------------------------------------
(***************************************************************************)
(* What was on disk.                                                       *)
(***************************************************************************)

\* The steps that touch the file or its history.
LEMMA FileMoves ==
  ASSUME [Next]_vars
  PROVE  \/ UNCHANGED fileVars
         \/ \E c \in Call : RecordIntent(c) \/ Replace(c, Checked \ {c})
         \/ \E k \in Rewind : Restore(k)
         \/ \E content \in Content : UserEdits(content, Checked)
<1>1. ASSUME NEW c \in Call, Write(c) PROVE UNCHANGED fileVars \/ RecordIntent(c) \/ Replace(c, Checked \ {c})
  BY <1>1 DEF Write, Approve, BeginExecute, Stage, MarkApplied, ObservePost, VerifyPost, Fail, Report, fileVars
<1>2. ASSUME NEW q \in Resumer, Resume(q) \/ \E r \in Run : BeginResumeCommandRun(q, r) PROVE UNCHANGED fileVars
  BY <1>2 DEF Resume, Analyze, ObserveIncomplete, Recover, Plan, BeginResumeCommandRun, TakeOver
<1>3. ASSUME NEW k \in Rewind, DoRewind(k) PROVE UNCHANGED fileVars \/ Restore(k)
  BY <1>3 DEF DoRewind, BeginRewindCommand, Refuse, ApproveRewind, StartRewind, StageRewind,
              CheckRestored, CompleteRewind, InterruptUnstarted, ObserveRewind, RecoverRewindCommand, writeVars
<1>4. ASSUME (\E r \in Run : BeginRun(r)) \/ EndRun \/ ResolveRecovery PROVE UNCHANGED fileVars
  BY <1>4 DEF BeginRun, EndRun, ResolveRecovery
<1>5. ASSUME UNCHANGED vars PROVE UNCHANGED fileVars
  BY <1>5 DEF vars, writeVars
<1> QED
  BY <1>1, <1>2, <1>3, <1>4, <1>5 DEF Next

\* The recorded states of a write are set when it is approved and when it begins
\* to execute.
LEMMA StatesMove ==
  ASSUME [Next]_vars
  PROVE  UNCHANGED <<pre, post>> \/ \E c \in Call : BeginExecute(c) \/ \E text \in Text : Approve(c, text)
<1>1. ASSUME NEW c \in Call, Write(c)
      PROVE  UNCHANGED <<pre, post>> \/ BeginExecute(c) \/ \E text \in Text : Approve(c, text)
  BY <1>1 DEF Write, RecordIntent, Stage, Replace, MarkApplied, ObservePost, VerifyPost, Fail, Report, journalVars
<1>2. ASSUME NEW q \in Resumer, Resume(q) \/ \E r \in Run : BeginResumeCommandRun(q, r) PROVE UNCHANGED <<pre, post>>
  BY <1>2 DEF Resume, Analyze, ObserveIncomplete, Recover, Plan, BeginResumeCommandRun, TakeOver, journalVars
<1>3. ASSUME NEW k \in Rewind, DoRewind(k) PROVE UNCHANGED <<pre, post>>
  BY <1>3 DEF DoRewind, BeginRewindCommand, Refuse, ApproveRewind, StartRewind, StageRewind, Restore,
              CheckRestored, CompleteRewind, InterruptUnstarted, ObserveRewind, RecoverRewindCommand,
              writeVars, journalVars
<1>4. ASSUME (\E r \in Run : BeginRun(r)) \/ EndRun \/ ResolveRecovery
              \/ \E content \in Content : UserEdits(content, Checked)
      PROVE  UNCHANGED <<pre, post>>
  BY <1>4 DEF BeginRun, EndRun, ResolveRecovery, UserEdits, journalVars
<1>5. ASSUME UNCHANGED vars PROVE UNCHANGED <<pre, post>>
  BY <1>5 DEF vars, writeVars, journalVars
<1> QED
  BY <1>1, <1>2, <1>3, <1>4, <1>5 DEF Next

\* Whoever has seen the post state of a recorded write, or sees it now, saw what
\* the history says.
PostIsRecorded == \A c \in Call : journal[c] # "none" /\ file = post[c] => c \in postSeen
MatchIsRecorded == \A c \in Call : matched[c] => c \in postSeen
SightIsRecorded == \A q \in Resumer :
  resumer[q].at = "observed" /\ resumer[q].seen = "post" => resumer[q].call \in postSeen

LEMMA HistoryGrows ==
  ASSUME [Next]_vars
  PROVE  postSeen \subseteq postSeen' /\ raced \subseteq raced' /\ clobbered \subseteq clobbered'
BY FileMoves DEF fileVars, RecordIntent, Replace, Restore, UserEdits, FileBecomes

LEMMA PostStaysRecorded ==
  ASSUME Kept, PostIsRecorded, [Next]_vars
  PROVE  PostIsRecorded'
<1>1. ASSUME NEW content, NEW stale, FileBecomes(content, stale), UNCHANGED <<journal, post>>
      PROVE  PostIsRecorded'
  BY <1>1 DEF FileBecomes, PostIsRecorded
<1>2. ASSUME NEW c \in Call, RecordIntent(c) PROVE PostIsRecorded'
  <2>1. ASSUME NEW d \in Call, journal'[d] # "none", file' = post'[d] PROVE d \in postSeen'
    BY <1>2, <2>1, HistoryGrows DEF RecordIntent, PostIsRecorded, Kept, Typed, TypeOK, WriteTypeOK
  <2> QED
    BY <2>1 DEF PostIsRecorded
<1>3. ASSUME NEW c \in Call, NEW text \in Text, Approve(c, text) PROVE PostIsRecorded'
  <2>1. journal[c] = "none"
    BY <1>3 DEF Approve, Kept, Positions
  <2>2. ASSUME NEW d \in Call, d # c PROVE post'[d] = post[d]
    BY <1>3, <2>2 DEF Approve, Kept, Typed, TypeOK, WriteTypeOK
  <2> QED
    BY <1>3, <2>1, <2>2 DEF Approve, fileVars, PostIsRecorded
<1>8. ASSUME NEW c \in Call, BeginExecute(c) PROVE PostIsRecorded'
  <2>1. journal[c] = "none"
    BY <1>8 DEF BeginExecute, Kept, Positions
  <2>2. ASSUME NEW d \in Call, d # c PROVE post'[d] = post[d]
    BY <1>8, <2>2 DEF BeginExecute, Kept, Typed, TypeOK, WriteTypeOK
  <2> QED
    BY <1>8, <2>1, <2>2 DEF BeginExecute, fileVars, PostIsRecorded
<1>4. CASE UNCHANGED fileVars /\ UNCHANGED <<pre, post>>
  <2>1. ASSUME NEW d \in Call, journal[d] = "none", journal'[d] # "none", file' = post'[d] PROVE d \in postSeen'
    <3>1. writer[d] = "executing" /\ writer'[d] = "intent"
      BY <2>1, JournalKept DEF Kept
    <3>2. RecordIntent(d)
      BY <3>1, WriterMoves DEF Kept, Typed, TypeOK, WriteTypeOK, Approve, BeginExecute, Stage, Replace, MarkApplied, ObservePost,
                               VerifyPost, Fail, Report
    <3> QED
      BY <1>2, <2>1, <3>2 DEF PostIsRecorded
  <2> QED
    BY <1>4, <2>1 DEF PostIsRecorded, fileVars
<1>5. CASE \E c \in Call : Replace(c, Checked \ {c})
  BY <1>1, <1>5 DEF Replace, journalVars
<1>6. CASE \E k \in Rewind : Restore(k)
  BY <1>1, <1>6 DEF Restore, journalVars
<1>7. CASE \E content \in Content : UserEdits(content, Checked)
  BY <1>1, <1>7 DEF UserEdits, journalVars
<1> QED
  BY <1>2, <1>3, <1>4, <1>5, <1>6, <1>7, <1>8, FileMoves, StatesMove

LEMMA MatchStaysRecorded ==
  ASSUME Kept, PostIsRecorded, MatchIsRecorded, [Next]_vars
  PROVE  MatchIsRecorded'
<1>1. ASSUME NEW c \in Call, ObservePost(c) PROVE MatchIsRecorded'
  <2>1. journal[c] # "none"
    BY <1>1 DEF ObservePost, Kept, Positions
  <2> QED
    BY <1>1, <2>1 DEF ObservePost, fileVars, PostIsRecorded, MatchIsRecorded, Kept, Typed, TypeOK, WriteTypeOK
<1>2. CASE UNCHANGED matched
  BY <1>2, HistoryGrows DEF MatchIsRecorded
<1>3. ASSUME NEW c \in Call, Write(c) PROVE UNCHANGED matched \/ ObservePost(c)
  BY <1>3 DEF Write, Approve, BeginExecute, RecordIntent, Stage, Replace, MarkApplied, VerifyPost, Fail, Report
<1>4. ASSUME NEW q \in Resumer, Resume(q) \/ \E r \in Run : BeginResumeCommandRun(q, r) PROVE UNCHANGED matched
  BY <1>4 DEF Resume, Analyze, ObserveIncomplete, Recover, Plan, BeginResumeCommandRun, TakeOver, toolVars
<1>5. ASSUME NEW k \in Rewind, DoRewind(k) PROVE UNCHANGED matched
  BY <1>5 DEF DoRewind, BeginRewindCommand, Refuse, ApproveRewind, StartRewind, StageRewind, Restore,
              CheckRestored, CompleteRewind, InterruptUnstarted, ObserveRewind, RecoverRewindCommand,
              writeVars, toolVars
<1>6. ASSUME (\E r \in Run : BeginRun(r)) \/ EndRun \/ ResolveRecovery
              \/ \E content \in Content : UserEdits(content, Checked)
      PROVE  UNCHANGED matched
  BY <1>6 DEF BeginRun, EndRun, ResolveRecovery, UserEdits, toolVars
<1>7. ASSUME UNCHANGED vars PROVE UNCHANGED matched
  BY <1>7 DEF vars, writeVars, toolVars
<1> QED
  BY <1>1, <1>2, <1>3, <1>4, <1>5, <1>6, <1>7 DEF Next

LEMMA SightStaysRecorded ==
  ASSUME Kept, PostIsRecorded, SightIsRecorded, [Next]_vars
  PROVE  SightIsRecorded'
<1> SUFFICES ASSUME NEW q \in Resumer, resumer'[q].at = "observed", resumer'[q].seen = "post"
             PROVE  resumer'[q].call \in postSeen'
  BY DEF SightIsRecorded
<1>1. resumer[q] \in Analysis /\ resumer \in [Resumer -> Analysis]
  BY DEF Kept, Typed, TypeOK, WriteTypeOK
<1>2. CASE resumer'[q] = resumer[q]
  BY <1>2, HistoryGrows DEF SightIsRecorded
<1>3. CASE resumer'[q] = [resumer[q] EXCEPT !.fresh = FALSE]
  BY <1>1, <1>3, HistoryGrows DEF SightIsRecorded, Analysis
<1>4. ASSUME NEW c \in Call, ObserveIncomplete(q, c) PROVE resumer'[q].call \in postSeen'
  <2>1. resumer'[q].call = c /\ resumer'[q].seen = Observed(c)
    BY <1>1, <1>4 DEF ObserveIncomplete, Analysis
  <2>2. file = post[c]
    BY <2>1 DEF Observed
  <2>3. journal[c] # "none"
    BY <1>4 DEF ObserveIncomplete, Kept, Analyses
  <2> QED
    BY <2>1, <2>2, <2>3, HistoryGrows DEF PostIsRecorded
<1>5. CASE Analyze(q)
  BY <1>1, <1>5 DEF Analyze, NoAnalysis
<1>6. CASE Recover(q)
  BY <1>1, <1>6 DEF Recover, NoAnalysis, Analysis
<1>7. CASE Plan(q)
  <2>1. ASSUME NEW call, resumer'[q] = [resumer[q] EXCEPT !.at = "ready", !.call = call]
        PROVE  resumer'[q].at # "observed"
    BY <1>1, <2>1 DEF Analysis
  <2>2. resumer'[q] = NoAnalysis \/ \E call : resumer'[q] = [resumer[q] EXCEPT !.at = "ready", !.call = call]
    BY <1>1, <1>7 DEF Plan
  <2>3. resumer'[q] # NoAnalysis
    BY DEF NoAnalysis
  <2> QED
    BY <2>1, <2>2, <2>3
<1>8. CASE \E r \in Run : BeginResumeCommandRun(q, r)
  BY <1>1, <1>8 DEF BeginResumeCommandRun, TakeOver, NoAnalysis
<1> QED
  BY <1>2, <1>3, <1>4, <1>5, <1>6, <1>7, <1>8, ResumerMoves DEF Kept

\* A journal becomes verified by its writer, by a resume, or, when it is verified
\* already, by a rewind that finds it so.
LEMMA VerifiedMoves ==
  ASSUME Kept, [Next]_vars, NEW c \in Call, journal'[c] = "verified", journal[c] # "verified"
  PROVE  VerifyPost(c) \/ \E q \in Resumer : Recover(q) /\ resumer[q].call = c
<1> USE DEF Kept, Typed, TypeOK, WriteTypeOK
<1>1. journal'[c] # journal[c]
  OBVIOUS
<1>2. ASSUME NEW d \in Call, Write(d) PROVE VerifyPost(c)
  BY <1>1, <1>2 DEF Write, Approve, BeginExecute, RecordIntent, Stage, Replace, MarkApplied,
         ObservePost, VerifyPost, Fail, Report,
              Transition, journalVars
<1>3. ASSUME NEW q \in Resumer, Resume(q) PROVE Recover(q) /\ resumer[q].call = c
  BY <1>1, <1>3 DEF Resume, Analyze, ObserveIncomplete, Recover, Plan, Transition, journalVars
<1>4. ASSUME NEW q \in Resumer, NEW r \in Run, BeginResumeCommandRun(q, r) PROVE FALSE
  BY <1>1, <1>4 DEF BeginResumeCommandRun, TakeOver, journalVars
<1>5. ASSUME NEW k \in Rewind, DoRewind(k) PROVE FALSE
  BY <1>1, <1>5 DEF DoRewind, BeginRewindCommand, Refuse, ApproveRewind, StartRewind, StageRewind, Restore,
              CheckRestored, CompleteRewind, InterruptUnstarted, ObserveRewind, RecoverRewindCommand,
              OutcomeAccepted, writeVars, journalVars
<1>6. ASSUME (\E r \in Run : BeginRun(r)) \/ EndRun \/ ResolveRecovery
              \/ \E content \in Content : UserEdits(content, Checked)
      PROVE  FALSE
  BY <1>1, <1>6 DEF BeginRun, EndRun, ResolveRecovery, UserEdits, journalVars
<1>7. ASSUME UNCHANGED vars PROVE FALSE
  BY <1>1, <1>7 DEF vars, writeVars, journalVars
<1> HIDE DEF Kept
<1> QED
  BY <1>2, <1>3, <1>4, <1>5, <1>6, <1>7 DEF Next

Recorded == PostIsRecorded /\ MatchIsRecorded /\ SightIsRecorded /\ VerifiedWasObserved

LEMMA VerifiedStaysObserved ==
  ASSUME Kept, Recorded, [Next]_vars
  PROVE  VerifiedWasObserved'
<1> SUFFICES ASSUME NEW c \in Call, journal'[c] \in {"verified", "rewound"} PROVE c \in postSeen'
  BY DEF VerifiedWasObserved
<1>1. CASE journal[c] \in {"verified", "rewound"}
  BY <1>1, HistoryGrows DEF Recorded, VerifiedWasObserved
<1>2. CASE journal[c] \notin {"verified", "rewound"}
  <2>1. journal'[c] = "verified"
    BY <1>2, JournalMoves DEF Kept, Typed, TypeOK, WriteTypeOK, Opened, Decided, Undone
  <2>2. CASE VerifyPost(c)
    <3>1. journal' = [journal EXCEPT ![c] = IF @ \in Incomplete THEN PostDecision(c) ELSE @]
      BY <2>2 DEF VerifyPost, Transition
    <3>2. PostDecision(c) = "verified"
      BY <1>2, <2>1, <3>1 DEF Kept, Typed, TypeOK, WriteTypeOK
    <3> QED
      BY <3>2, HistoryGrows DEF PostDecision, Recorded, MatchIsRecorded
  <2>3. ASSUME NEW q \in Resumer, Recover(q), resumer[q].call = c PROVE c \in postSeen'
    <3>1. journal' = [journal EXCEPT ![c] = IF @ \in Incomplete THEN RecoveryDecision(resumer[q].seen) ELSE @]
      BY <2>3 DEF Recover, Transition
    <3>2. RecoveryDecision(resumer[q].seen) = "verified"
      BY <1>2, <2>1, <3>1 DEF Kept, Typed, TypeOK, WriteTypeOK
    <3>3. resumer[q].seen = "post"
      BY <3>2 DEF RecoveryDecision
    <3> QED
      BY <2>3, <3>3, HistoryGrows DEF Recover, Recorded, SightIsRecorded
  <2> QED
    BY <1>2, <2>1, <2>2, <2>3, VerifiedMoves
<1> QED
  BY <1>1, <1>2

\* A journal that says the write is in place was not guessed: the post state has
\* been on disk since the intent was recorded, whoever made the decision.
THEOREM VerifiedIsObserved == Spec => []VerifiedWasObserved
<1>1. Init => Recorded
  BY DEF Init, WriteInit, NoAnalysis, Recorded, PostIsRecorded, MatchIsRecorded, SightIsRecorded, VerifiedWasObserved
<1>2. ASSUME Kept, Recorded, [Next]_vars PROVE Recorded'
  BY <1>2, PostStaysRecorded, MatchStaysRecorded, SightStaysRecorded, VerifiedStaysObserved DEF Recorded
<1>3. Recorded => VerifiedWasObserved
  BY DEF Recorded
<1> QED
  BY <1>1, <1>2, <1>3, AlwaysKept, PTL DEF Spec

-----------------------------------------------------------------------------
(***************************************************************************)
(* Commands and journals.                                                  *)
(***************************************************************************)

Undoable == {"verified", "rewound", "conflict"}

\* A command is about a write that was decided, and a journal is bound to the
\* command that started to undo it.
Aimed == \A k \in Rewind : cmd[k] # "none" => journal[target[k]] \in Undoable

Bonds == \A c \in Call : bound[c] # None =>
  /\ target[bound[c]] = c
  /\ cmd[bound[c]] \notin {"none", "accepted"}
  /\ journal[c] \in Undoable

Agreed == Aimed /\ Bonds /\ RewindOutcomesAgree

\* Only a rewind moves what is bound to it.
LEMMA UndoableMoves ==
  ASSUME Kept, [Next]_vars, NEW c \in Call, journal[c] \in Undoable, journal'[c] # journal[c]
  PROVE  \E k \in Rewind : CompleteRewind(k) \/ \E seen \in Observation : RecoverRewindCommand(k, seen)
<1> USE DEF Kept, Typed, TypeOK, WriteTypeOK
<1>1. journal[c] \notin Incomplete \cup {"none"}
  BY DEF Undoable, Incomplete
<1>2. ASSUME NEW d \in Call, Write(d) PROVE FALSE
  <2>1. ASSUME RecordIntent(d) PROVE FALSE
    BY <1>1, <2>1 DEF RecordIntent, Positions
  <2> QED
    BY <1>1, <1>2, <2>1 DEF Write, Approve, BeginExecute, Stage, Replace, MarkApplied, ObservePost, VerifyPost, Fail, Report,
                            Transition, journalVars
<1>3. ASSUME NEW q \in Resumer, Resume(q) PROVE FALSE
  BY <1>1, <1>3 DEF Resume, Analyze, ObserveIncomplete, Recover, Plan, Transition, journalVars
<1>4. ASSUME NEW q \in Resumer, NEW r \in Run, BeginResumeCommandRun(q, r) PROVE FALSE
  BY <1>4 DEF BeginResumeCommandRun, TakeOver, journalVars
<1>5. ASSUME NEW k \in Rewind, DoRewind(k)
      PROVE  CompleteRewind(k) \/ \E seen \in Observation : RecoverRewindCommand(k, seen)
  BY <1>5 DEF DoRewind, BeginRewindCommand, Refuse, ApproveRewind, StartRewind, StageRewind, Restore,
              CheckRestored, InterruptUnstarted, ObserveRewind, writeVars, journalVars
<1>6. ASSUME (\E r \in Run : BeginRun(r)) \/ EndRun \/ ResolveRecovery
              \/ \E content \in Content : UserEdits(content, Checked)
      PROVE  FALSE
  BY <1>6 DEF BeginRun, EndRun, ResolveRecovery, UserEdits, journalVars
<1>7. ASSUME UNCHANGED vars PROVE FALSE
  BY <1>7 DEF vars, writeVars, journalVars
<1> HIDE DEF Kept
<1> QED
  BY <1>2, <1>3, <1>4, <1>5, <1>6, <1>7 DEF Next

\* The steps that change a command or a bond.
LEMMA CommandMoves ==
  ASSUME [Next]_vars
  PROVE  \/ UNCHANGED <<cmd, target, bound>>
         \/ \E q \in Resumer, r \in Run : BeginResumeCommandRun(q, r)
         \/ \E k \in Rewind :
              \/ \E c \in Call : BeginRewindCommand(k, c)
              \/ \E status \in {"rejected", "failed"} : Refuse(k, status)
              \/ StartRewind(k) \/ CompleteRewind(k) \/ InterruptUnstarted(k)
              \/ \E seen \in Observation : RecoverRewindCommand(k, seen)
<1>1. ASSUME UNCHANGED rewindVars, UNCHANGED bound PROVE UNCHANGED <<cmd, target, bound>>
  BY <1>1 DEF rewindVars
<1>2. ASSUME NEW c \in Call, Write(c) PROVE UNCHANGED bound
  BY <1>2 DEF Write, Approve, BeginExecute, RecordIntent, Stage, Replace, MarkApplied, ObservePost, VerifyPost, Fail, Report
<1>3. ASSUME NEW q \in Resumer, Resume(q) PROVE UNCHANGED bound
  BY <1>3 DEF Resume, Analyze, ObserveIncomplete, Recover, Plan
<1>4. ASSUME (\E r \in Run : BeginRun(r)) \/ EndRun \/ ResolveRecovery
              \/ \E content \in Content : UserEdits(content, Checked)
      PROVE  UNCHANGED bound
  BY <1>4 DEF BeginRun, EndRun, ResolveRecovery, UserEdits
<1>5. ASSUME NEW k \in Rewind, ApproveRewind(k) \/ StageRewind(k) \/ Restore(k) \/ CheckRestored(k)
                               \/ ObserveRewind(k)
      PROVE  UNCHANGED <<cmd, target, bound>>
  BY <1>5 DEF ApproveRewind, StageRewind, Restore, CheckRestored, ObserveRewind, writeVars
<1>6. ASSUME UNCHANGED vars PROVE UNCHANGED <<cmd, target, bound>>
  BY <1>6 DEF vars, writeVars, rewindVars
<1> QED
  BY <1>1, <1>2, <1>3, <1>4, <1>5, <1>6 DEF Next, DoRewind

\* A rewind that succeeds, whoever finds out.
LEMMA AppliedAgrees ==
  ASSUME Kept, Agreed, NEW k \in Rewind, target[k] \in Call, OutcomeAccepted(k),
         cmd' = [cmd EXCEPT ![k] = "applied"], journal' = [journal EXCEPT ![target[k]] = "rewound"],
         UNCHANGED <<bound, target>>
  PROVE  Agreed'
<1> DEFINE c == target[k]
<1> USE DEF Kept, Typed, TypeOK, WriteTypeOK
<1>1. bound[c] = k /\ cmd[k] = "running" /\ journal[c] = "verified"
  BY DEF OutcomeAccepted
<1>2. Aimed'
  BY <1>1 DEF Aimed, Agreed, Undoable, Registered
<1>3. Bonds'
  BY <1>1 DEF Bonds, Agreed, Undoable
<1>4. ASSUME NEW i \in Rewind, cmd'[i] = "applied" PROVE bound'[target'[i]] = i /\ journal'[target'[i]] = "rewound"
  BY <1>1, <1>4 DEF RewindOutcomesAgree, Agreed, Registered
<1>5. ASSUME NEW d \in Call, journal'[d] = "rewound" PROVE bound'[d] # None /\ cmd'[bound'[d]] = "applied"
  BY <1>1, <1>5, NoneIsNobody DEF RewindOutcomesAgree, Agreed, Bonds
<1>6. ASSUME NEW d \in Call, journal'[d] = "conflict", bound'[d] # None PROVE cmd'[bound'[d]] = "failed"
  BY <1>1, <1>6 DEF RewindOutcomesAgree, Agreed, Bonds
<1> HIDE DEF Kept
<1>7. RewindOutcomesAgree'
  BY <1>4, <1>5, <1>6 DEF RewindOutcomesAgree
<1> QED
  BY <1>2, <1>3, <1>7 DEF Agreed

LEMMA StaysAgreed ==
  ASSUME Kept, Agreed, [Next]_vars
  PROVE  Agreed'
<1> USE DEF Kept, Typed, TypeOK, WriteTypeOK
<1>1. \A k \in Rewind : cmd[k] # "none" => target[k] \in Call
  BY DEF Registered
<1>2. CASE UNCHANGED <<cmd, target, bound>>
           /\ ~ \E k \in Rewind : CompleteRewind(k) \/ \E seen \in Observation : RecoverRewindCommand(k, seen)
  <2>1. ASSUME NEW c \in Call, journal[c] \in Undoable PROVE journal'[c] = journal[c]
    BY <1>2, <2>1, UndoableMoves
  <2>2. ASSUME NEW c \in Call, journal'[c] = "rewound" PROVE journal[c] = "rewound"
    BY <2>1, <2>2, JournalMoves DEF Opened, Decided, Undone, Undoable
  <2>3. Aimed'
    BY <1>1, <1>2, <2>1 DEF Aimed, Agreed
  <2>4. Bonds'
    BY <1>2, <2>1 DEF Bonds, Agreed
  <2>5. RewindOutcomesAgree'
    BY <1>1, <1>2, <2>1, <2>2 DEF RewindOutcomesAgree, Aimed, Bonds, Agreed
  <2> QED
    BY <2>3, <2>4, <2>5 DEF Agreed
<1>3. ASSUME NEW q \in Resumer, NEW r \in Run, BeginResumeCommandRun(q, r) PROVE Agreed'
  BY <1>3 DEF BeginResumeCommandRun, TakeOver, journalVars, InterruptedByResume, OpenStatus,
              Agreed, Aimed, Bonds, RewindOutcomesAgree
<1>4. ASSUME NEW k \in Rewind, NEW c \in Call, BeginRewindCommand(k, c) PROVE Agreed'
  BY <1>4 DEF BeginRewindCommand, Unclaimed, writeVars, journalVars, Undoable,
              Agreed, Aimed, Bonds, RewindOutcomesAgree
<1>5. ASSUME NEW k \in Rewind, (\E status \in {"rejected", "failed"} : Refuse(k, status)) \/ InterruptUnstarted(k)
      PROVE  Agreed'
  BY <1>5 DEF Refuse, InterruptUnstarted, writeVars, journalVars, Agreed, Aimed, Bonds, RewindOutcomesAgree
<1>6. ASSUME NEW k \in Rewind, StartRewind(k) PROVE Agreed'
  BY <1>1, <1>6, NoneIsNobody DEF StartRewind, MayStart, Unclaimed, journalVars, Undoable,
              Agreed, Aimed, Bonds, RewindOutcomesAgree
<1>7. ASSUME NEW k \in Rewind, CompleteRewind(k) PROVE Agreed'
  <2>1. target[k] \in Call /\ OutcomeAccepted(k) /\ cmd' = [cmd EXCEPT ![k] = "applied"]
    BY <1>1, <1>7 DEF CompleteRewind, OutcomeAccepted, SettleRunning
  <2> QED
    BY <1>7, <2>1, AppliedAgrees DEF CompleteRewind
<1>8. ASSUME NEW k \in Rewind, NEW seen \in Observation, RecoverRewindCommand(k, seen) PROVE Agreed'
  <2>1. CASE ~ OutcomeAccepted(k)
    BY <1>8, <2>1 DEF RecoverRewindCommand, Agreed, Aimed, Bonds, RewindOutcomesAgree
  <2>2. CASE OutcomeAccepted(k)
    <3> DEFINE c == target[k]
    <3>1. /\ c \in Call /\ bound[c] = k /\ cmd[k] = "running" /\ journal[c] = "verified"
          /\ cmd' = [cmd EXCEPT ![k] = RecoveredCommand(seen)]
          /\ journal' = [journal EXCEPT ![c] = RecoveredJournal(seen)]
          /\ bound' = [bound EXCEPT ![c] = IF seen = "post" THEN None ELSE k]
          /\ UNCHANGED target
      BY <1>1, <1>8, <2>2 DEF RecoverRewindCommand, OutcomeAccepted, SettleRunning
    <3>2. CASE seen = "pre"
      <4>1. RecoveredCommand(seen) = "applied" /\ RecoveredJournal(seen) = "rewound"
        BY <3>2 DEF RecoveredCommand, RecoveredJournal
      <4>2. UNCHANGED <<bound, target>>
        BY <3>1, <3>2
      <4> QED
        BY <2>2, <3>1, <4>1, <4>2, AppliedAgrees
    <3>3. CASE seen = "post"
      <4>1. RecoveredCommand(seen) = "interrupted" /\ RecoveredJournal(seen) = "verified"
        BY <3>3 DEF RecoveredCommand, RecoveredJournal
      <4> QED
        BY <1>1, <3>1, <3>3, <4>1 DEF Undoable, Agreed, Aimed, Bonds, RewindOutcomesAgree
    <3>4. CASE seen = "other"
      <4>1. RecoveredCommand(seen) = "failed" /\ RecoveredJournal(seen) = "conflict"
        BY <3>4 DEF RecoveredCommand, RecoveredJournal
      <4> QED
        BY <1>1, <3>1, <3>4, <4>1 DEF Undoable, Agreed, Aimed, Bonds, RewindOutcomesAgree
    <3> QED
      BY <3>2, <3>3, <3>4 DEF Observation
  <2> QED
    BY <2>1, <2>2
<1> HIDE DEF Kept
<1> QED
  BY <1>2, <1>3, <1>4, <1>5, <1>6, <1>7, <1>8, CommandMoves

\* The journal is rewound exactly if the command bound to it is applied, and a
\* rewind that ended in a conflict is a failed command.
THEOREM OutcomesAgree == Spec => []RewindOutcomesAgree
<1>1. Init => Agreed
  BY DEF Init, WriteInit, Agreed, Aimed, Bonds, RewindOutcomesAgree
<1>2. ASSUME Kept, Agreed, [Next]_vars PROVE Agreed'
  BY <1>2, StaysAgreed
<1>3. Agreed => RewindOutcomesAgree
  BY DEF Agreed
<1> QED
  BY <1>1, <1>2, <1>3, AlwaysKept, PTL DEF Spec

\* What was answered about a rewind command stands: a process that still waits
\* for approval cannot start a command that a retry or a resume has settled.
THEOREM AnswersStand == Spec => RewindAnswersStand
<1>1. ASSUME Kept, [Next]_vars PROVE \A k \in Rewind : cmd[k] \in SettledStatus => cmd'[k] = cmd[k]
  <2> SUFFICES ASSUME NEW k \in Rewind, cmd[k] \in SettledStatus PROVE cmd'[k] = cmd[k]
    OBVIOUS
  <2>1. cmd[k] \notin OpenStatus \cup {"none"}
    BY DEF SettledStatus, OpenStatus
  <2>2. cmd \in [Rewind -> {"none"} \cup OpenStatus \cup SettledStatus]
    BY <1>1 DEF Kept, Typed, TypeOK
  <2>3. ASSUME NEW q \in Resumer, NEW r \in Run, BeginResumeCommandRun(q, r) PROVE cmd'[k] = cmd[k]
    BY <2>1, <2>3 DEF BeginResumeCommandRun, InterruptedByResume
  <2>4. ASSUME NEW i \in Rewind, \/ \E c \in Call : BeginRewindCommand(i, c)
                                \/ \E status \in {"rejected", "failed"} : Refuse(i, status)
                                \/ StartRewind(i) \/ InterruptUnstarted(i)
        PROVE  cmd'[k] = cmd[k]
    BY <2>1, <2>2, <2>4 DEF BeginRewindCommand, Refuse, StartRewind, MayStart, InterruptUnstarted, OpenStatus
  <2>5. ASSUME NEW i \in Rewind, CompleteRewind(i) \/ \E seen \in Observation : RecoverRewindCommand(i, seen)
        PROVE  cmd'[k] = cmd[k]
    BY <2>1, <2>2, <2>5 DEF CompleteRewind, RecoverRewindCommand, SettleRunning, OpenStatus
  <2> QED
    BY <1>1, <2>3, <2>4, <2>5, CommandMoves
<1> QED
  BY <1>1, AlwaysKept, PTL DEF Spec, RewindAnswersStand

-----------------------------------------------------------------------------
(***************************************************************************)
(* What is replaced.                                                       *)
(***************************************************************************)

\* Whoever is about to write acts on what is on disk, or has been overtaken.
WriteIsAware == \A c \in Call : writer[c] = "staged" /\ Differs(c, file, pre[c]) => c \in raced
RewindIsAware == \A k \in Rewind : rewinder[k] = "staged" /\ file # post[target[k]] => k \in raced
WaitingIsHarmless == \A c \in Call : writer[c] \in {"idle", "approved"} => c \notin clobbered

LEMMA RewinderStages ==
  ASSUME Kept, [Next]_vars, NEW k \in Rewind, rewinder'[k] = "staged", rewinder[k] # "staged"
  PROVE  StageRewind(k)
<1> USE DEF Kept, Typed, TypeOK
<1>1. rewinder' # rewinder
  OBVIOUS
<1>2. ASSUME NEW i \in Rewind, DoRewind(i) PROVE StageRewind(k)
  BY <1>1, <1>2 DEF DoRewind, BeginRewindCommand, Refuse, ApproveRewind, StartRewind, StageRewind, Restore,
              CheckRestored, CompleteRewind, InterruptUnstarted, ObserveRewind, RecoverRewindCommand
<1>3. ASSUME NEW q \in Resumer, NEW r \in Run, BeginResumeCommandRun(q, r) PROVE FALSE
  BY <1>1, <1>3 DEF BeginResumeCommandRun
<1>4. ASSUME UNCHANGED rewindVars PROVE FALSE
  BY <1>1, <1>4 DEF rewindVars
<1>5. ASSUME UNCHANGED vars PROVE FALSE
  BY <1>4, <1>5 DEF vars
<1> HIDE DEF Kept
<1> QED
  BY <1>2, <1>3, <1>4, <1>5 DEF Next

\* Whoever has checked the file and is about to write is overtaken by every change
\* of it that is not his own.
LEMMA ChangeOvertakes ==
  ASSUME Kept, [Next]_vars, NEW i \in Checked, Differs(i, file, file'),
         i \in Call => writer'[i] = "staged", i \in Rewind => rewinder'[i] = "staged"
  PROVE  i \in raced'
<1> USE DEF Kept, Typed, TypeOK, WriteTypeOK
<1>1. ASSUME NEW c \in Call, Replace(c, Checked \ {c}) PROVE i \in raced'
  <2>1. writer'[c] = "replaced"
    BY <1>1 DEF Replace
  <2> QED
    BY <1>1, <2>1 DEF Replace, FileBecomes
<1>2. ASSUME NEW k \in Rewind, Restore(k) PROVE i \in raced'
  <2>1. rewinder'[k] = "restored"
    BY <1>2 DEF Restore
  <2> QED
    BY <1>2, <2>1 DEF Restore, FileBecomes
<1>3. ASSUME NEW content \in Content, UserEdits(content, Checked) PROVE i \in raced'
  BY <1>3 DEF UserEdits, FileBecomes
<1>4. ASSUME UNCHANGED fileVars \/ \E c \in Call : RecordIntent(c) PROVE FALSE
  BY <1>4 DEF fileVars, RecordIntent, Differs
<1> HIDE DEF Kept
<1> QED
  BY <1>1, <1>2, <1>3, <1>4, FileMoves

LEMMA WriteStaysAware ==
  ASSUME Kept, WriteIsAware, [Next]_vars
  PROVE  WriteIsAware'
<1> SUFFICES ASSUME NEW c \in Call, writer'[c] = "staged", Differs(c, file', pre'[c]) PROVE c \in raced'
  BY DEF WriteIsAware
<1> USE DEF Kept, Typed, TypeOK, WriteTypeOK
<1>1. CASE writer[c] # "staged"
  <2>1. Stage(c)
    BY <1>1, WriterMoves
       DEF Approve, BeginExecute, RecordIntent, Replace, MarkApplied, ObservePost, VerifyPost, Fail, Report
  <2> QED
    BY <2>1 DEF Stage, UnchangedSinceApproval, fileVars, journalVars
<1>2. CASE writer[c] = "staged"
  <2>1. pre'[c] = pre[c]
    BY <1>2, StatesMove DEF Approve, BeginExecute
  <2>2. CASE ~ Differs(c, file, file')
    <3>1. Differs(c, file, pre[c])
      BY <2>1, <2>2, CallsAreNotRewinds DEF Differs
    <3> QED
      BY <1>2, <3>1, HistoryGrows DEF WriteIsAware
  <2>3. CASE Differs(c, file, file')
    <3>1. c \in Checked /\ c \notin Rewind
      BY <1>2, CallsAreNotRewinds DEF Checked
    <3> QED
      BY <2>3, <3>1, ChangeOvertakes
  <2> QED
    BY <2>2, <2>3
<1> QED
  BY <1>1, <1>2

LEMMA RewindStaysAware ==
  ASSUME Kept, Agreed, RewindIsAware, [Next]_vars
  PROVE  RewindIsAware'
<1> SUFFICES ASSUME NEW k \in Rewind, rewinder'[k] = "staged", file' # post'[target'[k]] PROVE k \in raced'
  BY DEF RewindIsAware
<1> USE DEF Kept, Typed, TypeOK, WriteTypeOK
<1>1. CASE rewinder[k] # "staged"
  BY <1>1, RewinderStages DEF StageRewind, writeVars, fileVars, journalVars
<1>2. CASE rewinder[k] = "staged"
  <2>1. cmd[k] # "none" /\ target[k] \in Call /\ journal[target[k]] \in Undoable
    BY <1>2 DEF Registered, Agreed, Aimed
  <2>2. target'[k] = target[k]
    BY <2>1, CommandMoves DEF BeginResumeCommandRun, BeginRewindCommand, Refuse, StartRewind, CompleteRewind,
                              InterruptUnstarted, RecoverRewindCommand
  <2>3. post'[target[k]] = post[target[k]]
    <3>1. writer[target[k]] \notin {"idle", "approved"}
      BY <2>1 DEF Positions, Undoable
    <3> QED
      BY <2>1, <3>1, StatesMove DEF Approve, BeginExecute
  <2>4. CASE file' = file
    BY <1>2, <2>2, <2>3, <2>4, HistoryGrows DEF RewindIsAware
  <2>5. CASE file' # file
    <3>1. k \in Checked /\ k \notin Call /\ Differs(k, file, file')
      BY <1>2, <2>5, CallsAreNotRewinds DEF Checked, Differs
    <3> QED
      BY <2>5, <3>1, ChangeOvertakes
  <2> QED
    BY <2>4, <2>5
<1> QED
  BY <1>1, <1>2

\* The only steps that overwrite something.
LEMMA ClobberMoves ==
  ASSUME [Next]_vars, NEW i, i \in clobbered', i \notin clobbered
  PROVE  \/ i \in Call /\ Replace(i, Checked \ {i}) /\ Differs(i, file, pre[i])
         \/ i \in Rewind /\ Restore(i) /\ Differs(i, file, post[target[i]])
BY FileMoves DEF fileVars, RecordIntent, Replace, Restore, UserEdits

Aware == WriteIsAware /\ RewindIsAware /\ WaitingIsHarmless /\ ReplacesOnlyWhatItChecked

LEMMA StaysAware ==
  ASSUME Kept, Agreed, Aware, [Next]_vars
  PROVE  Aware'
<1> USE DEF Kept, Typed, TypeOK, WriteTypeOK
<1>1. clobbered' \subseteq raced'
  <2> SUFFICES ASSUME NEW i \in clobbered' PROVE i \in raced'
    OBVIOUS
  <2>1. CASE i \in clobbered
    BY <2>1, HistoryGrows DEF Aware, ReplacesOnlyWhatItChecked
  <2>2. CASE i \in Call /\ Replace(i, Checked \ {i}) /\ Differs(i, file, pre[i])
    BY <2>2, HistoryGrows DEF Replace, Aware, WriteIsAware
  <2>3. CASE i \in Rewind /\ Restore(i) /\ Differs(i, file, post[target[i]])
    BY <2>3, HistoryGrows DEF Restore, Aware, RewindIsAware, Differs
  <2> QED
    BY <2>1, <2>2, <2>3, ClobberMoves
<1>2. ASSUME NEW c \in Call, c \in clobbered' PROVE writer'[c] \notin {"idle", "approved"} /\ pre'[c] # Absent
  <2>1. CASE c \in clobbered
    <3>1. writer[c] \notin {"idle", "approved"} /\ pre[c] # Absent
      BY <2>1 DEF Aware, WaitingIsHarmless, ReplacesOnlyWhatItChecked
    <3>2. writer'[c] \notin {"idle", "approved"}
      BY <3>1, WriterMoves
         DEF Approve, BeginExecute, RecordIntent, Stage, Replace, MarkApplied, ObservePost, VerifyPost, Fail, Report
    <3>3. pre'[c] = pre[c]
      BY <3>1, StatesMove DEF Approve, BeginExecute
    <3> QED
      BY <3>1, <3>2, <3>3
  <2>2. CASE c \notin clobbered
    <3>1. Replace(c, Checked \ {c}) /\ Differs(c, file, pre[c])
      BY <1>2, <2>2, ClobberMoves, CallsAreNotRewinds
    <3> QED
      BY <3>1 DEF Replace, journalVars, Differs
  <2> QED
    BY <2>1, <2>2
<1>3. WriteIsAware' /\ RewindIsAware'
  BY WriteStaysAware, RewindStaysAware DEF Aware
<1> HIDE DEF Kept
<1> QED
  BY <1>1, <1>2, <1>3 DEF Aware, WaitingIsHarmless, ReplacesOnlyWhatItChecked

\* A write replaces no text and a rewind neither text nor mode that its user has
\* not approved, except for a change that falls between the last check and the
\* rename.
THEOREM OnlyCheckedIsReplaced == Spec => []ReplacesOnlyWhatItChecked
<1>1. Init => Agreed /\ Aware
  BY DEF Init, WriteInit, Agreed, Aimed, Bonds, RewindOutcomesAgree,
         Aware, WriteIsAware, RewindIsAware, WaitingIsHarmless, ReplacesOnlyWhatItChecked
<1>2. ASSUME Kept, Agreed /\ Aware, [Next]_vars PROVE (Agreed /\ Aware)'
  BY <1>2, StaysAgreed, StaysAware
<1>3. Aware => ReplacesOnlyWhatItChecked
  BY DEF Aware
<1> QED
  BY <1>1, <1>2, <1>3, AlwaysKept, PTL DEF Spec

-----------------------------------------------------------------------------
(***************************************************************************)
(* Which writes a run knows of.                                            *)
(***************************************************************************)

\* An analysis that is still current knows every write without an end.
ReadyKnows == \A q \in Resumer :
  resumer[q].at = "ready" /\ resumer[q].fresh =>
    \A c \in Started \ reported :
      c = resumer[q].call /\ journal[c] \notin Incomplete \cup {"none"}

\* The ledger's variables change by the steps of the runs, and by the approval and
\* the report of a write.
LEMMA LedgerMoves ==
  ASSUME [Next]_vars
  PROVE  \/ UNCHANGED ledgerVars
         \/ (\E r \in Run : BeginRun(r)) \/ EndRun \/ ResolveRecovery
         \/ \E q \in Resumer, r \in Run : BeginResumeCommandRun(q, r)
         \/ \E c \in Call : Report(c) \/ \E text \in Text : Approve(c, text)
<1>1. ASSUME NEW c \in Call, Write(c)
      PROVE  UNCHANGED ledgerVars \/ Report(c) \/ \E text \in Text : Approve(c, text)
  BY <1>1 DEF Write, BeginExecute, RecordIntent, Stage, Replace, MarkApplied, ObservePost, VerifyPost, Fail
<1>2. ASSUME NEW q \in Resumer, Resume(q) PROVE UNCHANGED ledgerVars
  BY <1>2 DEF Resume, Analyze, ObserveIncomplete, Recover, Plan
<1>3. ASSUME NEW k \in Rewind, DoRewind(k) PROVE UNCHANGED ledgerVars
  BY <1>3 DEF DoRewind, BeginRewindCommand, Refuse, ApproveRewind, StartRewind, StageRewind, Restore,
              CheckRestored, CompleteRewind, InterruptUnstarted, ObserveRewind, RecoverRewindCommand, writeVars
<1>4. ASSUME NEW content \in Content, UserEdits(content, Checked) PROVE UNCHANGED ledgerVars
  BY <1>4 DEF UserEdits
<1>5. ASSUME UNCHANGED vars PROVE UNCHANGED ledgerVars
  BY <1>5 DEF vars, writeVars
<1> QED
  BY <1>1, <1>2, <1>3, <1>4, <1>5 DEF Next

\* A write begins to be without an end only in an approval, which makes every
\* analysis old.
LEMMA OpenWritesMove ==
  ASSUME Kept, [Next]_vars
  PROVE  \/ (Started \ reported)' \subseteq Started \ reported
         \/ \A q \in Resumer : resumer'[q].fresh = FALSE
<1> USE DEF Kept, Typed, TypeOK, WriteTypeOK
<1>1. ASSUME NEW c \in Call, NEW text \in Text, Approve(c, text)
      PROVE  \A q \in Resumer : resumer'[q].fresh = FALSE
  BY <1>1 DEF Approve, EventEmitted, Analysis
<1>2. ASSUME UNCHANGED runOf, reported \subseteq reported' PROVE (Started \ reported)' \subseteq Started \ reported
  BY <1>2 DEF Started
<1> HIDE DEF Kept
<1> QED
  BY <1>1, <1>2, LedgerMoves DEF ledgerVars, BeginRun, EndRun, ResolveRecovery, BeginResumeCommandRun, TakeOver, Report

LEMMA StaysReady ==
  ASSUME Kept, ReadyKnows, [Next]_vars
  PROVE  ReadyKnows'
<1> SUFFICES ASSUME NEW q \in Resumer, resumer'[q].at = "ready", resumer'[q].fresh, NEW c \in (Started \ reported)'
             PROVE  c = resumer'[q].call /\ journal'[c] \notin Incomplete \cup {"none"}
  BY DEF ReadyKnows
<1>1. resumer[q] \in Analysis /\ resumer \in [Resumer -> Analysis]
  BY DEF Kept, Typed, TypeOK, WriteTypeOK
<1>2. c \in Started \ reported /\ c \in Call
  BY OpenWritesMove DEF Started
<1>3. journal[c] \notin Incomplete \cup {"none"} => journal'[c] \notin Incomplete \cup {"none"}
  BY <1>2, JournalKept DEF Kept
<1>4. CASE resumer'[q] = resumer[q]
  BY <1>2, <1>3, <1>4 DEF ReadyKnows
<1>5. CASE resumer'[q] = [resumer[q] EXCEPT !.fresh = FALSE]
  BY <1>1, <1>5 DEF Analysis
<1>6. CASE Analyze(q) \/ (\E d \in Call : ObserveIncomplete(q, d)) \/ Recover(q)
           \/ \E r \in Run : BeginResumeCommandRun(q, r)
  <2>1. CASE Analyze(q)
    BY <1>1, <2>1 DEF Analyze, NoAnalysis
  <2>2. CASE \E d \in Call : ObserveIncomplete(q, d)
    BY <1>1, <2>2 DEF ObserveIncomplete, Analysis
  <2>3. CASE Recover(q)
    BY <1>1, <2>3 DEF Recover, NoAnalysis, Analysis
  <2>4. CASE \E r \in Run : BeginResumeCommandRun(q, r)
    BY <1>1, <2>4 DEF BeginResumeCommandRun, TakeOver, NoAnalysis
  <2> QED
    BY <1>6, <2>1, <2>2, <2>3, <2>4
<1>7. CASE Plan(q)
  <2> DEFINE open == Started \ reported
  <2> DEFINE call == IF open = {} THEN None ELSE CHOOSE d \in open : TRUE
  <2>1. call \in open
    BY <1>2
  <2> HIDE DEF call
  <2>2. resumer'[q] # NoAnalysis
    BY DEF NoAnalysis
  <2>3. /\ \A d, e \in open : d = e
        /\ \A d \in open : journal[d] \in {"verified", "aborted"}
        /\ resumer'[q] = [resumer[q] EXCEPT !.at = "ready", !.call = call]
    BY <1>1, <1>7, <2>2 DEF Plan, call
  <2>4. resumer'[q].call = call
    BY <1>1, <2>3 DEF Analysis
  <2>5. journal[c] \notin Incomplete \cup {"none"}
    BY <1>2, <2>3 DEF Incomplete
  <2> QED
    BY <1>2, <1>3, <2>1, <2>3, <2>4, <2>5
<1> QED
  BY <1>4, <1>5, <1>6, <1>7, ResumerMoves DEF Kept

LEMMA StaysRemembered ==
  ASSUME Kept, ReadyKnows, NoWriteForgotten, [Next]_vars
  PROVE  NoWriteForgotten'
<1> SUFFICES ASSUME live' # None, NEW c \in (Started \ reported)'
             PROVE  runOf'[c] = live' \/ (c = pending' /\ journal'[c] \notin Incomplete \cup {"none"})
  BY DEF NoWriteForgotten
<1> USE DEF Kept, Typed, TypeOK, WriteTypeOK
<1>1. c \in Call
  BY DEF Started
<1>2. journal[c] \notin Incomplete \cup {"none"} => journal'[c] \notin Incomplete \cup {"none"}
  BY <1>1, JournalKept
<1>3. CASE UNCHANGED ledgerVars
  BY <1>2, <1>3 DEF ledgerVars, NoWriteForgotten, Started
<1>4. CASE (\E r \in Run : BeginRun(r)) \/ EndRun
  BY <1>1, <1>4 DEF BeginRun, EndRun, Started
<1>5. CASE ResolveRecovery \/ Report(c)
  BY <1>1, <1>2, <1>5 DEF ResolveRecovery, Report, NoWriteForgotten, Started
<1>6. ASSUME NEW d \in Call, Report(d) \/ \E text \in Text : Approve(d, text)
      PROVE  runOf'[c] = live' \/ (c = pending' /\ journal'[c] \notin Incomplete \cup {"none"})
  BY <1>1, <1>2, <1>6 DEF Report, Approve, NoWriteForgotten, Started
<1>7. ASSUME NEW q \in Resumer, NEW r \in Run, BeginResumeCommandRun(q, r)
      PROVE  c = pending' /\ journal'[c] \notin Incomplete \cup {"none"}
  BY <1>1, <1>2, <1>7 DEF BeginResumeCommandRun, TakeOver, PositionUnchanged, ReadyKnows, Started
<1> HIDE DEF Kept
<1> QED
  BY <1>3, <1>4, <1>5, <1>6, <1>7, LedgerMoves

\* No write of an earlier run is forgotten: when a run works in the session, each
\* write that was started before it has its end in the log, or is the one call the
\* run was started to resolve, and then its journal is decided.
THEOREM NothingIsForgotten == Spec => []NoWriteForgotten
<1>1. Init => ReadyKnows /\ NoWriteForgotten
  BY DEF Init, WriteInit, NoAnalysis, ReadyKnows, NoWriteForgotten
<1>2. ASSUME Kept, ReadyKnows /\ NoWriteForgotten, [Next]_vars PROVE (ReadyKnows /\ NoWriteForgotten)'
  BY <1>2, StaysReady, StaysRemembered
<1> QED
  BY <1>1, <1>2, AlwaysKept, PTL DEF Spec
=============================================================================
