---------------------------- MODULE PatchRewind ----------------------------
(***************************************************************************)
(* The rewind commands of internal/session/rewind.go, the rewind_file tool *)
(* (internal/tools/rewind_file.go) and `mengdie rewind`                    *)
(* (internal/app/rewind.go), composed with the write side of the journal.  *)
(*                                                                         *)
(* A rewind command puts a verified write's preimage back.  It has a row   *)
(* in the same command ledger as the runs, so a resume of the session      *)
(* reaches it as well.  A rewind whose Execute returns an error is one     *)
(* that takes no further step, as a killed one: the command then asks      *)
(* RecoverRewindCommand what became of it, as a later submission does.     *)
(***************************************************************************)
EXTENDS PatchJournal, FiniteSets

CONSTANT MaxRetries   \* bound: retries of one command under way

ASSUME RetriesAreBounded == MaxRetries \in Nat

VARIABLES
  cmd,        \* commands.status of a rewind command
  target,     \* the journal its payload names
  rewinder,   \* where the process that registered it stands
  answers     \* what processes that recover it have seen and not yet committed

rewindVars == <<cmd, target, rewinder, answers>>
writeVars  == <<journalVars, bound, fileVars, ledgerVars, toolVars, resumer, edits>>
vars       == <<writeVars, rewindVars>>

OpenStatus    == {"accepted", "running"}
SettledStatus == {"applied", "rejected", "failed", "interrupted"}
RewinderAt    == {"idle", "begun", "approved", "started", "staged", "restored", "checked", "over"}

TypeOK ==
  /\ WriteTypeOK
  /\ cmd \in [Rewind -> {"none"} \cup OpenStatus \cup SettledStatus]
  /\ target \in [Rewind -> Call \cup {None}]
  /\ rewinder \in [Rewind -> RewinderAt]
  /\ answers \in [Rewind -> SUBSET Observation]

Init ==
  /\ WriteInit
  /\ cmd = [k \in Rewind |-> "none"]
  /\ target = [k \in Rewind |-> None]
  /\ rewinder = [k \in Rewind |-> "idle"]
  /\ answers = [k \in Rewind |-> {}]

-----------------------------------------------------------------------------

\* Whoever has checked the file and is about to change it.
Checked == {c \in Call : writer[c] = "staged"} \cup {k \in Rewind : rewinder[k] = "staged"}

Unclaimed(c) == journal[c] = "verified" /\ bound[c] = None

\* BeginRewindCommand: the intent is registered before anything is asked.
BeginRewindCommand(k, c) ==
  /\ cmd[k] = "none"
  /\ Unclaimed(c)
  /\ cmd' = [cmd EXCEPT ![k] = "accepted"]
  /\ target' = [target EXCEPT ![k] = c]
  /\ rewinder' = [rewinder EXCEPT ![k] = "begun"]
  /\ UNCHANGED <<writeVars, answers>>

\* FailRewindCommand and RejectRewindCommand: the safety check fails or the
\* user says no.
Refuse(k, status) ==
  /\ rewinder[k] = "begun"
  /\ cmd[k] = "accepted"
  /\ cmd' = [cmd EXCEPT ![k] = status]
  /\ rewinder' = [rewinder EXCEPT ![k] = "over"]
  /\ UNCHANGED <<writeVars, target, answers>>

\* InspectRewind finds the post state and the user approves the diff.
ApproveRewind(k) ==
  LET c == target[k] IN
  /\ rewinder[k] = "begun"
  /\ Unclaimed(c)
  /\ file = post[c]
  /\ rewinder' = [rewinder EXCEPT ![k] = "approved"]
  /\ UNCHANGED <<writeVars, cmd, target, answers>>

\* Mutant: the command's own status is not looked at.
MayStartAny(k) == Unclaimed(target[k])

\* The two rows StartRewind claims.
MayStart(k) == cmd[k] = "accepted" /\ Unclaimed(target[k])

\* StartRewind: command and journal are bound to each other in one transaction
\* before the file is touched.
StartRewind(k) ==
  /\ rewinder[k] = "approved"
  /\ MayStart(k)
  /\ cmd' = [cmd EXCEPT ![k] = "running"]
  /\ bound' = [bound EXCEPT ![target[k]] = k]
  /\ rewinder' = [rewinder EXCEPT ![k] = "started"]
  /\ UNCHANGED <<journalVars, fileVars, ledgerVars, toolVars, resumer, edits, target, answers>>

\* The preconditions, text and mode, are checked again behind StartRewind.
StageRewind(k) ==
  /\ rewinder[k] = "started"
  /\ file = post[target[k]]
  /\ rewinder' = [rewinder EXCEPT ![k] = "staged"]
  /\ UNCHANGED <<writeVars, cmd, target, answers>>

\* The preimage is renamed over the file, or the file the agent created is
\* removed, which fails if it is gone already.
Restore(k) ==
  LET c == target[k] IN
  /\ rewinder[k] = "staged"
  /\ pre[c] = Absent => file # Absent
  /\ FileBecomes(pre[c], Checked \ {k})
  /\ clobbered' = clobbered \cup {i \in {k} : Differs(i, file, post[c])}
  /\ rewinder' = [rewinder EXCEPT ![k] = "restored"]
  /\ UNCHANGED <<journalVars, bound, ledgerVars, toolVars, resumer, edits, cmd, target, answers>>

\* CompleteRewind looks at the file first ...
CheckRestored(k) ==
  LET c == target[k] IN
  /\ rewinder[k] = "restored"
  /\ bound[c] = k
  /\ file = pre[c]
  /\ rewinder' = [rewinder EXCEPT ![k] = "checked"]
  /\ UNCHANGED <<writeVars, cmd, target, answers>>

\* Mutant: the command's row is not required to be running.
OutcomeAcceptedAlways(k) == journal[target[k]] = "verified" /\ bound[target[k]] = k

\* What commitRewindOutcome requires of journal, entry and command.
OutcomeAccepted(k) ==
  /\ journal[target[k]] = "verified"
  /\ bound[target[k]] = k
  /\ cmd[k] = "running"

\* UPDATE commands ... WHERE status = 'running'.
SettleRunning(k, status) == cmd' = [cmd EXCEPT ![k] = IF @ = "running" THEN status ELSE @]

\* ... and commits journal and command together.
CompleteRewind(k) ==
  /\ rewinder[k] = "checked"
  /\ OutcomeAccepted(k)
  /\ journal' = [journal EXCEPT ![target[k]] = "rewound"]
  /\ SettleRunning(k, "applied")
  /\ rewinder' = [rewinder EXCEPT ![k] = "over"]
  /\ UNCHANGED <<pre, post, bound, fileVars, ledgerVars, toolVars, resumer, edits, target, answers>>

-----------------------------------------------------------------------------
(* RecoverRewindCommand, by whoever submits the command id again.          *)

\* A command that never started is interrupted.
InterruptUnstarted(k) ==
  /\ cmd[k] = "accepted"
  /\ cmd' = [cmd EXCEPT ![k] = "interrupted"]
  /\ UNCHANGED <<writeVars, target, rewinder, answers>>

\* One that did is classified by the file ...
ObserveRewind(k) ==
  LET c == target[k] IN
  /\ cmd[k] = "running"
  /\ bound[c] = k
  /\ Cardinality(answers[k]) < MaxRetries
  /\ answers' = [answers EXCEPT ![k] = @ \cup {Observed(c)}]
  /\ UNCHANGED <<writeVars, cmd, target, rewinder>>

RecoveredJournal(seen) ==
  CASE seen = "pre"  -> "rewound"
    [] seen = "post" -> "verified"
    [] OTHER         -> "conflict"

RecoveredCommand(seen) ==
  CASE seen = "pre"  -> "applied"
    [] seen = "post" -> "interrupted"
    [] OTHER         -> "failed"

\* ... in a second transaction, which changes nothing if another process has
\* settled the command meanwhile.
RecoverRewindCommand(k, seen) ==
  LET c == target[k] IN
  /\ seen \in answers[k]
  /\ answers' = [answers EXCEPT ![k] = @ \ {seen}]
  /\ IF OutcomeAccepted(k)
       THEN /\ SettleRunning(k, RecoveredCommand(seen))
            /\ journal' = [journal EXCEPT ![c] = RecoveredJournal(seen)]
            /\ bound' = [bound EXCEPT ![c] = IF seen = "post" THEN None ELSE k]
       ELSE UNCHANGED <<cmd, journal, bound>>
  /\ UNCHANGED <<pre, post, fileVars, ledgerVars, toolVars, resumer, edits, target, rewinder>>

\* BeginResumeCommandRun interrupts every open command of the session, rewinds
\* included.
InterruptedByResume == {k \in Rewind : cmd[k] \in OpenStatus}

BeginResumeCommandRun(q, r) ==
  /\ TakeOver(q, r)
  /\ cmd' = [k \in Rewind |-> IF k \in InterruptedByResume THEN "interrupted" ELSE cmd[k]]
  /\ UNCHANGED <<target, rewinder, answers>>

-----------------------------------------------------------------------------

Write(c) ==
  \/ \E text \in Text : Approve(c, text)
  \/ BeginExecute(c)
  \/ RecordIntent(c)
  \/ Stage(c)
  \/ Replace(c, Checked \ {c})
  \/ MarkApplied(c)
  \/ ObservePost(c)
  \/ VerifyPost(c)
  \/ Fail(c)
  \/ Report(c)

Resume(q) ==
  \/ Analyze(q)
  \/ \E c \in Call : ObserveIncomplete(q, c)
  \/ Recover(q)
  \/ Plan(q)

DoRewind(k) ==
  \/ \E c \in Call : BeginRewindCommand(k, c)
  \/ \E status \in {"rejected", "failed"} : Refuse(k, status)
  \/ ApproveRewind(k)
  \/ StartRewind(k)
  \/ StageRewind(k)
  \/ Restore(k)
  \/ CheckRestored(k)
  \/ CompleteRewind(k)
  \/ InterruptUnstarted(k)
  \/ ObserveRewind(k)
  \/ \E seen \in Observation : RecoverRewindCommand(k, seen)

Next ==
  \/ /\ \/ \E r \in Run : BeginRun(r)
        \/ EndRun
        \/ ResolveRecovery
        \/ \E c \in Call : Write(c)
        \/ \E content \in Content : UserEdits(content, Checked)
        \/ \E q \in Resumer : Resume(q)
     /\ UNCHANGED rewindVars
  \/ \E q \in Resumer, r \in Run : BeginResumeCommandRun(q, r)
  \/ \E k \in Rewind : DoRewind(k)

Spec == Init /\ [][Next]_vars

-----------------------------------------------------------------------------
(* What the journal guarantees.                                            *)

\* A journal that says the write is in place was not guessed: the post state has
\* been on disk since the intent was recorded, whoever made the decision and
\* however late.
VerifiedWasObserved ==
  \A c \in Call : journal[c] \in {"verified", "rewound"} => c \in postSeen

\* No write of an earlier run is forgotten: when a run works in the session, each
\* write that was started before it has its end in the log, or is the one call
\* this run was started to resolve, and then its journal is decided.
NoWriteForgotten ==
  live # None =>
    \A c \in Started \ reported :
      \/ runOf[c] = live
      \/ c = pending /\ journal[c] \notin Incomplete \cup {"none"}

\* A write replaces no text and a rewind neither text nor mode that its user has
\* not approved, except for a change that falls between the last check and the
\* rename.  A file that is created never replaces anything at all.  (Of the mode
\* a write promises nothing: edit_file and write_file check the SHA-256 only.)
ReplacesOnlyWhatItChecked ==
  /\ clobbered \subseteq raced
  /\ \A c \in Call : pre[c] = Absent => c \notin clobbered

\* The journal is rewound exactly if the command bound to it is applied, and a
\* rewind that ended in a conflict is a failed command.
RewindOutcomesAgree ==
  /\ \A k \in Rewind : cmd[k] = "applied" => bound[target[k]] = k /\ journal[target[k]] = "rewound"
  /\ \A c \in Call : journal[c] = "rewound" => bound[c] # None /\ cmd[bound[c]] = "applied"
  /\ \A c \in Call : journal[c] = "conflict" /\ bound[c] # None => cmd[bound[c]] = "failed"

\* What was answered about a rewind command stands: a process that still waits
\* for approval cannot start a command that a retry or a resume has settled.
RewindAnswersStand ==
  [][\A k \in Rewind : cmd[k] \in SettledStatus => cmd'[k] = cmd[k]]_vars

Outcomes == INSTANCE JournalOutcomes WITH
  fate <- [c \in Call |-> IF journal[c] \in Incomplete THEN "open" ELSE journal[c]]

\* A slow writer, a resume and a rewind that decide about the same journal at the
\* same time still give it one decision (JournalOutcomes).
RefinesJournalOutcomes == Outcomes!Spec

\* docs/development/phase-2-slice-06b/IMPLEMENTATION_REPORT.md:38-42 says of an
\* interrupted rewind that the journal is either rewound or released for another
\* command.  A settled command therefore never keeps a verified journal.
StaysRewindable ==
  \A k \in Rewind :
    cmd[k] \in SettledStatus => ~(journal[target[k]] = "verified" /\ bound[target[k]] = k)
=============================================================================
