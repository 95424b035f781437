---------------------------- MODULE PatchJournal ----------------------------
(***************************************************************************)
(* The write side of the patch journal (internal/session/patch_journal.go) *)
(* with the tools that use it (internal/tools: edit_file, write_file and   *)
(* atomicWriteFile) and the recovery a resume runs over it, for one file   *)
(* of one session's project.                                               *)
(*                                                                         *)
(* The file and the database are two stores: no step changes both.  What   *)
(* was read of one is old when the other is written, and the user, another *)
(* tool call or a rewind may have changed the file in between.  A killed   *)
(* process is one that takes no further step; one that merely hangs may go *)
(* on after a resume has taken over its session.                           *)
(*                                                                         *)
(* A content is what the journal records of a file: its text, which the    *)
(* SHA-256 stands for, and its permission bits.  They are not checked      *)
(* alike: a write tool is approved for a text and takes the mode from      *)
(* whatever it finds when it executes, a rewind is approved for both.      *)
(* PatchRewind composes this module with the rewind commands.              *)
(***************************************************************************)
EXTENDS Naturals

CONSTANTS
  Call,        \* write tool calls; a call has one journal with one entry
  Run,         \* runs of the session
  Resumer,     \* processes that analyze and resume the session
  Rewind,      \* rewind commands of the session
  Text,        \* texts of the file
  Mode,        \* its permission bits
  NewMode,     \* the permission bits of a file that write_file creates
  NoFile,      \* the text where no file is
  None,        \* no run, call or command
  MaxEdits     \* bound: changes by the user

ASSUME NoFileIsNoText == NoFile \notin Text

ASSUME NewModeIsMode == NewMode \in Mode

ASSUME NoneIsNobody ==
  /\ None \notin Call
  /\ None \notin Run
  /\ None \notin Rewind

ASSUME CallsAreNotRewinds == Call \cap Rewind = {}

ASSUME EditsAreBounded == MaxEdits \in Nat

VARIABLES
  file,        \* what is on disk
  journal,     \* patch_journals.status and patch_entries.status
  pre, post,   \* the states the entry records
  bound,       \* patch_journals.rewind_command_id
  live,        \* the run of the session whose status is running
  reported,    \* calls whose end, or whose recovery, is a durable event
  runOf,       \* the run a call belongs to
  writer,      \* where the tool's Execute stands
  matched,     \* what VerifyPost saw: the file is in the post state
  resumer,     \* what a resuming process remembers
  pending,     \* the call the live run resolves before anything else
  edits,       \* bound: changes of text or mode the user made
  postSeen,    \* history: journals whose post state was on disk after the intent
  raced,       \* history: actors whose last check became stale before they wrote
  clobbered    \* history: actors that overwrote something they had not checked

journalVars == <<journal, pre, post>>
fileVars    == <<file, postSeen, raced, clobbered>>
ledgerVars  == <<live, reported, runOf, pending>>
toolVars    == <<writer, matched>>

-----------------------------------------------------------------------------

\* A file that does not exist has the mode that creating it would give it.
Absent  == [text |-> NoFile, mode |-> NewMode]
Content == {Absent} \cup [text : Text, mode : Mode]

Incomplete    == {"prepared", "applied"}
JournalStatus == Incomplete \cup {"none", "verified", "rewound", "conflict", "aborted"}
WriterAt      == {"idle", "approved", "executing", "intent", "staged", "replaced", "applied",
                  "observed", "returned", "over"}
Observation   == {"pre", "post", "other"}

Analysis == [at : {"idle", "recovering", "observed", "ready"}, todo : SUBSET Call,
             call : Call \cup {None}, seen : Observation, fresh : BOOLEAN]

NoAnalysis == [at |-> "idle", todo |-> {}, call |-> None, seen |-> "other", fresh |-> FALSE]

WriteTypeOK ==
  /\ file \in Content
  /\ journal \in [Call -> JournalStatus]
  /\ pre \in [Call -> Content]
  /\ post \in [Call -> Content]
  /\ bound \in [Call -> Rewind \cup {None}]
  /\ live \in Run \cup {None}
  /\ reported \subseteq Call
  /\ runOf \in [Call -> Run \cup {None}]
  /\ writer \in [Call -> WriterAt]
  /\ matched \in [Call -> BOOLEAN]
  /\ resumer \in [Resumer -> Analysis]
  /\ pending \in Call \cup {None}
  /\ edits \in Nat
  /\ postSeen \subseteq Call
  /\ raced \subseteq Call \cup Rewind
  /\ clobbered \subseteq Call \cup Rewind

WriteInit ==
  /\ file \in Content
  /\ journal = [c \in Call |-> "none"]
  /\ pre = [c \in Call |-> Absent]
  /\ post = [c \in Call |-> Absent]
  /\ bound = [c \in Call |-> None]
  /\ live = None
  /\ reported = {}
  /\ runOf = [c \in Call |-> None]
  /\ writer = [c \in Call |-> "idle"]
  /\ matched = [c \in Call |-> FALSE]
  /\ resumer = [q \in Resumer |-> NoAnalysis]
  /\ pending = None
  /\ edits = 0
  /\ postSeen = {}
  /\ raced = {}
  /\ clobbered = {}

-----------------------------------------------------------------------------

Active  == {c \in Call : writer[c] \notin {"idle", "over"}}
Started == {c \in Call : runOf[c] # None}

\* observePatchPath and matchesPatchStateAndMode.
Observed(c) ==
  CASE file = post[c] -> "post"
    [] file = pre[c]  -> "pre"
    [] OTHER          -> "other"

\* What the preconditions of an approved call tell apart: PreconditionFileSHA256
\* and PreconditionPathAbsent the text, a rewind's PreconditionFileMode the mode.
Differs(i, a, b) == IF i \in Rewind THEN a # b ELSE a.text # b.text

\* The file changes on disk; whoever has checked what changes and not yet written
\* acts on an old check from here on.
FileBecomes(content, stale) ==
  /\ file' = content
  /\ postSeen' = postSeen \cup {c \in Call : journal[c] # "none" /\ post[c] = content}
  /\ raced' = raced \cup {i \in stale : Differs(i, file, content)}

\* Mutant: a decision is written whatever the status is.
TransitionUnguarded(c, status) == journal' = [journal EXCEPT ![c] = status]

\* transitionPatchJournal: only an incomplete journal moves.  Anything else is
\* answered with success if it is already there, with a conflict if not, and is
\* left alone either way.
Transition(c, status) ==
  journal' = [journal EXCEPT ![c] = IF @ \in Incomplete THEN status ELSE @]

\* Every event of the session moves last_seq, so an analysis made before it will
\* be refused by BeginResumeCommandRun.
EventEmitted == [q \in Resumer |-> [resumer[q] EXCEPT !.fresh = FALSE]]

-----------------------------------------------------------------------------
(* Runs of the session, as far as the journal can tell them apart.         *)

BeginRun(r) ==
  /\ live = None
  /\ Started = {}
  /\ live' = r
  /\ UNCHANGED <<journalVars, bound, fileVars, reported, runOf, pending, toolVars, resumer, edits>>

\* A terminal event of the live run, when none of its tools is executing.
EndRun ==
  /\ live # None
  /\ \A c \in Active : runOf[c] # live
  /\ live' = None
  /\ pending' = None
  /\ resumer' = EventEmitted
  /\ UNCHANGED <<journalVars, bound, fileVars, reported, runOf, toolVars, edits>>

\* The recovered call is resolved by a durable recovery.resolved event: a
\* verified write without running the tool again, an aborted one after the call
\* that replaces it.
ResolveRecovery ==
  /\ live # None
  /\ pending # None
  /\ \A c \in Active : runOf[c] # live
  /\ reported' = reported \cup {pending}
  /\ pending' = None
  /\ resumer' = EventEmitted
  /\ UNCHANGED <<journalVars, bound, fileVars, live, runOf, toolVars, edits>>

-----------------------------------------------------------------------------
(* A write tool: Prepare, approval, and the steps of Execute.              *)

\* The tool reads the file, the call is approved for that text, tool.started
\* is durable.  The mode is not looked at yet.  Tools of one run follow each
\* other.
Approve(c, text) ==
  /\ live # None
  /\ writer[c] = "idle"
  /\ \A d \in Active : runOf[d] # live
  /\ pending # None => journal[pending] = "aborted"
  /\ text # file.text
  /\ runOf' = [runOf EXCEPT ![c] = live]
  /\ pre' = [pre EXCEPT ![c] = [text |-> file.text, mode |-> NewMode]]
  /\ post' = [post EXCEPT ![c] = [text |-> text, mode |-> NewMode]]
  /\ writer' = [writer EXCEPT ![c] = "approved"]
  /\ resumer' = EventEmitted
  /\ UNCHANGED <<journal, bound, fileVars, live, reported, pending, matched, edits>>

\* Mutant: the file is not checked again after the approval.
UnchangedSinceApprovalSkipped(c) == TRUE

\* checkRootedPreconditions, and CheckPreconditions before it.
UnchangedSinceApproval(c) == ~Differs(c, file, pre[c])

\* Execute checks the preconditions and reads the mode, which the entry records
\* as the mode before and after: the write is meant to keep it.
BeginExecute(c) ==
  /\ writer[c] = "approved"
  /\ UnchangedSinceApproval(c)
  /\ pre' = [pre EXCEPT ![c] = file]
  /\ post' = [post EXCEPT ![c].mode = file.mode]
  /\ writer' = [writer EXCEPT ![c] = "executing"]
  /\ UNCHANGED <<journal, bound, fileVars, ledgerVars, matched, resumer, edits>>

\* PatchJournalRecorder.Prepare.  A trigger refuses the row of a run that is no
\* longer running.  The checks before it passed at some earlier moment.
RecordIntent(c) ==
  /\ writer[c] = "executing"
  /\ runOf[c] = live
  /\ journal' = [journal EXCEPT ![c] = "prepared"]
  /\ postSeen' = postSeen \cup {d \in {c} : file = post[c]}
  /\ writer' = [writer EXCEPT ![c] = "intent"]
  /\ UNCHANGED <<pre, post, bound, file, raced, clobbered, ledgerVars, matched, resumer, edits>>

\* The checks after the intent passed and the new content is staged beside the
\* file.
Stage(c) ==
  /\ writer[c] = "intent"
  /\ UnchangedSinceApproval(c)
  /\ writer' = [writer EXCEPT ![c] = "staged"]
  /\ UNCHANGED <<journalVars, bound, fileVars, ledgerVars, matched, resumer, edits>>

\* The rename takes whatever is there, and the staged file has the mode that
\* Execute read, whatever it is by now; the link that creates a file takes
\* nothing.
Replace(c, stale) ==
  /\ writer[c] = "staged"
  /\ pre[c] = Absent => file = Absent
  /\ FileBecomes(post[c], stale)
  /\ clobbered' = clobbered \cup {d \in {c} : Differs(d, file, pre[d])}
  /\ writer' = [writer EXCEPT ![c] = "replaced"]
  /\ UNCHANGED <<journalVars, bound, ledgerVars, matched, resumer, edits>>

MarkApplied(c) ==
  /\ writer[c] = "replaced"
  /\ journal[c] \in Incomplete
  /\ Transition(c, "applied")
  /\ writer' = [writer EXCEPT ![c] = "applied"]
  /\ UNCHANGED <<pre, post, bound, fileVars, ledgerVars, matched, resumer, edits>>

\* VerifyPost reads the file and decides in a later transaction.
ObservePost(c) ==
  /\ writer[c] = "applied"
  /\ matched' = [matched EXCEPT ![c] = (file = post[c])]
  /\ writer' = [writer EXCEPT ![c] = "observed"]
  /\ UNCHANGED <<journalVars, bound, fileVars, ledgerVars, resumer, edits>>

PostDecision(c) == IF matched[c] THEN "verified" ELSE "conflict"

VerifyPost(c) ==
  /\ writer[c] = "observed"
  /\ Transition(c, PostDecision(c))
  /\ writer' = [writer EXCEPT ![c] = "returned"]
  /\ UNCHANGED <<pre, post, bound, fileVars, ledgerVars, matched, resumer, edits>>

\* A check fails, the context is cancelled, the disk or the database refuses:
\* Execute returns an error, and the journal stays as it is.
Fail(c) ==
  /\ writer[c] \in {"approved", "executing", "intent", "staged", "replaced", "applied"}
  /\ writer' = [writer EXCEPT ![c] = "returned"]
  /\ UNCHANGED <<journalVars, bound, fileVars, ledgerVars, matched, resumer, edits>>

\* tool.completed, if the run may still append events.
Report(c) ==
  /\ writer[c] = "returned"
  /\ writer' = [writer EXCEPT ![c] = "over"]
  /\ IF runOf[c] = live
       THEN reported' = reported \cup {c} /\ resumer' = EventEmitted
       ELSE UNCHANGED <<reported, resumer>>
  /\ UNCHANGED <<journalVars, bound, fileVars, live, runOf, pending, matched, edits>>

-----------------------------------------------------------------------------
(* The user, and a process that resumes the session.                       *)

\* The user writes, removes, creates or chmods the file.
UserEdits(content, stale) ==
  /\ edits < MaxEdits
  /\ content # file
  /\ FileBecomes(content, stale)
  /\ edits' = edits + 1
  /\ UNCHANGED <<journalVars, bound, clobbered, ledgerVars, toolVars, resumer>>

\* AnalyzeResume: the public facts are read, then RecoverPatchJournals lists
\* what is incomplete.
Analyze(q) ==
  /\ resumer[q].at = "idle"
  /\ Started # {}
  /\ resumer' = [resumer EXCEPT ![q] =
       [NoAnalysis EXCEPT !.at = "recovering", !.fresh = TRUE,
                          !.todo = {c \in Call : journal[c] \in Incomplete}]]
  /\ UNCHANGED <<journalVars, bound, fileVars, ledgerVars, toolVars, edits>>

ObserveIncomplete(q, c) ==
  /\ resumer[q].at = "recovering"
  /\ c \in resumer[q].todo
  /\ resumer' = [resumer EXCEPT ![q].at = "observed", ![q].call = c, ![q].seen = Observed(c),
                                ![q].todo = @ \ {c}]
  /\ UNCHANGED <<journalVars, bound, fileVars, ledgerVars, toolVars, edits>>

\* Mutant: the two recorded states are mixed up.
RecoveryDecisionSwapped(seen) ==
  CASE seen = "pre"  -> "verified"
    [] seen = "post" -> "aborted"
    [] OTHER         -> "conflict"

RecoveryDecision(seen) ==
  CASE seen = "post" -> "verified"
    [] seen = "pre"  -> "aborted"
    [] OTHER         -> "conflict"

\* The decision is made from what was seen.  A journal that somebody else has
\* decided otherwise in the meantime ends the analysis with an error.
Recover(q) ==
  LET c        == resumer[q].call
      decision == RecoveryDecision(resumer[q].seen)
  IN
  /\ resumer[q].at = "observed"
  /\ Transition(c, decision)
  /\ resumer' = [resumer EXCEPT ![q] =
       IF journal[c] \in Incomplete \cup {decision}
         THEN [@ EXCEPT !.at = "recovering", !.call = None, !.seen = "other"]
         ELSE NoAnalysis]
  /\ UNCHANGED <<pre, post, bound, fileVars, ledgerVars, toolVars, edits>>

\* selectRecovery: at most one call may be unresolved, and its journal must say
\* that it is verified or aborted.  Everything else blocks the resume.
Plan(q) ==
  LET open == Started \ reported IN
  /\ resumer[q].at = "recovering"
  /\ resumer[q].todo = {}
  /\ resumer' = [resumer EXCEPT ![q] =
       IF (\A c, d \in open : c = d) /\ \A c \in open : journal[c] \in {"verified", "aborted"}
         THEN [@ EXCEPT !.at = "ready", !.call = IF open = {} THEN None ELSE CHOOSE c \in open : TRUE]
         ELSE NoAnalysis]
  /\ UNCHANGED <<journalVars, bound, fileVars, ledgerVars, toolVars, edits>>

\* Mutant: BeginResumeCommandRun does not compare last_seq.
PositionUnchangedIgnored(q) == TRUE

\* No event was appended since the analysis.
PositionUnchanged(q) == resumer[q].fresh

\* BeginResumeCommandRun, as far as runs are concerned.
TakeOver(q, r) ==
  /\ resumer[q].at = "ready"
  /\ PositionUnchanged(q)
  /\ r # live
  /\ \A c \in Call : runOf[c] # r
  /\ live' = r
  /\ pending' = resumer[q].call
  /\ resumer' = [resumer EXCEPT ![q] = NoAnalysis]
  /\ UNCHANGED <<journalVars, bound, fileVars, reported, runOf, toolVars, edits>>
=============================================================================
