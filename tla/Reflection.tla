----------------------------- MODULE Reflection -----------------------------
(***************************************************************************)
(* `mengdie reflect': what the logs of several sessions suggest, as          *)
(* proposals (memory/proposal/pipeline.go, patterns.go, with the rules of    *)
(* memory/extractor), their review and their application                     *)
(* (memory/proposal/store.go, apply.go, app/reflect.go).                     *)
(*                                                                           *)
(* Every command is a process of its own on the one database, which runs     *)
(* each statement alone: between two of them another command may review,     *)
(* apply or revert the same proposal, or forget the memory it is about.      *)
(*                                                                           *)
(* No detector of this release fills in the payload its executor reads, so   *)
(* what it proposes can only fail.  Foreign are the complete proposals       *)
(* that another release may have left in the table.                          *)
(***************************************************************************)
EXTENDS Naturals, Sequences, SequencesExt, FiniteSets, FiniteSetsExt

CONSTANTS
  Command,       \* processes that run a reflect command
  Session,       \* sessions of the database
  Row,           \* events of a session: [kind, name, success, ref]
  Memory,        \* memories a proposal may be about
  Foreign,       \* proposals found in the table
  Least,         \* thresholds: [corrections, tools, failures, sessions]
  QueueLimit,    \* proposals a list shows
  MaxRows,       \* bound: events of all sessions
  MaxProposals,  \* bound: rows of reflection_proposals
  MaxCommands    \* bound: commands begun

ASSUME ReflectionBounds == {QueueLimit, MaxRows, MaxCommands} \subseteq Nat /\ MaxProposals \in Nat \ {0}

\* What a table that another release has written may hold.
ASSUME ForeignIsComplete ==
  \A p \in Foreign : {"kind", "about", "status", "complete"} \subseteq DOMAIN p /\ p.complete /\ p.about \in Memory

VARIABLES
  logs,          \* events of every session
  proposals,     \* reflection_proposals, oldest first
  applies,       \* proposal_applies, by proposal
  memories,      \* authority and status of every memory
  command,       \* what every process is in the middle of
  begun,         \* commands begun
  effected       \* proposals whose change reached a memory

reflectionVars == <<logs, proposals, applies, memories, command, begun, effected>>

Done       == [at |-> "done"]
Unapplied  == [result |-> "none", by |-> {}]
Gone       == [authority |-> "none", status |-> "absent"]

ReflectionInit ==
  /\ logs = [s \in Session |-> <<>>]
  /\ proposals \in {<<p>> : p \in Foreign}
  /\ applies = [i \in 1..MaxProposals |-> Unapplied]
  /\ memories = [m \in Memory |-> [authority |-> "inferred", status |-> "active"]]
  /\ command = [c \in Command |-> Done]
  /\ begun = 0
  /\ effected = {}

CommandAt(c, step) == command[c].at = step
Proceeds(c, to)    == command' = [command EXCEPT ![c] = to]
Finishes(c)        == Proceeds(c, Done)

Begin(c, step) ==
  /\ CommandAt(c, "done") /\ begun < MaxCommands
  /\ begun' = begun + 1
  /\ Proceeds(c, step)

-----------------------------------------------------------------------------
(***************************************************************************)
(* The rules: claims that the log of one session supports.                   *)
(***************************************************************************)

Rows(log)           == {log[i] : i \in DOMAIN log}
Tool(row, name)     == row.kind = "tool.completed" /\ row.name = name
Claims(claim, when) == IF when THEN {[claim |-> claim, status |-> "unset"]} ELSE {}

ruleEditFile(log)  == Claims("edit_file", \E row \in Rows(log) : Tool(row, "edit_file") /\ row.success)
ruleWriteFile(log) == Claims("write_file", \E row \in Rows(log) : Tool(row, "write_file") /\ row.success)
ruleGoTest(log)    ==
  Claims("go test", \E row \in Rows(log) : Tool(row, "shell") /\ row.success /\ row.ref = "go test")
ruleGoLint(log)    ==
  Claims("lint", \E row \in Rows(log) : Tool(row, "shell") /\ row.success /\ row.ref = "lint")
ruleRunAllSuccess(log) ==
  Claims("success", /\ \E row \in Rows(log) : row.kind = "run.completed"
                    /\ \A row \in Rows(log) : row.kind = "tool.completed" => row.success)
ruleProviderProtocolFailures(log) ==
  Claims("unstable", Quantify(DOMAIN log, LAMBDA i : log[i].kind = "run.failed" /\ log[i].ref = "provider_protocol") >= 2)

\* Extract of Rules, and of Hybrid without a model.
Extract(log) ==
  ruleEditFile(log) \cup ruleWriteFile(log) \cup ruleGoTest(log) \cup ruleGoLint(log)
    \cup ruleRunAllSuccess(log) \cup ruleProviderProtocolFailures(log)

-----------------------------------------------------------------------------
(***************************************************************************)
(* The detectors.  scan and found are functions on the sessions scanned.     *)
(***************************************************************************)

Proposed(kind, about) == [kind |-> kind, about |-> about, status |-> "unset", complete |-> FALSE]

DetectRepeatedCorrection(scan) ==
  LET corrections(s) == Quantify(DOMAIN scan[s], LAMBDA i : scan[s][i].kind = "user.message" /\ scan[s][i].ref = "correction")
  IN  IF MapThenSumSet(corrections, DOMAIN scan) >= Least.corrections
      THEN {Proposed("agents_md_revision", "corrections")} ELSE {}

\* At least four tool calls out of five are edits.
DetectRepeatedToolPreference(scan) ==
  {Proposed("memory_upgrade", s) : s \in
     {t \in DOMAIN scan :
        LET tools == Quantify(DOMAIN scan[t], LAMBDA i : scan[t][i].kind = "tool.completed")
            edits == Quantify(DOMAIN scan[t], LAMBDA i : Tool(scan[t][i], "edit_file"))
        IN  tools >= Least.tools /\ 5 * edits >= 4 * tools}}

DetectForgottenTest(scan) ==
  {Proposed("memory_upgrade", s) : s \in
     {t \in DOMAIN scan :
        Quantify(DOMAIN scan[t], LAMBDA i : Tool(scan[t][i], "shell") /\ scan[t][i].ref = "FAIL") >= Least.failures}}

\* A claim of one session counts once.
DetectCrossSessionPattern(found) ==
  {Proposed("memory_upgrade", claim) : claim \in
     {m.claim : m \in {n \in UNION {found[s] : s \in DOMAIN found} :
        Quantify(DOMAIN found, LAMBDA s : \E o \in found[s] : o.claim = n.claim) >= Least.sessions}}}

\* The rules give a claim no status, and so none is stale.
DetectObsoleteClaim(found) ==
  {Proposed("obsolete", m.claim) : m \in {n \in UNION {found[s] : s \in DOMAIN found} : n.status = "stale"}}

Detected(scan, found) ==
  DetectRepeatedCorrection(scan) \cup DetectRepeatedToolPreference(scan) \cup DetectForgottenTest(scan)
    \cup DetectCrossSessionPattern(found) \cup DetectObsoleteClaim(found)

-----------------------------------------------------------------------------
(***************************************************************************)
(* Reflect: scan, extract, propose.                                          *)
(***************************************************************************)

Empty == [s \in {} |-> <<>>]
With(f, s, value) == [t \in DOMAIN f \cup {s} |-> IF t = s THEN value ELSE f[t]]

\* The sessions that have events; then their events, one session after the other.
BeginReflect(c) ==
  /\ Begin(c, [at |-> "scan", left |-> {s \in Session : logs[s] # <<>>}, scan |-> Empty, found |-> Empty])
  /\ UNCHANGED <<logs, proposals, applies, memories, effected>>

ScanSession(c) ==
  /\ CommandAt(c, "scan")
  /\ \E s \in command[c].left :
       Proceeds(c, [command[c] EXCEPT !.left = @ \ {s}, !.scan = With(@, s, logs[s])])
  /\ UNCHANGED <<logs, proposals, applies, memories, begun, effected>>

\* The rules read the events of the session once more.
ExtractSession(c) ==
  /\ CommandAt(c, "scan") /\ command[c].left = {}
  /\ \E s \in DOMAIN command[c].scan \ DOMAIN command[c].found :
       Proceeds(c, [command[c] EXCEPT !.found = With(@, s, Extract(logs[s]))])
  /\ UNCHANGED <<logs, proposals, applies, memories, begun, effected>>

Reflected(c) ==
  /\ CommandAt(c, "scan") /\ command[c].left = {} /\ DOMAIN command[c].scan = DOMAIN command[c].found
  /\ Proceeds(c, [at |-> "propose", left |-> Detected(command[c].scan, command[c].found)])
  /\ UNCHANGED <<logs, proposals, applies, memories, begun, effected>>

\* Insert: one row at a time, with the status the detector left unset.
Propose(c) ==
  /\ CommandAt(c, "propose")
  /\ IF command[c].left = {} THEN Finishes(c) /\ UNCHANGED proposals
     ELSE /\ Len(proposals) < MaxProposals
          /\ \E p \in command[c].left :
               /\ proposals' = Append(proposals, p)
               /\ Proceeds(c, [command[c] EXCEPT !.left = @ \ {p}])
  /\ UNCHANGED <<logs, applies, memories, begun, effected>>

-----------------------------------------------------------------------------
(***************************************************************************)
(* Review.                                                                   *)
(***************************************************************************)

\* List: the newest, as far as it goes.
Queue == {i \in DOMAIN proposals : i > Len(proposals) - QueueLimit}

\* UpdateStatus, whatever the status is.
Review(c, verdict) ==
  /\ Begin(c, Done)
  /\ \E i \in Queue : proposals' = [proposals EXCEPT ![i].status = verdict]
  /\ UNCHANGED <<logs, applies, memories, effected>>

Approve(c) == Review(c, "approved")
Reject(c)  == Review(c, "rejected")

-----------------------------------------------------------------------------
(***************************************************************************)
(* Apply.                                                                    *)
(***************************************************************************)

AnyStatus(i)  == TRUE     \* mutant: an executor that trusts its caller
Applicable(i) == proposals[i].status = "approved"

ReadToApply(c) ==
  /\ \E i \in DOMAIN proposals : Applicable(i) /\ Begin(c, [at |-> "guard", of |-> i])
  /\ UNCHANGED <<logs, proposals, applies, memories, effected>>

\* getApplyResult: what is recorded is returned as it is.
GuardApplied(c) ==
  /\ CommandAt(c, "guard")
  /\ IF applies[command[c].of] = Unapplied THEN Proceeds(c, [command[c] EXCEPT !.at = "execute"]) ELSE Finishes(c)
  /\ UNCHANGED <<logs, proposals, applies, memories, begun, effected>>

Of(c) == proposals[command[c].of]

Results(c, result) == Proceeds(c, [at |-> "record", of |-> command[c].of, result |-> result])

AuthorityRank == [explicit |-> 1, verified |-> 2, repository |-> 3, inferred |-> 4]
Upgrades(current, to) == current.status # "absent" /\ AuthorityRank[to] < AuthorityRank[current.authority]

\* UpgradeMemory reads the row and compares, and then updates it.
ReadToUpgrade(c) ==
  /\ CommandAt(c, "execute") /\ Of(c).kind = "memory_upgrade"
  /\ IF Of(c).complete /\ Upgrades(memories[Of(c).about], Of(c).authority)
     THEN Proceeds(c, [command[c] EXCEPT !.at = "upgrade"]) ELSE Results(c, "failed")
  /\ UNCHANGED <<logs, proposals, applies, memories, begun, effected>>

\* The row may be gone by now: the UPDATE hits none and nobody looks.
UpgradeMemory(c) ==
  /\ CommandAt(c, "upgrade")
  /\ LET m == Of(c).about
     IN  IF memories[m].status = "absent" THEN UNCHANGED <<memories, effected>>
         ELSE /\ memories' = [memories EXCEPT ![m].authority = Of(c).authority]
              /\ effected' = effected \cup {command[c].of}
  /\ Results(c, "success")
  /\ UNCHANGED <<logs, proposals, applies, begun>>

\* Forget, without --hard.
ApplyObsolete(c) ==
  /\ CommandAt(c, "execute") /\ Of(c).kind = "obsolete"
  /\ LET m == Of(c).about
     IN  IF Of(c).complete /\ memories[m].status # "absent"
         THEN /\ memories' = [memories EXCEPT ![m].status = "archived"]
              /\ effected' = effected \cup {command[c].of}
              /\ Results(c, "success")
         ELSE Results(c, "failed") /\ UNCHANGED <<memories, effected>>
  /\ UNCHANGED <<logs, proposals, applies, begun>>

\* The program gives its executor no project root, without which no file is written.
ApplyFile(c) ==
  /\ CommandAt(c, "execute") /\ Of(c).kind \in {"agents_md_revision", "skill_draft"}
  /\ Results(c, "failed")
  /\ UNCHANGED <<logs, proposals, applies, memories, begun, effected>>

\* insertApplyResult: proposal_id is unique, and the second of two is an error.
RecordApply(c) ==
  /\ CommandAt(c, "record")
  /\ LET i == command[c].of
     IN  applies' = IF applies[i] = Unapplied THEN [applies EXCEPT ![i].result = command[c].result] ELSE applies
  /\ Finishes(c)
  /\ UNCHANGED <<logs, proposals, memories, begun, effected>>

-----------------------------------------------------------------------------
(***************************************************************************)
(* Revert, which only marks the record.                                      *)
(***************************************************************************)

ReadToRevert(c) ==
  /\ \E i \in DOMAIN proposals :
       applies[i].result # "none" /\ applies[i].by = {} /\ Begin(c, [at |-> "revert", of |-> i])
  /\ UNCHANGED <<logs, proposals, applies, memories, effected>>

AsRead(i)     == TRUE     \* mutant: the marker was not there when it was read
Unreverted(i) == applies[i].by = {}

MarkReverted(c) ==
  /\ CommandAt(c, "revert")
  /\ LET i == command[c].of
     IN  applies' = IF Unreverted(i) THEN [applies EXCEPT ![i].by = {c}] ELSE applies
  /\ Finishes(c)
  /\ UNCHANGED <<logs, proposals, memories, begun, effected>>

-----------------------------------------------------------------------------
(***************************************************************************)
(* Meanwhile: a process is killed, a run logs an event, a user forgets.      *)
(***************************************************************************)

Killed(c) ==
  /\ ~CommandAt(c, "done") /\ Finishes(c)
  /\ UNCHANGED <<logs, proposals, applies, memories, begun, effected>>

LogEvent ==
  /\ \E s \in Session, row \in Row :
       /\ MapThenSumSet(LAMBDA t : Len(logs[t]), Session) < MaxRows
       /\ logs' = [logs EXCEPT ![s] = Append(@, row)]
  /\ UNCHANGED <<proposals, applies, memories, command, begun, effected>>

ForgetHard ==
  /\ \E m \in Memory : memories[m].status # "absent" /\ memories' = [memories EXCEPT ![m] = Gone]
  /\ UNCHANGED <<logs, proposals, applies, command, begun, effected>>

CommandStep(c) ==
  \/ BeginReflect(c) \/ ScanSession(c) \/ ExtractSession(c) \/ Reflected(c) \/ Propose(c)
  \/ Approve(c) \/ Reject(c)
  \/ ReadToApply(c) \/ GuardApplied(c) \/ ReadToUpgrade(c) \/ UpgradeMemory(c) \/ ApplyObsolete(c)
  \/ ApplyFile(c) \/ RecordApply(c)
  \/ ReadToRevert(c) \/ MarkReverted(c) \/ Killed(c)

ReflectionNext == (\E c \in Command : CommandStep(c)) \/ LogEvent \/ ForgetHard

ReflectionSpec == ReflectionInit /\ [][ReflectionNext]_reflectionVars

-----------------------------------------------------------------------------
(***************************************************************************)
(* No proposal changes a memory that nobody has reviewed, and a success on   *)
(* record is one: the change was made, unless the memory was deleted while   *)
(* it was.  (The other way round it does not hold: a process that dies       *)
(* before the record, or loses the race for it to one that failed, leaves    *)
(* a change without its success.)                                            *)
(***************************************************************************)
AppliesAreEarned ==
  \A i \in DOMAIN proposals :
    /\ i \in effected => proposals[i].status \in {"approved", "rejected"}
    /\ applies[i].result = "success" => i \in effected \/ memories[proposals[i].about].status = "absent"

(***************************************************************************)
(* The record of an application is written once and then only marked         *)
(* reverted, once, by whoever came first.                                    *)
(***************************************************************************)
RecordsStand ==
  [][\A i \in DOMAIN applies : applies[i] # Unapplied =>
       applies'[i] = applies[i] \/ (applies[i].by = {} /\ applies'[i].result = applies[i].result)]_reflectionVars
=============================================================================
