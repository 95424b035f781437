# A TLA+ model of MengDie Code

MengDie Code is a local coding agent written in Go. A user gives it a task; it
asks a model, runs the tools the model calls (after a policy and, where needed,
the user allow them), and keeps what happened in one SQLite file so that an
interrupted session can be resumed, a change to a file can be undone and a
finished task leaves a verifiable record.

This directory holds TLA+ modules that follow the code, configurations that
check them with TLC, and proofs checked with TLAPS. `PROJECT.json` lists the
runs, the source lines every definition stands for, the hazards of the code and
the properties that answer them, and the findings.

Running them:

    tlc -workers 2 -config MCSessionLedger.cfg MCSessionLedger    # a run
    tlapm SessionLedgerProofs.tla                                 # a module of proofs

## 1. The system

Paths are under `src/internal/`.

| Component | State it keeps | Operations | What is hard | What makes it correct |
|---|---|---|---|---|
| **Session ledger** `session/sqlite_store.go`, `command.go`, `event_sink.go` | tables `sessions`, `commands`, `runs`, `events`, `context_messages` | begin or replay a command, begin a resume, append an event, append a private message, reject a setup | several processes on one file, stale positions, death between transactions | gapless log; an overtaken run writes nothing; one execution and one answer per command |
| **Patch journal, write tools** `session/patch_journal.go`, `tools/modify_file.go`, `edit_file.go`, `write_file.go` | table `patch_journals`, the file, a temporary file | prepare, check, record intent, rename, mark applied, verify, recover | the file is written outside the transaction; others change it; death at each step | the journal never claims what was not there; no text is overwritten that was not checked |
| **Session rewind** `session/rewind.go`, `app/rewind.go`, `tools/rewind_file.go` | the `session.rewind` commands, `rewind_command_id` | register, approve, bind, restore, record, recover | retries, two rewinds of one journal, a resume in between | command and journal agree; answers stand; a journal stays rewindable |
| **Agent runtime** `agent/runtime.go`, `state.go` | messages, tool calls and their results, counters | ask, propose, authorize, start, execute, tell, finish | cancellation and failing writes between any two steps; two logs | limits hold; every run ends with one terminal event; a cancelled run returns |
| **Session resume** `session/resume.go`, `view.go` | none: reads events, context, journals | view, decide journals, choose a candidate, recover one call | what a dead run left in two logs and one file | no effect twice, no effect hidden, a finished session resumes |
| **Authorization, tools** `policy/*`, `tools/*`, `tui/approval.go` | issued capabilities | prepare, evaluate, ask, issue, consume, check again | expiry, reuse, changed arguments, a decision racing a cancellation | one use, for the call that was approved |
| **Shell processes** `tools/shell.go`, `platform/process*.go` | a process group | start, wait, terminate, kill, collect | children that fork while they are being killed, or outlive the shell | nothing of the group survives the call |
| **Model requests** `provider/openaicompat/*`, `cost/`, `agent/state.go` | one attempt, what was shown, usage | connect, stream, back off, retry, account | a stream that breaks after it was shown; usage that overflows | nothing shown twice; every usage fact can be reduced |
| **Request budget** `context/builder.go`, `agent/runtime.go` | history, summary, todos | estimate, choose a cut, compact, rebuild | a summary longer than what it replaces; estimates against a limit | a request that is sent fits its window |
| **Committed facts feed** `session/fact_bus.go`, `tui/session.go` | per subscriber a bounded channel and a cursor; the viewer's position | publish, subscribe, replay, apply | a slow subscriber, gaps, pages interleaved with live facts | no fact skipped or shown twice; the viewer catches up |
| **Opening the store** `session/data_dir.go`, `migrations.go` | the directory, `schema_migrations`, the tables | open, check, apply one migration, use | several binaries on one file, death between two migrations | tables and ledger agree; an open store has its binary's schema |
| **Snapshots, session service** `session/service.go`, `snapshot.go`, `view.go` | table `snapshots` | view, refresh, list, delete | a snapshot older than the log, spoiled, or saved late | a view equals the reduction of the log |
| **Context artifacts, summaries** `session/artifact.go`, `context.go`, `context_summary.go`, `tools/read_context_source.go` | files, table `artifacts`, summaries | stage, insert, delete, reconcile, record a compaction, read its source | a file without a row, a row without a file, a summary that was replaced | a named artifact exists; nothing recorded is lost to the model |
| **Trusted memory** `memory/store.go` | tables `memories`, `memory_evidence` | save, approve, supersede, forget, upgrade, score | conflicts between authorities; steps in several transactions | a trusted memory is not contradicted; a link is kept |
| **Reflection** `memory/extractor/*`, `memory/proposal/*`, `app/reflect.go` | the extraction queue, proposals, apply results | extract, scan, insert, review, apply, revert | effect and record in two transactions of two stores | an applied proposal was approved; records stand |
| **Interactive terminal UI** `tui/interactive.go`, `app/interactive_tui.go` | phase, prompt, subscription | submit, approve, cancel, quit, shut down | keys, messages and goroutines in any order; who waits for whom at the end | prompts reach the user; the end comes, and after the run |
| **Configuration** `config/*` | one value, read once | load, merge, choose a profile, validate | five layers of which any may name a profile | the strongest layer that says something decides |
| **Skills** `skills/*` | a catalogue of names and digests | discover, list, prepare, read | files edited between discovery, preparation and reading | the model reads what was announced |
| Project files, branding, command line, diagnostics, evaluation harness | none that outlives a call | | | |

How they interact. A command line or the terminal UI submits a *command* to the
ledger, which creates its *run*. The agent runtime emits public events through
`EventSink` (one transaction each: the event, the status of run, session and
command) and records private messages through `ContextRecorder`. Write tools
call the patch journal around the rename. After a commit the event is
broadcast on the fact bus, from which the UI follows. A later process starts
with `SessionService.View` and `AnalyzeResume`, which read events, context and
journals, decide what dead writers left, and begin the next run by comparing the
position they read (`AfterSeq`).

## 2. The modules

| Module | Models | Extends / instantiates |
|---|---|---|
| `CommandOutcomes` | what a submitter is promised: a command runs at most once, an answer stands | |
| `SessionLedger` | the tables and the processes that write them | `CommandOutcomes` (refined) |
| `SessionLedgerProofs` | theorems of the ledger | `SessionLedger`, `TLAPS` |
| `JournalOutcomes` | what a journal row promises: the legal statuses of one write, in order | |
| `PatchJournal` | writes of one file, and recovery after a crash | |
| `PatchRewind` | rewinds of these writes | `PatchJournal`; `JournalOutcomes` (refined) |
| `PatchRewindProofs` | theorems of the journal and the rewinds | `PatchRewind`, `TLAPS` |
| `AgentRun` | one run of the loop with its tools, limits, cancellation, failing writes | |
| `SessionResume` | a chain of runs with what each leaves, and the analysis between them | `AgentRun` |
| `AgentRunProofs` | theorems of one run, and of a session of several | `SessionResume`, `TLAPS` |
| `FactFeed` | the bus of committed facts and the chains of commands and messages that follow it | |
| `InteractiveTask` | one task of the terminal UI: loop, goroutines, run, approvals, shutdown | `FactFeed` |
| `InteractiveTaskProofs` | theorems of the feed and the task | `InteractiveTask`, `TLAPS` |
| `TrustedMemory` | the memory rows of one scope and the commands of several processes | |
| `TrustedMemoryProofs` | theorems of the memory | `TrustedMemory`, `TLAPS` |
| `SessionView` | views, snapshots and pages of several processes | |
| `SessionContext` | private messages, artifact files, summaries, and the tool that reads them | |
| `StoreOpening` | processes of several binaries that open one database | |
| `ToolAuthorization` | one call from preparation to its checked execution, with its capability | |
| `ShellProcess` | one shell call and the processes it starts | |
| `ModelRequest` | one request to the model: attempts, stream, usage, cost | |
| `RequestBudget` | the requests of a run: estimates, compaction, todos | |
| `Reflection` | extraction, patterns, proposals and their application | |
| `ConfigLayers` | the five layers of the configuration, as a function | |
| `SkillCatalog` | discovery of skills and the reads of one | |
| `Sums` | sums of sizes and tokens, used by five of the modules above | |
| `StoreProofs` | theorems of what is stored | `StoreOpening`, `SessionView`, `SessionContext`, `Reflection`, `DataLemmas` |
| `RunProofs` | theorems of what a run uses | `ToolAuthorization`, `ShellProcess`, `ModelRequest`, `RequestBudget`, `ConfigLayers`, `SkillCatalog`, `DataLemmas` |
| `DataLemmas` | induction, sums, least and greatest elements | `Sums`, `TLAPS` |
| `MCComponents` | the ten modules `StoreProofs` and `RunProofs` are about and `TrustedMemory`, side by side | all of them |
| `MC...` | the constants of the other runs | |

### 2.1 SessionLedger

Every operation of `SQLiteStore` is one immediate write transaction on one
connection (`data_dir.go`, `MaxOpenConns` 1), so each is one action. What is
*not* atomic is a process: between two of its transactions others may write, and
what it read may be stale. `proc` holds exactly what a process remembers:
the command it registered, the positions its analysis read, `EventSink.lastSeq`,
`ContextRecorder.last`, `Emitter.seq`.

* `BeginResume` compares `last_seq` with what the analysis read, marks the open
  runs and commands of the session interrupted, and creates the next run, but
  leaves `last_seq` where it was. A process of an interrupted run therefore
  still holds a valid position: only `runs.status` keeps it out.
* A run command owns one run, so the model uses the command's id for both.
  `session.rewind` commands own none and are in `PatchRewind`.
* `run.interrupted` is never emitted by the code, so no event ends a session
  with that status.
* `starts`, `earlier` and `base` are history variables: they are written by
  actions and read only by properties.
* A process that dies is one that takes no further step; one that fails forgets
  what it knew (`Stop`).

### 2.2 PatchJournal and PatchRewind

The *file* has a text (`Text`, or `NoFile` where there is none) and a mode (`Mode`;
`NewMode` is the one `write_file` creates a file with). The journal records both
and `Observed` compares both. A writer goes through prepare and approval (`Approve`), the
check of its preconditions with which `Execute` begins (`BeginExecute`), the intent
transaction, its second check, the rename, `MarkApplied` and `VerifyPost`, and can hang
between any two. `Recover` decides a journal from the file's present content as
`RecoverPatchJournals` does. The user (`UserEdits`) may change text or mode at any time.

What a write tool is approved for and checks is the text only: its preconditions are a
SHA-256 or that the path is absent. It reads the mode when `Execute` begins and gives
it to the file it puts there, so a chmod after the approval is taken over, and one
after `BeginExecute` is undone, without a word. A rewind checks the mode as well
(`rewind_file.go:148`). `Differs` says which of the two an actor checks.
The window between the last check and the rename cannot be closed by the code; the set
`raced` names the writes and rewinds for which what they check changed in it, and
`ReplacesOnlyWhatItChecked` exempts only those. `MaxEdits` bounds the user's changes,
`MaxRetries` the processes that recover one rewind at the same time.

### 2.3 AgentRun and SessionResume

`AgentRun` splits `Run` at every write and every wait: asking the provider, the
private answer, the public answer, proposal, authorization, approval,
`tool.started`, execution, `tool.completed`, the private result, terminal event.
Any write may fail (`MaxFaults`), be committed and fail to broadcast, or be
refused because the run's context is done. Emissions through `FatalSteps` return
the error as it is; those through `RecordingSteps` go through `finishError`,
which shields its write from the cancellation. A sum of tokens or of cost that no
longer fits its integer (`SumsOverflow`; `addUsage` refuses it once the usage event is
durable) ends the run silently although no write failed and nothing was cancelled;
the history variable `overflowed` says so, and `SilentEndHasACause` names all three causes.

`SessionResume` lets the process die anywhere and begins the next run from what
`AnalyzeResume` finds. It assumes the old process is gone; that an old process
that is *not* gone cannot write any more is `SessionLedger`'s subject. A journal that
was left incomplete is decided by what its file holds by then (`Decided`): the post state,
also if the user wrote it by hand, the state before the write, also if the user put it
back, or something else. A write that took effect and was put back is planned again,
and rightly: its effect is gone (`Undone`). `EffectsOnce` counts from there.

Left out of these two and modelled on their own: what a request contains and whether it
fits (2.12; here a failed build is a failed ask), the stream of an answer (2.11), the
authorization of a call (2.9). Ids of calls are fresh. The failure streak of the
repetition tracker is nondeterministic.

### 2.4 FactFeed and InteractiveTask

A Bubble Tea model handles one message at a time and answers with at most one
command, which runs in a goroutine and ends in one message. `FactFeed` therefore
has no threads but *chains*: each is at a command (`start`, `load`, `wait`), at a
message nobody has handled yet (`page`, `notice`, `closed`, `error`), or over.
`SessionModel` runs one chain; `InteractiveModel` runs two, because
`taskResultMsg` begins a replay of its own while the first is still going on, and
both then read the same subscription. `HandleFeed` is `Update`; `Commands` are
the closures it returns.

All records of `EventSink` are public, so the positions of public facts are
contiguous and the bus, which lives in one process, offers them in order; the
`Gap` mark is then redundant with the test `SessionSeq != LastSeq+1`, and the
model keeps both as the code does.

`InteractiveTask` adds the four parties of a task: the loop (keys and
messages), the goroutines of its commands, the run, and `runInteractiveTUI`,
which goes on when the loop is over. A signal or a terminal error may end the
loop in any phase; from then on nobody handles messages, but goroutines run on.
A prompt has a response channel of its own, so an answer to a prompt that is over
reaches nobody. One session of the UI runs one task: `phaseDone` leads only to
the end.

### 2.5 TrustedMemory

`Save` and `Forget` are one immediate transaction each; `Approve` and
`Supersede` read the row with a statement of their own and write it with an
UPDATE that names only its id, so each is two actions; a recall is a query and
then one INSERT per hit. Other processes, and death, may come between any two.

The id of a row is a hash of claim, scope, authority and session, modelled as the
record of these. `Claim` stands for classes of `CanonicalizeClaim`; `Ref` for
session and spelling, which give other ids to the same claim. Only two of the four
authorities can be written from the command line (`remember` refuses the others).
`overtaken` is a history variable: the rows that the second half of an `Approve`
or a `Supersede` hit after another command had changed what the first had read.
`TrustedStandsAlone` exempts them; `LinksKept`, which has no exemption, is what two
`Supersede` of one row violate (`redirected_link`, 6.1).
Conflict marking, links and the foreign key of `memory_usage` are as in the code;
`supersedes` has no foreign key there and none here.

Left out: evidence, scores and `UpgradeMemory`, which no path of the program
reaches with data that passes its checks (6.3), `valid_until` (a hit may be
missing from a recall, which the model allows anyway), and the words of a claim.

### 2.6 SessionView

A view takes several statements: the row of the session, the snapshot, the log page by
page. `reader` holds what a process has read so far; between any two of its steps
other processes append, save and discard snapshots, and delete the session. The
reduction is `Reduced`, over the kinds of facts that `view.go` treats
differently; a total that does not fit makes it fail. A saved snapshot is only
replaced by one of a later position. A session deleted between two pages is shown cut
short by the code, and `ViewIsTheLog` says nothing about it.

### 2.7 SessionContext

A large message is a file first (`StageFile`) and a row afterwards (`CommitLarge`); a deleted
session loses its rows first and its files afterwards; opening the store collects old
files without a row. A file ages by `FilesAge`: the code's grace period is the one
assumption about time, namely that no process takes all of it between staging a file
and committing its row, or between listing the files and removing one. A summary
replaces the messages after the first and before the recent ones; its row names the
range it was made from. `ReadSource` is `read_context_source`, which pages by messages and
by bytes. What fits the model is left open here and is the subject of
`RequestBudget`.

A process killed between the file and the row leaves an orphan, and a retry of the
same message finds the file there and fails, until the file is collected.

### 2.8 StoreOpening

`Opener`s run binaries with different migrations. The ledger is read once, before
the transactions; each migration is a transaction of its own, and a process dies
anywhere. Consequences the model shows and the code accepts: a newer binary that
migrates after an older one has read the ledger is not noticed by it, and of two first
openings one fails though nothing is wrong.

### 2.9 ToolAuthorization

One action per step of a call: `Prepares` of each tool on resolved paths, the policy
(`Evaluate`) with the settings of the run, the approval, `Issue`, `Consume`, and each tool's own
second check before its effect. Between them time passes and the user
moves the link a call names or edits the file behind it. The loop of `AgentRun` is
sequential and presents each capability once; the authority is documented for concurrent
callers, and is modelled with several who present any capability with any call.
The environment of a run is taken once per call, so `ErrShellEnvironmentChanged` cannot
occur. `list_files` and `search_text` resolve their base again without comparing it
with what was approved, so they are only promised to stay in the project.

### 2.10 ShellProcess

`RunProcess` with its watcher, `Wait`, SIGTERM, the grace period, SIGKILL and the
collection of the output, over a group of processes (external: they fork, exit,
ignore SIGTERM, or leave the group). Windows' job objects are not modelled.

### 2.11 ModelRequest

The client's attempts with back-off under one deadline for all of them, the decoder of
the stream, the observer that shows text while it comes, and the usage that is
added to the run and reduced again by the view. An attempt of which something was
shown is not retried. The usage of a failed attempt counts if the last one reports
none. A sum that does not fit ends the run after the fact was written: the run is
`silent`. The view adds up the facts of all runs of a session, so it meets such a sum at
the same fact or earlier, and from then on cannot be reduced; `UsageFactsReduce` is about
each fact and about the sums of one run as long as they fit.

### 2.12 RequestBudget

A text is its numbers of ASCII and of other characters, all that `estimateTextTokens`
looks at (`TextTokens`). A turn builds its request, estimates it, and when it is too large picks the
smallest cut that would fit, asks for a summary in a request that must fit as well,
rebuilds and checks again. The catalogue of the memory is added to the first request
after the check; `RequestsFit` therefore grants the first request that much more.

### 2.13 Reflection

Rules over the log of a session (`extractor/rules.go`), the detectors over all
sessions, and the commands that insert, review, apply and revert proposals, each
statement of each command an action, since effect and record are in two stores.
`Foreign` are complete proposals another release may have left: the detectors of
this one fill in no payload an executor accepts.

### 2.14 ConfigLayers

One action per layer, in the order of `Load`; the result of every combination of user
file, project file, environment and flags is compared with a reference definition, the
first layer that sets a field. `LaidElsewhere` are the fields of which `StrongestLayerWins`
says nothing: those the environment sets, and no flag, when a flag chooses another profile
than the environment and the files name. There the code does not keep the order it
states (6.5).

### 2.15 SkillCatalog

Discovery reads the user's root and then the project's, one skill after the other,
while files and links change; `PrepareSkill` and `LoadSkill` both check the digest and the
resolved path. Looking at a link and reading what it leads to is one step.

### 2.16 MCComponents

`TrustedMemory` and the ten modules of 2.6 to 2.15 share no state with each other, so one
run explores them side by side: `part` names the one a behaviour is of, the others keep their first state. The
state space is the sum of theirs.

## 3. The plan

The order in which the project was built, the most important behaviour first: the
ledger and its proofs; the journal and the rewinds; the run and the resume; the feed
and the interactive task; the memory; then what these left open: views and
snapshots, context and artifacts, opening, authorization, shell processes, requests and
their budget, reflection, configuration, skills; then the proofs of the journal, of the
run, of the prompts, of the opening, of the shell call and of the resumed session; then
those of the other nine modules of `MCComponents`.

What is left: the **composition of `AgentRun` with `RequestBudget` and
`ToolAuthorization`**, which are checked on their own. A build that fails and a call that
is refused are single steps of `AgentRun`.
Abstract specifications: `CommandOutcomes` and `JournalOutcomes`, both refined by the
detailed modules, both refinements checked and proved.

## 4. The runs

| Run | Instance | What it shows |
|---|---|---|
| `session_ledger` | 2 processes, 3 commands, 1 session, 3 events, 2 messages, 2 events per run | races, retries, resumes and deaths leave the log gapless, fence overtaken runs, keep statuses in agreement, and implement `CommandOutcomes` |
| `patch_journal` | 2 writes of one file, 3 runs, 1 resume, no file or 2 texts with 2 modes, 1 edit or chmod | a journal says *verified* only of what was there; no resume forgets a write |
| `patch_rewind` | 1 write, 2 runs, 1 resume, 2 rewinds, 1 retry of each at a time, the same contents, 1 edit or chmod | a write overwrites only the text, a rewind only the text and mode that it checked; rewinds agree with the journal, and their answers stand; `JournalOutcomes` is implemented |
| `stuck_rewind` | 1 write, 1 resume, 1 rewind | **violation**, 6.1 |
| `agent_run` | 2 reads, 2 commands, 3 turns, 3 calls, 2 calls per answer, 1 command, 1 failing write | both limits hold, an end without a terminal event has one of three causes, a cancelled run returns |
| `agent_cancel` | one read, write and command, 2 turns, 1 call per answer, no failing write | **violation**, 6.1 |
| `session_resume` | 3 runs of one turn, one read, write and command; a file in the pre state, the post state or another at each resume | no effect twice unless the user undid it, none hidden, finished runs resume |
| `answered_twice` | 2 runs of one turn, otherwise the same | **violation**, 6.1 |
| `interactive_task` | 2 chains, capacity 1, pages of 1, 3 facts, 1 failing read, 2 prompts | the view is a prefix and not silently old; prompts reach the user; the end ends |
| `components` | 2 processes; see below | views, files, summaries, capabilities, groups, answers, budgets, proposals, migrations, layers, skills and trusted memories keep what section 2 says of them |
| `forgotten_memory` | 1 process, 4 commands | **violation**, 6.1 |
| `redirected_link` | 2 processes, 2 claims, 5 commands | **violation**, 6.1 |

Why these bounds are enough to mean something:

* *Ledger.* Two processes are one that writes and one that overtakes it; a third
  would race in the same ways through the same transactions. Three commands allow
  a run, its resume and the resume of that. `MaxSeq`, `MaxOrdinal` and `MaxRunSeq`
  let every run reach its terminal event after another. The proofs remove all
  of these bounds.
* *Journal.* No file and two texts are the state before, the state after and a third
  that is neither, all that `RecoverPatchJournals` tells apart, and two modes a chmod of each. Two rewinds and a
  retry of each are the smallest competition for one journal.
* *Run.* Two reads reach the limit of repetitions and a reset of it; three calls
  in two answers cross the budget inside an answer; one command call crosses the
  limit of commands. One failing write meets every write of the run.
* *Resume.* The third run is the first that resumes a run that itself resumed.
* *Feed.* A channel of one overflows at the second fact; three facts give a gap
  followed by a live fact; pages of one need a second page. `PageSize` and
  `Capacity` of the code (256 and `DefaultPublicFactBuffer`) differ only in how long that takes.
* *Memory.* Two claims with two authorities are four rows; five commands are enough for a
  proposal, a dispute, a deletion and the row's return with another process half-way
  through an approval, a link or a recall.

* *Components.* Two processes each, and of everything else what makes each case of the
  code happen: pages of one fact and of two bytes; four messages, with and without a file, two runs
  and a quota of one artifact; three ways to start a run and two
  calls, with a life of one tick; two children of a shell; two attempts, a response of two
  bytes, usages that just fit, that make no sense and that are negative; three kinds of
  events, two proposals, three commands; an old, a new and a foreign binary in three
  openings; short and long texts, of which some need a compaction and some
  summaries are refused; five files, four
  environments and three command lines; two names and four texts of skills. Every
  bound is a constant of `MCComponents.cfg`.

The types of a module with proofs are not checked by its runs where a theorem
says the same for every instance.

`CHECK_DEADLOCK FALSE` where it stands is because these systems stop: processes
die, runs end, bounds are used up.

## 5. Fairness and proofs

### 5.1 Fairness

* `AgentRun`: weak fairness of the run's own steps, and of an approval that is
  being waited for when the context is done. Provider, tools and broker all select
  on the context, and the loop is bounded by `MaxTurns` and `MaxToolCalls`. There is
  none on an answer by the user.
* `InteractiveTask`: weak fairness of every goroutine that can go on, of the loop
  for each kind of message, and of the caller of the loop. None of keys, signals,
  failures and answers. `RunReturns` is fair because the run has time-outs of its
  own and its progress is `AgentRun`'s subject. With this, `StopsEnd` needs
  `DecideIsOver` to look at the context: bound to the broker only, main would wait
  for a run that waits for a broker main closes afterwards.
* Every other specification is safety only.

### 5.2 What is proved

`SessionLedgerProofs` proves, for any number of processes, commands, sessions and
payloads and for any bounds (assumptions: those `SessionLedger` states on its
constants):

| Theorem | Property |
|---|---|
| `TypeCorrect` | `TypeOK` |
| `LogIsIntact` | `SeqIntegrity` |
| `ResumeFences` | `OvertakenRunsAreFenced` |
| `StatusesAgree` | `LedgerAgrees` |
| `ResultsAgree` | `ResultNamesItsEvent` |
| `ImplementsOutcomes` | `RefinesCommandOutcomes` |

None of these is inductive alone. The invariant `IndInv` adds what makes them so:

* `RowsExist`: a command that was registered has one start, a run and a session that
  exists; one that was not has none of these, no result and no successor.
* `SessionsStartEmpty`: a session nobody opened has no events and no messages.
* `WritersAreKnown`: what was written names the run that wrote it and that run's
  session, and no event is ahead of its run's counter.
* `TakenOver`: a run that another one has overtaken is not running, and the
  positions it left (`base`) are not ahead of the session. Its first half is the heart
  of `ResumeFences`: a resume leaves `last_seq` alone, so the position an overtaken
  process remembers is still right, and only the status of its run refuses it.
* `ResultsOpen`: a command that is not settled names no result yet.
* `MemoryIsOld`: the command and the session a process remembers exist and belong
  together; rows never go away, so what was true once still is.

The layout is that of the actions: each has lemmas that say what it does to each
table at one index, and the preservation of each conjunct has a step per action.

`InteractiveTaskProofs` proves, for any capacity, page size and number of facts,
failing reads and prompts (assumptions: `FeedConstants`, `TaskConstants`):

| Theorem | Property |
|---|---|
| `TaskTypes` | `TypeOK` |
| `ViewFollowsFacts` | `ViewIsPrefix` |
| `ExitIsLast` | `ExitWaitsForRun` |
| `PromptsReachTheUser` | `PromptReachesUser` |

`ViewIsPrefix` alone says nothing of what is on its way to the view. `FeedIsBehind` does,
of every step a chain can be at: a page or a load begins at or before the view
and reaches no further than the store, a notification names a fact of the store.
Since the view only goes forward these stay true, whichever chain moves, except in the
one step that empties the view (`HandlePrepared`); `PhasesAgree` says that no chain is
alive then. `RunnerKnowsRun` says that a run that can begin or is running is the one
`runner.Close` finds, which is what `ExitWaitsForRun` needs. For the prompts, `RunIsHeard`
says who has a prompt while the run can still be answered (`Heard`: somebody listens, the
loop has it, the user sees it, or `Decide` has its answer), and that the phase is then
*running*, without which the loop would drop it.

`TrustedMemoryProofs` proves, for any number of processes, claims, sessions and commands
(no assumptions):

| Theorem | Property |
|---|---|
| `MemoryTypes` | `TypeOK`, with the foreign key of `memory_usage` |
| `TrustIsExclusive` | `TrustedStandsAlone` |

`TrustedStandsAlone` is inductive with the types. A new memory meets only rows of other
claims, all of which it disputes, so it stands alone or nothing is trusted; an approval
finds its row *proposed*, hence alone, or the row is `overtaken`; every other step takes
trust away or leaves it.

`PatchRewindProofs` proves, for any number of writes, rewinds, runs, resumers, contents
and edits (assumptions: those `PatchJournal` and `PatchRewind` state on their constants):

| Theorem | Property |
|---|---|
| `JournalTypes` | `TypeOK` |
| `ImplementsJournal` | `RefinesJournalOutcomes` |
| `VerifiedIsObserved` | `VerifiedWasObserved` |
| `OutcomesAgree` | `RewindOutcomesAgree` |
| `AnswersStand` | `RewindAnswersStand` |
| `OnlyCheckedIsReplaced` | `ReplacesOnlyWhatItChecked` |
| `NothingIsForgotten` | `NoWriteForgotten` |

The invariants are layers, each proved from the ones below it:

* `Positions` ties the status of a journal to where its writer is, and `Analyses` what a
  resumer remembers to the log it read; with them the refinement follows.
* `Recorded`: whoever is about to decide a journal as verified has seen the post state
  (`PostIsRecorded`, `MatchIsRecorded`, `SightIsRecorded`), now or earlier; the file may
  be different by the time the decision is written.
* `Agreed`: what a rewind points at and what is bound to it fit together (`Aimed`,
  `Bonds`), for all three statuses a decided rewind may have.
* `Aware`: a change of what was checked, behind the check, is in `raced` before the rename makes it a
  loss (`WriteIsAware`, `RewindIsAware`); a process that checks nothing harms nothing.
* `ReadyKnows`: a resumer that is ready to take the session over has every started
  write that is not reported either decided or as its pending call.

`AgentRunProofs` proves, for any sets of calls and any limits (assumptions:
`CallsAreDistinct`, `RequestOfEveryCall`, `LimitsAreNaturals`):

| Theorem | Property |
|---|---|
| `RunTypes` | `TypeOK` |
| `SilenceIsCaused` | `SilentEndHasACause` |
| `BudgetHolds` | `WithinBudget` |
| `RepetitionsEnd` | `NoRepeatedCalls` |
| `LimitsAreKept` | `LimitsHold` |

`Accounted` relates the counters of the state to the calls the events name: what was
proposed is no more than what was reserved, and the current call is reserved already
when it is proposed. `Tracked` relates the tracker to the private log: the last
results of the run that repeat one request are counted, and no longer stretch of equal
requests lies further back.

Its second part proves, for any number of runs that end, die, are cancelled or
cannot write, and of resumes between them (assumptions: those of `AgentRun`, and
`NoneIsNoRecovery`):

| Theorem | Property |
|---|---|
| `SessionTypes` | `TypeOK` |
| `ResumeRepeatsNothing` | `EffectsOnce` |
| `ResumeForgetsNothing` | `ModelKnowsEffects` |
| `EndedRunsAreResumed` | `EndedRunsResume` |
| `EveryRunKeepsBudget` | `WithinBudget` |

The invariant `Settled` has three parts besides the types. `Dialogue` is about the private
conversation: a call is asked for by one run, what a recovery settled has a result, and
new answers bring new calls. `Traces` ties effects to the public facts: a call with an
effect was allowed and has been started (`LeavesTrace`), its journal is not *aborted*, and
what was never asked for, or is still ahead of the run, is `Untried`. `Knowledge` says
which effects the conversation does not tell yet: at most that of the call the run is at.

The step that carries the proof is the resume. `EffectIsToldOrOpen`: a call with an effect
has a result, or is recovered, or is a candidate for recovery. `RecoveredHadNone`: if the
journal of the one candidate does not say *verified*, no run has had the effect of that
call. Were it another run than the candidate's, that run would be a second candidate, or
its public result would have a private one, which fits only if the recovery of the
candidate is on record. Each check of `CanResume` this uses is needed: without the one
on several candidates neither lemma holds. `PlanIsSound` hands this to `NewRun`.

`EndedRunsResume` needs two more invariants, both checked on the instance of `session_resume`
before they were proved. `Books` holds in every state: a run has one task and recovers
one call, a result belongs to a call that is completed, later runs are blank.
`Agreement` is about a run that works or has ended and whose writes have all succeeded
(`Whole`), and says how far the two logs may be apart at each step: the
public log lacks the answer that was just recorded (`Expected`), the private log the
result that is about to be told (`ResultsMatch`), the recoveries the one that is about
to be resolved (`IsUnresolved`), and the pending calls are just those in `todo`
(`OpenCalls`). A crash, or a write that ends the run without a terminal event, leaves
`Whole`; the next run can be `Whole` again because `CanResume` compares the logs before it
begins, so that `NewRunAgrees` proves `Agreement` from the plan alone and needs nothing of
what a broken run left behind.

`StoreProofs` proves, for any number of processes, sizes, pages, facts and failures
(assumptions: those each module states on its constants):

| Module | Theorem | Property |
|---|---|---|
| `StoreOpening` | `SchemaStands` | `MigrationsStand` |
| `Reflection` | `AppliesEarned` | `AppliesAreEarned` |
| `Reflection` | `RecordsOnce` | `RecordsStand` |
| `SessionView` | `ViewsShowTheLog` | `ViewIsTheLog` |
| `SessionView` | `OlderSnapshotsLose` | `SnapshotsAdvance` |
| `SessionContext` | `RowsHaveFiles` | `ArtifactRowsHaveFiles` |
| `SessionContext` | `ConversationIsWhole` | `NothingForgotten` |
| `SessionContext` | `SourceIsReadInOrder` | `SourceReadInOrder` |

* *Opening.* What an opener read of the ledger of migrations is never ahead of it, and a
  binary's remaining migrations start where its own prefix of the ledger ends.
  `OneBinaryIsLongest` bounds the versions so that the tables can be written down.
* *Reflection.* `SoundCommand` says what a command that is half-way knows and that it is
  still true: a proposal that was read stays what it was about, one that was
  reviewed stays reviewed, a change that was made stays made, and a memory that is gone
  stays gone (`Stays`, a property of every step). A command that is about to record a success
  has therefore earned it, whatever other commands did since. Where the detectors find
  a proposal plays no part; that those of another release are complete does
  (`ForeignIsComplete`).
* *Views.* `ViewInv` says of every reader, also half-way, and of the snapshot that what it
  has is the view of a prefix of the log (`Shows`). The reduction is recursive over the
  log, and the property says without recursion what the view of a prefix is (the last fact
  about each run and call, the sums of the usages), so the core is an induction: if
  a view shows the first *n* facts, `Reduced` with the next shows *n + 1*, kind by kind.
* *Context.* `ContextInv` ties each process to the tables. While a process is
  between file and row, its file is there and young, no other process has the same
  one, and what a collector is about to remove is neither registered nor
  anybody's (`AgentFiles`); what a run holds is a window behind what its summary
  covers (`AgentTurn`); a cut never leaves the result of a tool first. The reader of a
  source (`AgentReads`) has as many bytes as lie before its next page, which needs that the
  sizes of the messages add up and that a page takes whole messages or moves within
  one.

`RunProofs` proves, for any number of callers, attempts, texts, layers and files
(assumptions: those each module states on its constants):

| Module | Theorem | Property |
|---|---|---|
| `ShellProcess` | `GroupIsGone` | `NothingLeftRunning` |
| `ToolAuthorization` | `GrantedCallsExecute` | `OnlyGrantedCallsExecute` |
| `ModelRequest` | `ReadersReadTheAnswer` | `AnswerIsWhatWasShown` |
| `ModelRequest` | `UsageAddsUp` | `UsageFactsReduce` |
| `SkillCatalog` | `SkillsStand` | `SkillsAsAnnounced` |
| `RequestBudget` | `RequestsStay` | `RequestsFit` |
| `ConfigLayers` | `StrongestWins` | `StrongestLayerWins` |

* *Authorization.* `RulesAreSound` is about the policy alone: no rule a run can be started
  with allows what nobody asked for, in whatever order the rules come. `ToolInv` follows
  the capability: a nonce is issued once (`NoncesAreUnique`), what was handed out was
  decided for that call (`DecisionsAreSound`), who has entered has used it up in time
  (`EntriesAreSpent`), and the tool's own check ties what it does to what was prepared
  (`EffectsAreChecked`).
* *Answer.* Once something was shown the attempt is `visible`, and no visible
  attempt is repeated; as long as nothing failed, what was shown is what was accumulated.
* *Usage.* Every number on record is a counter (`MultiplyAdd` and `Plus` give one or
  say that there is none), and one more fact adds its usage to each total. A wire
  usage is assumed to be of 64-bit integers, negative ones included.
* *Skills.* The texts in the catalogue are no longer than what was counted while they were
  read, also when a project's skill takes the place of the user's; a text that is loaded
  has the digest of the entry. A directory listing is assumed to name nothing twice.
* *Budget.* The window always shows the first task and the latest (`ShowsTasks`), and
  no cut the planner may choose takes them away (`CutKeepsTask`), which needs that messages
  are only added and that the latest user message is looked for from the end.
* *Configuration.* The invariant writes down the configuration after each layer; the
  theorem is then one about laying five layers on each other.

`DataLemmas` has what these share. The induction rules of the library take a predicate,
which none of the installed provers can be given; here a set of naturals that is not empty
has a least element (`LeastNatural`, from the well-foundedness of strict inclusion of
finite sets), and a set that has 0 and with *n* also *n + 1* has them all
(`Induction`). With it follows what the sum of a function, a fold over its domain, is when an
element is added, taken away or appended (`TotalAdjoined`, `TotalWithout`,
`TotalAppends`), and that finite sets of naturals have a smallest and a largest element.

Changes the proofs asked of the models: sums are one operator (`Sums`), the fold over the
log a recursive function, the policy an index set of rules instead of a selection from
a sequence, layers explicit functions, and the public answers are compared with the
answers of the model by rank (`AnswersAre`) instead of with a selected sequence. They mean the same and the runs
check the same properties.

### 5.3 What is only model-checked

Every invariant and action property of the runs that pass is stated by a theorem. Liveness
(`CancelReturns`, `ShowsEverything`, `StopsEnd`) is out of the prover's reach.
The findings of 6.1 are counterexamples and have no theorem.

## 6. Where code and documents part

### 6.1 Findings, each with a run

1. **A stuck rewind** (`stuck_rewind`, `StaysRewindable`). A resume settles the
   open rewind command of a session without looking at the journal it has bound.
   `RecoverRewindCommand` then finds the command settled and returns, so the
   journal stays bound and no rewind can take it again, where the reports promise
   that the journal is released.
2. **A cancelled run without an end** (`agent_cancel`, `CancelledRunsTerminate`).
   Six emissions of `Run` and `executeOne` return the error of a done context as it
   is. A cancellation just before one of them ends the run without `run.cancelled`.
3. **A call answered twice** (`answered_twice`, `ResultsPairUp`). A run cancelled
   while it waits for an approval leaves an undecided approval and a result. The
   resume asks again, executes, and answers a second time, after which the
   context blocks every later resume.
4. **A memory that is saved and stays forgotten** (`forgotten_memory`,
   `RememberedIsKept`). `INSERT ... ON CONFLICT(id) DO NOTHING` takes the archived row
   of the same claim for a concurrent writer's, and returns it. The peers of the
   scope have been disputed for it all the same.
5. **A redirected link** (`redirected_link`, `LinksKept`). `Supersede` checks that a row has
   no successor and then sets one in another transaction, by id alone. Of two at the same
   time the second overwrites the link of the first, the silent overwrite that
   `store.go:71-77` refuses because it breaks `memory why`.

### 6.2 The run, resume and journal

Met while modelling, and kept in the models as the code has them:

* A run that resumes a call and is cancelled between `run.started` and its own
  user message leaves a session whose analysis blocks every resume; so do calls a
  limit left unanswered, and a second death during a recovery (two candidates).
* `TextBroker.readLine` (`text_broker.go:94`) looks at the context between reads only, so a
  cancelled run that waits for a line of a text terminal returns with that line, or the end of
  the input; `CancelReturns` is about the broker of the terminal UI.
* A write tool is approved for a text and does not check the mode (2.2): a chmod between
  the approval and the rename is taken over or overwritten.
* A run whose sums of tokens or cost overflow returns without a terminal event, and stays
  *running* until it is resumed.
* A writer that hangs between its check and the rename can rename after a resume
  decided *aborted*; no portable call compares and renames (`raced`).
* A failed write leaves its journal *prepared* until the next resume, which may
  take it for verified when somebody else produced the same content.

### 6.3 The memory

* Saving flips every peer of the scope that is not archived to *disputed*, and a
  recall reads only *active* rows; so an inferred proposal hides an explicit
  memory, though `store.go:215` says that the higher authority keeps its priority,
  and nothing in the program ends a dispute.
* `Approve` and `Supersede` write by id alone. An approval overtaken by a dispute
  makes one side of it active, and one overtaken by `forget` brings back an archived
  row, which `memory.go:108` calls terminal; for both, `store.go:911` says that any status
  but *proposed* returns `ErrNotProposed`. `TrustedStandsAlone` exempts the rows in
  `overtaken`; the same race of `Supersede` is the finding `redirected_link`.
* Supersede accepts a row as its own successor, and two rows as each other's.
* `forget --hard` of a row that was ever recalled fails on the foreign key of
  `memory_usage`; the comment at `store.go:780-784` speaks of a cascade the schema does
  not have. That a use always names a row is therefore the schema's doing, and part
  of `TypeOK` (`MemoryTypes`), not a property of its own.
* No production code reaches `RecordEvidence` and `UpgradeMemory` with data that
  passes their checks: the detectors' payloads lack the fields the executors
  require.

### 6.4 The feed

A read that fails sets `feedError` and closes the subscription, but a page of the
other chain that arrives later clears `feedError` and finds nothing to wait for: the
view stays where it is and says nothing, although
`docs/development/phase-2-slice-04b/IMPLEMENTATION_REPORT.md` promises a visible hint.
`ShowsEverything` is therefore stated for executions in which no read fails; in
those with failures `ViewIsPrefix` still holds.

### 6.5 The other components

Kept in the models as the code has them; the properties are stated so that they hold:

* *Reflection.* `Insert` leaves the status of a proposal empty although `proposal.go:56` says
  it writes `StatusProposed`; `UpdateStatus` is unguarded although `proposal.go:14` calls the
  statuses one-way; no detector fills in the payload its executor reads and no
  project root is ever set, so every application of the release's own proposals ends
  *failed*; `user.message` is counted but never emitted; a change may be made without a success on
  record; the check of ranks in `UpgradeMemory` and its UPDATE are two statements. The
  extraction asks for the events of the run's id where a session's is `ses_` and that, and finds
  none.
* *Opening.* `ErrSchemaTooNew` misses a newer binary that migrates after the ledger was read.
* *Budget.* A first request may exceed `max_context_tokens` by the memory's catalogue.
* *Usage.* A session whose sums do not fit an integer has no view any more (2.11).
* *Configuration.* `load.go:47-48` and
  `docs/development/phase-1-slice-01/IMPLEMENTATION_REPORT.md:21` state one order, the environment above the
  project's file. The code breaks it when `--profile` chooses a profile: the
  environment's model, address and key have been laid on the one that `MENGDIE_PROFILE` or the
  files name (`load.go:205-223`), so for the chosen one the project's file
  wins over `MENGDIE_MODEL`. `StrongestLayerWins` excludes exactly these fields
  (`LaidElsewhere`) and does not call either right. A `MENGDIE_PROFILE` that names no profile
  fails even when `--profile` overrides it; a profile other than the default inherits no
  timeout and is refused unless it sets one.
* *Views.* A session that is deleted between two pages is shown as far as it was read.
* *Files.* A retry of a message whose process died between file and row fails until the
  orphan is collected.

## 7. What is not modelled

`PROJECT.json` names every component with its status. Left out, and why:

* The evaluation harness (`evaluation/`, `memory/trustset/`, `app/evaluation.go`) runs cases one
  after another and compares reports; it is not part of the running agent. The rules
  it sets for its runs are options of `ToolAuthorization`.
* The command line and diagnostics (`app/app.go`, `app/doctor.go`): flag parsing and output.
  The flags that matter are a layer of `ConfigLayers`; the commands of sessions, rewinds,
  memory and reflection are in their modules.
* Project instructions and branding: files read once at start, and strings.
* The encoding of requests, the extraction by a model (never switched on), rendering, and
  the read-only reports of the memory: data without a decision.
* Evidence and scores of the memory: `RecordEvidence` has no caller.
* Windows job objects: there the kernel ends a process tree in one call.
* The contents of files, messages and answers, as far as no decision depends on them.
