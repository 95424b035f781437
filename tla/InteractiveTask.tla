-------------------------- MODULE InteractiveTask --------------------------
(***************************************************************************)
(* One task of the full-screen terminal UI: tui/interactive.go,            *)
(* tui/approval.go and app/interactive_tui.go on top of the facts feed.    *)
(*                                                                         *)
(* Four parties run side by side: the Bubble Tea loop, which handles keys  *)
(* and messages one at a time; the goroutines of its commands; the agent   *)
(* run, one of those commands, which commits facts and blocks in           *)
(* ApprovalBroker.Decide; and the caller of the loop, which closes the     *)
(* runner, the broker and the store when the loop is over.  What the run   *)
(* does between two facts is in AgentRun.                                  *)
(***************************************************************************)
EXTENDS FactFeed

CONSTANTS
  Feed,        \* the chain that factFeedStartedMsg begins
  Final,       \* the chain that taskResultMsg begins
  MaxPrompts   \* bound: approvals the run asks for

ASSUME TaskConstants ==
  /\ Chain = {Feed, Final}
  /\ MaxPrompts \in Nat

VARIABLES
  phase,      \* InteractiveModel.phase
  prepare,    \* prepareTask: its command, then its message
  active,     \* interactiveTaskRunner.active is set
  run,        \* the execution: its command, its run, its result
  ctxDone,    \* the execution's context is cancelled
  prompts,    \* approvals asked for
  decide,     \* where ApprovalBroker.Decide is
  response,   \* the response channel of the prompt that is asked
  asking,     \* waitForApproval: its command, then its message
  shown,      \* InteractiveModel.approval, 0 when nil
  broker,     \* ApprovalBroker.closed is not closed
  exit        \* how far the process is from its end

taskVars == <<phase, prepare, active, run, ctxDone>>
promptVars == <<prompts, decide, response, asking, shown>>
exitVars == <<broker, exit>>
vars == <<feedVars, taskVars, promptVars, exitVars>>

Choice == {"approve", "reject", "edit"}

Init ==
  /\ FeedInit
  /\ phase = "input"
  /\ prepare = "none"
  /\ active = FALSE
  /\ run = "none"
  /\ ctxDone = FALSE
  /\ prompts = 0
  /\ decide = "idle"
  /\ response = "none"
  /\ asking = "none"
  /\ shown = 0
  /\ broker = TRUE
  /\ exit = "open"

\* Decide has not returned: the prompt's done channel is open.
PromptActive == decide \in {"offered", "asked"}

-----------------------------------------------------------------------------
(***************************************************************************)
(* The agent run, inside interactiveTaskExecution.Run.                     *)
(***************************************************************************)

RunCommits ==
  /\ run = "running" /\ decide = "idle"
  /\ CommitFact
  /\ UNCHANGED <<taskVars, promptVars, exitVars>>

RunPublishes ==
  /\ PublishCommitted
  /\ UNCHANGED <<taskVars, promptVars, exitVars>>

\* once.Do in Run
RunBegins ==
  /\ run = "ready"
  /\ run' = "running"
  /\ UNCHANGED <<feedVars, phase, prepare, active, ctxDone, promptVars, exitVars>>

\* Decide offers its prompt; a closed broker and a done context end it at once.
Ask ==
  /\ run = "running" /\ decide = "idle" /\ published = committed
  /\ broker /\ ~ctxDone
  /\ prompts < MaxPrompts
  /\ prompts' = prompts + 1
  /\ decide' = "offered"
  /\ response' = "none"
  /\ UNCHANGED <<feedVars, taskVars, asking, shown, exitVars>>

\* The prompt passes the unbuffered channel to a waitForApproval command.
HandOver ==
  /\ decide = "offered" /\ asking = "waiting"
  /\ decide' = "asked"
  /\ asking' = "prompt"
  /\ UNCHANGED <<feedVars, taskVars, prompts, response, shown, exitVars>>

Answered ==
  /\ decide = "asked" /\ response # "none"
  /\ decide' = "idle"
  /\ UNCHANGED <<feedVars, taskVars, prompts, response, asking, shown, exitVars>>

\* Decide that is bound to the broker only.
DecideIsClosed == ~broker

\* ctx.Done and broker.closed in the two selects of Decide
DecideIsOver == ctxDone \/ ~broker

DecideGivesUp ==
  /\ PromptActive
  /\ DecideIsOver
  /\ decide' = "idle"
  /\ UNCHANGED <<feedVars, taskVars, prompts, response, asking, shown, exitVars>>

\* The deferred release of Run; the result becomes taskResultMsg.
RunReturns ==
  /\ run = "running" /\ decide = "idle" /\ published = committed
  /\ run' = "returned"
  /\ active' = FALSE
  /\ ctxDone' = TRUE
  /\ UNCHANGED <<feedVars, phase, prepare, promptVars, exitVars>>

Run ==
  \/ RunCommits \/ RunPublishes \/ RunBegins
  \/ Ask \/ HandOver \/ Answered \/ DecideGivesUp
  \/ RunReturns

-----------------------------------------------------------------------------
(***************************************************************************)
(* Keys.                                                                   *)
(***************************************************************************)

\* submitTask
Submit ==
  /\ exit = "open" /\ phase = "input"
  /\ phase' = "starting"
  /\ prepare' = "preparing"
  /\ UNCHANGED <<feedVars, active, run, ctxDone, promptVars, exitVars>>

\* resolveApproval without its waitForApproval.
ListenNoMore == "none"

\* resolveApproval listens for the next prompt.
ListenAgain == "waiting"

\* resolveApproval: Resolve refuses a prompt whose Decide has returned.
ResolveApproval(choice) ==
  /\ exit = "open" /\ shown # 0
  /\ shown' = 0
  /\ response' = IF shown = prompts /\ PromptActive /\ response = "none" THEN choice ELSE response
  /\ asking' = ListenAgain
  /\ UNCHANGED <<feedVars, taskVars, prompts, decide, exitVars>>

\* cancelTask, with Ctrl+C or q; in phaseStarting there is nothing to cancel.
CancelKey ==
  /\ exit = "open"
  /\ shown # 0 \/ phase = "running"
  /\ run # "none" /\ phase # "done"
  /\ ctxDone' = TRUE
  /\ phase' = "cancelling"
  /\ shown' = 0
  /\ UNCHANGED <<feedVars, prepare, active, run, prompts, decide, response, asking, exitVars>>

\* close, then tea.Quit: no run is active in these phases.
QuitKey ==
  /\ exit = "open" /\ phase \in {"input", "done"} /\ shown = 0
  /\ CloseSubscription
  /\ broker' = FALSE
  /\ exit' = "quitting"
  /\ UNCHANGED <<committed, published, chain, lastSeq, view, feedError, faults, taskVars, promptVars>>

-----------------------------------------------------------------------------
(***************************************************************************)
(* Messages of the task's commands.                                        *)
(***************************************************************************)

\* PrepareTask, in the goroutine of prepareTask
PrepareTask ==
  /\ prepare = "preparing"
  /\ prepare' = "prepared"
  /\ active' = TRUE
  /\ UNCHANGED <<feedVars, phase, run, ctxDone, promptVars, exitVars>>

PrepareFails ==
  /\ prepare = "preparing"
  /\ prepare' = "refused"
  /\ UNCHANGED <<feedVars, phase, active, run, ctxDone, promptVars, exitVars>>

HandleRefused ==
  /\ exit = "open" /\ prepare = "refused"
  /\ prepare' = "none"
  /\ phase' = "input"
  /\ UNCHANGED <<feedVars, active, run, ctxDone, promptVars, exitVars>>

\* taskPreparedMsg: run the task, wait for approvals, follow the facts.
HandlePrepared ==
  /\ exit = "open" /\ prepare = "prepared"
  /\ prepare' = "none"
  /\ phase' = "running"
  /\ run' = "ready"
  /\ asking' = "waiting"
  /\ lastSeq' = 0 /\ view' = <<>>
  /\ chain' = [chain EXCEPT ![Feed] = Starting(0)]
  /\ UNCHANGED <<busVars, hearing, feedError, faults, active, ctxDone, prompts, decide, response, shown, exitVars>>

\* taskResultMsg replays what the feed may not have brought yet.
HandleResult ==
  /\ exit = "open" /\ run = "returned"
  /\ run' = "over"
  /\ phase' = "done"
  /\ shown' = 0
  /\ chain' = [chain EXCEPT ![Final] = Loading(lastSeq, FALSE)]
  /\ UNCHANGED <<busVars, viewVars, faults, prepare, active, ctxDone, prompts, decide, response, asking, exitVars>>

\* approvalPromptMsg: a prompt that is over is not shown.
HandlePrompt ==
  /\ exit = "open" /\ asking = "prompt"
  /\ asking' = "none"
  /\ shown' = IF phase # "done" /\ PromptActive THEN prompts ELSE shown
  /\ UNCHANGED <<feedVars, taskVars, prompts, decide, response, exitVars>>

HandleFact ==
  /\ exit = "open"
  /\ \E x \in Chain : HandleFeed(x)
  /\ UNCHANGED <<taskVars, promptVars, exitVars>>

\* When the loop is over nobody gets the messages of commands any more.
FeedCommand ==
  /\ exit = "open"
  /\ Commands
  /\ UNCHANGED <<taskVars, promptVars, exitVars>>

FeedCommandFails ==
  /\ exit = "open"
  /\ \E x \in Chain : LoadFails(x)
  /\ UNCHANGED <<taskVars, promptVars, exitVars>>

Handle == HandleRefused \/ HandlePrepared \/ HandleResult \/ HandlePrompt \/ HandleFact

-----------------------------------------------------------------------------
(***************************************************************************)
(* The end of the loop, as runInteractiveTUI goes on.                      *)
(***************************************************************************)

\* A signal or a terminal error ends the loop in any phase.
LoopEnds ==
  /\ exit = "open"
  /\ exit' = "quitting"
  /\ UNCHANGED <<feedVars, taskVars, promptVars, broker>>

\* runner.Close cancels the active execution; one that has not begun never will.
StopRunner ==
  /\ exit = "quitting"
  /\ exit' = "stopping"
  /\ IF active
     THEN /\ ctxDone' = TRUE
          /\ run' = IF run = "running" THEN run ELSE "over"
          /\ active' = (run = "running")
     ELSE UNCHANGED <<ctxDone, run, active>>
  /\ UNCHANGED <<feedVars, phase, prepare, promptVars, broker>>

\* stopAndWait that only cancels.
RunnerCancelled == ctxDone \/ run # "running"

\* stopAndWait: <-execution.done
RunnerStopped == run # "running"

\* broker.Close takes the mutex Decide holds; then the store is closed.
Exit ==
  /\ exit = "stopping"
  /\ RunnerStopped
  /\ decide = "idle"
  /\ broker' = FALSE
  /\ exit' = "exited"
  /\ UNCHANGED <<feedVars, taskVars, promptVars>>

-----------------------------------------------------------------------------
Next ==
  \/ Run
  \/ Submit \/ (\E choice \in Choice : ResolveApproval(choice)) \/ CancelKey \/ QuitKey
  \/ PrepareTask \/ PrepareFails \/ Handle
  \/ FeedCommand \/ FeedCommandFails
  \/ LoopEnds \/ StopRunner \/ Exit

(***************************************************************************)
(* The scheduler runs every goroutine that can go on: the commands, each   *)
(* of which answers with a message; the loop, which handles every message  *)
(* it is sent; the run, which the provider's and the tools' own time-outs  *)
(* bound; and the caller of the loop.  Keys, signals and failures come     *)
(* when they like, and nobody has to answer a prompt.                      *)
(***************************************************************************)
Fairness ==
  /\ WF_vars(RunPublishes) /\ WF_vars(RunBegins) /\ WF_vars(Answered)
  /\ WF_vars(DecideGivesUp) /\ WF_vars(RunReturns) /\ WF_vars(HandOver)
  /\ WF_vars(PrepareTask \/ PrepareFails)
  /\ \A x \in Chain : WF_vars((FeedCommand \/ FeedCommandFails) /\ chain'[x] # chain[x])
  /\ WF_vars(HandleRefused) /\ WF_vars(HandlePrepared) /\ WF_vars(HandleResult)
  /\ WF_vars(HandlePrompt)
  /\ \A x \in Chain : WF_vars(HandleFact /\ chain'[x] # chain[x])
  /\ WF_vars(StopRunner) /\ WF_vars(Exit)

Spec == Init /\ [][Next]_vars /\ Fairness

-----------------------------------------------------------------------------
TypeOK ==
  /\ FeedTypeOK
  /\ phase \in {"input", "starting", "running", "cancelling", "done"}
  /\ prepare \in {"none", "preparing", "prepared", "refused"}
  /\ active \in BOOLEAN
  /\ run \in {"none", "ready", "running", "returned", "over"}
  /\ ctxDone \in BOOLEAN
  /\ prompts \in 0..MaxPrompts
  /\ decide \in {"idle", "offered", "asked"}
  /\ response \in Choice \cup {"none"}
  /\ asking \in {"none", "waiting", "prompt"}
  /\ shown \in 0..MaxPrompts
  /\ broker \in BOOLEAN
  /\ exit \in {"open", "quitting", "stopping", "exited"}

(***************************************************************************)
(* A prompt the run blocks on is always on its way to the user: somebody   *)
(* listens for it, or it is a message of the loop, or it is shown, or it   *)
(* has its answer.  Otherwise Decide would wait for ever, since only a     *)
(* cancellation ends it.                                                   *)
(***************************************************************************)
PromptReachesUser ==
  (PromptActive /\ ~ctxDone /\ exit = "open") =>
    \/ decide = "offered" /\ (asking = "waiting" \/ shown # 0)
    \/ decide = "asked" /\ (asking = "prompt" \/ shown = prompts \/ response # "none")

(***************************************************************************)
(* The process is over only when its run is: no tool works on and no fact  *)
(* is committed behind the back of main.                                   *)
(***************************************************************************)
ExitWaitsForRun == exit = "exited" => run # "running"

(***************************************************************************)
(* What a finished task has committed is shown in the end: no notification *)
(* dropped from a full channel, and no page that comes late, leaves a view *)
(* that is silently old.  This is about reads that succeed: when one fails *)
(* the view may stay behind without saying so (README, 6.4).               *)
(***************************************************************************)
ShowsEverything ==
  [](phase = "done" => <>(lastSeq = committed \/ faults > 0 \/ exit # "open"))

(***************************************************************************)
(* A cancellation ends the task, and the end of the loop ends the process, *)
(* with the run, Decide and the three Close calls waiting for each other.  *)
(***************************************************************************)
StopsEnd ==
  /\ phase = "cancelling" ~> (phase = "done" \/ exit # "open")
  /\ exit = "quitting" ~> exit = "exited"
=============================================================================
