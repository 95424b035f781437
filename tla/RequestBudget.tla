--------------------------- MODULE RequestBudget ---------------------------
(***************************************************************************)
(* What a run sends to the model and how it stays within the model's context *)
(* (context/builder.go, agent/runtime.go): the request of every turn is      *)
(* estimated; one that is too large has its middle replaced by a summary     *)
(* that the model itself writes, in a request that must fit as well; the     *)
(* first request of a new run also carries the catalogue of the memory.      *)
(*                                                                           *)
(* A text is the number of its ASCII and of its other characters, which is   *)
(* all that the estimate looks at.  How messages, summaries and files are    *)
(* stored and read again is in SessionContext; the summary here is one that  *)
(* ValidateSummary accepts or not, and the answers of tools are as long as   *)
(* they like.                                                                *)
(***************************************************************************)
EXTENDS Integers, Sequences, FiniteSets, FiniteSetsExt, Sums

CONSTANTS
  Configured,      \* max_context_tokens of the profile; 0 when it is not set
  Capable,         \* MaxContextTokens of the provider
  Fixed,           \* tokens of the model's name, system prompt, instructions, skills and tools
  SourceTool,      \* tokens of read_context_source, which only later requests may offer
  SummaryPrompt,   \* tokens of the request for a summary without its source
  Prefix,          \* text put before a summary
  Plan,            \* text of the todos
  Words,           \* texts a user, the model or a tool may write
  Summaries,       \* texts of the model's summary: [text, valid]
  Entries,         \* texts of the memory's entries, the best first
  TopK,            \* firstTurnCatalogueTopK
  Recent,          \* minimumRecentMessages
  MaxSummary,      \* tokens a summary may have
  MaxWindow,       \* bound: messages in the window
  MaxTasks,        \* bound: runs
  MaxTurns         \* bound: turns of a run

ASSUME BudgetBounds ==
  /\ {Configured, Capable, Fixed, SourceTool, SummaryPrompt, TopK, Recent, MaxSummary, MaxWindow, MaxTasks, MaxTurns} \subseteq Nat
  /\ {Prefix, Plan} \cup Words \cup {s.text : s \in Summaries} \subseteq [ascii : Nat, wide : Nat]
  /\ Entries \in Seq([ascii : Nat, wide : Nat])

VARIABLES
  window,    \* state.Messages: what the model is shown of the conversation
  rolling,   \* the rolling summary, or NoText
  todos,     \* the text of the todos, or NoText
  tasks,     \* runs begun; the number of the latest task
  turn,      \* turns of this run
  resumed,   \* the run recovers a call
  step,      \* where the run is
  sent       \* the last request

budgetVars == <<window, rolling, todos, tasks, turn, resumed, step, sent>>

NoText  == [ascii |-> 0, wide |-> 0]
Over    == [at |-> "over"]
Nowhere == [purpose |-> "none"]

-----------------------------------------------------------------------------
(***************************************************************************)
(* Estimates.                                                                *)
(***************************************************************************)

\* NewBuilder: what the profile says, or what the provider can take.
TokenLimit == IF Configured = 0 THEN Capable ELSE Configured

\* estimateTextTokens: four ASCII bytes, or one other character, to a token.
TextTokens(text) == (text.ascii + 3) \div 4 + text.wide

\* estimateTokens; every message has eight tokens of its own.
MessageTokens(text) == TextTokens(text) + 8
MessagesTokens(messages) == Total([i \in DOMAIN messages |-> MessageTokens(messages[i].text)])

Joined(s, t) == [ascii |-> s.ascii + t.ascii, wide |-> s.wide + t.wide]

\* build: the fixed part, the todos, the summary after the first message.
RequestTokens(messages, summary, offered) ==
  Fixed + offered + MessagesTokens(messages)
  + (IF todos = NoText THEN 0 ELSE MessageTokens(todos))
  + (IF summary = NoText THEN 0 ELSE MessageTokens(Joined(Prefix, summary)))

\* Build: with the tool that reads a source only when there may be one.
Offered         == IF rolling = NoText THEN 0 ELSE SourceTool
WithinLimit(tokens)    == tokens <= TokenLimit
TurnTokens      == RequestTokens(window, rolling, Offered)

\* BuildSummaryRequest: the replaced messages and the summary so far as one text.
Encoded(messages) ==
  [ascii |-> Total([i \in DOMAIN messages |-> messages[i].text.ascii]) + rolling.ascii,
   wide  |-> Total([i \in DOMAIN messages |-> messages[i].text.wide]) + rolling.wide]
SummaryRequest(messages) == SummaryPrompt + MessageTokens(Encoded(messages))

-----------------------------------------------------------------------------
(***************************************************************************)
(* PlanCompaction.  Positions are counted from 0, as the code does.          *)
(***************************************************************************)

\* summaryPlaceholder: a summary as long as it may be.
Placeholder == [ascii |-> 0, wide |-> MaxSummary]

Kept(cut) == <<window[1]>> \o SubSeq(window, cut + 1, Len(window))
Middle(cut)   == SubSeq(window, 2, cut)

UserAt   == {i \in 1..Len(window) - 1 : window[i + 1].role = "user"}
FromTail == IF Len(window) - Recent < 2 THEN Len(window) - 1 ELSE Len(window) - Recent

TailOnly(limit) == limit                 \* mutant: the latest task may be replaced

\* Not past the latest task of the user.
BeforeTask(limit) == IF UserAt = {} THEN limit ELSE Min({limit, Max(UserAt)})

Enough ==
  {cut \in 2..BeforeTask(FromTail) :
     /\ cut < Len(window) /\ window[cut + 1].role # "tool"
     /\ WithinLimit(RequestTokens(Kept(cut), Placeholder, SourceTool))
     /\ WithinLimit(SummaryRequest(Middle(cut)) + MaxSummary)}

-----------------------------------------------------------------------------
(***************************************************************************)
(* A run.                                                                    *)
(***************************************************************************)

BudgetInit ==
  /\ window = <<>> /\ rolling = NoText /\ todos = NoText
  /\ tasks = 0 /\ turn = 0 /\ resumed = FALSE
  /\ step = Over /\ sent = Nowhere

Spoken(role, text) == Append(window, [role |-> role, text |-> text, task |-> tasks])

OpenCall == window # <<>> /\ window[Len(window)].role = "call"

\* The call that was left open is answered, and the user's task follows.
BeginTask ==
  /\ step = Over /\ tasks < MaxTasks /\ Len(window) < MaxWindow
  /\ tasks' = tasks + 1 /\ resumed' = OpenCall
  /\ \E task \in Words, answer \in Words :
       window' = (IF OpenCall THEN Spoken("tool", answer) ELSE window)
                 \o <<[role |-> "user", text |-> task, task |-> tasks + 1]>>
  /\ turn' = 0 /\ step' = [at |-> "turn"]
  /\ UNCHANGED <<rolling, todos, sent>>

\* The loop of Run: turns run out, or the request is built.
BuildRequest ==
  /\ step.at = "turn"
  /\ IF turn = MaxTurns THEN step' = Over /\ UNCHANGED turn
     ELSE /\ turn' = turn + 1
          /\ step' = IF WithinLimit(TurnTokens) THEN [at |-> "built", tokens |-> TurnTokens] ELSE [at |-> "compact"]
  /\ UNCHANGED <<window, rolling, todos, tasks, resumed, sent>>

\* compactContext asks for a summary of the shortest middle that is enough.
AskForSummary ==
  /\ step.at = "compact"
  /\ IF Len(window) < 3 \/ MaxSummary >= TokenLimit \div 2 \/ Enough = {} THEN step' = Over /\ UNCHANGED sent
     ELSE /\ step' = [at |-> "summary", cut |-> Min(Enough)]
          /\ sent' = [purpose |-> "summary", tokens |-> SummaryRequest(Middle(Min(Enough))) + MaxSummary]
  /\ UNCHANGED <<window, rolling, todos, tasks, turn, resumed>>

\* ValidateSummary, and the request built with the summary there is.
SummaryAccepted(summary, cut) == summary.valid /\ WithinLimit(RequestTokens(Kept(cut), summary.text, SourceTool))

\* The model's summary is recorded, and the request built with it goes out.
TakeSummary ==
  /\ step.at = "summary"
  /\ \/ \E summary \in Summaries :
          IF SummaryAccepted(summary, step.cut)
          THEN /\ window' = Kept(step.cut) /\ rolling' = summary.text
               /\ step' = [at |-> "built", tokens |-> RequestTokens(Kept(step.cut), summary.text, SourceTool)]
          ELSE step' = Over /\ UNCHANGED <<window, rolling>>
     \/ step' = Over /\ UNCHANGED <<window, rolling>>
  /\ UNCHANGED <<todos, tasks, turn, resumed, sent>>

\* applyFirstTurnCatalogue: added to the system prompt, when it can be read.
Recalled  == {i \in DOMAIN Entries : i <= TopK}
Catalogue == Total([i \in Recalled |-> TextTokens(Entries[i])])
Injected  == IF turn = 1 /\ ~resumed THEN {0, Catalogue} ELSE {0}

SendRequest ==
  /\ step.at = "built"
  /\ \E extra \in Injected :
       sent' = [purpose |-> "turn", tokens |-> step.tokens + extra,
                shows |-> {window[i].task : i \in {j \in DOMAIN window : window[j].role = "user"}}]
  /\ step' = [at |-> "sent"]
  /\ UNCHANGED <<window, rolling, todos, tasks, turn, resumed>>

\* An answer ends the run, and so does a failing provider.
Finish ==
  /\ step.at = "sent" /\ step' = Over
  /\ \/ Len(window) < MaxWindow /\ \E text \in Words : window' = Spoken("assistant", text)
     \/ UNCHANGED window
  /\ UNCHANGED <<rolling, todos, tasks, turn, resumed, sent>>

\* Or it calls a tool.
CallTool ==
  /\ step.at = "sent" /\ Len(window) < MaxWindow
  /\ \E text \in Words : window' = Spoken("call", text)
  /\ step' = [at |-> "called"]
  /\ UNCHANGED <<rolling, todos, tasks, turn, resumed, sent>>

\* The tool answers, and write_todos sets the plan; or the process dies.
AnswerCall ==
  /\ step.at = "called"
  /\ \/ /\ \E text \in Words : window' = Spoken("tool", text)
        /\ todos' \in {todos, Plan} /\ step' = [at |-> "turn"]
     \/ step' = Over /\ UNCHANGED <<window, todos>>
  /\ UNCHANGED <<rolling, tasks, turn, resumed, sent>>

BudgetNext ==
  \/ BeginTask \/ BuildRequest \/ AskForSummary \/ TakeSummary \/ SendRequest \/ Finish \/ CallTool \/ AnswerCall

BudgetSpec == BudgetInit /\ [][BudgetNext]_budgetVars

-----------------------------------------------------------------------------
(***************************************************************************)
(* Properties.                                                               *)
(***************************************************************************)

\* Whatever the user, the model and the tools write and however often the
\* middle is replaced: every request fits the model, the one for a summary
\* together with the summary it asks for, except that the first of a new run
\* may exceed the limit by the memory's catalogue, which nothing counts; and
\* a turn's request shows the first task and the latest one word for word.
RequestsFit ==
  /\ sent.purpose = "summary" => WithinLimit(sent.tokens)
  /\ step.at = "sent" =>
       /\ sent.tokens <= TokenLimit + (IF turn = 1 /\ ~resumed THEN Catalogue ELSE 0)
       /\ {1, tasks} \subseteq sent.shows
=============================================================================
