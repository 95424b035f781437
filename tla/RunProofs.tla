----------------------------- MODULE RunProofs -----------------------------
(***************************************************************************)
(* Theorems about what a run uses, one part after the other: the process   *)
(* of a shell command (ShellProcess), the authorization of a call          *)
(* (ToolAuthorization), the skills (SkillCatalog), the answer of the model *)
(* and its usage (ModelRequest), the size of the requests (RequestBudget)  *)
(* and the configuration they start from (ConfigLayers).                   *)
(***************************************************************************)
EXTENDS ShellProcess, ToolAuthorization, SkillCatalog, ModelRequest, RequestBudget, ConfigLayers,
        SequenceTheorems, DataLemmas

-----------------------------------------------------------------------------
(***************************************************************************)
(* ShellProcess: the shell tool leaves nothing of its process group behind, *)
(* however many processes the command starts and whenever they fork, exit,  *)
(* escape or ignore SIGTERM.                                                *)
(***************************************************************************)

\* Steps of RunProcess that it reaches only through the end of its context.
Stopping == {"terminated", "probe terminated", "grace terminated", "killed"}

ShellTypes ==
  /\ process \in [Member -> {"none", "grouped", "escaped", "gone"}]
  /\ ended \in {"no", "timeout", "cancelled"}
  /\ runner \in {"start", "waiting", "probe", "grace", "returned"} \cup Stopping

\* Nothing has been started, or everything of the group has been killed, so
\* nobody is left to fork.
GroupIsEmpty ==
  /\ runner = "start" => \A p \in Member : process[p] = "none"
  /\ runner \in {"killed", "returned"} => Group = {}

\* The reason that is reported is there before it is.
ReasonIsKnown ==
  /\ runner \in Stopping => ended # "no"
  /\ runner = "returned" /\ result.status # "completed" => ended # "no" /\ ended = result.status

ShellInv == ShellTypes /\ GroupIsEmpty /\ ReasonIsKnown

\* A step of the command or of a descendant adds nothing to an empty group.
LEMMA OthersKeep ==
  ASSUME ShellInv, NEW p \in Member, Fork(p) \/ Exit(p) \/ Escape(p)
  PROVE  ShellInv'
<1>1. UNCHANGED <<runner, ended, result>> /\ p \in Living
  BY DEF Fork, Exit, Escape, Living
<1>2. process' \in [Member -> {"none", "grouped", "escaped", "gone"}]
  BY DEF ShellInv, ShellTypes, Fork, Exit, Escape, Signalled, In
<1>3. runner # "start"
  BY <1>1 DEF ShellInv, GroupIsEmpty, Living, Group, In
<1>4. Group = {} => Group' = {}
  <2>1. CASE Exit(p)
    BY <2>1 DEF Exit, Signalled, Group, In
  <2>2. CASE Fork(p) \/ Escape(p)
    BY <2>2 DEF Fork, Escape
  <2> QED
    BY <2>1, <2>2
<1> QED
  BY <1>1, <1>2, <1>3, <1>4 DEF ShellInv, ShellTypes, GroupIsEmpty, ReasonIsKnown

\* SIGKILL to the group leaves nobody in it.
LEMMA KillEmpties ==
  ASSUME ShellTypes, process' = Signalled(Group)
  PROVE  Group' = {} /\ process' \in [Member -> {"none", "grouped", "escaped", "gone"}]
BY DEF ShellTypes, Signalled, Group, In

\* SIGTERM leaves some.
LEMMA SignalTypes ==
  ASSUME ShellTypes, NEW victims \in SUBSET Member, process' = Signalled(victims)
  PROVE  process' \in [Member -> {"none", "grouped", "escaped", "gone"}]
BY DEF ShellTypes, Signalled

LEMMA Returned ==
  ASSUME NEW forced, NEW status, Return(forced, status)
  PROVE  runner' = "returned" /\ result'.status = status
BY DEF Return

LEMMA RunnerKeeps == ASSUME ShellInv, RunnerStep PROVE ShellInv'
<1>1. ended' = ended
  BY DEF RunnerStep, Start, Exited, Terminate, ExitedAfterTerm, Kill, ReturnKilled, Probe, KillGroup
<1>2. Group \ stubborn \in SUBSET Member
  BY DEF Group, In
<1>3. CASE Start
  <2>1. Group = {} /\ Leader \in Member
    BY <1>3 DEF Start, ShellInv, GroupIsEmpty, Group, In, Member
  <2>2. process' \in [Member -> {"none", "grouped", "escaped", "gone"}]
    BY <1>3, <2>1 DEF Start, ShellInv, ShellTypes
  <2>3. CASE ended = "no"
    BY <1>1, <1>3, <2>2, <2>3 DEF Start, ShellInv, ShellTypes, GroupIsEmpty, ReasonIsKnown, Stopping
  <2>4. CASE ended # "no"
    <3>1. result'.status = ended /\ Group' = Group /\ runner' = "returned"
      BY <1>3, <2>4 DEF Start, NoResult, Group, In
    <3> QED
      BY <1>1, <2>1, <2>2, <2>4, <3>1 DEF ShellInv, ShellTypes, GroupIsEmpty, ReasonIsKnown, Stopping
  <2> QED
    BY <2>3, <2>4
<1>4. CASE Exited \/ ExitedAfterTerm
  BY <1>1, <1>4 DEF Exited, ExitedAfterTerm, ShellInv, ShellTypes, GroupIsEmpty, ReasonIsKnown, Stopping
<1>5. CASE Terminate
  BY <1>1, <1>2, <1>5, SignalTypes DEF Terminate, ShellInv, ShellTypes, GroupIsEmpty, ReasonIsKnown, Stopping
<1>6. CASE Kill
  BY <1>1, <1>6, KillEmpties DEF Kill, ShellInv, ShellTypes, GroupIsEmpty, ReasonIsKnown, Stopping
<1>7. CASE ReturnKilled
  <2>1. Group' = {} /\ result'.status = ended /\ ended # "no"
    BY <1>7 DEF ReturnKilled, Return, ShellInv, GroupIsEmpty, ReasonIsKnown, Stopping, Group, In
  <2> QED
    BY <1>1, <1>7, <2>1 DEF ReturnKilled, Return, ShellInv, ShellTypes, GroupIsEmpty, ReasonIsKnown, Stopping
<1>8. ASSUME NEW forced \in BOOLEAN, runner \in {"probe", "grace", "probe terminated", "grace terminated"},
             Cleaned(forced), Group' = {},
             process' \in [Member -> {"none", "grouped", "escaped", "gone"}]
      PROVE  ShellInv'
  <2>1. runner' = "returned" /\ (result'.status = "completed" \/ (result'.status = ended /\ ended # "no"))
    <3>1. CASE runner \in {"probe", "grace"}
      <4>1. Return(forced \/ waited = "delayed", "completed")
        BY <1>8, <3>1 DEF Cleaned
      <4> QED
        BY <4>1, Returned
    <3>2. CASE runner \in {"probe terminated", "grace terminated"}
      <4>1. Return(TRUE, ended)
        BY <1>8, <3>2 DEF Cleaned
      <4>2. ended # "no"
        BY <3>2 DEF ShellInv, ReasonIsKnown, Stopping
      <4> QED
        BY <4>1, <4>2, Returned
    <3> QED
      BY <1>8, <3>1, <3>2
  <2> QED
    BY <1>1, <1>8, <2>1 DEF ShellInv, ShellTypes, GroupIsEmpty, ReasonIsKnown, Stopping
<1>9. CASE Probe
  <2>1. CASE GroupExists
    BY <1>1, <1>2, <1>9, <2>1, SignalTypes
    DEF Probe, ShellInv, ShellTypes, GroupIsEmpty, ReasonIsKnown, Stopping
  <2>2. CASE ~GroupExists
    <3>1. Group' = {} /\ process' = process
      BY <1>9, <2>2 DEF Probe, GroupExists, Group, In
    <3>2. runner \in {"probe", "probe terminated"} /\ Cleaned(FALSE)
      BY <1>9, <2>2 DEF Probe
    <3> QED
      BY <1>8, <3>1, <3>2 DEF ShellInv, ShellTypes
  <2> QED
    BY <2>1, <2>2
<1>10. CASE KillGroup
  <2>1. runner \in {"grace", "grace terminated"} /\ Cleaned(TRUE)
    BY <1>10 DEF KillGroup
  <2>2. Group' = {} /\ process' \in [Member -> {"none", "grouped", "escaped", "gone"}]
    BY <1>10, KillEmpties DEF KillGroup, ShellInv
  <2> QED
    BY <1>8, <2>1, <2>2
<1> QED
  BY <1>3, <1>4, <1>5, <1>6, <1>7, <1>9, <1>10 DEF RunnerStep

LEMMA FirstCommand == ShellInit => ShellInv
BY DEF ShellInit, ShellInv, ShellTypes, GroupIsEmpty, ReasonIsKnown, Stopping, Group, In

LEMMA ShellKeeps == ShellInv /\ [ShellNext]_shellVars => ShellInv'
<1> SUFFICES ASSUME ShellInv, [ShellNext]_shellVars PROVE ShellInv'
  OBVIOUS
<1>1. CASE UNCHANGED <<runner, ended, process, result>>
  BY <1>1 DEF ShellInv, ShellTypes, GroupIsEmpty, ReasonIsKnown, Group, In
<1>2. CASE EndContext
  BY <1>2 DEF EndContext, ShellInv, ShellTypes, GroupIsEmpty, ReasonIsKnown, Group, In
<1> QED
  BY <1>1, <1>2, RunnerKeeps, OthersKeep DEF ShellNext, Wait, shellVars

\* Whatever the command's processes do, and whenever its time runs out: when the
\* tool returns its process group is empty, and a stop is reported with the reason
\* the context ended for.
THEOREM GroupIsGone == ShellSpec => []NothingLeftRunning
<1>1. ShellInv => NothingLeftRunning
  BY DEF ShellInv, GroupIsEmpty, ReasonIsKnown, NothingLeftRunning
<1> QED
  BY <1>1, FirstCommand, ShellKeeps, PTL DEF ShellSpec

-----------------------------------------------------------------------------
(***************************************************************************)
(* ToolAuthorization: what the rules let through, and what a capability is  *)
(* good for, for any callers, options and contents.                         *)
(***************************************************************************)

PreparedCalls ==
  [id : Nat, tool : DOMAIN Effects, command : {None, "listed", "other"}, place : Place \cup {None},
   hash : Content \cup {None}]

Capabilities == [nonce : Nat, call : PreparedCalls, until : Nat]

WorkerSteps ==
  {Resting}
    \cup [at : {"prepared"}, recovered : BOOLEAN, call : PreparedCalls]
    \cup [at : {"asking", "granted"}, call : PreparedCalls]
    \cup [at : {"entered"}, call : PreparedCalls, nonce : Nat, since : Nat]

ToolTypes ==
  /\ leads \in Place /\ content \in [InRoot -> Content]
  /\ clock \in Nat /\ calls \in Nat
  /\ worker \in [Worker -> WorkerSteps]
  /\ grants \subseteq Capabilities
  /\ handed \subseteq [capability : Capabilities, by : {"policy", "user"}] /\ IsFiniteSet(handed)

\* A capability has a number of its own, and what is granted was handed out.
NoncesAreUnique ==
  /\ \A g \in handed : g.capability.nonce \in 1..Cardinality(handed)
  /\ \A g, h \in handed : g.capability.nonce = h.capability.nonce => g = h
  /\ \A x \in grants : \E g \in handed : g.capability = x

\* What is asked for and what is handed out is not denied by the rules that no
\* setting changes; the user is only asked who is there, and the policy decides
\* alone only what nobody needs to be asked about.
DecidedBy(by, c) == IF by = "user" THEN ~Headless ELSE Unasked(c)

DecisionsAreSound ==
  /\ \A w \in Worker : WorkerAt(w, "asking") => ~Headless /\ ~HardDeny(worker[w].call)
  /\ \A g \in handed : ~HardDeny(g.capability.call) /\ DecidedBy(g.by, g.capability.call)

\* The number n was handed out for this call, in time, and is not granted any more.
Spent(n, c, since) ==
  /\ \E g \in handed :
       /\ g.capability.nonce = n /\ g.capability.call = c
       /\ since < g.capability.until
  /\ \A x \in grants : x.nonce # n

\* A call that has been let in has spent a capability, and alone; so has an effect.
EntriesAreSpent ==
  /\ \A w \in Worker : WorkerAt(w, "entered") =>
       /\ Spent(worker[w].nonce, worker[w].call, worker[w].since)
       /\ \A e \in done : e.nonce # worker[w].nonce
       /\ \A v \in Worker \ {w} : WorkerAt(v, "entered") => worker[v].nonce # worker[w].nonce
  /\ \A e \in done : Spent(e.nonce, e.call, e.since)
  /\ \A e, f \in done : e.nonce = f.nonce => e = f

\* An effect is where its call says, and on what its call says.
EffectsAreChecked ==
  \A e \in done :
    /\ e.call \in PreparedCalls
    /\ e.call.tool # "write_todos" => e.place \in InRoot
    /\ e.call.tool = "edit_file" => e.place # "secret"
    /\ e.call.tool \in {"edit_file", "shell"} => e.place = e.call.place
    /\ e.call.tool \in {"read_file", "edit_file"} => e.content = e.call.hash

ToolInv == ToolTypes /\ NoncesAreUnique /\ DecisionsAreSound /\ EntriesAreSpent /\ EffectsAreChecked

\* The rules a run can have, and of those that allow the ones that let through
\* only what nobody needs to be asked about.
RuleShapes ==
  [tool : {"any", "shell", "edit_file"}, effects : SUBSET {"read", "write", "execute", "network"},
   listed : BOOLEAN, decision : {"allow", "deny"}]

SoundFor(c) == {r \in RuleShapes : r.decision = "allow" /\ Matches(r, c) => Unasked(c)}

LEMMA RulesAreSound ==
  ASSUME NEW c \in PreparedCalls
  PROVE  Rules \in Seq(SoundFor(c))
<1> DEFINE S == SoundFor(c)
<1>1. \A e \in {"read", "write", "execute", "network"} : Rule("any", {e}, FALSE, "deny") \in S
  BY DEF Rule, SoundFor, RuleShapes
<1>2. Rule("shell", {"execute"}, FALSE, "deny") \in S
  BY DEF Rule, SoundFor, RuleShapes
<1>3. Rule("shell", {"execute"}, TRUE, "allow") \in S
  BY DEF Rule, SoundFor, RuleShapes, Matches, Unasked, PreparedCalls, Effects
<1>4. (IF options.eval.on THEN options.eval.allowEdit ELSE options.allowEdit) => Rule("edit_file", {"write"}, FALSE, "allow") \in S
  BY DEF Rule, SoundFor, RuleShapes, Matches, Unasked, PreparedCalls, Effects
<1> HIDE DEF S
<1>5. <<>> \in Seq(S) /\ \A r \in S : <<r>> \in Seq(S)
  OBVIOUS
<1>6. \A s, t \in Seq(S) : s \o t \in Seq(S)
  OBVIOUS
<1>7. \A given : CommandRules(given) \in Seq(S)
  BY <1>3, <1>5 DEF CommandRules
<1>8. \A e \in {"read", "write", "execute", "network"} : Refused(options.eval, e) \in Seq(S)
  BY <1>1, <1>5 DEF Refused
<1>9. options.eval.on => Edits(options.eval) \in Seq(S)
  BY <1>1, <1>4, <1>5 DEF Edits
<1>10. options.eval.on => EvaluationCLIRules(options.eval) \in Seq(S)
  <2> DEFINE a == Refused(options.eval, "read")
             b == Refused(options.eval, "write")
             d == Refused(options.eval, "execute")
             e == Refused(options.eval, "network")
             f == Edits(options.eval)
             g == CommandRules("execute" \in options.eval.effects /\ options.eval.commands)
             h == <<Rule("shell", {"execute"}, FALSE, "deny")>>
  <2>1. a \in Seq(S) /\ b \in Seq(S) /\ d \in Seq(S) /\ e \in Seq(S) /\ g \in Seq(S) /\ h \in Seq(S)
    BY <1>2, <1>5, <1>7, <1>8
  <2>2. EvaluationCLIRules(options.eval) = a \o b \o d \o e \o f \o g \o h
    BY DEF EvaluationCLIRules
  <2> HIDE DEF a, b, d, e, g, h
  <2>3. options.eval.on => f \in Seq(S)
    BY <1>9
  <2> HIDE DEF f
  <2> QED
    BY <2>1, <2>2, <2>3, <1>6
<1>11. ~options.eval.on => RuntimeCLIRules \in Seq(S)
  BY <1>4, <1>5, <1>6, <1>7 DEF RuntimeCLIRules
<1>12. RuntimeCLIRules \in Seq(S)
  BY <1>10, <1>11 DEF RuntimeCLIRules
<1> QED
  BY <1>6, <1>7, <1>12 DEF Rules, ProfileRules, S

\* What the policy decides, for any settings of the run.
LEMMA PolicyIsSound ==
  ASSUME NEW c \in PreparedCalls
  PROVE  /\ Evaluate(c) \in {"allow", "ask", "deny"}
         /\ Evaluate(c) \in {"allow", "ask"} => ~HardDeny(c)
         /\ Evaluate(c) = "allow" => Unasked(c)
         /\ Evaluate(c) = "ask" => ~Headless
<1>1. CASE HardDeny(c)
  BY <1>1 DEF Evaluate
<1>2. CASE ~HardDeny(c) /\ Deciding(c) = {}
  <2>1. Evaluate(c) = WithoutRule(c)
    BY <1>2 DEF Evaluate
  <2>2. WithoutRule(c) = "allow" => Unasked(c)
    BY DEF WithoutRule, Unasked, PreparedCalls, Effects
  <2> QED
    BY <1>2, <2>1, <2>2 DEF WithoutRule
<1>3. CASE ~HardDeny(c) /\ Deciding(c) # {}
  <2> DEFINE rule == CHOOSE r \in Deciding(c) : TRUE
  <2>1. rule \in Deciding(c)
    BY <1>3
  <2>2. Evaluate(c) = IF Headless /\ rule.decision = "ask" THEN "deny" ELSE rule.decision
    BY <1>3 DEF Evaluate
  <2> HIDE DEF rule
  <2>3. PICK j \in DOMAIN Rules : rule = Rules[j] /\ Matches(Rules[j], c)
    BY <2>1 DEF Deciding
  <2>4. rule \in SoundFor(c)
    BY <2>3, RulesAreSound
  <2> QED
    BY <1>3, <2>2, <2>3, <2>4 DEF SoundFor, RuleShapes
<1> QED
  BY <1>1, <1>2, <1>3

LEMMA StepFields ==
  ASSUME NEW s \in WorkerSteps
  PROVE  /\ s.at \in {"prepared", "asking", "granted", "entered"} => s.call \in PreparedCalls
         /\ s.at = "prepared" => s.recovered \in BOOLEAN
         /\ s.at = "entered" => s.nonce \in Nat /\ s.since \in Nat
BY DEF WorkerSteps, Resting

\* A step that hands out, takes and does nothing keeps what is said of both, if
\* nobody enters by it and who asks may.
LEMMA MovesKeep ==
  ASSUME ToolInv, UNCHANGED <<options, grants, handed, done>>,
         \A w \in Worker : worker'[w].at = "entered" => worker'[w] = worker[w],
         \A w \in Worker : worker'[w].at = "asking" => worker'[w] = worker[w] \/ (~Headless /\ ~HardDeny(worker'[w].call))
  PROVE  NoncesAreUnique' /\ DecisionsAreSound' /\ EntriesAreSpent' /\ EffectsAreChecked'
<1>1. NoncesAreUnique' /\ EffectsAreChecked'
  BY DEF ToolInv, NoncesAreUnique, EffectsAreChecked
<1>2. DecisionsAreSound'
  <2>1. \A c : HardDeny(c)' <=> HardDeny(c)
    BY DEF HardDeny, Headless
  <2>2. \A by, c : DecidedBy(by, c)' <=> DecidedBy(by, c)
    BY DEF DecidedBy, Headless, Unasked
  <2>3. ASSUME NEW w \in Worker, WorkerAt(w, "asking")'
        PROVE  ~Headless' /\ ~HardDeny(worker[w].call)'
    <3>1. ~Headless /\ ~HardDeny(worker'[w].call)
      BY <2>3 DEF ToolInv, DecisionsAreSound, WorkerAt
    <3> QED
      BY <3>1 DEF Headless, HardDeny
  <2> QED
    BY <2>1, <2>2, <2>3 DEF ToolInv, DecisionsAreSound
<1>3. EntriesAreSpent'
  <2>1. \A n, c, since : Spent(n, c, since)' <=> Spent(n, c, since)
    BY DEF Spent
  <2>2. ASSUME NEW w \in Worker, WorkerAt(w, "entered")'
        PROVE  /\ Spent(worker[w].nonce, worker[w].call, worker[w].since)'
               /\ \A e \in done' : e.nonce # worker'[w].nonce
               /\ \A v \in Worker \ {w} : WorkerAt(v, "entered")' => worker'[v].nonce # worker'[w].nonce
    <3>1. worker'[w] = worker[w] /\ WorkerAt(w, "entered")
      BY <2>2 DEF WorkerAt
    <3>2. Spent(worker[w].nonce, worker[w].call, worker[w].since)'
      BY <3>1 DEF ToolInv, EntriesAreSpent, Spent
    <3> QED
      BY <3>1, <3>2 DEF ToolInv, EntriesAreSpent, WorkerAt
  <2> QED
    BY <2>1, <2>2 DEF ToolInv, EntriesAreSpent
<1> QED
  BY <1>1, <1>2, <1>3

\* Prepare, whatever the tool.
LEMMA PreparesKeeps ==
  ASSUME ToolInv, NEW w \in Worker, NEW tool \in DOMAIN Effects, NEW command \in {None, "listed", "other"},
         NEW place \in Place \cup {None}, NEW hash \in Content \cup {None}, Prepares(w, tool, command, place, hash)
  PROVE  ToolInv'
<1> DEFINE c == [id |-> calls + 1, tool |-> tool, command |-> command, place |-> place, hash |-> hash]
<1>1. PICK recovered \in {FALSE, calls = 0} : WorkerGoes(w, [at |-> "prepared", recovered |-> recovered, call |-> c])
  BY DEF Prepares
<1>2. c \in PreparedCalls /\ calls' \in Nat
  BY DEF PreparedCalls, ToolInv, ToolTypes, Prepares
<1> DEFINE to == [at |-> "prepared", recovered |-> recovered, call |-> c]
<1>3. to \in WorkerSteps /\ to.at = "prepared"
  <2> HIDE DEF c
  <2> QED
    BY <1>2 DEF WorkerSteps
<1> HIDE DEF c, to
<1>4. worker' = [worker EXCEPT ![w] = to]
  BY <1>1 DEF WorkerGoes, to, c
<1>5. worker \in [Worker -> WorkerSteps]
  BY DEF ToolInv, ToolTypes
<1>6. \A v \in Worker : worker'[v] = worker[v] \/ worker'[v].at = "prepared"
  BY <1>3, <1>4, <1>5
<1>7. NoncesAreUnique' /\ DecisionsAreSound' /\ EntriesAreSpent' /\ EffectsAreChecked'
  BY <1>6, MovesKeep DEF Prepares
<1>8. ToolTypes'
  BY <1>2, <1>3, <1>4, <1>5 DEF ToolInv, ToolTypes, Prepares
<1> QED
  BY <1>7, <1>8 DEF ToolInv

LEMMA PrepareKeeps ==
  ASSUME ToolInv, NEW w \in Worker,
         PrepareRead(w) \/ PrepareList(w) \/ PrepareSearch(w) \/ PrepareEdit(w) \/ PrepareTodos(w) \/ PrepareShell(w)
  PROVE  ToolInv'
<1>1. /\ DOMAIN Effects = {"read_file", "list_files", "search_text", "edit_file", "shell", "write_todos"}
      /\ leads \in Place /\ (leads \in InRoot => content[leads] \in Content)
      /\ Resolves("read") \subseteq InRoot /\ Resolves("write") \subseteq InRoot
  BY DEF Effects, ToolInv, ToolTypes, Resolves
<1>2. CASE PrepareRead(w)
  BY <1>1, <1>2, PreparesKeeps DEF PrepareRead
<1>3. CASE PrepareList(w)
  BY <1>1, <1>3, PreparesKeeps DEF PrepareList
<1>4. CASE PrepareSearch(w)
  BY <1>1, <1>4, PreparesKeeps DEF PrepareSearch
<1>5. CASE PrepareEdit(w)
  BY <1>1, <1>5, PreparesKeeps DEF PrepareEdit
<1>6. CASE PrepareTodos(w)
  BY <1>1, <1>6, PreparesKeeps DEF PrepareTodos
<1>7. CASE PrepareShell(w)
  BY <1>1, <1>7, PreparesKeeps DEF PrepareShell
<1> QED
  BY <1>2, <1>3, <1>4, <1>5, <1>6, <1>7

\* issue: the number is new, and nobody has entered with it.
LEMMA IssueKeeps ==
  ASSUME ToolInv, NEW w \in Worker, worker[w].call \in PreparedCalls, NEW by \in {"policy", "user"}, Issue(w, by),
         ~HardDeny(worker[w].call), DecidedBy(by, worker[w].call),
         UNCHANGED <<options, leads, content, changes, clock, calls, done>>
  PROVE  ToolInv'
<1> DEFINE n   == Cardinality(handed) + 1
           cap == [nonce |-> n, call |-> worker[w].call, until |-> clock + Lifetime]
           new == [capability |-> cap, by |-> by]
           to  == [at |-> "granted", call |-> worker[w].call]
<1>1. grants' = grants \cup {cap} /\ handed' = handed \cup {new} /\ worker' = [worker EXCEPT ![w] = to]
  BY DEF Issue, WorkerGoes
<1>2. IsFiniteSet(handed) /\ Cardinality(handed) \in Nat
  BY FS_CardinalityType DEF ToolInv, ToolTypes
<1>3. n \in Nat /\ cap \in Capabilities /\ cap.nonce = n /\ cap.call = worker[w].call
  BY <1>2, ToolBounds DEF Capabilities, ToolInv, ToolTypes
<1>4. to \in WorkerSteps /\ to.at = "granted"
  BY DEF WorkerSteps
<1>5. new.capability = cap /\ new.by = by /\ new \in [capability : Capabilities, by : {"policy", "user"}]
  <2> HIDE DEF cap
  <2> QED
    BY <1>3
<1>6. \A g \in handed : g.capability.nonce \in 1..Cardinality(handed) /\ g.capability.nonce < n
  BY <1>2 DEF ToolInv, NoncesAreUnique
<1> HIDE DEF cap, new, to
<1>7. new \notin handed
  BY <1>3, <1>5, <1>6
<1>8. IsFiniteSet(handed') /\ Cardinality(handed') = n
  BY <1>1, <1>2, <1>7, FS_AddElement
<1>9. ToolTypes'
  BY <1>1, <1>3, <1>4, <1>5, <1>8 DEF ToolInv, ToolTypes
<1>10. NoncesAreUnique'
  <2>1. \A g \in handed' : g.capability.nonce \in 1..Cardinality(handed')
    BY <1>1, <1>2, <1>3, <1>5, <1>6, <1>8
  <2>2. \A g, h \in handed' : g.capability.nonce = h.capability.nonce => g = h
    BY <1>1, <1>3, <1>5, <1>6 DEF ToolInv, NoncesAreUnique
  <2>3. \A x \in grants' : \E g \in handed' : g.capability = x
    BY <1>1, <1>5 DEF ToolInv, NoncesAreUnique
  <2> QED
    BY <2>1, <2>2, <2>3 DEF NoncesAreUnique
<1>11. \A v \in Worker : worker'[v] = worker[v] \/ (v = w /\ worker'[v].at = "granted")
  BY <1>1, <1>4 DEF ToolInv, ToolTypes
<1>12. DecisionsAreSound'
  <2>1. \A c : HardDeny(c)' <=> HardDeny(c)
    BY DEF HardDeny, Headless
  <2>2. \A b, c : DecidedBy(b, c)' <=> DecidedBy(b, c)
    BY DEF DecidedBy, Headless, Unasked
  <2>3. ASSUME NEW v \in Worker, WorkerAt(v, "asking")'
        PROVE  ~Headless' /\ ~HardDeny(worker[v].call)'
    <3>1. worker'[v] = worker[v] /\ WorkerAt(v, "asking")
      BY <1>11, <2>3 DEF WorkerAt
    <3>2. ~Headless /\ ~HardDeny(worker[v].call)
      BY <3>1 DEF ToolInv, DecisionsAreSound
    <3> QED
      BY <3>1, <3>2 DEF Headless, HardDeny
  <2>4. \A g \in handed' : ~HardDeny(g.capability.call) /\ DecidedBy(g.by, g.capability.call)
    BY <1>1, <1>3, <1>5 DEF ToolInv, DecisionsAreSound
  <2> QED
    BY <2>1, <2>2, <2>3, <2>4 DEF DecisionsAreSound
<1>13. \A m, c, since : Spent(m, c, since) => Spent(m, c, since)'
  <2> SUFFICES ASSUME NEW m, NEW c, NEW since, Spent(m, c, since) PROVE Spent(m, c, since)'
    OBVIOUS
  <2>1. PICK g \in handed : g.capability.nonce = m /\ g.capability.call = c /\ since < g.capability.until
    BY DEF Spent
  <2>2. g \in handed' /\ m # n
    BY <1>1, <1>6, <2>1
  <2>3. \A x \in grants' : x.nonce # m
    BY <1>1, <1>3, <2>2 DEF Spent
  <2> QED
    BY <2>1, <2>2, <2>3 DEF Spent
<1>14. EntriesAreSpent'
  <2>1. ASSUME NEW v \in Worker, WorkerAt(v, "entered")'
        PROVE  worker'[v] = worker[v] /\ WorkerAt(v, "entered") /\ Spent(worker[v].nonce, worker[v].call, worker[v].since)'
    <3>1. worker'[v] = worker[v] /\ WorkerAt(v, "entered")
      BY <1>11, <2>1 DEF WorkerAt
    <3>2. Spent(worker[v].nonce, worker[v].call, worker[v].since)
      BY <3>1 DEF ToolInv, EntriesAreSpent
    <3>3. \A m, c, since : m = worker[v].nonce /\ c = worker[v].call /\ since = worker[v].since => Spent(m, c, since)'
      BY <1>13, <3>2
    <3>4. \A m, c, since : m = worker'[v].nonce /\ c = worker'[v].call /\ since = worker'[v].since => Spent(m, c, since)'
      BY <3>1, <3>3
    <3> QED
      BY <3>1, <3>4
  <2>2. \A e \in done' : Spent(e.nonce, e.call, e.since)'
    BY <1>13 DEF ToolInv, EntriesAreSpent
  <2> QED
    BY <2>1, <2>2 DEF ToolInv, EntriesAreSpent
<1>15. EffectsAreChecked'
  BY DEF ToolInv, EffectsAreChecked
<1> QED
  BY <1>9, <1>10, <1>12, <1>14, <1>15 DEF ToolInv

\* A worker rests or asks, and nothing else happens.
LEMMA WaitsKeeps ==
  ASSUME ToolInv, NEW w \in Worker, NEW to \in WorkerSteps, WorkerGoes(w, to), to.at \in {"rest", "asking", "granted"},
         to.at = "asking" => ~Headless /\ ~HardDeny(to.call),
         UNCHANGED <<options, leads, content, changes, clock, calls, grants, handed, done>>
  PROVE  ToolInv'
<1>1. worker \in [Worker -> WorkerSteps] /\ worker' = [worker EXCEPT ![w] = to]
  BY DEF ToolInv, ToolTypes, WorkerGoes
<1>2. \A v \in Worker : worker'[v] = worker[v] \/ worker'[v] = to
  BY <1>1
<1>3. NoncesAreUnique' /\ DecisionsAreSound' /\ EntriesAreSpent' /\ EffectsAreChecked'
  <2>1. \A v \in Worker : worker'[v].at = "entered" => worker'[v] = worker[v]
    BY <1>2
  <2>2. \A v \in Worker : worker'[v].at = "asking" => worker'[v] = worker[v] \/ (~Headless /\ ~HardDeny(worker'[v].call))
    BY <1>2
  <2> QED
    BY <2>1, <2>2, MovesKeep
<1>4. ToolTypes'
  BY <1>1 DEF ToolInv, ToolTypes
<1> QED
  BY <1>3, <1>4 DEF ToolInv

LEMMA Waiting ==
  ASSUME ToolTypes, NEW w \in Worker, worker[w].at # "rest"
  PROVE  /\ Resting \in WorkerSteps /\ Resting.at = "rest"
         /\ worker[w] \in WorkerSteps /\ worker[w].call \in PreparedCalls
         /\ [at |-> "asking", call |-> worker[w].call] \in WorkerSteps
         /\ [at |-> "granted", call |-> worker[w].call] \in WorkerSteps
BY DEF ToolTypes, WorkerSteps, Resting

LEMMA AuthorizeKeeps ==
  ASSUME ToolInv, NEW w \in Worker, Authorize(w)
  PROVE  ToolInv'
<1> DEFINE decision == Evaluate(worker[w].call)
<1>1. worker[w].at = "prepared" /\ ToolTypes
  BY DEF Authorize, WorkerAt, ToolInv
<1>2. Resting \in WorkerSteps /\ Resting.at = "rest" /\ worker[w].call \in PreparedCalls
      /\ [at |-> "asking", call |-> worker[w].call] \in WorkerSteps
  BY <1>1, Waiting
<1>3. /\ decision \in {"allow", "ask"} => ~HardDeny(worker[w].call)
      /\ decision = "allow" => Unasked(worker[w].call)
  BY <1>2, PolicyIsSound
<1> HIDE DEF decision
<1>4. UNCHANGED <<options, leads, content, changes, clock, calls, done>>
  BY DEF Authorize
<1>5. CASE decision = "allow" /\ Issue(w, "policy")
  BY <1>2, <1>3, <1>4, <1>5, IssueKeeps DEF DecidedBy
<1>6. CASE Rests(w) /\ UNCHANGED <<grants, used, handed>>
  BY <1>2, <1>4, <1>6, WaitsKeeps DEF Rests
<1>7. CASE decision \in {"allow", "ask"} /\ ~Headless /\ WorkerGoes(w, [at |-> "asking", call |-> worker[w].call])
           /\ UNCHANGED <<grants, used, handed>>
  BY <1>2, <1>3, <1>4, <1>7, WaitsKeeps
<1> QED
  BY <1>5, <1>6, <1>7 DEF Authorize, decision

LEMMA AnswerKeeps ==
  ASSUME ToolInv, NEW w \in Worker, Answer(w)
  PROVE  ToolInv'
<1>1. worker[w].at = "asking" /\ ToolTypes
  BY DEF Answer, WorkerAt, ToolInv
<1>2. Resting \in WorkerSteps /\ Resting.at = "rest" /\ worker[w].call \in PreparedCalls
  BY <1>1, Waiting
<1>3. ~HardDeny(worker[w].call) /\ DecidedBy("user", worker[w].call)
  BY <1>1 DEF ToolInv, DecisionsAreSound, WorkerAt, DecidedBy
<1>4. UNCHANGED <<options, leads, content, changes, clock, calls, done>>
  BY DEF Answer
<1>5. CASE Issue(w, "user")
  BY <1>2, <1>3, <1>4, <1>5, IssueKeeps
<1>6. CASE Rests(w) /\ UNCHANGED <<grants, used, handed>>
  BY <1>2, <1>4, <1>6, WaitsKeeps DEF Rests
<1> QED
  BY <1>5, <1>6 DEF Answer

\* A number is spent: it is granted to nobody any more.
LEMMA GrantsShrinkKeeps ==
  ASSUME ToolInv, UNCHANGED <<options, handed, done>>, grants' \subseteq grants,
         \A w \in Worker : worker'[w] = worker[w] \/ worker'[w].at = "rest"
  PROVE  NoncesAreUnique' /\ DecisionsAreSound' /\ EntriesAreSpent' /\ EffectsAreChecked'
<1>1. NoncesAreUnique' /\ EffectsAreChecked'
  BY DEF ToolInv, NoncesAreUnique, EffectsAreChecked
<1>2. DecisionsAreSound'
  <2>1. \A c : HardDeny(c)' <=> HardDeny(c)
    BY DEF HardDeny, Headless
  <2>2. \A by, c : DecidedBy(by, c)' <=> DecidedBy(by, c)
    BY DEF DecidedBy, Headless, Unasked
  <2>3. ASSUME NEW w \in Worker, WorkerAt(w, "asking")'
        PROVE  ~Headless' /\ ~HardDeny(worker[w].call)'
    <3>1. worker'[w] = worker[w] /\ ~Headless /\ ~HardDeny(worker[w].call)
      BY <2>3 DEF ToolInv, DecisionsAreSound, WorkerAt
    <3> QED
      BY <3>1 DEF Headless, HardDeny
  <2> QED
    BY <2>1, <2>2, <2>3 DEF ToolInv, DecisionsAreSound
<1>3. \A n, c, since : Spent(n, c, since) => Spent(n, c, since)'
  BY DEF Spent
<1>4. ASSUME NEW w \in Worker, WorkerAt(w, "entered")'
      PROVE  worker'[w] = worker[w] /\ WorkerAt(w, "entered") /\ Spent(worker[w].nonce, worker[w].call, worker[w].since)'
  <2>1. worker'[w] = worker[w] /\ WorkerAt(w, "entered")
    BY <1>4 DEF WorkerAt
  <2>2. Spent(worker[w].nonce, worker[w].call, worker[w].since)
    BY <2>1 DEF ToolInv, EntriesAreSpent
  <2>3. \A n, c, since : n = worker[w].nonce /\ c = worker[w].call /\ since = worker[w].since => Spent(n, c, since)'
    BY <1>3, <2>2
  <2>4. \A n, c, since : n = worker'[w].nonce /\ c = worker'[w].call /\ since = worker'[w].since => Spent(n, c, since)'
    BY <2>1, <2>3
  <2> QED
    BY <2>1, <2>4
<1>5. \A e \in done' : Spent(e.nonce, e.call, e.since)'
  BY <1>3 DEF ToolInv, EntriesAreSpent
<1> QED
  BY <1>1, <1>2, <1>4, <1>5 DEF ToolInv, EntriesAreSpent

\* Consume: whoever enters has taken the one grant of that number.
LEMMA ConsumeKeeps ==
  ASSUME ToolInv, NEW w \in Worker, CheckCapability(w)
  PROVE  ToolInv'
<1>1. PICK given \in handed : Consume(w, given.capability)
  BY DEF CheckCapability
<1>2. worker[w].at = "granted" /\ ToolTypes /\ UNCHANGED <<options, leads, content, changes, clock, calls, handed, done>>
  BY DEF CheckCapability, WorkerAt, ToolInv
<1>3. Resting \in WorkerSteps /\ Resting.at = "rest" /\ worker[w].call \in PreparedCalls
  BY <1>2, Waiting
<1>4. CASE Rests(w) /\ grants' \subseteq grants
  <2>1. worker \in [Worker -> WorkerSteps] /\ worker' = [worker EXCEPT ![w] = Resting]
    BY <1>2, <1>4 DEF ToolTypes, Rests, WorkerGoes
  <2>2. \A v \in Worker : worker'[v] = worker[v] \/ worker'[v].at = "rest"
    BY <1>3, <2>1
  <2>3. ToolTypes'
    BY <1>2, <1>3, <1>4, <2>1 DEF ToolTypes
  <2> QED
    BY <1>2, <1>4, <2>2, <2>3, GrantsShrinkKeeps DEF ToolInv
<1>5. ASSUME NEW grant \in grants, grant.nonce = given.capability.nonce, clock < grant.until, grant.call = worker[w].call,
             grants' = grants \ {grant},
             WorkerGoes(w, [at |-> "entered", call |-> worker[w].call, nonce |-> given.capability.nonce, since |-> clock])
      PROVE  ToolInv'
  <2> DEFINE to == [at |-> "entered", call |-> worker[w].call, nonce |-> given.capability.nonce, since |-> clock]
  <2>1. given.capability.nonce \in Nat
    BY <1>2 DEF ToolTypes, Capabilities
  <2>2. to \in WorkerSteps /\ to.at = "entered" /\ to.call = worker[w].call /\ to.nonce = grant.nonce /\ to.since = clock
    BY <1>2, <1>3, <1>5, <2>1 DEF WorkerSteps, ToolTypes
  <2>3. worker' = [worker EXCEPT ![w] = to] /\ worker \in [Worker -> WorkerSteps]
    BY <1>2, <1>5 DEF WorkerGoes, ToolTypes
  <2> HIDE DEF to
  <2>4. worker'[w] = to /\ \A v \in Worker \ {w} : worker'[v] = worker[v]
    BY <2>3
  <2>5. \A x \in grants : x.nonce = grant.nonce => x = grant
    BY DEF ToolInv, NoncesAreUnique
  <2>6. \A n, c, since : n = to.nonce /\ c = to.call /\ since = to.since => Spent(n, c, since)'
    <3>1. PICK g \in handed : g.capability = grant
      BY DEF ToolInv, NoncesAreUnique
    <3>2. \A n, c, since : n = grant.nonce /\ c = grant.call /\ since = clock => Spent(n, c, since)'
      BY <1>2, <1>5, <2>5, <3>1 DEF Spent
    <3> QED
      BY <1>5, <2>2, <3>2
  <2>7. ToolTypes'
    BY <1>2, <1>5, <2>2, <2>3 DEF ToolTypes
  <2>8. NoncesAreUnique' /\ EffectsAreChecked'
    BY <1>2, <1>5 DEF ToolInv, NoncesAreUnique, EffectsAreChecked
  <2>9. DecisionsAreSound'
    <3>1. \A c : HardDeny(c)' <=> HardDeny(c)
      BY <1>2 DEF HardDeny, Headless
    <3>2. \A by, c : DecidedBy(by, c)' <=> DecidedBy(by, c)
      BY <1>2 DEF DecidedBy, Headless, Unasked
    <3>3. ASSUME NEW v \in Worker, WorkerAt(v, "asking")'
          PROVE  ~Headless' /\ ~HardDeny(worker[v].call)'
      <4>1. worker'[v] = worker[v] /\ WorkerAt(v, "asking")
        BY <2>2, <2>4, <3>3 DEF WorkerAt
      <4>2. ~Headless /\ ~HardDeny(worker[v].call)
        BY <4>1 DEF ToolInv, DecisionsAreSound
      <4> QED
        BY <1>2, <4>1, <4>2 DEF Headless, HardDeny
    <3> QED
      BY <1>2, <3>1, <3>2, <3>3 DEF ToolInv, DecisionsAreSound
  <2>10. \A n, c, since : Spent(n, c, since) => Spent(n, c, since)' /\ n # to.nonce
    BY <1>2, <1>5, <2>2 DEF Spent
  <2>11. EntriesAreSpent'
    <3>1. ASSUME NEW v \in Worker, v # w, WorkerAt(v, "entered")'
          PROVE  /\ worker'[v] = worker[v] /\ WorkerAt(v, "entered") /\ worker[v].nonce # to.nonce
                 /\ Spent(worker[v].nonce, worker[v].call, worker[v].since)'
      <4>1. worker'[v] = worker[v] /\ WorkerAt(v, "entered")
        BY <2>4, <3>1 DEF WorkerAt
      <4>2. Spent(worker[v].nonce, worker[v].call, worker[v].since)
        BY <4>1 DEF ToolInv, EntriesAreSpent
      <4>3. \A n, c, since : n = worker[v].nonce /\ c = worker[v].call /\ since = worker[v].since => Spent(n, c, since)'
        BY <2>10, <4>2
      <4>4. \A n, c, since : n = worker'[v].nonce /\ c = worker'[v].call /\ since = worker'[v].since => Spent(n, c, since)'
        BY <4>1, <4>3
      <4> QED
        BY <2>10, <4>1, <4>2, <4>4
    <3>2. \A e \in done' : Spent(e.nonce, e.call, e.since)' /\ e.nonce # to.nonce
      BY <1>2, <2>10 DEF ToolInv, EntriesAreSpent
    <3>3. Spent(worker[w].nonce, worker[w].call, worker[w].since)'
      <4>1. \A n, c, since : n = worker'[w].nonce /\ c = worker'[w].call /\ since = worker'[w].since => Spent(n, c, since)'
        BY <2>4, <2>6
      <4> QED
        BY <4>1
    <3>4. ASSUME NEW v \in Worker, WorkerAt(v, "entered")'
          PROVE  /\ Spent(worker[v].nonce, worker[v].call, worker[v].since)'
                 /\ \A e \in done' : e.nonce # worker'[v].nonce
                 /\ \A u \in Worker \ {v} : WorkerAt(u, "entered")' => worker'[u].nonce # worker'[v].nonce
      <4>1. CASE v = w
        BY <2>4, <3>1, <3>2, <3>3, <4>1
      <4>2. CASE v # w
        BY <1>2, <2>4, <3>1, <3>4, <4>2 DEF ToolInv, EntriesAreSpent, WorkerAt
      <4> QED
        BY <4>1, <4>2
    <3> QED
      BY <1>2, <3>2, <3>4 DEF ToolInv, EntriesAreSpent
  <2> QED
    BY <2>7, <2>8, <2>9, <2>11 DEF ToolInv
<1> QED
  <2>1. \A grant \in grants : ~(clock >= grant.until) => clock < grant.until
    BY <1>2 DEF ToolTypes, Capabilities
  <2> QED
    BY <1>1, <1>4, <1>5, <2>1 DEF Consume, GrantMatches, LeftOf
\* What a call may do where its tool lets it act is an effect as it should be.
LEMMA ActsKeeps ==
  ASSUME ToolInv, NEW w \in Worker, WorkerAt(w, "entered"), NEW allowed, Acts(w, allowed),
         allowed =>
           /\ worker[w].call.tool # "write_todos" => leads \in InRoot
           /\ worker[w].call.tool = "edit_file" => leads # "secret"
           /\ worker[w].call.tool \in {"edit_file", "shell"} => leads = worker[w].call.place
           /\ worker[w].call.tool \in {"read_file", "edit_file"} => leads \in InRoot /\ content[leads] = worker[w].call.hash
  PROVE  ToolInv'
<1> DEFINE at  == IF leads \in InRoot THEN content[leads] ELSE None
           e0  == [nonce |-> worker[w].nonce, since |-> worker[w].since, call |-> worker[w].call, place |-> leads, content |-> at]
           to  == [at |-> "granted", call |-> worker[w].call]
<1>1. /\ Resting \in WorkerSteps /\ Resting.at = "rest"
      /\ worker[w].call \in PreparedCalls
      /\ to \in WorkerSteps /\ to.at = "granted"
  BY Waiting DEF ToolInv, WorkerAt
<1>2. /\ e0.nonce = worker[w].nonce /\ e0.since = worker[w].since /\ e0.call = worker[w].call
      /\ e0.place = leads /\ e0.content = at /\ (leads \in InRoot => e0.content = content[leads])
  OBVIOUS
<1>3. done' = done \/ (allowed /\ done' = done \cup {e0})
  BY DEF Acts
<1>4. worker' = [worker EXCEPT ![w] = Resting] \/ worker' = [worker EXCEPT ![w] = to]
  BY DEF Acts, Rests, WorkerGoes
<1> HIDE DEF at, e0, to
<1>5. worker \in [Worker -> WorkerSteps] /\ UNCHANGED <<options, leads, content, changes, clock, calls, grants, used, handed>>
  BY DEF ToolInv, ToolTypes, Acts
<1>6. ASSUME NEW v \in Worker, worker'[v].at \in {"asking", "entered"}
      PROVE  v # w /\ worker'[v] = worker[v]
  BY <1>1, <1>4, <1>5, <1>6
<1>7. ToolTypes'
  BY <1>1, <1>4, <1>5 DEF ToolInv, ToolTypes
<1>8. NoncesAreUnique'
  BY <1>5 DEF ToolInv, NoncesAreUnique
<1>9. DecisionsAreSound'
  <2>1. \A c : HardDeny(c)' <=> HardDeny(c)
    BY <1>5 DEF HardDeny, Headless
  <2>2. \A by, c : DecidedBy(by, c)' <=> DecidedBy(by, c)
    BY <1>5 DEF DecidedBy, Headless, Unasked
  <2>3. ASSUME NEW v \in Worker, WorkerAt(v, "asking")'
        PROVE  ~Headless' /\ ~HardDeny(worker[v].call)'
    <3>1. worker'[v] = worker[v] /\ WorkerAt(v, "asking")
      BY <1>6, <2>3 DEF WorkerAt
    <3>2. ~Headless /\ ~HardDeny(worker[v].call)
      BY <3>1 DEF ToolInv, DecisionsAreSound
    <3> QED
      BY <1>5, <3>1, <3>2 DEF Headless, HardDeny
  <2> QED
    BY <1>5, <2>1, <2>2, <2>3 DEF ToolInv, DecisionsAreSound
<1>10. \A n, c, since : Spent(n, c, since)' <=> Spent(n, c, since)
  BY <1>5 DEF Spent
<1>11. Spent(e0.nonce, e0.call, e0.since) /\ \A e \in done : e.nonce # e0.nonce
  BY <1>2 DEF ToolInv, EntriesAreSpent
<1>12. EntriesAreSpent'
  <2>1. ASSUME NEW v \in Worker, WorkerAt(v, "entered")'
        PROVE  /\ Spent(worker[v].nonce, worker[v].call, worker[v].since)'
               /\ \A e \in done' : e.nonce # worker'[v].nonce
               /\ \A u \in Worker \ {v} : WorkerAt(u, "entered")' => worker'[u].nonce # worker'[v].nonce
    <3>1. v # w /\ worker'[v] = worker[v] /\ WorkerAt(v, "entered")
      BY <1>6, <2>1 DEF WorkerAt
    <3>2. Spent(worker[v].nonce, worker[v].call, worker[v].since)
      BY <3>1 DEF ToolInv, EntriesAreSpent
    <3>3. \A n, c, since : n = worker'[v].nonce /\ c = worker'[v].call /\ since = worker'[v].since => Spent(n, c, since)'
      BY <1>10, <3>1, <3>2
    <3>4. \A e \in done' : e.nonce # worker[v].nonce
      BY <1>2, <1>3, <3>1 DEF ToolInv, EntriesAreSpent
    <3>5. ASSUME NEW u \in Worker \ {v}, WorkerAt(u, "entered")'
          PROVE  worker'[u].nonce # worker'[v].nonce
      <4>1. worker'[u] = worker[u] /\ WorkerAt(u, "entered")
        BY <1>6, <3>5 DEF WorkerAt
      <4> QED
        BY <3>1, <4>1 DEF ToolInv, EntriesAreSpent
    <3> QED
      BY <3>1, <3>3, <3>4, <3>5
  <2>2. \A e \in done' : Spent(e.nonce, e.call, e.since)
    BY <1>3, <1>11 DEF ToolInv, EntriesAreSpent
  <2>3. \A e, f \in done' : e.nonce = f.nonce => e = f
    BY <1>3, <1>11 DEF ToolInv, EntriesAreSpent
  <2> QED
    BY <1>10, <2>1, <2>2, <2>3 DEF EntriesAreSpent
<1>13. EffectsAreChecked'
  <2>1. ASSUME allowed
        PROVE  /\ e0.call \in PreparedCalls
               /\ e0.call.tool # "write_todos" => e0.place \in InRoot
               /\ e0.call.tool = "edit_file" => e0.place # "secret"
               /\ e0.call.tool \in {"edit_file", "shell"} => e0.place = e0.call.place
               /\ e0.call.tool \in {"read_file", "edit_file"} => e0.content = e0.call.hash
    BY <1>1, <1>2, <2>1
  <2> QED
    BY <1>3, <2>1 DEF ToolInv, EffectsAreChecked
<1> QED
  BY <1>7, <1>8, <1>9, <1>12, <1>13 DEF ToolInv

LEMMA ExecuteKeeps ==
  ASSUME ToolInv, NEW w \in Worker,
         \/ ExecuteRead(w) \/ ExecuteList(w) \/ ExecuteSearch(w) \/ ExecuteEdit(w) \/ ExecuteTodos(w) \/ ExecuteShell(w)
  PROVE  ToolInv'
<1>1. CASE ExecuteRead(w)
  BY <1>1, ActsKeeps DEF ExecuteRead, Entered, Resolves, SameContent, InRoot
<1>2. CASE ExecuteList(w)
  BY <1>2, ActsKeeps DEF ExecuteList, Entered, Resolves, InRoot
<1>3. CASE ExecuteSearch(w)
  BY <1>3, ActsKeeps DEF ExecuteSearch, Entered, Resolves, InRoot
<1>4. CASE ExecuteEdit(w)
  BY <1>4, ActsKeeps DEF ExecuteEdit, Entered, Resolves, SameContent, SamePath, InRoot
<1>5. CASE ExecuteTodos(w)
  BY <1>5, ActsKeeps DEF ExecuteTodos, Entered
<1>6. CASE ExecuteShell(w)
  BY <1>6, ActsKeeps DEF ExecuteShell, Entered, Resolves, SamePath, InRoot
<1> QED
  BY <1>1, <1>2, <1>3, <1>4, <1>5, <1>6

THEOREM ToolInvariant == ToolSpec => []ToolInv
<1>1. ToolInit => ToolInv
  <2> SUFFICES ASSUME ToolInit PROVE ToolInv
    OBVIOUS
  <2>1. (CHOOSE c \in Content : TRUE) \in Content
    BY ToolBounds
  <2>2. ToolTypes
    BY <2>1, FS_EmptySet DEF ToolInit, ToolTypes, WorkerSteps, Place, InRoot
  <2>3. \A w \in Worker : worker[w].at = "rest"
    BY DEF ToolInit, Resting
  <2> QED
    BY <2>2, <2>3 DEF ToolInit, ToolInv, NoncesAreUnique, DecisionsAreSound, EntriesAreSpent, EffectsAreChecked, WorkerAt
<1>2. ToolInv /\ [ToolNext]_toolVars => ToolInv'
  <2> SUFFICES ASSUME ToolInv, [ToolNext]_toolVars PROVE ToolInv'
    OBVIOUS
  <2>1. CASE \E w \in Worker : WorkerStep(w)
    BY <2>1, PrepareKeeps, AuthorizeKeeps, AnswerKeeps, ConsumeKeeps, ExecuteKeeps DEF WorkerStep
  <2>2. ASSUME UNCHANGED <<options, grants, handed, worker, done>>, ToolTypes'
        PROVE  ToolInv'
    BY <2>2, MovesKeep DEF ToolInv
  <2>3. CASE Changes
    <3>1. ToolTypes'
      BY <2>3 DEF Changes, ToolInv, ToolTypes
    <3> QED
      BY <2>2, <2>3, <3>1 DEF Changes
  <2>4. CASE Tick
    <3>1. ToolTypes'
      BY <2>4 DEF Tick, ToolInv, ToolTypes
    <3> QED
      BY <2>2, <2>4, <3>1 DEF Tick
  <2>5. CASE UNCHANGED toolVars
    <3>1. ToolTypes'
      BY <2>5 DEF toolVars, ToolInv, ToolTypes
    <3> QED
      BY <2>2, <2>5, <3>1 DEF toolVars
  <2> QED
    BY <2>1, <2>3, <2>4, <2>5 DEF ToolNext
<1> QED
  BY <1>1, <1>2, PTL DEF ToolSpec

\* The property of policy.Authority, policy.Engine and the tools' own checks:
\* no effect without one capability of its own, granted in time, by who may,
\* to that call; and where and on what the call said.
THEOREM GrantedCallsExecute == ToolSpec => []OnlyGrantedCallsExecute
<1>1. ToolInv => OnlyGrantedCallsExecute
  <2> SUFFICES ASSUME ToolInv PROVE OnlyGrantedCallsExecute
    OBVIOUS
  <2>1. ASSUME NEW e \in done
        PROVE  /\ \E given \in handed :
                    /\ given.capability.nonce = e.nonce /\ given.capability.call = e.call
                    /\ e.since < given.capability.until
                    /\ given.by = "user" => ~Headless
                    /\ given.by = "policy" => Unasked(e.call)
               /\ ~HardDeny(e.call)
    <3>1. PICK g \in handed : g.capability.nonce = e.nonce /\ g.capability.call = e.call /\ e.since < g.capability.until
      BY DEF ToolInv, EntriesAreSpent, Spent
    <3>2. ~HardDeny(g.capability.call) /\ DecidedBy(g.by, g.capability.call)
      BY DEF ToolInv, DecisionsAreSound
    <3> QED
      BY <3>1, <3>2 DEF DecidedBy
  <2>2. ASSUME NEW e \in done, e.call.tool = "edit_file", options.eval.on
        PROVE  e.place \in options.eval.changes
    <3>1. "write" \in Effects[e.call.tool] /\ e.place = e.call.place
      BY <2>2 DEF Effects, ToolInv, EffectsAreChecked
    <3> QED
      BY <2>1, <2>2, <3>1 DEF HardDeny
  <2> QED
    BY <2>1, <2>2 DEF OnlyGrantedCallsExecute, ToolInv, EntriesAreSpent, EffectsAreChecked
<1> QED
  BY <1>1, ToolInvariant, PTL

-----------------------------------------------------------------------------
(***************************************************************************)
(* ModelRequest: however the requests, their retries and the answers go,    *)
(* the user has read exactly the answer that is accepted, and what the      *)
(* usage facts say adds up to the totals of the run.                        *)
(***************************************************************************)

AskedFields == {"at", "purpose", "attempt", "chunks"}
HeardFields == {"content", "calls", "size", "finish", "usage", "visible"}

\* Before a request has sent anything of an answer that it keeps.
NothingHeard == {"idle", "sending", "retrying", "waiting"}
\* No attempt under way has failed.
NothingFailed == {"idle", "sending", "waiting", "streaming"}

ShownInv ==
  /\ DOMAIN request = AskedFields /\ DOMAIN heard = HeardFields
  /\ (shown # <<>> \/ heard.content # <<>>) => heard.visible
  /\ failure = NoFailure => shown = IF request.purpose = "agent" THEN heard.content ELSE <<>>
  /\ request.at \in NothingHeard => ~heard.visible
  /\ request.at \in NothingFailed => failure = NoFailure

\* A failure is none of a good answer.
LEMMA FailuresFail ==
  /\ \A category : category # "none" => Failed(category) # NoFailure /\ Transient(category) # NoFailure
  /\ ContextFailure # NoFailure
<1>1. \A category : category # "none" => Failed(category) # NoFailure /\ Transient(category) # NoFailure
  <2>1. ASSUME NEW category, category # "none"
        PROVE  Failed(category) # NoFailure /\ Transient(category) # NoFailure
    <3>1. Failed(category).category = category /\ Transient(category).category = category /\ NoFailure.category = "none"
      BY DEF Failed, Transient, NoFailure
    <3> QED
      BY <2>1, <3>1
  <2> QED
    BY <2>1
<1> QED
  BY <1>1 DEF ContextFailure

\* An attempt ends: with a failure, or with nothing retried.
LEMMA EndingKeepsShown ==
  ASSUME ShownInv, NEW where, NEW because, Ends(where, because),
         where \in {"closing", "attempted", "returned"}, because = NoFailure => failure = NoFailure
  PROVE  ShownInv'
<1> PICK to : to = [request EXCEPT !.at = where]
  OBVIOUS
<1>1. request' = to /\ DOMAIN to = AskedFields /\ to.at = where /\ to.purpose = request.purpose
  BY DEF Ends, RequestGoes, ShownInv, AskedFields
<1> QED
  BY <1>1 DEF ShownInv, Ends, NothingHeard, NothingFailed

\* The request goes on to where nothing is heard or failed anew.
LEMMA GoingKeepsShown ==
  ASSUME ShownInv, NEW where, RequestGoes(where), UNCHANGED <<heard, failure, shown>>,
         where \in NothingHeard => ~heard.visible,
         where \in NothingFailed => failure = NoFailure
  PROVE  ShownInv'
<1> PICK to : to = [request EXCEPT !.at = where]
  OBVIOUS
<1>1. request' = to /\ DOMAIN to = AskedFields /\ to.at = where /\ to.purpose = request.purpose
  BY DEF RequestGoes, ShownInv, AskedFields
<1> QED
  BY <1>1 DEF ShownInv

LEMMA TakingKeepsShown ==
  ASSUME ShownInv, Hears, NEW next, NEW display, NEW seen, Takes(next, display, seen),
         DOMAIN next = HeardFields, heard.visible => next.visible,
         \/ next.content = heard.content /\ display = shown
         \/ /\ next.content = Append(heard.content, "text") /\ next.visible
            /\ display = IF request.purpose = "agent" THEN Append(shown, "text") ELSE shown
  PROVE  ShownInv'
<1>1. failure = NoFailure /\ request.at = "streaming"
  BY DEF ShownInv, Hears, Streaming, RequestAt, NothingFailed
<1>2. Failed("sink") # NoFailure
  BY FailuresFail
<1> PICK on : on = [request EXCEPT !.chunks = @ + 1]
  OBVIOUS
<1> PICK off : off = [request EXCEPT !.at = "closing"]
  OBVIOUS
<1>3. /\ DOMAIN on = AskedFields /\ on.at = "streaming" /\ on.purpose = request.purpose
      /\ DOMAIN off = AskedFields /\ off.at = "closing" /\ off.purpose = request.purpose
  BY <1>1 DEF ShownInv, AskedFields
<1>4. CASE request' = on /\ shown' = display /\ failure' = failure
  BY <1>1, <1>3, <1>4 DEF ShownInv, Takes, NothingHeard
<1>5. CASE request' = off /\ failure' = Failed("sink") /\ shown' = shown
  BY <1>1, <1>2, <1>3, <1>5 DEF ShownInv, Takes, NothingHeard, NothingFailed
<1> QED
  BY <1>4, <1>5 DEF Takes, RequestGoes

LEMMA HearingKeepsShown ==
  ASSUME ShownInv, HearText \/ HearToolDelta \/ HearFinish \/ HearUsage
  PROVE  ShownInv'
<1>1. Failed("protocol") # NoFailure
  BY FailuresFail
<1>2. ASSUME Ends("closing", Failed("protocol")) PROVE ShownInv'
  BY <1>1, <1>2, EndingKeepsShown
<1>3. DOMAIN heard = HeardFields
  BY DEF ShownInv
<1>4. CASE HearText
  <2> PICK next : next = [heard EXCEPT !.content = Append(@, "text"), !.size = @ + 1, !.visible = TRUE]
    OBVIOUS
  <2>1. DOMAIN next = HeardFields /\ next.content = Append(heard.content, "text") /\ next.visible
    BY <1>3 DEF HeardFields
  <2>2. Hears /\ \/ Ends("closing", Failed("protocol"))
                 \/ Takes(next, IF request.purpose = "agent" THEN Append(shown, "text") ELSE shown, observed)
    BY <1>4 DEF HearText
  <2> QED
    BY <1>2, <2>1, <2>2, TakingKeepsShown
<1>5. CASE HearToolDelta
  <2>1. PICK index \in {-1, 0, 1}, id \in {<<>>, <<"i">>}, body \in {0, 1} :
          /\ Hears
          /\ \/ Ends("closing", Failed("protocol"))
             \/ Takes([heard EXCEPT !.calls = Added(index, id, body), !.size = @ + (Len(id) + body),
                                    !.visible = @ \/ Len(id) + body > 0], shown, observed)
    BY <1>5 DEF HearToolDelta
  <2> PICK next : next = [heard EXCEPT !.calls = Added(index, id, body), !.size = @ + (Len(id) + body),
                                    !.visible = @ \/ Len(id) + body > 0]
    OBVIOUS
  <2>2. DOMAIN next = HeardFields /\ next.content = heard.content /\ (heard.visible => next.visible)
    BY <1>3 DEF HeardFields
  <2> QED
    BY <1>2, <2>1, <2>2, TakingKeepsShown
<1>6. CASE HearFinish
  <2>1. PICK reason \in {"", "stop", "tool_calls"} :
          /\ Hears
          /\ Ends("closing", Failed("protocol")) \/ Takes([heard EXCEPT !.finish = reason], shown, observed)
    BY <1>6 DEF HearFinish
  <2> PICK next : next = [heard EXCEPT !.finish = reason]
    OBVIOUS
  <2>2. DOMAIN next = HeardFields /\ next.content = heard.content /\ next.visible = heard.visible
    BY <1>3 DEF HeardFields
  <2> QED
    BY <1>2, <2>1, <2>2, TakingKeepsShown
<1>7. CASE HearUsage
  <2>1. PICK usage \in WireUsage :
          /\ Hears
          /\ \/ Ends("closing", Failed("protocol"))
             \/ Takes([heard EXCEPT !.usage = usage], shown, [usage |-> usage, seen |-> TRUE])
    BY <1>7 DEF HearUsage
  <2> PICK next : next = [heard EXCEPT !.usage = usage]
    OBVIOUS
  <2>2. DOMAIN next = HeardFields /\ next.content = heard.content /\ next.visible = heard.visible
    BY <1>3 DEF HeardFields
  <2> QED
    BY <1>2, <2>1, <2>2, TakingKeepsShown
<1> QED
  BY <1>4, <1>5, <1>6, <1>7

THEOREM ShownInvariant == RequestSpec => []ShownInv
<1>1. RequestInit => ShownInv
  <2>1. DOMAIN Idle = AskedFields /\ DOMAIN Unheard = HeardFields /\ Unheard.content = <<>> /\ ~Unheard.visible
    BY DEF Idle, Unheard, AskedFields, HeardFields
  <2> QED
    BY <2>1 DEF RequestInit, ShownInv
<1>2. ShownInv /\ [RequestNext]_requestVars => ShownInv'
  <2> SUFFICES ASSUME ShownInv, [RequestNext]_requestVars PROVE ShownInv'
    OBVIOUS
  <2>0. DOMAIN Idle = AskedFields /\ DOMAIN Unheard = HeardFields /\ Unheard.content = <<>> /\ ~Unheard.visible /\ Idle.at = "idle"
    BY DEF Idle, Unheard, AskedFields, HeardFields
  <2>1. CASE UNCHANGED requestVars
    BY <2>1 DEF requestVars, ShownInv
  <2>2. ASSUME NEW purpose \in {"agent", "context_summary"}, BeginRequest(purpose) PROVE ShownInv'
    <3> PICK to : to = [at |-> "sending", purpose |-> purpose, attempt |-> 1, chunks |-> 0]
      OBVIOUS
    <3>1. DOMAIN to = AskedFields /\ to.at = "sending"
      BY DEF AskedFields
    <3> QED
      BY <2>2, <3>1 DEF BeginRequest, ShownInv, RequestAt, NothingHeard, NothingFailed
  <2>3. CASE RefuseRequest \/ TransportError \/ RefusedByServer \/ HearGarbage \/ StreamBreaks
    <3>1. \E where \in {"closing", "attempted", "returned"} :
            \/ \E category : category # "none" /\ (Ends(where, Failed(category)) \/ Ends(where, Transient(category)))
            \/ Ends(where, ContextFailure)
      <4>1. CASE RefuseRequest
        BY <4>1 DEF RefuseRequest
      <4>2. CASE TransportError
        BY <4>2 DEF TransportError
      <4>3. CASE RefusedByServer
        <5>1. PICK status : Ends("closing", OfStatus(status))
          BY <4>3 DEF RefusedByServer
        <5>2. \E category : category # "none" /\ (OfStatus(status) = Failed(category) \/ OfStatus(status) = Transient(category))
          BY DEF OfStatus
        <5> QED
          BY <5>1, <5>2
      <4>4. CASE HearGarbage
        BY <4>4 DEF HearGarbage
      <4>5. CASE StreamBreaks
        BY <4>5 DEF StreamBreaks
      <4> QED
        BY <2>3, <4>1, <4>2, <4>3, <4>4, <4>5
    <3> QED
      BY <3>1, FailuresFail, EndingKeepsShown
  <2>4. CASE OpenStream
    <3> PICK to : to = [request EXCEPT !.at = "streaming", !.chunks = 0]
      OBVIOUS
    <3>1. DOMAIN to = AskedFields /\ to.at = "streaming" /\ to.purpose = request.purpose
      BY DEF ShownInv, AskedFields
    <3>2. CASE request' = to /\ heard' = Unheard /\ UNCHANGED <<failure, shown>> /\ request.at = "sending"
      BY <2>0, <3>1, <3>2 DEF ShownInv, NothingHeard, NothingFailed
    <3> QED
      BY <2>4, <3>2, FailuresFail, EndingKeepsShown DEF OpenStream, RequestAt
  <2>5. CASE CloseBody
    BY <2>5, FailuresFail, EndingKeepsShown DEF CloseBody
  <2>6. CASE Judge
    <3>1. CASE Retries
      BY <2>6, <3>1, GoingKeepsShown DEF Judge, Retries, NothingFailed
    <3>2. CASE ~Retries
      BY <2>6, <3>2, GoingKeepsShown DEF Judge, NothingHeard, NothingFailed
    <3> QED
      BY <3>1, <3>2
  <2>7. CASE AnnounceRetry
    <3>1. CASE Ends("waiting", NoFailure)
      <4> PICK to : to = [request EXCEPT !.at = "waiting"]
        OBVIOUS
      <4>1. DOMAIN to = AskedFields /\ to.at = "waiting" /\ request' = to
        BY <3>1 DEF ShownInv, AskedFields, Ends, RequestGoes
      <4>2. ~heard.visible
        BY <2>7 DEF AnnounceRetry, RequestAt, ShownInv, NothingHeard
      <4> QED
        BY <3>1, <4>1, <4>2 DEF ShownInv, Ends
    <3> QED
      BY <2>7, <3>1, FailuresFail, EndingKeepsShown DEF AnnounceRetry
  <2>8. CASE SleepBeforeRetry
    <3> PICK to : to = [request EXCEPT !.at = "sending", !.attempt = @ + 1]
      OBVIOUS
    <3>1. DOMAIN to = AskedFields /\ to.at = "sending" /\ to.purpose = request.purpose
      BY DEF ShownInv, AskedFields
    <3>2. CASE request' = to /\ heard' = Unheard /\ UNCHANGED <<failure, shown>> /\ request.at = "waiting"
      BY <2>0, <3>1, <3>2 DEF ShownInv, NothingHeard, NothingFailed
    <3> QED
      BY <2>8, <3>2, FailuresFail, EndingKeepsShown DEF SleepBeforeRetry, RequestAt
  <2>9. CASE HearText \/ HearToolDelta \/ HearFinish \/ HearUsage
    BY <2>9, HearingKeepsShown
  <2>10. CASE EndOfStream
    <3>1. failure = NoFailure
      BY <2>10 DEF EndOfStream, Streaming, RequestAt, ShownInv, NothingFailed
    <3> QED
      BY <2>10, <3>1, EndingKeepsShown DEF EndOfStream
  <2>11. CASE RecordUsage
    BY <2>11, GoingKeepsShown DEF RecordUsage, NothingHeard, NothingFailed
  <2>12. CASE StopsOnFailure \/ StopBetweenRequests
    BY <2>12, GoingKeepsShown DEF StopsOnFailure, StopBetweenRequests, Stops, NothingHeard, NothingFailed
  <2>13. ASSUME GoesOn, failure = NoFailure, UNCHANGED failure PROVE ShownInv'
    BY <2>0, <2>13 DEF GoesOn, ShownInv
  <2>14. CASE AcceptAnswer
    BY <2>13, <2>14, GoingKeepsShown DEF AcceptAnswer, Answered, Stops, NothingHeard, NothingFailed
  <2>15. CASE AcceptSummary
    BY <2>13, <2>15, GoingKeepsShown DEF AcceptSummary, Answered, Stops, NothingHeard, NothingFailed
  <2>16. CASE DeadlinePasses
    BY <2>16 DEF DeadlinePasses, ShownInv
  <2> QED
    BY <2>1, <2>2, <2>3, <2>4, <2>5, <2>6, <2>7, <2>8, <2>9, <2>10, <2>11, <2>12, <2>14, <2>15, <2>16 DEF RequestNext
<1> QED
  BY <1>1, <1>2, PTL DEF RequestSpec

\* The property of Client.Stream and its observer: no text of an attempt that
\* was given up, none twice, and none of a summary has been shown.
THEOREM ReadersReadTheAnswer == RequestSpec => []AnswerIsWhatWasShown
<1>1. ShownInv => AnswerIsWhatWasShown
  BY DEF ShownInv, AnswerIsWhatWasShown, Answered
<1> QED
  BY <1>1, ShownInvariant, PTL

-----------------------------------------------------------------------------
\* The accounting.  A counter is one that fits, and a usage is three of them.
CountFields == {"input", "output", "cached"}
Counter     == 0..MaxCount
Counts      == [input : Counter, output : Counter, cached : Counter]
Purposes    == {"agent", "context_summary"}

\* A usage fact that the view can reduce.
UsedFact == {f \in [purpose : Purposes, usage : Counts, reported : BOOLEAN, cost : Counter,
                unknown : {"none", "usage_unreported", "invalid_usage", "price_unavailable", "cost_overflow"}] : Reducible(f)}

\* What the facts say of one kind of tokens, and what they cost.
Sizes(list, f) == [i \in DOMAIN list |-> list[i].usage[f]]
Costs(list)    == [i \in DOMAIN list |-> list[i].cost]

TotalsHold ==
  /\ \A f \in CountFields : totals.usage[f] \in Counter /\ totals.usage[f] = Total(Sizes(facts, f))
  /\ totals.cost \in Counter /\ totals.cost = Total(Costs(facts))
  /\ totals.requests = Len(facts)

UsageInv ==
  /\ DOMAIN request = AskedFields /\ DOMAIN heard = HeardFields
  /\ request.purpose \in Purposes
  /\ heard.usage \in Counts /\ observed.usage \in Counts
  /\ observed.seen \in BOOLEAN /\ (~observed.seen => observed.usage = Zero)
  /\ facts \in Seq(UsedFact)
  /\ outcome # "silent" => TotalsHold
  /\ outcome # "none" => request.at = "over"

LEMMA ZeroCounts == Zero \in Counts /\ DOMAIN Zero = CountFields /\ \A f \in CountFields : Zero[f] = 0
  BY RequestBounds DEF Zero, Counts, CountFields, Counter

\* addNonNegative and multiplyAdd give a counter, or say that there is none.
LEMMA PlusFits ==
  ASSUME NEW a \in Int, NEW b \in Int, Plus(a, b) >= 0
  PROVE  Plus(a, b) = a + b /\ Plus(a, b) \in Counter
  BY RequestBounds DEF Plus, Counter

LEMMA PlusIs ==
  ASSUME NEW a \in Int, NEW b \in Int
  PROVE  Plus(a, b) \in Counter \cup {-1}
  BY RequestBounds DEF Plus, Counter

LEMMA MultiplyAddIs ==
  ASSUME NEW total \in Counter \cup {-1}, NEW count \in Nat, NEW price \in Nat
  PROVE  MultiplyAdd(total, count, price) \in Counter \cup {-1}
<1>1. PICK product \in Nat : product = count * price
  OBVIOUS
<1>2. Plus(total, product) \in Counter \cup {-1}
  BY RequestBounds, PlusIs DEF Counter
<1> QED
  BY <1>1, <1>2 DEF MultiplyAdd

LEMMA AmountIs ==
  ASSUME NEW usage \in Counts, usage.cached <= usage.input
  PROVE  Amount(usage) \in Counter \cup {-1}
<1>1. /\ usage.input - usage.cached \in Nat /\ usage.cached \in Nat /\ usage.output \in Nat
      /\ Price.input \in Nat /\ Price.cached \in Nat /\ Price.output \in Nat /\ 0 \in Counter \cup {-1}
  BY RequestBounds DEF Counts, Counter
<1> QED
  BY <1>1, MultiplyAddIs DEF Amount

LEMMA EstimateIs ==
  ASSUME NEW usage \in Counts, NEW reported \in BOOLEAN, NEW priced \in BOOLEAN, NEW k, k = Estimate(usage, reported, priced)
  PROVE  /\ k.cost \in Counter
         /\ k.unknown \in {"none", "usage_unreported", "invalid_usage", "price_unavailable", "cost_overflow"}
         /\ k.unknown # "none" => k.cost = 0
         /\ k.unknown = "none" => reported
         /\ usage.cached > usage.input /\ reported => k.unknown = "invalid_usage"
<1>1. usage.cached \in Int /\ usage.input \in Int /\ 0 \in Counter
  BY RequestBounds DEF Counts, Counter
<1>2. CASE ~reported
  BY <1>1, <1>2 DEF Estimate
<1>3. CASE reported /\ usage.cached > usage.input
  BY <1>1, <1>3 DEF Estimate
<1>4. CASE reported /\ usage.cached <= usage.input
  <2>1. PICK amount : amount = Amount(usage)
    OBVIOUS
  <2>2. amount \in Counter \cup {-1}
    BY <1>4, <2>1, AmountIs
  <2>3. amount < 0 \/ amount \in Counter
    BY <2>2 DEF Counter
  <2>4. CASE ~priced
    BY <1>1, <1>4, <2>4 DEF Estimate
  <2>5. CASE priced
    BY <1>1, <1>4, <2>1, <2>3, <2>5 DEF Estimate
  <2> QED
    BY <2>4, <2>5
<1> QED
  BY <1>1, <1>2, <1>3, <1>4

LEMMA FactIs ==
  ASSUME NEW purpose \in Purposes, NEW usage \in Counts, NEW reported \in BOOLEAN, NEW priced \in BOOLEAN,
         ~reported => usage = Zero
  PROVE  UsageFact(purpose, usage, reported, priced) \in UsedFact
<1>1. PICK k : k = Estimate(usage, reported, priced)
  OBVIOUS
<1>2. PICK counted : counted = Accounted(usage, k)
  OBVIOUS
<1>3. PICK fact : fact = [purpose |-> purpose, usage |-> counted, reported |-> reported, cost |-> k.cost, unknown |-> k.unknown]
  OBVIOUS
<1>4. UsageFact(purpose, usage, reported, priced) = fact
  BY <1>1, <1>2, <1>3 DEF UsageFact
<1>5. /\ k.cost \in Counter
      /\ k.unknown \in {"none", "usage_unreported", "invalid_usage", "price_unavailable", "cost_overflow"}
      /\ k.unknown # "none" => k.cost = 0
      /\ k.unknown = "none" => reported
      /\ usage.cached > usage.input /\ reported => k.unknown = "invalid_usage"
  BY <1>1, EstimateIs
<1>6. counted \in Counts /\ counted.cached <= counted.input /\ (~reported => counted = Zero)
  <2>1. usage.cached \in Int /\ usage.input \in Int /\ Zero.cached <= Zero.input /\ Zero \in Counts
    BY RequestBounds DEF Counts, Counter, Zero
  <2>2. counted = IF k.unknown = "invalid_usage" THEN Zero ELSE usage
    BY <1>2 DEF Accounted
  <2> QED
    BY <1>5, <2>1, <2>2
<1>7. \A f \in CountFields : counted[f] \in Counter
  BY <1>6 DEF Counts, CountFields
<1>8. Reducible(fact)
  BY <1>3, <1>5, <1>6, <1>7, ZeroCounts DEF Reducible, Counter
<1> QED
  BY <1>3, <1>4, <1>5, <1>6, <1>8 DEF UsedFact

\* One more fact adds its own numbers.
LEMMA FactsAdd ==
  ASSUME NEW list \in Seq(UsedFact), NEW fact \in UsedFact
  PROVE  /\ \A f \in CountFields :
              Total(Sizes(list, f)) \in Nat /\ Total(Sizes(Append(list, fact), f)) = Total(Sizes(list, f)) + fact.usage[f]
         /\ Total(Costs(list)) \in Nat /\ Total(Costs(Append(list, fact))) = Total(Costs(list)) + fact.cost
<1>1. PICK longer : longer = Append(list, fact)
  OBVIOUS
<1>2. PICK n \in Nat : n = Len(list)
  OBVIOUS
<1>3. /\ DOMAIN list = 1..n /\ DOMAIN longer = 1..n + 1 /\ longer[n + 1] = fact
      /\ \A i \in 1..n : list[i] \in UsedFact /\ longer[i] = list[i]
      /\ \A i \in 1..n + 1 : longer[i] \in UsedFact
  BY <1>1, <1>2
<1>4. \A x \in UsedFact : x.cost \in Nat /\ \A f \in CountFields : x.usage[f] \in Nat
  BY RequestBounds DEF UsedFact, Counter, CountFields, Counts
<1>5. ASSUME NEW f \in CountFields
      PROVE  Total(Sizes(list, f)) \in Nat /\ Total(Sizes(longer, f)) = Total(Sizes(list, f)) + fact.usage[f]
  <2>0. PICK m \in Nat : m = fact.usage[f]
    BY <1>4
  <2>1. PICK shorts, longs : shorts = Sizes(list, f) /\ longs = Sizes(longer, f)
    OBVIOUS
  <2>2. shorts \in [1..n -> Nat]
    BY <1>3, <1>4, <2>1 DEF Sizes
  <2>3. longs \in [1..n + 1 -> Nat] /\ longs[n + 1] = m
    BY <1>3, <1>4, <2>0, <2>1 DEF Sizes
  <2>4. \A i \in 1..n : longs[i] = shorts[i]
    BY <1>3, <2>1 DEF Sizes
  <2>5. Appends(shorts, longs, n, m)
    BY <2>2, <2>3, <2>4 DEF Appends
  <2> QED
    BY <2>0, <2>1, <2>5, TotalAppends
<1>6. Total(Costs(list)) \in Nat /\ Total(Costs(longer)) = Total(Costs(list)) + fact.cost
  <2>0. PICK m \in Nat : m = fact.cost
    BY <1>4
  <2>1. PICK shorts, longs : shorts = Costs(list) /\ longs = Costs(longer)
    OBVIOUS
  <2>2. shorts \in [1..n -> Nat]
    BY <1>3, <1>4, <2>1 DEF Costs
  <2>3. longs \in [1..n + 1 -> Nat] /\ longs[n + 1] = m
    BY <1>3, <1>4, <2>0, <2>1 DEF Costs
  <2>4. \A i \in 1..n : longs[i] = shorts[i]
    BY <1>3, <2>1 DEF Costs
  <2>5. Appends(shorts, longs, n, m)
    BY <2>2, <2>3, <2>4 DEF Appends
  <2> QED
    BY <2>0, <2>1, <2>5, TotalAppends
<1> QED
  BY <1>1, <1>5, <1>6

\* Steps that account for nothing.
LEMMA OthersKeepUsage ==
  ASSUME UsageInv, UNCHANGED <<facts, totals>>, outcome' = outcome \/ (outcome' # "silent" /\ outcome = "none"),
         outcome' # "none" => request'.at = "over",
         DOMAIN request' = AskedFields, request'.purpose \in Purposes,
         DOMAIN heard' = HeardFields, heard'.usage \in Counts,
         observed'.usage \in Counts, observed'.seen \in BOOLEAN, ~observed'.seen => observed'.usage = Zero
  PROVE  UsageInv'
<1>1. outcome' # "silent" => TotalsHold'
  BY DEF UsageInv, TotalsHold
<1> QED
  BY <1>1 DEF UsageInv

\* They go on with what was heard and observed so far, or with an answer taken in.
LEMMA GoingKeepsUsage ==
  ASSUME UsageInv, NEW to, RequestGoes(to), UNCHANGED <<heard, observed, facts, totals>>,
         \/ outcome' = outcome /\ request.at # "over"
         \/ to = "over" /\ request.at # "over" /\ outcome' # "silent"
  PROVE  UsageInv'
<1>1. PICK next : next = [request EXCEPT !.at = to]
  OBVIOUS
<1>2. request' = next /\ DOMAIN next = AskedFields /\ next.at = to /\ next.purpose = request.purpose
  BY <1>1 DEF RequestGoes, UsageInv, AskedFields
<1>3. outcome = "none"
  BY DEF UsageInv
<1> QED
  BY <1>2, <1>3, OthersKeepUsage DEF UsageInv

LEMMA TakingKeepsUsage ==
  ASSUME UsageInv, Hears, NEW next, NEW display, NEW seen, Takes(next, display, seen),
         DOMAIN next = HeardFields, next.usage \in Counts,
         seen.usage \in Counts, seen.seen \in BOOLEAN, ~seen.seen => seen.usage = Zero
  PROVE  UsageInv'
<1>1. request.at = "streaming" /\ outcome = "none" /\ heard' = next /\ UNCHANGED <<facts, totals, outcome>>
  BY DEF UsageInv, Hears, Streaming, RequestAt, Takes
<1>2. PICK on : on = [request EXCEPT !.chunks = @ + 1]
  OBVIOUS
<1>3. PICK off : off = [request EXCEPT !.at = "closing"]
  OBVIOUS
<1>4. /\ DOMAIN on = AskedFields /\ on.at = "streaming" /\ on.purpose = request.purpose
      /\ DOMAIN off = AskedFields /\ off.at = "closing" /\ off.purpose = request.purpose
  BY <1>1, <1>2, <1>3 DEF UsageInv, AskedFields
<1>5. (request' = on /\ observed' = seen) \/ (request' = off /\ observed' = observed)
  BY <1>2, <1>3 DEF Takes, RequestGoes
<1>6. DOMAIN request' = AskedFields /\ request'.purpose \in Purposes
  BY <1>4, <1>5 DEF UsageInv
<1>7. observed'.usage \in Counts /\ observed'.seen \in BOOLEAN /\ (~observed'.seen => observed'.usage = Zero)
  BY <1>5 DEF UsageInv
<1> QED
  BY <1>1, <1>6, <1>7, OthersKeepUsage

LEMMA HearingKeepsUsage ==
  ASSUME UsageInv, HearText \/ HearToolDelta \/ HearFinish \/ HearUsage
  PROVE  UsageInv'
<1>1. ASSUME Hears, Ends("closing", Failed("protocol")) PROVE UsageInv'
  BY <1>1, GoingKeepsUsage DEF Ends, Hears, Streaming, RequestAt
<1>3. /\ DOMAIN heard = HeardFields /\ heard.usage \in Counts
      /\ observed.usage \in Counts /\ observed.seen \in BOOLEAN /\ (~observed.seen => observed.usage = Zero)
  BY DEF UsageInv
<1>4. CASE HearText
  <2> PICK next : next = [heard EXCEPT !.content = Append(@, "text"), !.size = @ + 1, !.visible = TRUE]
    OBVIOUS
  <2>1. DOMAIN next = HeardFields /\ next.usage = heard.usage
    BY <1>3 DEF HeardFields
  <2>2. Hears /\ \/ Ends("closing", Failed("protocol"))
                 \/ Takes(next, IF request.purpose = "agent" THEN Append(shown, "text") ELSE shown, observed)
    BY <1>4 DEF HearText
  <2> QED
    BY <1>1, <1>3, <2>1, <2>2, TakingKeepsUsage
<1>5. CASE HearToolDelta
  <2>1. PICK index \in {-1, 0, 1}, id \in {<<>>, <<"i">>}, body \in {0, 1} :
          /\ Hears
          /\ \/ Ends("closing", Failed("protocol"))
             \/ Takes([heard EXCEPT !.calls = Added(index, id, body), !.size = @ + (Len(id) + body),
                                    !.visible = @ \/ Len(id) + body > 0], shown, observed)
    BY <1>5 DEF HearToolDelta
  <2> PICK next : next = [heard EXCEPT !.calls = Added(index, id, body), !.size = @ + (Len(id) + body),
                                       !.visible = @ \/ Len(id) + body > 0]
    OBVIOUS
  <2>2. DOMAIN next = HeardFields /\ next.usage = heard.usage
    BY <1>3 DEF HeardFields
  <2> QED
    BY <1>1, <1>3, <2>1, <2>2, TakingKeepsUsage
<1>6. CASE HearFinish
  <2>1. PICK reason \in {"", "stop", "tool_calls"} :
          /\ Hears
          /\ Ends("closing", Failed("protocol")) \/ Takes([heard EXCEPT !.finish = reason], shown, observed)
    BY <1>6 DEF HearFinish
  <2> PICK next : next = [heard EXCEPT !.finish = reason]
    OBVIOUS
  <2>2. DOMAIN next = HeardFields /\ next.usage = heard.usage
    BY <1>3 DEF HeardFields
  <2> QED
    BY <1>1, <1>3, <2>1, <2>2, TakingKeepsUsage
<1>7. CASE HearUsage
  <2>1. PICK usage \in WireUsage :
          /\ Hears
          /\ IF \E field \in DOMAIN usage : usage[field] < 0 THEN Ends("closing", Failed("protocol"))
             ELSE Takes([heard EXCEPT !.usage = usage], shown, [usage |-> usage, seen |-> TRUE])
    BY <1>7 DEF HearUsage
  <2>2. CASE \E field \in DOMAIN usage : usage[field] < 0
    BY <1>1, <2>1, <2>2
  <2>3. CASE ~ \E field \in DOMAIN usage : usage[field] < 0
    <3> PICK next : next = [heard EXCEPT !.usage = usage]
      OBVIOUS
    <3> PICK seen : seen = [usage |-> usage, seen |-> TRUE]
      OBVIOUS
    <3>1. DOMAIN next = HeardFields /\ next.usage = usage
      BY <1>3 DEF HeardFields
    <3>2. usage \in [input : -MaxCount - 1..MaxCount, output : -MaxCount - 1..MaxCount, cached : -MaxCount - 1..MaxCount]
      BY RequestBounds
    <3>3. usage \in Counts
      BY <2>3, <3>2, RequestBounds DEF Counts, Counter
    <3>4. seen.usage \in Counts /\ seen.seen \in BOOLEAN /\ (~seen.seen => seen.usage = Zero)
      BY <3>3
    <3>5. Hears /\ Takes(next, shown, seen)
      BY <2>1, <2>3
    <3> QED
      BY <3>1, <3>3, <3>4, <3>5, TakingKeepsUsage
  <2> QED
    BY <2>2, <2>3
<1> QED
  BY <1>4, <1>5, <1>6, <1>7

\* The fact is the one of the request, and the totals are added to while they fit.
LEMMA RecordKeepsUsage ==
  ASSUME UsageInv, RecordUsage
  PROVE  UsageInv'
<1>1. PICK known : known = Reported
  OBVIOUS
<1>2. known.usage \in Counts /\ known.seen \in BOOLEAN /\ (~known.seen => known.usage = Zero)
  BY <1>1 DEF Reported, UsageInv
<1>3. PICK priced \in BOOLEAN :
        LET fact == UsageFact(request.purpose, known.usage, known.seen, priced)
            sums == Sum(totals, fact)
        IN  \/ /\ facts' = Append(facts, fact)
               /\ IF Overflows(sums) THEN RequestGoes("over") /\ outcome' = "silent" /\ UNCHANGED totals
                  ELSE RequestGoes("recorded") /\ totals' = sums /\ UNCHANGED outcome
            \/ RequestGoes("over") /\ outcome' = "silent" /\ UNCHANGED <<facts, totals>>
  BY <1>1 DEF RecordUsage
<1>4. PICK fact : fact = UsageFact(request.purpose, known.usage, known.seen, priced)
  OBVIOUS
<1>5. fact \in UsedFact
  BY <1>2, <1>4, FactIs DEF UsageInv
<1>6. PICK sums : sums = Sum(totals, fact)
  OBVIOUS
<1>7. request.at = "returned" /\ outcome = "none" /\ UNCHANGED <<heard, observed>>
  BY DEF RecordUsage, RequestAt, UsageInv
<1>8. ASSUME NEW to, RequestGoes(to) PROVE DOMAIN request' = AskedFields /\ request'.purpose \in Purposes /\ request'.at = to
  BY <1>8 DEF RequestGoes, UsageInv, AskedFields
<1>9. facts' \in Seq(UsedFact)
  BY <1>3, <1>4, <1>5 DEF UsageInv
<1>10. CASE RequestGoes("over") /\ outcome' = "silent"
  BY <1>7, <1>8, <1>9, <1>10 DEF UsageInv
<1>11. CASE /\ facts' = Append(facts, fact) /\ ~Overflows(sums)
            /\ RequestGoes("recorded") /\ totals' = sums /\ UNCHANGED outcome
  <2>1. /\ \A f \in CountFields : sums.usage[f] = Plus(totals.usage[f], fact.usage[f])
        /\ sums.cost = Plus(totals.cost, fact.cost) /\ sums.requests = totals.requests + 1
    BY <1>6, ZeroCounts DEF Sum
  <2>2. TotalsHold /\ facts \in Seq(UsedFact)
    BY <1>7 DEF UsageInv
  <2>3. fact.cost \in Int /\ \A f \in CountFields : fact.usage[f] \in Int
    BY <1>5 DEF UsedFact, Counts, CountFields, Counter
  <2>4. totals.cost \in Int /\ \A f \in CountFields : totals.usage[f] \in Int
    BY <2>2 DEF TotalsHold, Counter
  <2>5. sums.cost >= 0 /\ \A f \in CountFields : sums.usage[f] >= 0
    <3>1. sums.cost \in Counter \cup {-1} /\ \A f \in CountFields : sums.usage[f] \in Counter \cup {-1}
      BY <2>1, <2>3, <2>4, PlusIs
    <3>2. ~(sums.cost < 0) /\ \A f \in CountFields : ~(sums.usage[f] < 0)
      BY <1>11, ZeroCounts DEF Overflows
    <3> QED
      BY <3>1, <3>2, RequestBounds DEF Counter
  <2>6. ASSUME NEW f \in CountFields
        PROVE  sums.usage[f] \in Counter /\ sums.usage[f] = Total(Sizes(Append(facts, fact), f))
    <3>1. sums.usage[f] = totals.usage[f] + fact.usage[f] /\ sums.usage[f] \in Counter
      BY <2>1, <2>3, <2>4, <2>5, PlusFits
    <3>2. Total(Sizes(Append(facts, fact), f)) = Total(Sizes(facts, f)) + fact.usage[f]
      BY <1>5, <2>2, FactsAdd
    <3> QED
      BY <2>2, <3>1, <3>2 DEF TotalsHold
  <2>7. sums.cost \in Counter /\ sums.cost = Total(Costs(Append(facts, fact)))
    <3>1. sums.cost = totals.cost + fact.cost /\ sums.cost \in Counter
      BY <2>1, <2>3, <2>4, <2>5, PlusFits
    <3>2. Total(Costs(Append(facts, fact))) = Total(Costs(facts)) + fact.cost
      BY <1>5, <2>2, FactsAdd
    <3> QED
      BY <2>2, <3>1, <3>2 DEF TotalsHold
  <2>8. sums.requests = Len(Append(facts, fact))
    BY <1>5, <2>1, <2>2 DEF TotalsHold
  <2>9. TotalsHold'
    <3>1. \A l, k : l = facts' /\ k = totals' =>
            /\ \A f \in CountFields : k.usage[f] \in Counter /\ k.usage[f] = Total(Sizes(l, f))
            /\ k.cost \in Counter /\ k.cost = Total(Costs(l)) /\ k.requests = Len(l)
      BY <1>11, <2>6, <2>7, <2>8
    <3> QED
      BY <3>1 DEF TotalsHold
  <2> QED
    BY <1>7, <1>8, <1>9, <1>11, <2>9 DEF UsageInv
<1> QED
  BY <1>3, <1>4, <1>6, <1>10, <1>11

THEOREM UsageInvariant == RequestSpec => []UsageInv
<1>0. /\ DOMAIN Idle = AskedFields /\ Idle.purpose = "agent" /\ Idle.at = "idle"
      /\ DOMAIN Unheard = HeardFields /\ Unheard.usage = Zero
      /\ Unreported.usage = Zero /\ Unreported.seen = FALSE
  BY DEF Idle, Unheard, Unreported, AskedFields, HeardFields
<1>1. RequestInit => UsageInv
  <2> SUFFICES ASSUME RequestInit PROVE UsageInv
    OBVIOUS
  <2>1. Total(Costs(<<>>)) = 0 /\ \A f \in CountFields : Total(Sizes(<<>>, f)) = 0
    BY TotalEmpty DEF Costs, Sizes
  <2>2. 0 \in Counter
    BY RequestBounds DEF Counter
  <2>3. TotalsHold
    BY <2>1, <2>2, ZeroCounts DEF RequestInit, TotalsHold
  <2>4. facts \in Seq(UsedFact)
    BY DEF RequestInit
  <2>5. observed.usage = Zero /\ observed.seen = FALSE /\ heard.usage = Zero /\ request.purpose \in Purposes
    BY <1>0 DEF RequestInit, Purposes
  <2> QED
    BY <1>0, <2>3, <2>4, <2>5, ZeroCounts DEF RequestInit, UsageInv
<1>2. UsageInv /\ [RequestNext]_requestVars => UsageInv'
  <2> SUFFICES ASSUME UsageInv, [RequestNext]_requestVars PROVE UsageInv'
    OBVIOUS
  <2>0. /\ DOMAIN request = AskedFields /\ request.purpose \in Purposes
        /\ DOMAIN heard = HeardFields /\ heard.usage \in Counts
        /\ observed.usage \in Counts /\ observed.seen \in BOOLEAN /\ (~observed.seen => observed.usage = Zero)
    BY DEF UsageInv
  <2>1. CASE UNCHANGED requestVars
    BY <2>1 DEF requestVars, UsageInv, TotalsHold
  <2>2. ASSUME NEW purpose \in Purposes, BeginRequest(purpose) PROVE UsageInv'
    <3> PICK to : to = [at |-> "sending", purpose |-> purpose, attempt |-> 1, chunks |-> 0]
      OBVIOUS
    <3>1. DOMAIN to = AskedFields /\ to.at = "sending" /\ to.purpose = purpose
      BY DEF AskedFields
    <3>2. outcome = "none" /\ outcome' = outcome
      BY <2>2 DEF BeginRequest, RequestAt, UsageInv
    <3> QED
      BY <2>0, <2>2, <3>1, <3>2, OthersKeepUsage DEF BeginRequest
  <2>3. ASSUME NEW to, NEW because, Ends(to, because), request.at # "over" PROVE UsageInv'
    BY <2>3, GoingKeepsUsage DEF Ends
  <2>4. CASE \/ RefuseRequest \/ TransportError \/ RefusedByServer \/ HearGarbage \/ StreamBreaks \/ EndOfStream
             \/ CloseBody \/ AnnounceRetry
    BY <2>3, <2>4 DEF RefuseRequest, TransportError, RefusedByServer, HearGarbage, StreamBreaks, EndOfStream,
                      CloseBody, AnnounceRetry, Streaming, RequestAt
  <2>5. ASSUME NEW to, request' = to, DOMAIN to = AskedFields, to.purpose = request.purpose, request.at # "over",
               heard' = Unheard, UNCHANGED <<observed, facts, totals, outcome>>
        PROVE  UsageInv'
    BY <1>0, <2>0, <2>5, ZeroCounts, OthersKeepUsage DEF UsageInv
  <2>6. CASE OpenStream
    <3> PICK to : to = [request EXCEPT !.at = "streaming", !.chunks = 0]
      OBVIOUS
    <3>1. DOMAIN to = AskedFields /\ to.purpose = request.purpose
      BY <2>0 DEF AskedFields
    <3> QED
      BY <2>3, <2>5, <2>6, <3>1 DEF OpenStream, RequestAt
  <2>7. CASE SleepBeforeRetry
    <3> PICK to : to = [request EXCEPT !.at = "sending", !.attempt = @ + 1]
      OBVIOUS
    <3>1. DOMAIN to = AskedFields /\ to.purpose = request.purpose
      BY <2>0 DEF AskedFields
    <3> QED
      BY <2>3, <2>5, <2>7, <3>1 DEF SleepBeforeRetry, RequestAt
  <2>8. CASE Judge
    BY <2>8, GoingKeepsUsage DEF Judge, RequestAt
  <2>9. CASE HearText \/ HearToolDelta \/ HearFinish \/ HearUsage
    BY <2>9, HearingKeepsUsage
  <2>10. CASE RecordUsage
    BY <2>10, RecordKeepsUsage
  <2>11. ASSUME NEW because, Stops(because), request.at # "over" PROVE UsageInv'
    <3>1. outcome' # "silent"
      BY <2>11 DEF Stops
    <3> QED
      BY <2>11, <3>1, GoingKeepsUsage DEF Stops
  <2>12. ASSUME GoesOn, UNCHANGED <<facts, totals>>, request.at # "over" PROVE UsageInv'
    <3>1. outcome = "none" /\ outcome' = outcome
      BY <2>12 DEF GoesOn, UsageInv
    <3> QED
      BY <1>0, <2>12, <3>1, ZeroCounts, OthersKeepUsage DEF GoesOn, Purposes
  <2>13. CASE StopsOnFailure \/ StopBetweenRequests
    BY <2>11, <2>13 DEF StopsOnFailure, StopBetweenRequests, RequestAt
  <2>14. CASE AcceptAnswer
    <3>1. request.at # "over"
      BY <2>14 DEF AcceptAnswer, Answered, RequestAt
    <3>2. CASE RequestGoes("over") /\ outcome' = "completed" /\ UNCHANGED <<heard, observed, facts, totals>>
      BY <3>1, <3>2, GoingKeepsUsage
    <3> QED
      BY <2>11, <2>12, <2>14, <3>1, <3>2 DEF AcceptAnswer
  <2>15. CASE AcceptSummary
    <3>1. request.at # "over"
      BY <2>15 DEF AcceptSummary, Answered, RequestAt
    <3> QED
      BY <2>11, <2>12, <2>15, <3>1 DEF AcceptSummary
  <2>16. CASE DeadlinePasses
    BY <2>0, <2>16, OthersKeepUsage DEF DeadlinePasses, RequestAt, UsageInv
  <2> QED
    BY <2>1, <2>2, <2>4, <2>6, <2>7, <2>8, <2>9, <2>10, <2>13, <2>14, <2>15, <2>16 DEF RequestNext, Purposes
<1> QED
  BY <1>1, <1>2, PTL DEF RequestSpec

\* The property of cost.EstimateForModel, recordUsageCall and reduceUsage:
\* whatever the server reports, and however many requests there are.
THEOREM UsageAddsUp == RequestSpec => []UsageFactsReduce
<1>1. UsageInv => UsageFactsReduce
  <2> SUFFICES ASSUME UsageInv PROVE UsageFactsReduce
    OBVIOUS
  <2>1. \A i \in DOMAIN facts : Reducible(facts[i])
    BY DEF UsageInv, UsedFact
  <2> QED
    BY <2>1, ZeroCounts DEF UsageInv, TotalsHold, UsageFactsReduce, Sizes, Costs
<1> QED
  BY <1>1, UsageInvariant, PTL

-----------------------------------------------------------------------------
(***************************************************************************)
(* SkillCatalog: what is announced is what is handed out, however the files *)
(* change.                                                                   *)
(***************************************************************************)

Skill == [about : {t.about : t \in SkillText}, path : Path, text : SkillText, root : Roots]

\* What Discover has announced under a name.
SoundEntry(n, skill) ==
  /\ skill \in Skill
  /\ skill.text.name = n /\ skill.about = skill.text.about /\ skill.text.size <= MaxFileSize

Lengths(skills) == [n \in DOMAIN skills |-> skills[n].text.size]

SetupSteps ==
  [at : Roots, next : 1..Len(Listing) + 1, size : Nat] \cup [at : {"refused", "running"}]

SkillInv ==
  /\ disk \in [Path -> Contents]
  /\ setup \in SetupSteps
  /\ IsFiniteSet(DOMAIN catalog) /\ \A n \in DOMAIN catalog : SoundEntry(n, catalog[n])
  /\ \A n \in conflicts : n \in DOMAIN catalog /\ catalog[n].root = "project"
  \* No text is longer than what was read, and a root lists a name once.
  /\ setup.at \in Roots => Total(Lengths(catalog)) <= setup.size
  /\ setup.at = "running" => Total(Lengths(catalog)) <= MaxTotalSize
  /\ setup.at = "user" => DOMAIN catalog \subseteq {Listing[i] : i \in 1..setup.next - 1}
  /\ setup.at # "running" => loaded = {} /\ call = NoFile
  /\ call # NoFile => call.name \in DOMAIN catalog
  /\ \A l \in loaded : l.name \in DOMAIN catalog /\ l.text = catalog[l.name].text

LEMMA LengthsAre ==
  ASSUME NEW skills, IsFiniteSet(DOMAIN skills), \A n \in DOMAIN skills : SoundEntry(n, skills[n])
  PROVE  Numbers(Lengths(skills)) /\ DOMAIN Lengths(skills) = DOMAIN skills /\ Total(Lengths(skills)) \in Nat
<1>1. \A n \in DOMAIN skills : skills[n].text.size \in Nat
  BY CatalogBounds DEF SoundEntry, Skill
<1>2. Numbers(Lengths(skills)) /\ DOMAIN Lengths(skills) = DOMAIN skills
  BY <1>1 DEF Lengths, Numbers
<1> QED
  BY <1>2, TotalIsNatural

Selects(next, name, skill) ==
  /\ IsFiniteSet(DOMAIN next) /\ DOMAIN next = DOMAIN catalog \cup {name}
  /\ \A n \in DOMAIN next : SoundEntry(n, next[n])
  /\ next[name] = skill /\ \A n \in DOMAIN catalog \ {name} : next[n] = catalog[n]
  /\ Total(Lengths(next)) <= Total(Lengths(catalog)) + skill.text.size

\* A skill that replaces one, or is new, adds at most its own length.
LEMMA SelectedAdds ==
  ASSUME IsFiniteSet(DOMAIN catalog), \A n \in DOMAIN catalog : SoundEntry(n, catalog[n]),
         NEW name, NEW skill, SoundEntry(name, skill), NEW next, next = Selected(name, skill)
  PROVE  Selects(next, name, skill)
<1>1. /\ DOMAIN next = DOMAIN catalog \cup {name}
      /\ next[name] = skill /\ \A n \in DOMAIN catalog \ {name} : next[n] = catalog[n]
  BY DEF Selected
<1>2. IsFiniteSet(DOMAIN next)
  BY <1>1, FS_AddElement
<1>3. \A n \in DOMAIN next : SoundEntry(n, next[n])
  BY <1>1
<1>4. PICK old, new : old = Lengths(catalog) /\ new = Lengths(next)
  OBVIOUS
<1>5. /\ Numbers(old) /\ DOMAIN old = DOMAIN catalog /\ Total(old) \in Nat
      /\ Numbers(new) /\ DOMAIN new = DOMAIN next /\ Total(new) \in Nat
  BY <1>2, <1>3, <1>4, LengthsAre
<1>6. new[name] = skill.text.size /\ skill.text.size \in Nat
  BY <1>1, <1>4, CatalogBounds DEF Lengths, SoundEntry, Skill
<1>7. \A n \in DOMAIN catalog \ {name} : new[n] = old[n]
  BY <1>1, <1>4 DEF Lengths
<1>8. Total(new) = Total(Without(new, name)) + new[name]
  BY <1>1, <1>5, TotalWithout
<1>9. ASSUME name \notin DOMAIN catalog PROVE Total(new) <= Total(old) + skill.text.size
  <2>1. Without(new, name) = old
    <3>1. DOMAIN new \ {name} = DOMAIN old
      BY <1>1, <1>5, <1>9
    <3>2. old = [y \in DOMAIN old |-> old[y]]
      BY <1>4 DEF Lengths
    <3> QED
      BY <1>5, <1>7, <1>9, <3>1, <3>2 DEF Without
  <2>2. Total(new) = Total(old) + new[name]
    BY <1>8, <2>1
  <2> QED
    BY <1>5, <1>6, <2>2
<1>10. ASSUME name \in DOMAIN catalog PROVE Total(new) <= Total(old) + skill.text.size
  <2>1. Without(new, name) = Without(old, name)
    <3>1. DOMAIN new \ {name} = DOMAIN old \ {name}
      BY <1>1, <1>5, <1>10
    <3> QED
      BY <1>5, <1>7, <3>1 DEF Without
  <2>2. Total(old) = Total(Without(old, name)) + old[name] /\ old[name] \in Nat
    BY <1>5, <1>10, TotalWithout, WithoutNumbers
  <2>3. Total(Without(old, name)) \in Nat
    BY <1>5, <1>10, WithoutNumbers, TotalIsNatural
  <2>4. PICK rest \in Nat : rest = Total(Without(old, name))
    BY <2>3
  <2>5. Total(new) = rest + skill.text.size
    BY <1>6, <1>8, <2>1, <2>4
  <2>6. Total(old) = rest + old[name]
    BY <2>2, <2>4
  <2> QED
    BY <1>6, <2>2, <2>5, <2>6
<1>11. Total(new) <= Total(old) + skill.text.size
  BY <1>9, <1>10, Zenon
<1> QED
  BY <1>1, <1>2, <1>3, <1>4, <1>11 DEF Selects

LEMMA DiscoverKeeps ==
  ASSUME SkillInv, DiscoverSkill
  PROVE  SkillInv'
<1>1. PICK n0, path : n0 = Listing[setup.next] /\ path = Resolved(<<setup.at, n0>>)
  OBVIOUS
<1>2. /\ setup.at \in Roots /\ setup.next \in 1..Len(Listing) /\ setup.size \in Nat
      /\ DOMAIN setup = {"at", "next", "size"} /\ n0 \in SkillName
      /\ setup \in [at : Roots, next : 1..Len(Listing) + 1, size : Nat]
      /\ Len(Listing) \in Nat
  BY <1>1, CatalogBounds DEF SkillInv, SetupSteps, DiscoverSkill, Discovering, Roots
<1>3. UNCHANGED <<disk, call, loaded>> /\ loaded = {} /\ call = NoFile
  BY <1>2 DEF SkillInv, DiscoverSkill, Roots
<1>4. CASE setup' = [setup EXCEPT !.next = @ + 1] /\ UNCHANGED <<catalog, conflicts>>
  <2>1. setup' \in [at : Roots, next : 1..Len(Listing) + 1, size : Nat] /\ setup'.at = setup.at /\ setup'.size = setup.size
        /\ setup'.next = setup.next + 1
    BY <1>2, <1>4
  <2>2. 1..setup.next - 1 \subseteq 1..setup'.next - 1
    BY <1>2, <2>1
  <2>3. setup'.at # "running"
    BY <1>2, <2>1 DEF Roots
  <2> QED
    BY <1>2, <1>3, <1>4, <2>1, <2>2, <2>3 DEF SkillInv, SetupSteps
<1>5. CASE Refuse
  <2>1. setup' \in SetupSteps /\ setup'.at = "refused"
    BY <1>5 DEF Refuse, SetupSteps
  <2> QED
    BY <1>3, <1>5, <2>1 DEF SkillInv, Refuse, Roots
<1>6. CASE /\ Within(setup.at, path) /\ ReadableFile(path) /\ Declares(path, n0)
           /\ setup' = [setup EXCEPT !.next = @ + 1, !.size = @ + disk[path].text.size]
           /\ catalog' = Selected(n0, Announced(path, setup.at))
           /\ conflicts' = IF n0 \in DOMAIN catalog THEN conflicts \cup {n0} ELSE conflicts
  <2>1. PICK skill : skill = Announced(path, setup.at)
    OBVIOUS
  <2>2. PICK text \in SkillText : disk[path] = File(text)
    <3>1. path \in Path
      BY <1>6 DEF Within, Path
    <3>2. disk[path] \in Contents /\ disk[path].is = "file"
      BY <1>6, <3>1 DEF SkillInv, ReadableFile
    <3> QED
      BY <3>2 DEF Contents, Link, NoFile
  <2>3. disk[path].text = text /\ text.size \in Nat /\ text.size <= MaxFileSize /\ text.name = n0
    BY <1>6, <2>2, CatalogBounds DEF File, ReadableFile, Declares
  <2>4. SoundEntry(n0, skill) /\ skill.text = text /\ skill.root = setup.at
    <3>1. path \in Path
      BY <1>6 DEF Within, Path
    <3> QED
      BY <1>2, <2>1, <2>3, <3>1 DEF Announced, SoundEntry, Skill
  <2>5. PICK next : next = Selected(n0, skill)
    OBVIOUS
  <2>6. /\ IsFiniteSet(DOMAIN next) /\ DOMAIN next = DOMAIN catalog \cup {n0}
        /\ \A n \in DOMAIN next : SoundEntry(n, next[n])
        /\ next[n0] = skill /\ \A n \in DOMAIN catalog \ {n0} : next[n] = catalog[n]
        /\ Total(Lengths(next)) <= Total(Lengths(catalog)) + text.size
    <3>1. IsFiniteSet(DOMAIN catalog) /\ \A n \in DOMAIN catalog : SoundEntry(n, catalog[n])
      BY DEF SkillInv
    <3>2. SoundEntry(n0, skill)
      BY <2>4
    <3>3. Selects(next, n0, skill)
      BY <2>5, <3>1, <3>2, SelectedAdds
    <3> QED
      BY <2>4, <3>3 DEF Selects
  <2>7. /\ setup' \in [at : Roots, next : 1..Len(Listing) + 1, size : Nat] /\ setup'.at = setup.at
        /\ setup'.size = setup.size + text.size /\ setup'.next = setup.next + 1
    <3>1. PICK to : to = [setup EXCEPT !.next = @ + 1, !.size = @ + text.size]
      OBVIOUS
    <3>2. /\ DOMAIN to = {"at", "next", "size"} /\ to.at = setup.at
          /\ to.next = setup.next + 1 /\ to.size = setup.size + text.size
      BY <1>2, <3>1
    <3>3. to = [at |-> to.at, next |-> to.next, size |-> to.size]
      BY <1>2, <3>1
    <3>4. to.next \in 1..Len(Listing) + 1 /\ to.size \in Nat
      BY <1>2, <2>3, <3>2
    <3>5. to \in [at : Roots, next : 1..Len(Listing) + 1, size : Nat]
      BY <1>2, <3>2, <3>3, <3>4
    <3> QED
      BY <1>6, <2>3, <3>1, <3>2, <3>5
  <2>8. catalog' = next
    BY <1>6, <2>1, <2>5
  <2>9. Total(Lengths(catalog)) \in Nat /\ Total(Lengths(next)) \in Nat /\ Total(Lengths(catalog)) <= setup.size
    BY <1>2, <2>6, LengthsAre DEF SkillInv
  <2>10. Total(Lengths(next)) <= setup.size + text.size
    BY <1>2, <2>3, <2>6, <2>9
  <2>11. \A n \in conflicts' : n \in DOMAIN next /\ next[n].root = "project"
    <3>1. CASE setup.at = "user"
      <4>1. n0 \notin DOMAIN catalog
        <5>1. DOMAIN catalog \subseteq {Listing[i] : i \in 1..setup.next - 1}
          BY <3>1 DEF SkillInv
        <5>2. ASSUME NEW i \in 1..setup.next - 1 PROVE Listing[i] # n0
          BY <1>1, <1>2, <5>2, CatalogBounds
        <5> QED
          BY <5>1, <5>2
      <4> QED
        BY <1>6, <2>6, <4>1 DEF SkillInv
    <3>2. CASE setup.at = "project"
      BY <1>6, <2>4, <2>6, <3>2 DEF SkillInv
    <3> QED
      BY <1>2, <3>1, <3>2 DEF Roots
  <2>12. setup.at = "user" => DOMAIN next \subseteq {Listing[i] : i \in 1..setup'.next - 1}
    <3>1. setup.next \in 1..setup'.next - 1 /\ 1..setup.next - 1 \subseteq 1..setup'.next - 1
      BY <1>2, <2>7
    <3> QED
      BY <1>1, <2>6, <3>1 DEF SkillInv
  <2>13. setup'.at # "running" /\ setup' \in SetupSteps
    BY <1>2, <2>7 DEF Roots, SetupSteps
  <2> QED
    BY <1>3, <2>6, <2>7, <2>8, <2>10, <2>11, <2>12, <2>13 DEF SkillInv
<1> QED
  BY <1>1, <1>4, <1>5, <1>6 DEF DiscoverSkill

LEMMA NextRootKeeps ==
  ASSUME SkillInv, NextRoot
  PROVE  SkillInv'
<1>1. /\ setup.at \in Roots /\ setup.size \in Nat /\ setup \in [at : Roots, next : 1..Len(Listing) + 1, size : Nat]
      /\ Len(Listing) \in Nat
  BY CatalogBounds DEF SkillInv, SetupSteps, NextRoot, Discovering, Roots
<1>2. UNCHANGED <<disk, call, loaded, catalog, conflicts>> /\ loaded = {} /\ call = NoFile
  BY <1>1 DEF SkillInv, NextRoot, Refuse, Roots
<1>3. CASE Refuse
  <2>1. setup' \in SetupSteps /\ setup'.at = "refused"
    BY <1>3 DEF Refuse, SetupSteps
  <2> QED
    BY <1>2, <2>1 DEF SkillInv, Roots
<1>4. CASE setup.at = "user" /\ setup' = [setup EXCEPT !.at = "project", !.next = 1]
  <2>1. setup' \in [at : Roots, next : 1..Len(Listing) + 1, size : Nat] /\ setup'.at = "project" /\ setup'.size = setup.size
    <3>1. 1 \in 1..Len(Listing) + 1 /\ "project" \in Roots
      BY <1>1 DEF Roots
    <3> QED
      BY <1>1, <1>4, <3>1
  <2> QED
    BY <1>1, <1>2, <2>1 DEF SkillInv, SetupSteps
<1>5. CASE setup.size <= MaxTotalSize /\ setup' = [at |-> "running"]
  <2>1. setup' \in SetupSteps /\ setup'.at = "running"
    BY <1>5 DEF SetupSteps
  <2>2. Total(Lengths(catalog)) <= MaxTotalSize
    <3>1. Total(Lengths(catalog)) \in Nat
      BY LengthsAre DEF SkillInv
    <3> QED
      BY <1>1, <1>5, <3>1, CatalogBounds DEF SkillInv
  <2> QED
    BY <1>2, <2>1, <2>2 DEF SkillInv, Roots
<1>6. ~(setup.size > MaxTotalSize) => setup.size <= MaxTotalSize
  BY <1>1, CatalogBounds
<1> QED
  BY <1>3, <1>4, <1>5, <1>6 DEF NextRoot

THEOREM SkillInvariant == SkillSpec => []SkillInv
<1>1. SkillInit => SkillInv
  <2> SUFFICES ASSUME SkillInit PROVE SkillInv
    OBVIOUS
  <2>1. DOMAIN catalog = {} /\ IsFiniteSet(DOMAIN catalog)
    BY FS_EmptySet DEF SkillInit
  <2>2. Total(Lengths(catalog)) = 0
    BY <2>1, TotalEmpty DEF Lengths
  <2>3. disk \in [Path -> Contents]
    BY DiskShape DEF SkillInit
  <2>4. setup \in SetupSteps /\ setup.at = "user" /\ setup.size = 0
    BY CatalogBounds DEF SkillInit, SetupSteps, Roots
  <2> QED
    BY <2>1, <2>2, <2>3, <2>4 DEF SkillInit, SkillInv
<1>2. SkillInv /\ [SkillNext]_skillVars => SkillInv'
  <2> SUFFICES ASSUME SkillInv, [SkillNext]_skillVars PROVE SkillInv'
    OBVIOUS
  <2>1. CASE PrepareSkill
    BY <2>1 DEF PrepareSkill, SkillInv
  <2>2. CASE LoadSkill
    BY <2>2 DEF LoadSkill, SkillInv, Unchanged
  <2>3. CASE EditFile
    <3>1. disk' \in [Path -> Contents]
      BY <2>3 DEF EditFile, SkillInv
    <3> QED
      BY <2>3, <3>1 DEF EditFile, SkillInv
  <2>4. CASE UNCHANGED skillVars
    BY <2>4 DEF skillVars, SkillInv
  <2> QED
    BY <2>1, <2>2, <2>3, <2>4, DiscoverKeeps, NextRootKeeps DEF SkillNext
<1> QED
  BY <1>1, <1>2, PTL DEF SkillSpec

\* The property of Discover and of read_skill: what the model is told of a
\* skill is true of the text it is given, and the project's skill counts.
THEOREM SkillsStand == SkillSpec => []SkillsAsAnnounced
<1>1. SkillInv => SkillsAsAnnounced
  BY DEF SkillInv, SkillsAsAnnounced, SoundEntry, Lengths
<1> QED
  BY <1>1, SkillInvariant, PTL

-----------------------------------------------------------------------------
(***************************************************************************)
(* RequestBudget: every request fits, and a turn's request shows the first  *)
(* task and the latest one, however long the texts are and however often    *)
(* the middle of the conversation is replaced.                              *)
(***************************************************************************)

Text  == [ascii : Nat, wide : Nat]
Entry == [role : {"user", "assistant", "call", "tool"}, text : Text, task : Nat]

\* The last message of a user, and that it is the n-th task's.
IsLatest(messages, n, i) ==
  /\ messages[i].role = "user" /\ messages[i].task = n
  /\ \A j \in 1..Len(messages) : j > i => messages[j].role # "user"

ShowsTasks(messages, n) ==
  /\ messages # <<>> /\ messages[1].role = "user" /\ messages[1].task = 1
  /\ \E i \in 1..Len(messages) : IsLatest(messages, n, i)

CutKeepsTask(messages, n, cut) ==
  /\ cut \in 1..Len(messages)
  /\ \A i \in 1..Len(messages) : IsLatest(messages, n, i) => i = 1 \/ i > cut

BudgetInv ==
  /\ window \in Seq(Entry) /\ rolling \in Text /\ todos \in Text /\ tasks \in Nat
  /\ tasks = 0 => window = <<>> /\ step.at = "over"
  /\ tasks # 0 => ShowsTasks(window, tasks)
  /\ step.at = "built" => step.tokens \in Nat /\ WithinLimit(step.tokens)
  /\ step.at = "summary" => CutKeepsTask(window, tasks, step.cut)
  /\ RequestsFit

LEMMA TextsAre ==
  NoText \in Text /\ Placeholder \in Text /\ Plan \in Text /\ Prefix \in Text /\ Words \subseteq Text
  BY BudgetBounds DEF NoText, Placeholder, Text

LEMMA TokensAre ==
  ASSUME NEW text \in Text
  PROVE  TextTokens(text) \in Nat /\ MessageTokens(text) \in Nat
<1>1. text.ascii \in Nat /\ text.wide \in Nat
  BY DEF Text
<1>2. (text.ascii + 3) \div 4 \in Nat
  BY <1>1
<1>3. TextTokens(text) \in Nat
  BY <1>1, <1>2 DEF TextTokens
<1> QED
  BY <1>3 DEF MessageTokens

\* An estimate is a natural number, whatever the texts.
LEMMA EstimatesAre ==
  ASSUME NEW messages \in Seq(Entry), NEW summary \in Text, NEW offered \in Nat, todos \in Text
  PROVE  RequestTokens(messages, summary, offered) \in Nat
<1>1. PICK n \in Nat : n = Len(messages)
  OBVIOUS
<1>2. PICK sizes : sizes = [i \in DOMAIN messages |-> MessageTokens(messages[i].text)]
  OBVIOUS
<1>3. \A i \in 1..n : messages[i].text \in Text
  <2>1. \A i \in 1..n : messages[i] \in Entry
    BY <1>1
  <2>2. \A m \in Entry : m.text \in Text
    BY DEF Entry
  <2> QED
    BY <2>1, <2>2
<1>4. sizes \in [1..n -> Nat]
  BY <1>1, <1>2, <1>3, TokensAre
<1>5. Total(sizes) \in Nat
  BY <1>4, FS_Interval, TotalOf
<1>6. MessageTokens(todos) \in Nat
  BY TokensAre
<1>7. MessageTokens(Joined(Prefix, summary)) \in Nat
  <2>1. Joined(Prefix, summary) \in Text
    BY TextsAre DEF Joined, Text
  <2> QED
    BY <2>1, TokensAre
<1>8. Fixed \in Nat /\ MessagesTokens(messages) \in Nat
  BY <1>2, <1>5, BudgetBounds DEF MessagesTokens
<1> QED
  BY <1>6, <1>7, <1>8 DEF RequestTokens

LEMMA CatalogueIs == Catalogue \in Nat
<1>1. PICK sizes : sizes = [i \in Recalled |-> TextTokens(Entries[i])]
  OBVIOUS
<1>2. PICK n \in Nat : DOMAIN Entries = 1..n
  BY BudgetBounds
<1>3. IsFiniteSet(Recalled)
  <2>1. IsFiniteSet(1..n)
    BY FS_Interval
  <2>2. Recalled \subseteq 1..n
    BY <1>2 DEF Recalled
  <2> QED
    BY <2>1, <2>2, FS_Subset
<1>4. \A i \in Recalled : Entries[i] \in Text
  <2>1. Entries \in Seq(Text)
    BY BudgetBounds DEF Text
  <2> QED
    BY <2>1 DEF Recalled
<1>5. sizes \in [Recalled -> Nat]
  BY <1>1, <1>4, TokensAre
<1> QED
  BY <1>1, <1>3, <1>5, TotalOf DEF Catalogue

\* What is said by no user leaves the tasks where they are.
LEMMA SaidKeepsTasks ==
  ASSUME NEW messages \in Seq(Entry), NEW n, ShowsTasks(messages, n), NEW said \in Entry, said.role # "user"
  PROVE  ShowsTasks(Append(messages, said), n)
<1>1. PICK i \in 1..Len(messages) : IsLatest(messages, n, i)
  BY DEF ShowsTasks
<1>2. PICK longer : longer = Append(messages, said)
  OBVIOUS
<1>3. /\ Len(longer) = Len(messages) + 1 /\ longer[Len(messages) + 1] = said
      /\ \A j \in 1..Len(messages) : longer[j] = messages[j]
      /\ Len(messages) \in Nat
  BY <1>2
<1>4. i \in 1..Len(longer) /\ IsLatest(longer, n, i)
  BY <1>1, <1>3 DEF IsLatest
<1>5. longer # <<>> /\ longer[1] = messages[1]
  BY <1>1, <1>3
<1> QED
  BY <1>2, <1>4, <1>5 DEF ShowsTasks

LEMMA TaskShown ==
  ASSUME NEW messages \in Seq(Entry), NEW n \in Nat, NEW task \in Entry, task.role = "user", task.task = n,
         messages = <<>> => n = 1,
         messages # <<>> => messages[1].role = "user" /\ messages[1].task = 1
  PROVE  ShowsTasks(Append(messages, task), n)
<1>1. PICK longer : longer = Append(messages, task)
  OBVIOUS
<1>2. /\ Len(longer) = Len(messages) + 1 /\ longer[Len(messages) + 1] = task
      /\ \A j \in 1..Len(messages) : longer[j] = messages[j]
      /\ Len(messages) \in Nat
  BY <1>1
<1>3. Len(messages) + 1 \in 1..Len(longer) /\ IsLatest(longer, n, Len(messages) + 1)
  BY <1>2 DEF IsLatest
<1>4. longer # <<>> /\ longer[1].role = "user" /\ longer[1].task = 1
  <2>1. CASE messages = <<>>
    BY <1>2, <2>1
  <2>2. CASE messages # <<>>
    <3>1. 1 \in 1..Len(messages)
      BY <2>2
    <3> QED
      BY <1>2, <2>2, <3>1
  <2> QED
    BY <2>1, <2>2
<1> QED
  BY <1>1, <1>3, <1>4 DEF ShowsTasks

\* A compaction leaves the first message and everything from the cut on.
LEMMA KeptAre ==
  ASSUME window \in Seq(Entry), NEW cut \in 1..Len(window), NEW rest, rest = Kept(cut)
  PROVE  /\ rest \in Seq(Entry) /\ Len(rest) = Len(window) - cut + 1 /\ rest[1] = window[1]
         /\ \A k \in 2..Len(rest) : rest[k] = window[cut + k - 1]
<1>1. PICK tail : tail = SubSeq(window, cut + 1, Len(window))
  OBVIOUS
<1>2. PICK first : first = <<window[1]>>
  OBVIOUS
<1>3. Len(window) \in Nat /\ window[1] \in Entry
  OBVIOUS
<1>4. /\ tail \in Seq(Entry) /\ Len(tail) = Len(window) - cut
      /\ \A k \in 1..Len(window) - cut : tail[k] = window[cut + k]
  <2>1. cut + 1 \in 1..Len(window) + 1
    BY <1>3
  <2> QED
    BY <1>1, <1>3, <2>1, SubSeqProperties
<1>5. first \in Seq(Entry) /\ Len(first) = 1 /\ first[1] = window[1]
  BY <1>2, <1>3
<1>6. rest = first \o tail
  BY <1>1, <1>2 DEF Kept
<1>7. rest \in Seq(Entry) /\ Len(rest) = Len(window) - cut + 1
  <2>1. rest \in Seq(Entry) /\ Len(rest) = Len(first) + Len(tail)
    BY <1>4, <1>5, <1>6, ConcatProperties
  <2> QED
    BY <1>3, <1>4, <1>5, <2>1
<1>8. rest[1] = window[1]
  BY <1>4, <1>5, <1>6, <1>7
<1>9. ASSUME NEW k \in 2..Len(rest) PROVE rest[k] = window[cut + k - 1]
  <2>1. rest[k] = tail[k - 1]
    BY <1>4, <1>5, <1>6, <1>7
  <2>2. k - 1 \in 1..Len(window) - cut /\ cut + (k - 1) = cut + k - 1
    BY <1>3, <1>7
  <2> QED
    BY <1>4, <2>1, <2>2
<1> QED
  BY <1>7, <1>8, <1>9

LEMMA KeptShowsTasks ==
  ASSUME window \in Seq(Entry), NEW n, ShowsTasks(window, n), NEW cut, CutKeepsTask(window, n, cut)
  PROVE  Kept(cut) \in Seq(Entry) /\ ShowsTasks(Kept(cut), n)
<1>1. cut \in 1..Len(window) /\ Len(window) \in Nat
  BY DEF CutKeepsTask
<1>2. PICK rest : rest = Kept(cut)
  OBVIOUS
<1>3. /\ rest \in Seq(Entry) /\ Len(rest) = Len(window) - cut + 1 /\ rest[1] = window[1]
      /\ \A k \in 2..Len(rest) : rest[k] = window[cut + k - 1]
  BY <1>1, <1>2, KeptAre
<1>4. PICK i \in 1..Len(window) : IsLatest(window, n, i)
  BY DEF ShowsTasks
<1>5. i = 1 \/ i > cut
  BY <1>4 DEF CutKeepsTask
<1>6. \A k \in 2..Len(rest) : cut + k - 1 \in 1..Len(window)
  BY <1>1, <1>3
<1>7. ASSUME i = 1 PROVE \E k \in 1..Len(rest) : IsLatest(rest, n, k)
  <2>1. \A j \in 1..Len(window) : j > 1 => window[j].role # "user"
    BY <1>4, <1>7 DEF IsLatest
  <2>2. ASSUME NEW k \in 1..Len(rest), k > 1 PROVE rest[k].role # "user"
    <3>1. k \in 2..Len(rest) /\ cut + k - 1 > 1
      BY <1>1, <1>3, <2>2
    <3> QED
      BY <1>3, <1>6, <2>1, <3>1
  <2>3. 1 \in 1..Len(rest) /\ IsLatest(rest, n, 1)
    BY <1>1, <1>3, <1>4, <1>7, <2>2 DEF IsLatest
  <2> QED
    BY <2>3
<1>8. ASSUME i > cut PROVE \E k \in 1..Len(rest) : IsLatest(rest, n, k)
  <2>1. i - cut + 1 \in 2..Len(rest) /\ cut + (i - cut + 1) - 1 = i
    BY <1>1, <1>3, <1>8
  <2>2. rest[i - cut + 1] = window[i]
    BY <1>3, <2>1
  <2>3. ASSUME NEW k \in 1..Len(rest), k > i - cut + 1 PROVE rest[k].role # "user"
    <3>1. k \in 2..Len(rest) /\ cut + k - 1 > i
      BY <1>1, <1>3, <2>1, <2>3
    <3> QED
      BY <1>3, <1>4, <1>6, <3>1 DEF IsLatest
  <2>4. IsLatest(rest, n, i - cut + 1)
    BY <1>4, <2>2, <2>3 DEF IsLatest
  <2>5. i - cut + 1 \in 1..Len(rest)
    BY <1>1, <1>3, <2>1
  <2> QED
    BY <2>4, <2>5
<1>9. \E k \in 1..Len(rest) : IsLatest(rest, n, k)
  BY <1>3, <1>5, <1>7, <1>8
<1>10. rest # <<>>
  BY <1>1, <1>3
<1> QED
  BY <1>2, <1>3, <1>9, <1>10 DEF ShowsTasks

\* PlanCompaction: the shortest cut of those that are enough, which does not
\* reach the latest task.
LEMMA CutIsEnough ==
  ASSUME window \in Seq(Entry), Enough # {}, NEW n, ShowsTasks(window, n)
  PROVE  /\ Min(Enough) \in Enough /\ WithinLimit(SummaryRequest(Middle(Min(Enough))) + MaxSummary)
         /\ CutKeepsTask(window, n, Min(Enough))
<1>1. Len(window) \in Nat
  OBVIOUS
<1>2. PICK limit : limit = BeforeTask(FromTail)
  OBVIOUS
<1>3. \A cut \in Enough : /\ cut \in 2..limit /\ cut < Len(window)
                          /\ WithinLimit(SummaryRequest(Middle(cut)) + MaxSummary)
  BY <1>2 DEF Enough
<1>4. Enough \in SUBSET (2..Len(window))
  BY <1>1, <1>3
<1>5. Min(Enough) \in Enough
  <2>1. PICK low \in Int, high \in Int : low = 2 /\ high = Len(window)
    BY <1>1
  <2>2. Enough \in SUBSET (low..high)
    BY <1>4, <2>1
  <2> QED
    BY <2>2, SmallestOf
<1>6. PICK cut : cut = Min(Enough)
  OBVIOUS
<1>7. cut \in 2..limit /\ cut \in 2..Len(window)
  BY <1>3, <1>4, <1>5, <1>6
<1>8. ASSUME NEW i \in 1..Len(window), IsLatest(window, n, i), i # 1
      PROVE  i > cut
  <2>1. i - 1 \in UserAt
    BY <1>1, <1>8 DEF UserAt, IsLatest
  <2>2. UserAt \in SUBSET (1..Len(window))
    BY <1>1 DEF UserAt
  <2>3. PICK last : last = Max(UserAt)
    OBVIOUS
  <2>4. last \in UserAt /\ last \in Int
    <3>1. PICK low \in Int, high \in Int : low = 1 /\ high = Len(window)
      BY <1>1
    <3>2. UserAt \in SUBSET (low..high) /\ UserAt # {}
      BY <2>1, <2>2, <3>1
    <3>3. Max(UserAt) \in UserAt
      BY <3>2, LargestOf
    <3>4. last \in UserAt
      BY <2>3, <3>3
    <3>5. last \in low..high
      BY <3>2, <3>4
    <3> QED
      BY <3>4, <3>5
  <2>5. last <= i - 1
    <3>1. last + 1 \in 1..Len(window) /\ window[last + 1].role = "user"
      BY <1>1, <2>4 DEF UserAt
    <3>2. ~(last + 1 > i)
      BY <1>8, <3>1 DEF IsLatest
    <3> QED
      BY <2>4, <3>2
  <2>6. PICK tail \in Int : tail = FromTail
    <3>1. Recent \in Int
      BY BudgetBounds
    <3>2. PICK size \in Int, recent \in Int : size = Len(window) /\ recent = Recent
      BY <1>1, <3>1
    <3>3. FromTail = IF size - recent < 2 THEN size - 1 ELSE size - recent
      BY <3>2 DEF FromTail
    <3>4. FromTail \in Int
      BY <3>3
    <3> QED
      BY <3>4
  <2>7. limit = Min({tail, last})
    BY <1>2, <2>1, <2>3, <2>6 DEF BeforeTask
  <2>8. PICK low \in Int, high \in Int : {tail, last} \in SUBSET (low..high)
    <3>1. CASE tail <= last
      BY <2>4, <3>1
    <3>2. CASE last <= tail
      BY <2>4, <3>2
    <3> QED
      BY <2>4, <3>1, <3>2
  <2>9. limit \in {tail, last} /\ limit <= last
    BY <2>7, <2>8, SmallestOf
  <2> QED
    BY <1>7, <2>4, <2>5, <2>9
<1>9. CutKeepsTask(window, n, cut)
  BY <1>7, <1>8 DEF CutKeepsTask
<1> QED
  BY <1>3, <1>5, <1>6, <1>9

\* Steps after which the request of a turn is not the last one that was sent.
LEMMA ElsewhereFits ==
  ASSUME BudgetInv, UNCHANGED sent, step'.at # "sent"
  PROVE  RequestsFit'
  BY DEF BudgetInv, RequestsFit, WithinLimit

LEMMA BeginTaskKeeps ==
  ASSUME BudgetInv, BeginTask
  PROVE  BudgetInv'
<1>1. PICK asked \in Words, answer \in Words :
        window' = (IF OpenCall THEN Spoken("tool", answer) ELSE window)
                  \o <<[role |-> "user", text |-> asked, task |-> tasks + 1]>>
  BY DEF BeginTask
<1>2. PICK before : before = IF OpenCall THEN Spoken("tool", answer) ELSE window
  OBVIOUS
<1>3. PICK tool : tool = [role |-> "tool", text |-> answer, task |-> tasks]
  OBVIOUS
<1>4. PICK task : task = [role |-> "user", text |-> asked, task |-> tasks + 1]
  OBVIOUS
<1>5. PICK n \in Nat : n = tasks + 1
  BY DEF BudgetInv
<1>6. tool \in Entry /\ tool.role # "user" /\ task \in Entry /\ task.role = "user" /\ task.task = n
  BY <1>3, <1>4, <1>5, TextsAre DEF Entry, BudgetInv
<1>7. /\ before \in Seq(Entry) /\ (before = <<>> => n = 1)
      /\ before # <<>> => before[1].role = "user" /\ before[1].task = 1
  <2>1. CASE OpenCall
    <3>1. before = Append(window, tool) /\ window # <<>> /\ window \in Seq(Entry)
      BY <1>2, <1>3, <2>1 DEF Spoken, OpenCall, BudgetInv
    <3>2. tasks # 0 /\ ShowsTasks(window, tasks)
      BY <3>1 DEF BudgetInv
    <3>3. before \in Seq(Entry) /\ ShowsTasks(before, tasks)
      BY <1>6, <3>1, <3>2, SaidKeepsTasks
    <3> QED
      BY <3>3 DEF ShowsTasks
  <2>2. CASE ~OpenCall
    BY <1>2, <1>5, <2>2 DEF BudgetInv, ShowsTasks
  <2> QED
    BY <2>1, <2>2
<1>8. window' = Append(before, task)
  BY <1>1, <1>2, <1>4, <1>7
<1>9. Append(before, task) \in Seq(Entry) /\ ShowsTasks(Append(before, task), n)
  BY <1>6, <1>7, TaskShown
<1>10. /\ step'.at = "turn" /\ tasks' = n /\ n # 0
       /\ UNCHANGED <<rolling, todos, sent>>
  BY <1>5 DEF BeginTask, BudgetInv
<1>11. RequestsFit'
  BY <1>10, ElsewhereFits
<1>12. \A l, k : l = window' /\ k = tasks' => l \in Seq(Entry) /\ ShowsTasks(l, k)
  BY <1>8, <1>9, <1>10
<1> QED
  BY <1>10, <1>11, <1>12 DEF BudgetInv

\* Steps that leave the conversation alone.
LEMMA WindowStays ==
  ASSUME BudgetInv, UNCHANGED <<window, rolling, tasks>>, tasks # 0, todos' \in Text, RequestsFit',
         step'.at = "built" => step'.tokens \in Nat /\ WithinLimit(step'.tokens),
         step'.at = "summary" => CutKeepsTask(window, tasks, step'.cut)
  PROVE  BudgetInv'
<1>1. step'.at = "summary" => \A l, n : l = window' /\ n = tasks' => CutKeepsTask(l, n, step'.cut)
  OBVIOUS
<1>2. \A l, n : l = window' /\ n = tasks' => l \in Seq(Entry) /\ ShowsTasks(l, n)
  BY DEF BudgetInv
<1>3. WithinLimit(step.tokens)' <=> WithinLimit(step'.tokens)
  BY DEF WithinLimit
<1> QED
  BY <1>1, <1>2, <1>3 DEF BudgetInv

\* Or add to it what no user says.
LEMMA WindowGrows ==
  ASSUME BudgetInv, UNCHANGED <<rolling, tasks, sent>>, tasks # 0, todos' \in Text,
         step'.at \in {"over", "called", "turn"},
         NEW role \in {"assistant", "call", "tool"}, NEW text \in Words, window' = Spoken(role, text)
  PROVE  BudgetInv'
<1>1. PICK said : said = [role |-> role, text |-> text, task |-> tasks]
  OBVIOUS
<1>2. said \in Entry /\ said.role # "user"
  BY <1>1, TextsAre DEF Entry, BudgetInv
<1>3. window \in Seq(Entry) /\ ShowsTasks(window, tasks)
  BY DEF BudgetInv
<1>4. window' = Append(window, said)
  BY <1>1 DEF Spoken
<1>5. Append(window, said) \in Seq(Entry) /\ ShowsTasks(Append(window, said), tasks)
  BY <1>2, <1>3, SaidKeepsTasks
<1>6. \A l, n : l = window' /\ n = tasks' => l \in Seq(Entry) /\ ShowsTasks(l, n)
  BY <1>4, <1>5
<1>7. RequestsFit'
  BY ElsewhereFits
<1> QED
  BY <1>6, <1>7 DEF BudgetInv

LEMMA BuildKeeps ==
  ASSUME BudgetInv, BuildRequest
  PROVE  BudgetInv'
<1>1. tasks # 0 /\ UNCHANGED <<window, rolling, todos, tasks, sent>>
  BY DEF BudgetInv, BuildRequest
<1>2. PICK tokens : tokens = TurnTokens
  OBVIOUS
<1>3. tokens \in Nat
  <2>1. Offered \in Nat
    BY BudgetBounds DEF Offered
  <2> QED
    BY <1>2, <2>1, EstimatesAre DEF BudgetInv, TurnTokens
<1>4. \/ step' = Over \/ step' = [at |-> "compact"]
      \/ WithinLimit(tokens) /\ step' = [at |-> "built", tokens |-> tokens]
  BY <1>2 DEF BuildRequest
<1>5. step'.at # "sent" /\ step'.at # "summary"
  BY <1>4 DEF Over
<1>6. step'.at = "built" => step'.tokens \in Nat /\ WithinLimit(step'.tokens)
  BY <1>3, <1>4 DEF Over
<1>7. RequestsFit'
  BY <1>1, <1>5, ElsewhereFits
<1>8. todos' \in Text
  BY <1>1 DEF BudgetInv
<1> QED
  BY <1>1, <1>5, <1>6, <1>7, <1>8, WindowStays

LEMMA AskKeeps ==
  ASSUME BudgetInv, AskForSummary
  PROVE  BudgetInv'
<1>1. tasks # 0 /\ UNCHANGED <<window, rolling, todos, tasks>> /\ todos' \in Text
  BY DEF BudgetInv, AskForSummary
<1>2. CASE step' = Over /\ UNCHANGED sent
  <2>1. step'.at = "over"
    BY <1>2 DEF Over
  <2>2. RequestsFit'
    BY <1>2, <2>1, ElsewhereFits
  <2> QED
    BY <1>1, <2>1, <2>2, WindowStays
<1>3. CASE /\ Enough # {} /\ step' = [at |-> "summary", cut |-> Min(Enough)]
           /\ sent' = [purpose |-> "summary", tokens |-> SummaryRequest(Middle(Min(Enough))) + MaxSummary]
  <2>1. WithinLimit(SummaryRequest(Middle(Min(Enough))) + MaxSummary) /\ CutKeepsTask(window, tasks, Min(Enough))
    BY <1>1, <1>3, CutIsEnough DEF BudgetInv
  <2>2. step'.at = "summary" /\ step'.cut = Min(Enough)
    BY <1>3
  <2>3. RequestsFit'
    <3>1. sent'.tokens = SummaryRequest(Middle(Min(Enough))) + MaxSummary
      BY <1>3
    <3>2. WithinLimit(sent'.tokens)
      BY <2>1, <3>1
    <3> QED
      BY <2>2, <3>2 DEF RequestsFit, WithinLimit
  <2> QED
    BY <1>1, <2>1, <2>2, <2>3, WindowStays
<1> QED
  BY <1>2, <1>3 DEF AskForSummary

LEMMA TakeKeeps ==
  ASSUME BudgetInv, TakeSummary
  PROVE  BudgetInv'
<1>1. tasks # 0 /\ UNCHANGED <<todos, tasks, sent>> /\ todos' \in Text /\ todos \in Text
  BY DEF BudgetInv, TakeSummary
<1>2. CASE step' = Over /\ UNCHANGED <<window, rolling>>
  <2>1. step'.at = "over"
    BY <1>2 DEF Over
  <2>2. RequestsFit'
    BY <1>1, <2>1, ElsewhereFits
  <2> QED
    BY <1>1, <1>2, <2>1, <2>2, WindowStays
<1>3. ASSUME NEW summary \in Summaries, SummaryAccepted(summary, step.cut),
             window' = Kept(step.cut), rolling' = summary.text,
             step' = [at |-> "built", tokens |-> RequestTokens(Kept(step.cut), summary.text, SourceTool)]
      PROVE  BudgetInv'
  <2>1. PICK rest : rest = Kept(step.cut)
    OBVIOUS
  <2>2. rest \in Seq(Entry) /\ ShowsTasks(rest, tasks)
    <3>1. window \in Seq(Entry) /\ ShowsTasks(window, tasks) /\ CutKeepsTask(window, tasks, step.cut)
      BY <1>1 DEF BudgetInv, TakeSummary
    <3> QED
      BY <2>1, <3>1, KeptShowsTasks
  <2>3. summary.text \in Text /\ SourceTool \in Nat
    BY BudgetBounds DEF Text
  <2>4. PICK tokens : tokens = RequestTokens(rest, summary.text, SourceTool)
    OBVIOUS
  <2>5. tokens \in Nat /\ WithinLimit(tokens)
    BY <1>1, <1>3, <2>1, <2>2, <2>3, <2>4, EstimatesAre DEF SummaryAccepted
  <2>6. step'.at = "built" /\ step'.tokens = tokens
    BY <1>3, <2>1, <2>4
  <2>7. RequestsFit'
    BY <1>1, <2>6, ElsewhereFits
  <2>8. \A l, n : l = window' /\ n = tasks' => l \in Seq(Entry) /\ ShowsTasks(l, n)
    BY <1>1, <1>3, <2>1, <2>2
  <2>9. WithinLimit(step.tokens)' <=> WithinLimit(step'.tokens)
    BY DEF WithinLimit
  <2> QED
    BY <1>1, <1>3, <2>3, <2>5, <2>6, <2>7, <2>8, <2>9 DEF BudgetInv
<1> QED
  BY <1>2, <1>3 DEF TakeSummary

LEMMA SendKeeps ==
  ASSUME BudgetInv, SendRequest
  PROVE  BudgetInv'
<1>1. PICK extra \in Injected :
        sent' = [purpose |-> "turn", tokens |-> step.tokens + extra,
                 shows |-> {window[i].task : i \in {j \in DOMAIN window : window[j].role = "user"}}]
  BY DEF SendRequest
<1>2. /\ tasks # 0 /\ UNCHANGED <<window, rolling, todos, tasks, turn, resumed>> /\ todos' \in Text
      /\ step'.at = "sent" /\ step.tokens \in Nat /\ step.tokens <= TokenLimit
  BY DEF BudgetInv, SendRequest, WithinLimit
<1>3. PICK catalogue \in Nat : catalogue = Catalogue
  BY CatalogueIs
<1>4. PICK tokens, shown0 : tokens = sent'.tokens /\ shown0 = sent'.shows
  OBVIOUS
<1>5. TokenLimit \in Nat
  BY BudgetBounds DEF TokenLimit
<1>6. tokens <= TokenLimit + (IF turn = 1 /\ ~resumed THEN catalogue ELSE 0)
  <2>1. tokens = step.tokens + extra
    BY <1>1, <1>4
  <2>2. extra = 0 \/ (turn = 1 /\ ~resumed /\ extra = catalogue)
    BY <1>3 DEF Injected
  <2> QED
    BY <1>2, <1>3, <1>5, <2>1, <2>2
<1>7. {1, tasks} \subseteq shown0
  <2>1. shown0 = {window[i].task : i \in {j \in DOMAIN window : window[j].role = "user"}}
    BY <1>1, <1>4
  <2>2. window \in Seq(Entry) /\ ShowsTasks(window, tasks)
    BY <1>2 DEF BudgetInv
  <2>3. 1 \in DOMAIN window /\ window[1].role = "user" /\ window[1].task = 1
    BY <2>2 DEF ShowsTasks
  <2>4. PICK i \in 1..Len(window) : window[i].role = "user" /\ window[i].task = tasks
    BY <2>2 DEF ShowsTasks, IsLatest
  <2>5. i \in DOMAIN window
    BY <2>2
  <2> QED
    BY <2>1, <2>3, <2>4, <2>5
<1>8. sent'.purpose = "turn"
  BY <1>1
<1>9. RequestsFit'
  BY <1>2, <1>3, <1>4, <1>6, <1>7, <1>8 DEF RequestsFit, TokenLimit, Catalogue, Recalled, TextTokens
<1> QED
  BY <1>2, <1>9, WindowStays

THEOREM BudgetInvariant == BudgetSpec => []BudgetInv
<1>1. BudgetInit => BudgetInv
  BY TextsAre DEF BudgetInit, BudgetInv, RequestsFit, Over, Nowhere
<1>2. BudgetInv /\ [BudgetNext]_budgetVars => BudgetInv'
  <2> SUFFICES ASSUME BudgetInv, [BudgetNext]_budgetVars PROVE BudgetInv'
    OBVIOUS
  <2>1. CASE Finish
    <3>1. /\ step'.at = "over" /\ tasks # 0 /\ UNCHANGED <<rolling, todos, tasks, sent>> /\ todos' \in Text
      BY <2>1 DEF Finish, Over, BudgetInv
    <3>2. CASE UNCHANGED window
      <4>1. RequestsFit'
        BY <3>1, ElsewhereFits
      <4> QED
        BY <3>1, <3>2, <4>1, WindowStays
    <3> QED
      BY <2>1, <3>1, <3>2, WindowGrows DEF Finish
  <2>2. CASE CallTool
    <3>1. /\ step'.at = "called" /\ tasks # 0 /\ UNCHANGED <<rolling, todos, tasks, sent>> /\ todos' \in Text
      BY <2>2 DEF CallTool, BudgetInv
    <3> QED
      BY <2>2, <3>1, WindowGrows DEF CallTool
  <2>3. CASE AnswerCall
    <3>1. tasks # 0 /\ UNCHANGED <<rolling, tasks, sent>>
      BY <2>3 DEF AnswerCall, BudgetInv
    <3>2. CASE step' = Over /\ UNCHANGED <<window, todos>>
      <4>1. step'.at = "over"
        BY <3>2 DEF Over
      <4>2. RequestsFit' /\ todos' \in Text
        BY <3>1, <3>2, <4>1, ElsewhereFits DEF BudgetInv
      <4> QED
        BY <3>1, <3>2, <4>1, <4>2, WindowStays
    <3>3. ASSUME NEW text \in Words, window' = Spoken("tool", text), todos' \in {todos, Plan}, step' = [at |-> "turn"]
          PROVE  BudgetInv'
      <4>1. step'.at = "turn" /\ todos' \in Text
        BY <3>3, TextsAre DEF BudgetInv
      <4> QED
        BY <3>1, <3>3, <4>1, WindowGrows
    <3> QED
      BY <2>3, <3>2, <3>3 DEF AnswerCall
  <2>4. CASE UNCHANGED budgetVars
    <3>1. RequestsFit' <=> RequestsFit
      BY <2>4 DEF budgetVars, RequestsFit, WithinLimit, TokenLimit, Catalogue, Recalled, TextTokens
    <3>2. ShowsTasks(window, tasks)' <=> ShowsTasks(window, tasks)
      BY <2>4 DEF budgetVars, ShowsTasks, IsLatest
    <3>3. CutKeepsTask(window, tasks, step.cut)' <=> CutKeepsTask(window, tasks, step.cut)
      BY <2>4 DEF budgetVars, CutKeepsTask, IsLatest
    <3>4. WithinLimit(step.tokens)' <=> WithinLimit(step.tokens)
      BY <2>4 DEF budgetVars, WithinLimit
    <3> QED
      BY <2>4, <3>1, <3>2, <3>3, <3>4 DEF budgetVars, BudgetInv
  <2> QED
    BY <2>1, <2>2, <2>3, <2>4, BeginTaskKeeps, BuildKeeps, AskKeeps, TakeKeeps, SendKeeps DEF BudgetNext
<1> QED
  BY <1>1, <1>2, PTL DEF BudgetSpec

\* The property of Builder.Build, PlanCompaction and applyFirstTurnCatalogue.
THEOREM RequestsStay == BudgetSpec => []RequestsFit
<1>1. BudgetInv => RequestsFit
  BY DEF BudgetInv
<1> QED
  BY <1>1, BudgetInvariant, PTL

-----------------------------------------------------------------------------
(***************************************************************************)
(* ConfigLayers: the strongest layer that sets a field decides it, for any  *)
(* files, environments and flags.                                            *)
(***************************************************************************)

\* The configuration, as far as it is laid.
WithUser        == Merged(Defaults, user)
WithProject     == Merged(WithUser, project)
AskedProfile    == Named(environment.sets, WithProject.sets.profile)
WithEnvironment ==
  [sets     |-> Laid(Only(environment.sets, {"mode", "turns"}), WithProject.sets),
   profiles |-> WithModel(WithProject.profiles, AskedProfile,
                  Laid(Only(environment.sets, {"address", "key"}), environment.model))]
ChosenProfile   == Named(flags.sets, AskedProfile)
WithFlags ==
  [sets     |-> Laid(Only(flags.sets, {"mode", "turns"}), WithEnvironment.sets),
   profiles |-> IF ChosenProfile \in DOMAIN WithEnvironment.profiles
                THEN WithModel(WithEnvironment.profiles, ChosenProfile, flags.model) ELSE WithEnvironment.profiles]

ConfigInv ==
  /\ user \in Files /\ project \in Files /\ environment \in Environments /\ flags \in Flags
  /\ loading = "user" => config = Defaults
  /\ loading = "project" => config = WithUser
  /\ loading = "environment" => config = WithProject
  /\ loading = "flags" => config = WithEnvironment /\ AskedProfile \in DOMAIN WithProject.profiles
  /\ loading \in {"check", "loaded"} =>
       config = WithFlags /\ selected = ChosenProfile /\ AskedProfile \in DOMAIN WithProject.profiles
  /\ loading = "loaded" => selected \in DOMAIN config.profiles

\* A layer over another, and some fields of a layer.
IsLaid(f, above, below) ==
  /\ \A x : x \in DOMAIN f <=> (x \in DOMAIN above \/ x \in DOMAIN below)
  /\ \A x : x \in DOMAIN above => f[x] = above[x]
  /\ \A x : x \in DOMAIN below /\ x \notin DOMAIN above => f[x] = below[x]

LEMMA LaidIs ==
  ASSUME NEW above, NEW below, NEW f, f = Laid(above, below)
  PROVE  IsLaid(f, above, below)
  BY DEF Laid, IsLaid

IsOnly(f, layer, fields) ==
  /\ \A x : x \in DOMAIN f <=> (x \in DOMAIN layer /\ x \in fields)
  /\ \A x : x \in DOMAIN f => f[x] = layer[x]

LEMMA OnlyIs ==
  ASSUME NEW layer, NEW fields, NEW f, f = Only(layer, fields)
  PROVE  IsOnly(f, layer, fields)
  BY DEF Only, Restrict, IsOnly

\* Nothing but the files and the environment names a profile.
LEMMA ProfileStays ==
  ASSUME environment \in Environments, NEW sets, "profile" \in DOMAIN sets
  PROVE  Laid(Only(environment.sets, {"mode", "turns"}), sets).profile = sets.profile
<1>1. PICK layer : layer = Only(environment.sets, {"mode", "turns"})
  OBVIOUS
<1>2. "profile" \notin DOMAIN layer
  BY <1>1, OnlyIs DEF IsOnly
<1> QED
  BY <1>1, <1>2, LaidIs DEF IsLaid

LEMMA SetsAre ==
  /\ {"profile", "mode", "turns"} \subseteq DOMAIN WithProject.sets
  /\ WithProject.sets.profile = Named(project.sets, Named(user.sets, Default))
<1>1. Defaults.sets.profile = Default /\ {"profile", "mode", "turns"} \subseteq DOMAIN Defaults.sets
  BY DEF Defaults
<1>2. PICK one, two : one = Laid(user.sets, Defaults.sets) /\ two = Laid(project.sets, one)
  OBVIOUS
<1>3. WithProject.sets = two
  BY <1>2 DEF WithProject, WithUser, Merged
<1>4. {"profile", "mode", "turns"} \subseteq DOMAIN one /\ one.profile = Named(user.sets, Default)
  BY <1>1, <1>2, LaidIs DEF Named, IsLaid
<1>5. {"profile", "mode", "turns"} \subseteq DOMAIN two /\ two.profile = Named(project.sets, one.profile)
  BY <1>2, <1>4, LaidIs DEF Named, IsLaid
<1> QED
  BY <1>3, <1>4, <1>5

\* What the first of five layers with the field says.
FirstOf(a, b, c, d, e, x) ==
  IF x \in DOMAIN a THEN a[x] ELSE IF x \in DOMAIN b THEN b[x] ELSE IF x \in DOMAIN c THEN c[x]
  ELSE IF x \in DOMAIN d THEN d[x] ELSE e[x]

LEMMA FirstDecides ==
  ASSUME NEW a, NEW b, NEW c, NEW d, NEW e, NEW x, NEW settled,
         x \in DOMAIN settled <=> (x \in DOMAIN a \/ x \in DOMAIN b \/ x \in DOMAIN c \/ x \in DOMAIN d \/ x \in DOMAIN e),
         x \in DOMAIN settled => settled[x] = FirstOf(a, b, c, d, e, x)
  PROVE  Decides(<<a, b, c, d, e>>, x, settled)
<1>1. PICK layers : layers = <<a, b, c, d, e>>
  OBVIOUS
<1>2. PICK set : set = {i \in DOMAIN layers : x \in DOMAIN layers[i]}
  OBVIOUS
<1>3. /\ DOMAIN layers = 1..5
      /\ layers[1] = a /\ layers[2] = b /\ layers[3] = c /\ layers[4] = d /\ layers[5] = e
  BY <1>1
<1>4. \A i : i \in set <=> i \in 1..5 /\ x \in DOMAIN layers[i]
  BY <1>2, <1>3
<1>5. \A i \in 1..5 : i = 1 \/ i = 2 \/ i = 3 \/ i = 4 \/ i = 5
  OBVIOUS
<1>6. set = {} => x \notin DOMAIN settled
  BY <1>3, <1>4
<1>7. ASSUME set # {}
      PROVE  x \in DOMAIN settled /\ settled[x] = layers[CHOOSE i \in set : \A j \in set : i <= j][x]
  <2>1. set \in SUBSET Nat
    BY <1>4
  <2>2. PICK first : first = CHOOSE i \in set : \A j \in set : i <= j
    OBVIOUS
  <2>3. first \in set /\ \A j \in set : first <= j
    BY <1>7, <2>1, <2>2, LeastNatural
  <2>4. x \in DOMAIN settled
    BY <1>3, <1>4, <1>5, <1>7
  <2>5. settled[x] = layers[first][x]
    <3>1. \A j \in 1..5 : j < first => x \notin DOMAIN layers[j]
      BY <1>4, <2>3
    <3>2. first \in 1..5 /\ x \in DOMAIN layers[first]
      BY <1>4, <2>3
    <3> QED
      BY <1>3, <1>5, <2>4, <3>1, <3>2 DEF FirstOf
  <2> QED
    BY <2>2, <2>4, <2>5
<1>8. Decides(layers, x, settled)
  BY <1>2, <1>6, <1>7 DEF Decides
<1> QED
  BY <1>1, <1>8

LEMMA SettingsDecided ==
  ASSUME user \in Files, project \in Files, environment \in Environments, flags \in Flags,
         NEW s \in {"mode", "turns"}
  PROVE  Decides(SettingLayers, s, WithFlags.sets)
<1>1. PICK one, two, three, four, above, top :
        /\ one = Laid(user.sets, Defaults.sets) /\ two = Laid(project.sets, one)
        /\ above = Only(environment.sets, {"mode", "turns"}) /\ three = Laid(above, two)
        /\ top = Only(flags.sets, {"mode", "turns"}) /\ four = Laid(top, three)
  OBVIOUS
<1>2. WithFlags.sets = four
  BY <1>1 DEF WithFlags, WithEnvironment, WithProject, WithUser, Merged
<1>3. /\ (s \in DOMAIN above <=> s \in DOMAIN environment.sets) /\ (s \in DOMAIN above => above[s] = environment.sets[s])
      /\ (s \in DOMAIN top <=> s \in DOMAIN flags.sets) /\ (s \in DOMAIN top => top[s] = flags.sets[s])
  BY <1>1, OnlyIs DEF IsOnly
<1>4. s \in DOMAIN Defaults.sets
  BY DEF Defaults
<1>5. /\ s \in DOMAIN one /\ s \in DOMAIN two /\ s \in DOMAIN three /\ s \in DOMAIN four
      /\ one[s] = IF s \in DOMAIN user.sets THEN user.sets[s] ELSE Defaults.sets[s]
      /\ two[s] = IF s \in DOMAIN project.sets THEN project.sets[s] ELSE one[s]
      /\ three[s] = IF s \in DOMAIN above THEN above[s] ELSE two[s]
      /\ four[s] = IF s \in DOMAIN top THEN top[s] ELSE three[s]
  BY <1>1, <1>4, LaidIs DEF IsLaid
<1>6. four[s] = FirstOf(flags.sets, environment.sets, project.sets, user.sets, Defaults.sets, s)
  BY <1>3, <1>5 DEF FirstOf
<1>7. Decides(<<flags.sets, environment.sets, project.sets, user.sets, Defaults.sets>>, s, four)
  BY <1>4, <1>5, <1>6, FirstDecides
<1> QED
  BY <1>2, <1>7 DEF SettingLayers

\* A profile that has what c says, else what d says, else what bottom says.
IsThreefold(p, c, d, bottom, x) ==
  /\ x \in DOMAIN p <=> (x \in DOMAIN c \/ x \in DOMAIN d \/ x \in DOMAIN bottom)
  /\ x \in DOMAIN p => p[x] = IF x \in DOMAIN c THEN c[x] ELSE IF x \in DOMAIN d THEN d[x] ELSE bottom[x]

\* What the files say of a profile.
LEMMA ProfileAfterFiles ==
  ASSUME NEW n \in DOMAIN WithProject.profiles, NEW x, NEW bottom, NEW c, NEW d, NEW p,
         bottom = IF n = Default THEN [timeout |-> "timeout"] ELSE Unset,
         c = ProfileOf(project.profiles, n), d = ProfileOf(user.profiles, n), p = WithProject.profiles[n]
  PROVE  IsThreefold(p, c, d, bottom, x)
<1>1. PICK first, second :
        /\ first = ProfileOf(WithUser.profiles, n) /\ second = ProfileOf(Defaults.profiles, n)
  OBVIOUS
<1>2. DOMAIN Unset = {}
  BY DEF Unset
<1>3. second = bottom
  BY <1>1 DEF Defaults, ProfileOf
<1>4. /\ x \in DOMAIN first <=> (x \in DOMAIN d \/ x \in DOMAIN bottom)
      /\ x \in DOMAIN first => first[x] = IF x \in DOMAIN d THEN d[x] ELSE bottom[x]
  <2>1. CASE n \in DOMAIN WithUser.profiles
    <3>1. first = Laid(d, second)
      BY <1>1, <2>1 DEF ProfileOf, WithUser, Merged
    <3> QED
      BY <1>3, <3>1, LaidIs DEF IsLaid
  <2>2. CASE n \notin DOMAIN WithUser.profiles
    <3>1. n \notin DOMAIN Defaults.profiles /\ n \notin DOMAIN user.profiles
      BY <2>2 DEF WithUser, Merged
    <3>2. first = Unset /\ d = Unset /\ second = Unset
      BY <1>1, <2>2, <3>1 DEF ProfileOf
    <3> QED
      BY <1>2, <1>3, <3>2
  <2> QED
    BY <2>1, <2>2
<1>5. WithProject.profiles[n] = Laid(c, first)
  BY <1>1 DEF WithProject, Merged
<1>7. /\ x \in DOMAIN p <=> (x \in DOMAIN c \/ x \in DOMAIN first)
      /\ x \in DOMAIN c => p[x] = c[x]
      /\ x \in DOMAIN first /\ x \notin DOMAIN c => p[x] = first[x]
  BY <1>5, LaidIs DEF IsLaid
<1> QED
  BY <1>4, <1>7 DEF IsThreefold

LEMMA FieldsDecided ==
  ASSUME user \in Files, project \in Files, environment \in Environments, flags \in Flags,
         AskedProfile \in DOMAIN WithProject.profiles, ChosenProfile \in DOMAIN WithFlags.profiles,
         NEW x \in Fields,
         x \notin DOMAIN EnvironmentLayer \ DOMAIN flags.model \/ ChosenProfile = AskedProfile
  PROVE  Decides(LayersOf(ChosenProfile), x, WithFlags.profiles[ChosenProfile])
<1>1. PICK n, asked : n = ChosenProfile /\ asked = AskedProfile
  OBVIOUS
<1>2. PICK c, d, e, b, own, set, p, q, r :
        /\ c = ProfileOf(project.profiles, n) /\ d = ProfileOf(user.profiles, n)
        /\ e = IF n = Default THEN [timeout |-> "timeout"] ELSE Unset
        /\ b = Laid(environment.model, environment.sets)
        /\ set = Only(environment.sets, {"address", "key"}) /\ own = Laid(set, environment.model)
        /\ p = WithProject.profiles[n] /\ q = WithEnvironment.profiles[n] /\ r = WithFlags.profiles[n]
  OBVIOUS
<1>3. DOMAIN WithEnvironment.profiles = DOMAIN WithProject.profiles /\ DOMAIN WithFlags.profiles = DOMAIN WithProject.profiles
  BY DEF WithEnvironment, WithFlags, WithModel
<1>4. n \in DOMAIN WithProject.profiles
  BY <1>1, <1>3
<1>5. q = IF n = asked THEN Laid(own, p) ELSE p
  BY <1>1, <1>2, <1>3, <1>4 DEF WithEnvironment, WithModel
<1>6. r = Laid(flags.model, q)
  BY <1>1, <1>2, <1>3, <1>4 DEF WithFlags, WithModel
<1>7. /\ x \in DOMAIN p <=> (x \in DOMAIN c \/ x \in DOMAIN d \/ x \in DOMAIN e)
      /\ x \in DOMAIN p => p[x] = IF x \in DOMAIN c THEN c[x] ELSE IF x \in DOMAIN d THEN d[x] ELSE e[x]
  <2>1. /\ e = IF n = Default THEN [timeout |-> "timeout"] ELSE Unset
        /\ c = ProfileOf(project.profiles, n) /\ d = ProfileOf(user.profiles, n) /\ p = WithProject.profiles[n]
    BY <1>2
  <2>2. IsThreefold(p, c, d, e, x)
    BY <1>4, <2>1, ProfileAfterFiles
  <2> QED
    BY <2>2 DEF IsThreefold
<1>8. /\ n = asked => /\ x \in DOMAIN own <=> x \in DOMAIN b
                      /\ x \in DOMAIN own => own[x] = b[x]
      /\ n # asked /\ x \notin DOMAIN flags.model => x \notin DOMAIN b
  <2>1. n # asked /\ x \notin DOMAIN flags.model => x \notin DOMAIN b
    BY <1>1, <1>2 DEF EnvironmentLayer
  <2>2. /\ DOMAIN environment.model \subseteq {"provider", "model"}
        /\ DOMAIN environment.sets \subseteq Settings \cup {"address", "key"}
    BY LayerShapes
  <2>3. /\ x \in DOMAIN environment.model => x \notin DOMAIN environment.sets
        /\ x \in DOMAIN set <=> x \in DOMAIN environment.sets
        /\ x \in DOMAIN set => set[x] = environment.sets[x]
    BY <1>2, <2>2, OnlyIs DEF Fields, Settings, IsOnly
  <2>4. /\ x \in DOMAIN own <=> (x \in DOMAIN set \/ x \in DOMAIN environment.model)
        /\ x \in DOMAIN set => own[x] = set[x]
        /\ x \in DOMAIN environment.model /\ x \notin DOMAIN set => own[x] = environment.model[x]
    BY <1>2, LaidIs DEF IsLaid
  <2>5. /\ x \in DOMAIN b <=> (x \in DOMAIN environment.sets \/ x \in DOMAIN environment.model)
        /\ x \in DOMAIN environment.model => b[x] = environment.model[x]
        /\ x \in DOMAIN environment.sets /\ x \notin DOMAIN environment.model => b[x] = environment.sets[x]
    BY <1>2, LaidIs DEF IsLaid
  <2> QED
    BY <1>2, <2>1, <2>3, <2>4, <2>5
<1>9. ASSUME x \notin DOMAIN flags.model
      PROVE  /\ x \in DOMAIN q <=> (x \in DOMAIN b \/ x \in DOMAIN p)
             /\ x \in DOMAIN b => q[x] = b[x]
             /\ x \in DOMAIN p /\ x \notin DOMAIN b => q[x] = p[x]
  <2>1. CASE n = asked
    <3>1. /\ x \in DOMAIN q <=> (x \in DOMAIN own \/ x \in DOMAIN p)
          /\ x \in DOMAIN own => q[x] = own[x]
          /\ x \in DOMAIN p /\ x \notin DOMAIN own => q[x] = p[x]
      BY <1>5, <2>1, LaidIs DEF IsLaid
    <3> QED
      BY <1>8, <1>9, <2>1, <3>1
  <2>2. CASE n # asked
    BY <1>5, <1>8, <1>9, <2>2
  <2> QED
    BY <2>1, <2>2
<1>10. /\ x \in DOMAIN r <=> (x \in DOMAIN flags.model \/ x \in DOMAIN q)
       /\ x \in DOMAIN flags.model => r[x] = flags.model[x]
       /\ x \in DOMAIN q /\ x \notin DOMAIN flags.model => r[x] = q[x]
  BY <1>6, LaidIs DEF IsLaid
<1>11. x \in DOMAIN r => r[x] = FirstOf(flags.model, b, c, d, e, x)
  BY <1>7, <1>9, <1>10 DEF FirstOf
<1>12. Decides(<<flags.model, b, c, d, e>>, x, r)
  BY <1>7, <1>9, <1>10, <1>11, FirstDecides
<1>13. LayersOf(n) = <<flags.model, b, c, d, e>>
  BY <1>2 DEF LayersOf, EnvironmentLayer
<1> QED
  BY <1>1, <1>2, <1>12, <1>13

THEOREM ConfigInvariant == ConfigSpec => []ConfigInv
<1>1. ConfigInit => ConfigInv
  BY DEF ConfigInit, ConfigInv
<1>2. ConfigInv /\ [ConfigNext]_configVars => ConfigInv'
  <2> SUFFICES ASSUME ConfigInv, [ConfigNext]_configVars PROVE ConfigInv'
    OBVIOUS
  <2>1. UNCHANGED <<user, project, environment, flags>>
    BY DEF ConfigNext, LayFile, ApplyEnvironment, ApplyFlags, Validate, configVars
  <2>2. /\ user' \in Files /\ project' \in Files /\ environment' \in Environments /\ flags' \in Flags
        /\ WithUser' = WithUser /\ WithProject' = WithProject /\ AskedProfile' = AskedProfile
        /\ WithEnvironment' = WithEnvironment /\ ChosenProfile' = ChosenProfile /\ WithFlags' = WithFlags
    BY <2>1 DEF ConfigInv, WithUser, WithProject, AskedProfile, WithEnvironment, ChosenProfile, WithFlags
  <2>3. CASE LayFile(user, "user", "project")
    BY <2>2, <2>3 DEF LayFile, FailLoading, ConfigInv, WithUser
  <2>4. CASE LayFile(project, "project", "environment")
    BY <2>2, <2>4 DEF LayFile, FailLoading, ConfigInv, WithProject
  <2>5. CASE ApplyEnvironment
    <3>1. config = WithProject /\ EnvironmentProfile = AskedProfile
      BY <2>5 DEF ApplyEnvironment, ConfigInv, EnvironmentProfile, AskedProfile
    <3> QED
      BY <2>2, <2>5, <3>1 DEF ApplyEnvironment, FailLoading, ConfigInv, WithEnvironment
  <2>6. CASE ApplyFlags
    <3>1. config = WithEnvironment /\ AskedProfile \in DOMAIN WithProject.profiles
      BY <2>6 DEF ApplyFlags, ConfigInv
    <3>2. config.sets.profile = WithProject.sets.profile
      BY <3>1, SetsAre, ProfileStays DEF WithEnvironment, ConfigInv
    <3>3. EnvironmentProfile = AskedProfile
      BY <3>2 DEF EnvironmentProfile, AskedProfile
    <3>4. selected' = ChosenProfile /\ config' = WithFlags /\ loading' = "check"
      BY <2>6, <3>1, <3>3 DEF ApplyFlags, ChosenProfile, WithFlags
    <3> QED
      BY <2>2, <3>1, <3>4 DEF ConfigInv
  <2>7. CASE Validate
    BY <2>2, <2>7 DEF Validate, ConfigInv
  <2>8. CASE UNCHANGED configVars
    BY <2>2, <2>8 DEF configVars, ConfigInv
  <2> QED
    BY <2>3, <2>4, <2>5, <2>6, <2>7, <2>8 DEF ConfigNext
<1> QED
  BY <1>1, <1>2, PTL DEF ConfigSpec

\* The property of config.Load and Validate.
THEOREM StrongestWins == ConfigSpec => []StrongestLayerWins
<1>1. ConfigInv => StrongestLayerWins
  <2> SUFFICES ASSUME ConfigInv, loading = "loaded" PROVE StrongestLayerWins
    BY DEF StrongestLayerWins
  <2>1. /\ user \in Files /\ project \in Files /\ environment \in Environments /\ flags \in Flags
        /\ config = WithFlags /\ selected = ChosenProfile
        /\ AskedProfile \in DOMAIN WithProject.profiles /\ ChosenProfile \in DOMAIN WithFlags.profiles
    BY DEF ConfigInv
  <2>2. AskedProfile = NamedBelowFlags
    BY <2>1, SetsAre DEF AskedProfile, NamedBelowFlags
  <2>3. ASSUME NEW s \in {"mode", "turns"} PROVE Decides(SettingLayers, s, config.sets)
    BY <2>1, SettingsDecided
  <2>4. ASSUME NEW f \in Fields, ~LaidElsewhere(f)
        PROVE  Decides(LayersOf(selected), f, config.profiles[selected])
    <3>1. f \notin DOMAIN EnvironmentLayer \ DOMAIN flags.model \/ ChosenProfile = AskedProfile
      BY <2>1, <2>2, <2>4 DEF LaidElsewhere
    <3> QED
      BY <2>1, <3>1, FieldsDecided
  <2> QED
    BY <2>1, <2>3, <2>4 DEF StrongestLayerWins
<1> QED
  BY <1>1, ConfigInvariant, PTL
=============================================================================
