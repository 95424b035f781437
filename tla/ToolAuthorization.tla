------------------------- MODULE ToolAuthorization -------------------------
(***************************************************************************)
(* From a proposed tool call to its effect: the tool prepares the call on    *)
(* paths the guard has resolved (tools/, platform/pathguard.go), the policy  *)
(* decides or the user is asked (policy/policy.go, policy/authorizer.go),    *)
(* a capability is issued for the prepared call, and the tool consumes it    *)
(* before it acts (policy/authority.go).                                     *)
(*                                                                           *)
(* Between any two of these steps time passes and the user moves the link    *)
(* the call names or edits the file behind it.  The loop presents each       *)
(* capability once; the authority promises more, and its callers here are    *)
(* several and present any capability they were given with any call.         *)
(*                                                                           *)
(* All calls name one path; what it leads to is a place.  A file is its      *)
(* content; what a tool reads or writes after its last check is data.        *)
(***************************************************************************)
EXTENDS Naturals, Sequences, FiniteSets

CONSTANTS
  Worker,      \* callers of the tools
  Options,     \* settings a run may be started with: [mode, allowEdit, commands, profile, eval]
  Content,     \* contents of files
  Lifetime,    \* defaultCapabilityTTL
  MaxClock,    \* bound: time
  MaxCalls,    \* bound: calls prepared
  MaxChanges   \* bound: changes the user makes

ASSUME ToolBounds == {Lifetime, MaxClock, MaxCalls, MaxChanges} \subseteq Nat /\ Content # {}

VARIABLES
  options,     \* settings of this run
  leads,       \* the place the path leads to
  content,     \* content of every place
  changes,     \* changes made so far
  clock,       \* time
  calls,       \* calls prepared so far
  grants,      \* authority.grants
  used,        \* authority.used
  handed,      \* capabilities handed out so far, and by whose decision
  worker,      \* what every caller is doing
  done         \* the effects there have been

toolVars == <<options, leads, content, changes, clock, calls, grants, used, handed, worker, done>>

Place   == {"source", "generated", "secret", "outside"}
InRoot  == Place \ {"outside"}
None    == "none"
NoEval  == [effects |-> {}, allowEdit |-> FALSE, commands |-> FALSE, changes |-> {}, on |-> FALSE]
Resting == [at |-> "rest"]

Effects == [read_file |-> {"read"}, list_files |-> {"read"}, search_text |-> {"read"},
            edit_file |-> {"write"}, shell |-> {"execute"}, write_todos |-> {"state"}]

-----------------------------------------------------------------------------
(***************************************************************************)
(* The rules of a run.  A rule names a tool or all, the effects a call       *)
(* must have, whether the command must have one of its prefixes, and says    *)
(* what is decided.                                                          *)
(***************************************************************************)

Rule(tool, effects, listed, decision) ==
  [tool |-> tool, effects |-> effects, listed |-> listed, decision |-> decision]

CommandRules(given) == IF given THEN <<Rule("shell", {"execute"}, TRUE, "allow")>> ELSE <<>>

Refused(contract, effect) ==
  IF effect \in contract.effects THEN <<>> ELSE <<Rule("any", {effect}, FALSE, "deny")>>

Edits(contract) ==
  IF ~contract.allowEdit THEN <<Rule("any", {"write"}, FALSE, "deny")>>
  ELSE IF "write" \in contract.effects THEN <<Rule("edit_file", {"write"}, FALSE, "allow")>> ELSE <<>>

EvaluationCLIRules(contract) ==
  Refused(contract, "read") \o Refused(contract, "write") \o Refused(contract, "execute") \o Refused(contract, "network")
  \o Edits(contract)
  \o CommandRules("execute" \in contract.effects /\ contract.commands)
  \o <<Rule("shell", {"execute"}, FALSE, "deny")>>

RuntimeCLIRules ==
  IF options.eval.on THEN EvaluationCLIRules(options.eval)
  ELSE (IF options.allowEdit THEN <<Rule("edit_file", {"write"}, FALSE, "allow")>> ELSE <<>>)
       \o CommandRules(options.commands)

ProfileRules == CommandRules(options.profile /\ ~options.eval.on)

Headless == options.mode = "headless"

Matches(rule, call) ==
  /\ rule.tool \in {"any", call.tool}
  /\ rule.effects \subseteq Effects[call.tool]
  /\ rule.listed => call.command = "listed"

HardDeny(call) ==
  \/ "network" \in Effects[call.tool]
  \/ call.place = "outside"
  \/ "write" \in Effects[call.tool] /\ (call.place = "secret" \/ (options.eval.on /\ call.place \notin options.eval.changes))
  \/ Headless /\ call.place = "secret"

Rules == RuntimeCLIRules \o ProfileRules

\* The first rule that matches, if there is one.
Deciding(call) ==
  {Rules[i] : i \in {j \in DOMAIN Rules : Matches(Rules[j], call) /\ \A k \in 1..j - 1 : ~Matches(Rules[k], call)}}

WithoutRule(call) ==
  IF Effects[call.tool] = {"state"} \/ (Effects[call.tool] = {"read"} /\ call.place # "secret") THEN "allow"
  ELSE IF Headless THEN "deny" ELSE "ask"

Evaluate(call) ==
  IF HardDeny(call) THEN "deny"
  ELSE IF Deciding(call) = {} THEN WithoutRule(call)
  ELSE LET rule == CHOOSE r \in Deciding(call) : TRUE
       IN  IF Headless /\ rule.decision = "ask" THEN "deny" ELSE rule.decision

-----------------------------------------------------------------------------
(***************************************************************************)
(* Prepare.                                                                  *)
(***************************************************************************)

ToolInit ==
  /\ options \in Options
  /\ leads = "source"
  /\ content = [place \in InRoot |-> CHOOSE c \in Content : TRUE]
  /\ changes = 0 /\ clock = 0 /\ calls = 0
  /\ grants = {} /\ used = {} /\ handed = {}
  /\ worker = [w \in Worker |-> Resting]
  /\ done = {}

WorkerAt(w, step)  == worker[w].at = step
WorkerGoes(w, to)  == worker' = [worker EXCEPT ![w] = to]
Rests(w)     == WorkerGoes(w, Resting)

\* PathGuard.Resolve: the places a call for reading or for writing may be about.
Resolves(effect) == IF effect = "write" THEN InRoot \ {"secret"} ELSE InRoot

\* PrepareCall; a recovered call is the first of its run, and differs only in
\* how it is authorized.
Prepares(w, tool, command, place, hash) ==
  /\ WorkerAt(w, "rest") /\ calls < MaxCalls
  /\ calls' = calls + 1
  /\ \E recovered \in {FALSE, calls = 0} :
       WorkerGoes(w, [at |-> "prepared", recovered |-> recovered,
                call |-> [id |-> calls + 1, tool |-> tool, command |-> command, place |-> place, hash |-> hash]])
  /\ UNCHANGED <<options, leads, content, changes, clock, grants, used, handed, done>>

PrepareRead(w)   == leads \in Resolves("read") /\ Prepares(w, "read_file", None, leads, content[leads])
PrepareList(w)   == leads \in Resolves("read") /\ Prepares(w, "list_files", None, leads, None)
PrepareSearch(w) == leads \in Resolves("read") /\ Prepares(w, "search_text", None, leads, None)
PrepareEdit(w)   == leads \in Resolves("write") /\ Prepares(w, "edit_file", None, leads, content[leads])
PrepareTodos(w)  == Prepares(w, "write_todos", None, None, None)
PrepareShell(w)  ==
  /\ leads \in Resolves("read")
  /\ \E command \in {"listed", "other"} : Prepares(w, "shell", command, leads, None)

-----------------------------------------------------------------------------
(***************************************************************************)
(* Authorize, Reauthorize.                                                   *)
(***************************************************************************)

\* authority.cleanup
Remembered == {u \in used : clock < u.until}

\* authority.issue, for the call as it was prepared.
Issue(w, by) ==
  LET capability == [nonce |-> Cardinality(handed) + 1, call |-> worker[w].call, until |-> clock + Lifetime]
  IN  /\ grants' = grants \cup {capability}
      /\ used' = Remembered
      /\ handed' = handed \cup {[capability |-> capability, by |-> by]}
      /\ WorkerGoes(w, [at |-> "granted", call |-> worker[w].call])

Authorize(w) ==
  /\ WorkerAt(w, "prepared")
  /\ LET decision == Evaluate(worker[w].call)
     IN  \/ /\ decision = "allow" /\ ~worker[w].recovered
            /\ Issue(w, "policy")
         \/ /\ decision = "ask" \/ (decision = "allow" /\ worker[w].recovered)
            /\ IF Headless THEN Rests(w) ELSE WorkerGoes(w, [at |-> "asking", call |-> worker[w].call])
            /\ UNCHANGED <<grants, used, handed>>
         \/ decision = "deny" /\ Rests(w) /\ UNCHANGED <<grants, used, handed>>
  /\ UNCHANGED <<options, leads, content, changes, clock, calls, done>>

\* Broker.Decide; an edited call is prepared again, a broker's error ends it.
Answer(w) ==
  /\ WorkerAt(w, "asking")
  /\ \E choice \in {"approve", "reject", "edit", "error"} :
       IF choice = "approve" THEN Issue(w, "user") ELSE Rests(w) /\ UNCHANGED <<grants, used, handed>>
  /\ UNCHANGED <<options, leads, content, changes, clock, calls, done>>

-----------------------------------------------------------------------------
(***************************************************************************)
(* Execute.                                                                  *)
(***************************************************************************)

\* grantMatches; the rest of a capability is a copy of the grant.
GrantMatches(grant, call) == grant.call = call

StillGranted(grant) == {grant}     \* mutant: a consumed grant stays

\* What a successful Consume leaves of its grant.
LeftOf(grant) == {}

\* authority.Consume: an unknown, used or expired nonce and another call are refused.
Consume(w, capability) ==
  LET known == {grant \in grants : grant.nonce = capability.nonce}
  IN  \/ \E grant \in known :
           IF clock >= grant.until
           THEN /\ grants' = grants \ {grant} /\ used' = Remembered \cup {grant}
                /\ Rests(w)
           ELSE IF GrantMatches(grant, worker[w].call)
           THEN /\ grants' = (grants \ {grant}) \cup LeftOf(grant) /\ used' = Remembered \cup {grant}
                /\ WorkerGoes(w, [at |-> "entered", call |-> worker[w].call, nonce |-> capability.nonce, since |-> clock])
           ELSE Rests(w) /\ used' = Remembered /\ UNCHANGED grants
      \/ known = {} /\ Rests(w) /\ used' = Remembered /\ UNCHANGED grants

CheckCapability(w) ==
  /\ WorkerAt(w, "granted")
  /\ \E given \in handed : Consume(w, given.capability)
  /\ UNCHANGED <<options, leads, content, changes, clock, calls, handed, done>>

Entered(w, tool) == WorkerAt(w, "entered") /\ worker[w].call.tool = tool

\* The tool acts, or one of its checks fails; its caller may present a
\* capability for the same call again.
Acts(w, allowed) ==
  /\ done' = IF allowed THEN done \cup {[nonce |-> worker[w].nonce, since |-> worker[w].since, call |-> worker[w].call,
                                         place |-> leads, content |-> IF leads \in InRoot THEN content[leads] ELSE None]}
             ELSE done
  /\ \/ Rests(w)
     \/ WorkerGoes(w, [at |-> "granted", call |-> worker[w].call])
  /\ UNCHANGED <<options, leads, content, changes, clock, calls, grants, used, handed>>

\* ensureSamePreparedPath, CheckPreconditions
SamePath(w)    == leads = worker[w].call.place
SameContent(w) == leads \in InRoot /\ content[leads] = worker[w].call.hash

ExecuteRead(w)   == Entered(w, "read_file") /\ Acts(w, leads \in Resolves("read") /\ SameContent(w))
ExecuteList(w)   == Entered(w, "list_files") /\ Acts(w, leads \in Resolves("read"))
ExecuteSearch(w) == Entered(w, "search_text") /\ Acts(w, leads \in Resolves("read"))
ExecuteEdit(w)   == Entered(w, "edit_file") /\ Acts(w, leads \in Resolves("write") /\ SamePath(w) /\ SameContent(w))
ExecuteShell(w)  == Entered(w, "shell") /\ Acts(w, leads \in Resolves("read") /\ SamePath(w))
ExecuteTodos(w)  == Entered(w, "write_todos") /\ Acts(w, TRUE)

-----------------------------------------------------------------------------
(***************************************************************************)
(* The user's changes, and time.                                             *)
(***************************************************************************)

Changes ==
  /\ changes < MaxChanges /\ changes' = changes + 1
  /\ \/ leads' \in Place \ {leads} /\ UNCHANGED content
     \/ leads \in InRoot /\ \E c \in Content : content' = [content EXCEPT ![leads] = c] /\ content' # content /\ UNCHANGED leads
  /\ UNCHANGED <<options, clock, calls, grants, used, handed, worker, done>>

Tick ==
  /\ clock < MaxClock /\ clock' = clock + 1
  /\ UNCHANGED <<options, leads, content, changes, calls, grants, used, handed, worker, done>>

WorkerStep(w) ==
  \/ PrepareRead(w) \/ PrepareList(w) \/ PrepareSearch(w) \/ PrepareEdit(w) \/ PrepareTodos(w) \/ PrepareShell(w)
  \/ Authorize(w) \/ Answer(w) \/ CheckCapability(w)
  \/ ExecuteRead(w) \/ ExecuteList(w) \/ ExecuteSearch(w) \/ ExecuteEdit(w) \/ ExecuteTodos(w) \/ ExecuteShell(w)

ToolNext == (\E w \in Worker : WorkerStep(w)) \/ Changes \/ Tick

ToolSpec == ToolInit /\ [][ToolNext]_toolVars

-----------------------------------------------------------------------------
(***************************************************************************)
(* Properties.                                                               *)
(***************************************************************************)

\* What nobody needs to be asked about.
Unasked(call) ==
  \/ call.tool \in {"read_file", "list_files", "search_text"} /\ call.place # "secret"
  \/ call.tool = "write_todos"
  \/ call.tool = "edit_file" /\ (IF options.eval.on THEN options.eval.allowEdit ELSE options.allowEdit)
  \/ call.tool = "shell" /\ call.command = "listed"

\* Every effect there has been was granted once, to exactly that call, and not
\* too long before; by the user, unless it is one of those the run was started
\* to allow; never by a user who is not there.  It stays in the project, writes
\* no protected file nor one outside an evaluation's list, and a read, an edit
\* and a command find the path, and the first two the content, that was shown.
\* (A listing and a search are only promised to stay in the project.)
OnlyGrantedCallsExecute ==
  /\ \A e \in done, f \in done : e.nonce = f.nonce => e = f
  /\ \A e \in done :
       /\ \E given \in handed :
            /\ given.capability.nonce = e.nonce /\ given.capability.call = e.call
            /\ e.since < given.capability.until
            /\ given.by = "user" => ~Headless
            /\ given.by = "policy" => Unasked(e.call)
       /\ e.call.tool # "write_todos" => e.place \in InRoot
       /\ e.call.tool = "edit_file" =>
            /\ e.place # "secret"
            /\ options.eval.on => e.place \in options.eval.changes
       /\ e.call.tool \in {"edit_file", "shell"} => e.place = e.call.place
       /\ e.call.tool \in {"read_file", "edit_file"} => e.content = e.call.hash
=============================================================================
