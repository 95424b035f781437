---------------------------- MODULE SessionResume ----------------------------
(***************************************************************************)
(* A session over several runs: a run ends or its process dies, and          *)
(* `session resume' analyzes what the two logs and the journals say          *)
(* (internal/session/resume.go, Service.AnalyzeResume) and starts a new run  *)
(* that first settles the one interrupted call, if there is one.             *)
(* The process of the earlier run is gone; SessionLedger is about resuming   *)
(* while it is not.                                                          *)
(***************************************************************************)
EXTENDS AgentRun

ASSUME NoneIsNoRecovery == None \notin Recovery

-----------------------------------------------------------------------------
\* RecoverPatchJournals: the file alone decides an incomplete journal.  The
\* user may have changed it in the meantime, put it back as it was before the
\* write, or written by hand what the write was to write.
Incomplete == {k \in Run \X Call : journal[k[1]][k[2]] = "prepared"}

Decision(found) ==
    CASE found = "post" -> "verified" [] found = "pre" -> "aborted" [] found = "other" -> "conflict"

\* `files' is what each file holds when its journal is decided.
Decided(files) ==
    [r \in Run |-> [c \in Call |->
        IF <<r, c>> \in Incomplete THEN Decision(files[<<r, c>>]) ELSE journal[r][c]]]

RecoveredJournals == {Decided(files) : files \in [Incomplete -> {"pre", "post", "other"}]}

\* The writes whose file is as it was before them: if they took place, they
\* have been undone.
Undone(j) == {k \in Incomplete : j[k[1]][k[2]] = "aborted"}

-----------------------------------------------------------------------------
\* recoveryFacts and selectRecovery.  A call is <<run, call id>>.

RecoveredByRun(r, c) == \E x \in recoveries : x.run = r /\ x.call = c   \* mutant: of the wrong run
Recovered(r, c) == \E x \in recoveries : x.source = r /\ x.call = c

RecoveryFactsClash ==
    \E x, y \in recoveries : x # y /\ (x.run = y.run \/ (x.source = y.source /\ x.call = y.call))

Undecided   == {k \in Run \X Call : approvals[k[1]][k[2]] = "pending" /\ ~Recovered(k[1], k[2])}

Interrupted == {k \in (Run \X Call) \ Undecided :
                  tools[k[1]][k[2]] \in {"proposed", "running"} /\ ~Recovered(k[1], k[2])}

KindOfSettledWrite(k, j) ==                                    \* mutant: what the journal says is ignored
    IF k \in Undecided THEN "reapprove"
    ELSE IF k[2] \in Reads THEN "retry_read"
    ELSE IF k[2] \in Writes THEN "retry_write"
    ELSE "blocked"

\* What can be done about an interrupted call: nothing, when it may have had an
\* effect that no journal settles.
KindOf(k, j) ==
    IF k \in Undecided THEN "reapprove"
    ELSE IF k[2] \in Reads THEN "retry_read"
    ELSE IF k[2] \in Writes /\ j[k[1]][k[2]] = "verified" THEN "verify_write"
    ELSE IF k[2] \in Writes /\ j[k[1]][k[2]] = "aborted" THEN "retry_write"
    ELSE "blocked"

Recoverable(k, j) == k \in Undecided \/ (tools[k[1]][k[2]] = "running" /\ KindOf(k, j) # "blocked")

Candidates == Undecided \cup Interrupted

SelectionFails(j) ==
    \/ \E k, l \in Candidates : k # l
    \/ \E k \in Candidates : ~Recoverable(k, j)

-----------------------------------------------------------------------------
\* The private context, and whether it agrees with the public facts.

IsTool(i)      == context[i].role = "tool"
IsAssistant(i) == context[i].role = "assistant"

\* Message i asks for call c.
Asks(i, c)    == IsAssistant(i) /\ c \in Range(context[i].calls)
IsResultOf(i, c) == IsTool(i) /\ context[i].calls = <<c>>

\* The calls asked for and not answered by message n.
Pending(n) ==
    {k \in Run \X Call :
        \E i \in 1..n : /\ context[i].run = k[1] /\ Asks(i, k[2])
                        /\ \A m \in i..n : ~IsResultOf(m, k[2])}

\* A result belongs to a pending call of its own run, or to the call its run recovered.
ResultFits(i) ==
    LET c == context[i].calls[1] IN
    \E k \in Pending(i - 1) :
        /\ k[2] = c
        /\ k[1] = context[i].run \/ [run |-> context[i].run, source |-> k[1], call |-> c] \in recoveries

ContextInOrder ==
    \A i \in DOMAIN context :
        IF IsTool(i) THEN ResultFits(i)
        ELSE Pending(i - 1) = {}

UserMessages(r) == Cardinality({i \in DOMAIN context : context[i].role = "user" /\ context[i].run = r})

Assistants == {i \in DOMAIN context : IsAssistant(i)}

\* The answers of the model, in their order, are of these runs.
AnswersAre(runs) ==
    /\ Cardinality(Assistants) = Len(runs)
    /\ \A i \in Assistants : runs[Cardinality({m \in Assistants : m <= i})] = context[i].run

PrivateResults  == {i \in DOMAIN context : IsTool(i)}
PublicResults   == {k \in Run \X Call : tools[k[1]][k[2]] = "completed"}

ResultsAgree ==
    /\ Cardinality(PrivateResults) = Cardinality(PublicResults)
    /\ \A k \in PublicResults : \E i \in PrivateResults :
            context[i].run = k[1] /\ context[i].calls = <<k[2]>>

\* validateResumePublicBoundaries
BoundariesAgree ==
    /\ AnswersAre(messages)
    /\ ResultsAgree
    /\ \A r \in Run : status[r] # "none" =>
            \/ UserMessages(r) = 1
            \/ UserMessages(r) = 0 /\ \E x \in recoveries : x.run = r

-----------------------------------------------------------------------------
\* The plan: the call to recover, whose arguments the context must hold, and
\* no other call left open.
NoRecovery == None

AskedIn(k) == \E i \in DOMAIN context : context[i].run = k[1] /\ Asks(i, k[2])

PlannedRecoveryOfOpenCalls(j) ==                               \* mutant: a verified write needs no recovery
    IF \A k \in Candidates : KindOf(k, j) = "verify_write" THEN NoRecovery
    ELSE LET k == CHOOSE k \in Candidates : TRUE
         IN [source |-> k[1], call |-> k[2], kind |-> KindOf(k, j)]

PlannedRecovery(j) ==
    IF Candidates = {} THEN NoRecovery
    ELSE LET k == CHOOSE k \in Candidates : TRUE
         IN [source |-> k[1], call |-> k[2], kind |-> KindOf(k, j)]

OpenCallsCovered ==
    Pending(Len(context)) = {} \/ Pending(Len(context)) = Candidates

CanResume(j) ==
    /\ context # <<>>
    /\ ~RecoveryFactsClash
    /\ ~SelectionFails(j)
    /\ BoundariesAgree
    /\ \A r \in Run : UserMessages(r) <= 1
    /\ \A k \in Candidates : AskedIn(k)
    /\ ContextInOrder
    /\ OpenCallsCovered

\* The journals are decided whether or not the session can be resumed.
Resume ==
    /\ ~Active
    /\ \E j \in RecoveredJournals :
        /\ journal' = j /\ effects' = effects \ Undone(j)
        /\ IF run < MaxRuns /\ CanResume(j)
           THEN \E done \in BOOLEAN : NewRun(run + 1, PlannedRecovery(j), done)
           ELSE UNCHANGED <<requestVars, stateVars, recovery, todo, failed, pc, ctxDone, ending>>
    /\ UNCHANGED <<context, publicVars, faults>>

\* The process dies.
Crash ==
    /\ Active /\ pc' = "dead"
    /\ UNCHANGED <<sessionVars, requestVars, stateVars, recovery, todo, failed, ctxDone, ending, faults>>

SessionNext == Next \/ Crash \/ Resume

SessionSpec == Init /\ [][SessionNext]_vars

-----------------------------------------------------------------------------
(***************************************************************************)
(* A call of a write or command tool takes effect at most once in the       *)
(* session, however often the run that executes it dies, is cancelled or    *)
(* cannot write, and however often the session is resumed.  A write takes   *)
(* effect again only after the user had undone it: `effects' keeps the      *)
(* effects nobody had undone when a resume looked at their file.            *)
(***************************************************************************)
EffectsOnce ==
    \A x, y \in effects : x[2] = y[2] => x = y

(***************************************************************************)
(* When the model is asked, every effect the session had so far is in the   *)
(* conversation: the call that had it has a result there, be it a failure.  *)
(***************************************************************************)
ModelKnowsEffects ==
    pc = "answer" =>
        \A x \in effects : \E i \in DOMAIN context : IsResultOf(i, x[2])

(***************************************************************************)
(* A tool result answers a call of the model exactly once: resuming never   *)
(* executes and answers again what tool.completed already answered.         *)
(***************************************************************************)
ResultsPairUp ==
    \A i, m \in PrivateResults : context[i].calls = context[m].calls => i = m

(***************************************************************************)
(* A run that recorded its task and wrote its terminal event, every write   *)
(* having succeeded, can be resumed with nothing to recover: the two logs   *)
(* agree wherever a run may end.  Left out: calls of the model that a limit *)
(* left unanswered, an approval nobody decided, and the sessions a resume   *)
(* already made to answer a call twice.                                     *)
(***************************************************************************)
EndedRunsResume ==
    /\ pc = "returned" /\ status[run] \in Terminal /\ faults = 0
    /\ UserMessages(run) = 1 /\ Pending(Len(context)) = {} /\ Undecided = {} /\ ResultsPairUp
    => \A j \in RecoveredJournals : CanResume(j) /\ PlannedRecovery(j) = NoRecovery

=============================================================================
