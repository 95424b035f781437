--------------------------- MODULE MCComponents ---------------------------
(***************************************************************************)
(* Eleven components that share no state, explored side by side: a         *)
(* behaviour is one of the component named by part, and the others rest.   *)
(* So the state space is the sum of theirs, not their product, and no step *)
(* of one stands between two steps of another that could tell.             *)
(***************************************************************************)
EXTENDS SessionView, SessionContext, ToolAuthorization, ShellProcess, ModelRequest, Reflection,
        StoreOpening, RequestBudget, ConfigLayers, SkillCatalog, TrustedMemory, TLC

CONSTANTS p1, p2, m1, v1, v2, w2

VARIABLE part

vars == <<part, viewVars, contextVars, toolVars, shellVars, requestVars, reflectionVars,
          openingVars, budgetVars, configVars, skillVars, memoryVars>>

MCProcess == {p1, p2}

\* Who is who does not matter to any of them.
MCSymmetry == Permutations(MCProcess)

\* A private fact, a run and a call, and a usage that fits once.
MCFact ==
  {[kind |-> "private", of |-> 0], [kind |-> "run.started", of |-> "r1"],
   [kind |-> "tool.completed", of |-> "c1"], [kind |-> "usage.updated", of |-> 2]}

\* The first message of a source takes more than one page.
MCBytes == [n \in 1..MaxMessages |-> IF n = 2 THEN 3 ELSE 1]

\* A terminal whose user allowed commands; a script that allows edits; an
\* evaluation that may do everything to the source files.
MCOptions ==
  {[mode |-> "interactive", allowEdit |-> FALSE, commands |-> TRUE, profile |-> FALSE, eval |-> NoEval],
   [mode |-> "headless", allowEdit |-> TRUE, commands |-> FALSE, profile |-> TRUE, eval |-> NoEval],
   [mode |-> "headless", allowEdit |-> FALSE, commands |-> FALSE, profile |-> TRUE,
    eval |-> [effects |-> {"read", "write", "execute"}, allowEdit |-> TRUE, commands |-> TRUE,
              changes |-> {"source"}, on |-> TRUE]]}

\* An estimate that just fits, a usage that makes no sense, and a negative one.
MCPrice == [input |-> 2, cached |-> 1, output |-> 3]
MCUsage ==
  {[input |-> 2, output |-> 1, cached |-> 1], [input |-> 1, output |-> 0, cached |-> 2],
   [input |-> 0, output |-> -1, cached |-> 0]}

MCForeign ==
  {[kind |-> "memory_upgrade", about |-> m1, authority |-> "verified", status |-> "unset", complete |-> TRUE],
   [kind |-> "obsolete", about |-> m1, status |-> "approved", complete |-> TRUE]}

MCLeast == [corrections |-> 2, tools |-> 1, failures |-> 2, sessions |-> 2]

MCRow ==
  {[kind |-> "tool.completed", name |-> "edit_file", success |-> TRUE, ref |-> "none"],
   [kind |-> "tool.completed", name |-> "shell", success |-> FALSE, ref |-> "FAIL"],
   [kind |-> "run.completed", name |-> "none", success |-> TRUE, ref |-> "none"]}

\* An old binary, a new one, and one of another branch.
MCBinary == {<<v1>>, <<v1, v2>>, <<v1, w2>>}

\* Short and long texts; a summary within its bound, one beyond, one refused.
MCPrefix    == [ascii |-> 3, wide |-> 1]
MCTodos     == [ascii |-> 6, wide |-> 2]
MCWords     == {[ascii |-> 4, wide |-> 0], [ascii |-> 1, wide |-> 20]}
MCSummaries ==
  {[text |-> [ascii |-> 0, wide |-> 4], valid |-> TRUE], [text |-> [ascii |-> 0, wide |-> 20], valid |-> TRUE],
   [text |-> [ascii |-> 0, wide |-> 4], valid |-> FALSE]}
MCEntries   == <<[ascii |-> 8, wide |-> 1], [ascii |-> 0, wide |-> 2], [ascii |-> 0, wide |-> 3]>>

\* Files that name another profile, complete and lacking, that set what is
\* refused, and one that cannot be read; an environment and flags of each kind.
MCNone == [sets |-> Unset, profiles |-> Unset, refused |-> FALSE]
MCFiles ==
  {MCNone, [MCNone EXCEPT !.refused = TRUE],
   [sets |-> [profile |-> "work"], refused |-> FALSE,
    profiles |-> ("default" :> [provider |-> "a", model |-> "m1"])
                 @@ ("work" :> [provider |-> "b", model |-> "m2", timeout |-> "long"])],
   [sets |-> [mode |-> "auto-edit", turns |-> "none"], refused |-> FALSE,
    profiles |-> ("default" :> [model |-> "m3", address |-> "url"])],
   [sets |-> [profile |-> "default", turns |-> "few"], refused |-> FALSE,
    profiles |-> ("work" :> [provider |-> "c", key |-> "bad"]) @@ ("bare" :> [provider |-> "d", model |-> "m4"])]}
MCEnvironments ==
  {[sets |-> Unset, model |-> Unset],
   [sets |-> [profile |-> "work", key |-> "KEY", turns |-> "many"], model |-> [provider |-> "e", model |-> "m5"]],
   [sets |-> [mode |-> "ask", address |-> "else"], model |-> [model |-> "m6"]],
   [sets |-> [turns |-> "word"], model |-> Unset]}
MCFlags ==
  {[sets |-> Unset, model |-> Unset],
   [sets |-> [profile |-> "default", mode |-> "suggest"], model |-> [model |-> "m7"]],
   [sets |-> [profile |-> "bare", turns |-> "one"], model |-> [provider |-> "f", model |-> "m8"]]}

\* No skill at all, or the same two of the user and one of them the project's.
MCElsewhere == {<<"elsewhere">>}
MCText(name, about, size) == [name |-> name, about |-> about, size |-> size, readable |-> TRUE]
MCTexts == {MCText("a", "old", 1), MCText("a", "new", 2), MCText("b", "other", 2), MCText("b", "long", 4)}
MCListing == <<"a", "b">>
MCDisk ==
  {[p \in Path |-> NoFile],
   [p \in Path |-> IF p = <<"user", "a">> THEN File(MCText("a", "old", 1))
                   ELSE IF p = <<"project", "a">> THEN File(MCText("a", "new", 2))
                   ELSE IF p = <<"project", "b">> THEN NoFile ELSE File(MCText("b", "other", 2))]}

MCInit ==
  /\ part \in {"view", "context", "tool", "shell", "request", "reflection", "opening", "budget", "config", "skill", "memory"}
  /\ ViewInit /\ ContextInit /\ RequestInit /\ OpeningInit /\ BudgetInit /\ MemoryInit
  /\ ConfigInit /\ (part # "config" => user = MCNone /\ project = MCNone /\ environment.sets = Unset /\ flags.sets = Unset)
  /\ SkillInit /\ (part # "skill" => disk[<<"user", "a">>] = NoFile)
  /\ ShellInit /\ (part # "shell" => stubborn = {})
  /\ ToolInit /\ (part # "tool" => options = CHOOSE o \in Options : TRUE)
  /\ ReflectionInit /\ (part # "reflection" => proposals[1] = CHOOSE p \in Foreign : TRUE)

MCNext ==
  /\ UNCHANGED part
  /\ \/ part = "view" /\ ViewNext
        /\ UNCHANGED <<contextVars, toolVars, shellVars, requestVars, reflectionVars, openingVars, budgetVars, configVars, skillVars, memoryVars>>
     \/ part = "context" /\ ContextNext
        /\ UNCHANGED <<viewVars, toolVars, shellVars, requestVars, reflectionVars, openingVars, budgetVars, configVars, skillVars, memoryVars>>
     \/ part = "tool" /\ ToolNext
        /\ UNCHANGED <<viewVars, contextVars, shellVars, requestVars, reflectionVars, openingVars, budgetVars, configVars, skillVars, memoryVars>>
     \/ part = "shell" /\ ShellNext
        /\ UNCHANGED <<viewVars, contextVars, toolVars, requestVars, reflectionVars, openingVars, budgetVars, configVars, skillVars, memoryVars>>
     \/ part = "request" /\ RequestNext
        /\ UNCHANGED <<viewVars, contextVars, toolVars, shellVars, reflectionVars, openingVars, budgetVars, configVars, skillVars, memoryVars>>
     \/ part = "reflection" /\ ReflectionNext
        /\ UNCHANGED <<viewVars, contextVars, toolVars, shellVars, requestVars, openingVars, budgetVars, configVars, skillVars, memoryVars>>
     \/ part = "opening" /\ OpeningNext
        /\ UNCHANGED <<viewVars, contextVars, toolVars, shellVars, requestVars, reflectionVars, budgetVars, configVars, skillVars, memoryVars>>
     \/ part = "budget" /\ BudgetNext
        /\ UNCHANGED <<viewVars, contextVars, toolVars, shellVars, requestVars, reflectionVars, openingVars, configVars, skillVars, memoryVars>>
     \/ part = "config" /\ ConfigNext
        /\ UNCHANGED <<viewVars, contextVars, toolVars, shellVars, requestVars, reflectionVars, openingVars, budgetVars, skillVars, memoryVars>>
     \/ part = "skill" /\ SkillNext
        /\ UNCHANGED <<viewVars, contextVars, toolVars, shellVars, requestVars, reflectionVars, openingVars, budgetVars, configVars, memoryVars>>
     \/ part = "memory" /\ MemoryNext
        /\ UNCHANGED <<viewVars, contextVars, toolVars, shellVars, requestVars, reflectionVars, openingVars, budgetVars, configVars, skillVars>>

MCSpec == MCInit /\ [][MCNext]_vars
=============================================================================
