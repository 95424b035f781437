\* Three runs that die, are cancelled or end anywhere, and the resumes between them.
SPECIFICATION SessionSpec
CONSTANTS
    None = None
    Reads = {r}
    Writes = {w}
    Commands = {x}
    Request <- MCRequest
    RepeatedLimit = 3
    MaxTurns = 1
    MaxToolCalls = 3
    MaxCommandCalls = 2
    MaxAnswerCalls = 1
    MaxRuns = 3
    MaxFaults = 0
INVARIANTS
    EffectsOnce
    ModelKnowsEffects
    EndedRunsResume
CHECK_DEADLOCK FALSE
