\* The user cancels a run in which every write succeeds.
SPECIFICATION Spec
CONSTANTS
    None = None
    Reads = {r}
    Writes = {w}
    Commands = {x}
    Request <- MCRequest
    RepeatedLimit = 3
    MaxTurns = 2
    MaxToolCalls = 3
    MaxCommandCalls = 2
    MaxAnswerCalls = 1
    MaxRuns = 1
    MaxFaults = 0
INVARIANT
    CancelledRunsTerminate
CHECK_DEADLOCK FALSE
