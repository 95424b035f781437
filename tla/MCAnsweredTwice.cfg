\* A run cancelled while it waits for an approval, and the resume after it.
SPECIFICATION SessionSpec
CONSTANTS
    None = None
    Reads = {r}
    Writes = {w}
    Commands = {x}
    Request <- MCRequest
    RepeatedLimit = 3
    MaxTurns = 1
    MaxToolCalls = 3
    MaxCommandCalls = 2
    MaxAnswerCalls = 1
    MaxRuns = 2
    MaxFaults = 0
INVARIANT
    ResultsPairUp
CHECK_DEADLOCK FALSE
