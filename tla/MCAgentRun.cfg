\* One run: limits, repetitions, cancellation at every step, one failing write.
SPECIFICATION Spec
CONSTANTS
    None = None
    Reads = {r1, r2}
    Writes = {}
    Commands = {x1, x2}
    Request <- MCRequest
    RepeatedLimit = 2
    MaxTurns = 3
    MaxToolCalls = 3
    MaxCommandCalls = 1
    MaxAnswerCalls = 2
    MaxRuns = 1
    MaxFaults = 1
INVARIANTS
    LimitsHold
    SilentEndHasACause
PROPERTY
    CancelReturns
CHECK_DEADLOCK FALSE
