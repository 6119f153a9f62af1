CONSTANTS
    Short = {p}
    Long = {r}
    Request <- MCRequest
    Size <- MCSize
    NoId = NoId
    Limit = 2
    MaxRestarts = 0
SPECIFICATION Spec
CHECK_DEADLOCK FALSE
INVARIANTS
    LostAfterInterruption
