CONSTANTS
    Short = {p, q}
    Long = {r}
    Request <- MCRequest
    Size <- MCSize
    NoId = NoId
    Limit = 3
    MaxRestarts = 1
SPECIFICATION Spec
CHECK_DEADLOCK FALSE
PROPERTIES
    ChannelImplementsCalls
INVARIANTS
    AnswerIsOwn
    LateInOrder
    LostAfterInterruption
