CONSTANTS
    e1 = e1
    e2 = e2
    e3 = e3
    w1 = w1
    w2 = w2
    Event = {e1, e2, e3}
    Worker = {w1}
    Kind <- MCLetters
    Reply <- MCAnswer
    History = {}
    Op = {"filters"}
    MaxAttempts = 2
    MaxContent = 2
    NoEvent = NoEvent
SPECIFICATION Spec
INVARIANT ExternalNeverAsked
CHECK_DEADLOCK FALSE
