CONSTANTS
    e1 = e1
    e2 = e2
    e3 = e3
    w1 = w1
    w2 = w2
    Event = {e1, e2, e3}
    Worker = {w1}
    Kind <- MCLetters
    Reply <- MCAnswer
    History = {}
    Op = {"change", "crash"}
    MaxAttempts = 2
    MaxContent = 2
    NoEvent = NoEvent
SPECIFICATION FairSpec
PROPERTIES FirstTurn ClaimEnds
CHECK_DEADLOCK FALSE
