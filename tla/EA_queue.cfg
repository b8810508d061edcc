CONSTANTS
    e1 = e1
    e2 = e2
    e3 = e3
    w1 = w1
    w2 = w2
    Event = {e1, e2}
    Worker = {w1, w2}
    Kind <- MCMeeting
    Reply <- MCNoReply
    History = {}
    Op = {"change", "crash", "filters", "identity", "upgrade"}
    MaxAttempts = 1
    MaxContent = 2
    NoEvent = NoEvent
SPECIFICATION Spec
INVARIANTS OneAnalyst FreshResult AnnouncedOnce InvitationKept
SYMMETRY MCSymmetry
CHECK_DEADLOCK FALSE
