CONSTANTS
    Object = {o1}
    Endpoint = {e1, e2}
    Worker = {w1, w2}
    ImportantKind = {"NEW_TASK"}
    OtherKind = {}
    Mode = {"immediate"}
    Window <- MCWindow
    Interval <- MCInterval
    TTL = 2
    RetryDelay = 1
    Fresh = 2
    Retention = 0
    Day = 6
    QuietStart = 4
    QuietEnd = 5
    Churn = {"devices"}
    MaxTime = 5
    MaxSerial = 2
SPECIFICATION Spec
INVARIANTS StableNotice AcceptedWasSent NoResend
PROPERTIES QuietAtProvider
SYMMETRY MCSymmetry
CHECK_DEADLOCK FALSE
