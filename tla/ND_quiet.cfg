CONSTANTS
    Object = {o1}
    Endpoint = {e1}
    Worker = {w1}
    ImportantKind = {"NEW_TASK"}
    OtherKind = {}
    Mode = {"important", "digest"}
    Window <- MCWindow
    Interval <- MCInterval
    TTL = 2
    RetryDelay = 1
    Fresh = 2
    Retention = 0
    Day = 6
    QuietStart = 4
    QuietEnd = 5
    Churn = {"settings"}
    MaxTime = 4
    MaxSerial = 2
SPECIFICATION Spec
PROPERTY QuietAtProvider
CHECK_DEADLOCK FALSE
