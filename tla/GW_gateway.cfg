SPECIFICATION Spec
CONSTANTS
    old = old
    new = new
    Phone <- MCPhone
    Old <- MCOld
    Limit = 2
    MaxId = 5
    MaxFault = 2
    Scene <- MCScene
INVARIANTS
    AskedOnce
    OneRegistration
PROPERTIES
    Undisturbed
    GatewayLive
    StreamsEnd
CHECK_DEADLOCK FALSE
