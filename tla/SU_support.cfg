SPECIFICATION Spec
CONSTANTS
    s1 = s1
    s2 = s2
    k1 = k1
    r1 = r1
    r2 = r2
    t1 = t1
    t2 = t2
    p1 = p1
    p2 = p2
    c1 = c1
    Sender <- MCSender
    Delivery <- MCDelivery
    MaxVersion = 2
    MaxSend = 2
    Rule <- MCRule
    Text <- MCText
    Personal <- MCPersonal
    Model <- MCModel
    Call <- MCCall
    MaxEvent = 2
    MaxRev = 2
    MaxOpen = 1
    NoRule = NoRule
    NoText = NoText
    NoPersonal = NoPersonal
    Scene <- MCScene
SYMMETRY MCSymmetry
INVARIANTS
    OnlyApproved
    DeliveryKept
    ConsentMatches
PROPERTY ManualStays
CHECK_DEADLOCK FALSE
