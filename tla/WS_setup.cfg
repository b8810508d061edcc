SPECIFICATION PatientSpec
CONSTANTS
    MaxVersion = 2
    MaxFault = 2
INVARIANTS
    KeysMatch
    MarksTrue
PROPERTIES
    UpgradeSafe
    Completes
CHECK_DEADLOCK FALSE
