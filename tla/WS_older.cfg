SPECIFICATION PatientSpec
CONSTANTS
    MaxVersion = 2
    MaxFault = 2
INVARIANT NeverOlder
CHECK_DEADLOCK FALSE
