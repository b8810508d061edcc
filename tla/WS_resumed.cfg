SPECIFICATION PatientSpec
CONSTANTS
    MaxVersion = 2
    MaxFault = 1
PROPERTY AllResumed
CHECK_DEADLOCK FALSE
