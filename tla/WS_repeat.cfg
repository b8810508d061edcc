SPECIFICATION ReportedSpec
CONSTANTS
    MaxVersion = 2
    MaxFault = 1
PROPERTY RepeatWorks
CHECK_DEADLOCK FALSE
