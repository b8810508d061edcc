CONSTANTS
    Topic = {"tasks"}
    Client = {c1}
    Installation <- MCInstallation
    Cap = 2
    AllEvery = 2
    MaxChange = 1
    NoClient = NoClient
SPECIFICATION FairSpec
INVARIANT SignalKept
PROPERTY EventuallyFresh
CHECK_DEADLOCK FALSE
