CONSTANTS
    None = None
    Noise <- MCNoise
    Root = "SNMPv2-SMI"
    Agents <- MCAgents
    Jobs = {"mibs", "assets"}
    Requests <- MCRequests
SPECIFICATION FairSpec
INVARIANT TypeOK
INVARIANT OpenedOnce
INVARIANT GetBudget
INVARIANT ListFitsDevice
INVARIANT DriverMibIsExact
PROPERTY JobEndsWithoutV3Walk
CHECK_DEADLOCK FALSE
