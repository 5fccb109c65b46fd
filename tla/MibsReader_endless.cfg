CONSTANTS
    None = None
    Noise <- MCNoise
    Root = "SNMPv2-SMI"
    Agents <- MCAgents
    Jobs = {"mibs", "assets"}
    Requests <- MCRequests
SPECIFICATION FairSpec
PROPERTY JobEnds
CHECK_DEADLOCK FALSE
