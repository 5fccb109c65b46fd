CONSTANTS
    None = None
    Jobs = {"j1", "j2"}
    Inputs <- MCInputs
    Inventory <- MCInventory
    Number <- MCNumber
    Holes <- MCHoles
    TempDirs = {"/tmp/nut1", "/tmp/nut2"}
    SharedDir = "/tmp/nut"
    PipeSize = 1
SPECIFICATION FairSpec
INVARIANT TypeOK
INVARIANT DirectoriesAreOwn
INVARIANT DriverSpeaksAsReader
INVARIANT AnswerIsWhole
INVARIANT IdentityIsStable
INVARIANT EndpointIsReached
PROPERTY OthersEnd
CHECK_DEADLOCK FALSE
