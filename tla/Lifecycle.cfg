CONSTANTS
    Workers = {w1}
    Main = main
    Listener = listener
    Startup = startup
    LastVersion = 2
    Bad = {2}
    Holds <- MCHolds
    MaxSignals = 2
    Torn = Torn
    None = None
SPECIFICATION FairSpec
INVARIANT TypeOK
INVARIANT QuietConfigIsWhole
INVARIANT JobSeesOneConfig
INVARIANT OneDatabase
INVARIANT OnlyKillsLitter
INVARIANT InterruptsGetThrough
PROPERTY InterruptEndsService
PROPERTY RequestIsTaken
CHECK_DEADLOCK FALSE
