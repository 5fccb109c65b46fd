CONSTANT Devices <- MCDevices
SPECIFICATION Spec
INVARIANT TypeOK
INVARIANT WebServerIsNotMistaken
INVARIANT ClosedLocalPortIsRejected
INVARIANT NothingIsMissed
INVARIANT StallsAreBounded
PROPERTY ImplementsProbeJob
CHECK_DEADLOCK FALSE
