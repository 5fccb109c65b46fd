CONSTANT Devices <- MCDevices
SPECIFICATION Spec
INVARIANT ClosedPortIsRejected
CHECK_DEADLOCK FALSE
