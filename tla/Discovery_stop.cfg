CONSTANTS
    r1 = r1
    r2 = r2
    u1 = u1
    u2 = u2
    w1 = w1
    w2 = w2
    Calls = {r1, u1}
    RestCalls = {r1}
    Buses <- MCBuses
    BusOf <- MCBusOf
    NameOf <- MCNameOf
    MessageOf <- MCFresh
    Workers = {w1}
    Inputs <- MCGoodInputs
    Outputs = {"out"}
    Errors = {"BadInput", "unreachable"}
    BadInput = "BadInput"
    MaxStarts = 1
    None = None
SPECIFICATION Spec
PROPERTY StopStopsDispatcher
CHECK_DEADLOCK FALSE
