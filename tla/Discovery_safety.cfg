CONSTANTS
    r1 = r1
    r2 = r2
    u1 = u1
    u2 = u2
    w1 = w1
    w2 = w2
    Calls = {r1, r2, u1}
    RestCalls = {r1, r2}
    Buses <- MCBuses
    BusOf <- MCBusOf
    NameOf <- MCNameOf
    MessageOf <- MCFresh
    Workers = {w1, w2}
    Inputs <- MCInputs
    Outputs = {"out"}
    Errors = {"BadInput", "unreachable"}
    BadInput = "BadInput"
    MaxStarts = 2
    None = None
SPECIFICATION Spec
INVARIANT TypeOK
INVARIANT AnswerIsOwn
INVARIANT ServedAtMostOnce
INVARIANT NoTaskWithoutBus
PROPERTY ResultIsFinal
PROPERTY ImplementsRequestReply
CHECK_DEADLOCK FALSE
