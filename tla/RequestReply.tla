--------------------------- MODULE RequestReply ---------------------------
(***************************************************************************)
(* What the discovery service promises its callers, without a broker, a    *)
(* queue or a thread: a call is asked once, the service decides its result *)
(* at most once, and the caller ends either with exactly that result or    *)
(* with a failure it is told about.  Discovery.tla implements it.          *)
(***************************************************************************)

CONSTANTS
    Calls,      \* every call a client may make
    Results,    \* what a job can answer
    Failures,   \* what a caller can be told instead
    None        \* no value yet

VARIABLES
    asked,      \* calls a client has made
    result,     \* call -> what the service decided, None before
    got         \* call -> what the caller was told, None before

absVars == <<asked, result, got>>

Init ==
    /\ asked = {}
    /\ result = [c \in Calls |-> None]
    /\ got = [c \in Calls |-> None]

Ask(c) ==
    /\ c \notin asked
    /\ asked' = asked \cup {c}
    /\ UNCHANGED <<result, got>>

(* The service decides, once, whether or not the caller still waits.       *)
Serve(c) ==
    /\ c \in asked
    /\ result[c] = None
    /\ \E r \in Results : result' = [result EXCEPT ![c] = r]
    /\ UNCHANGED <<asked, got>>

(* The caller receives the result of its own request.                      *)
Return(c) ==
    /\ c \in asked
    /\ got[c] = None
    /\ result[c] # None
    /\ got' = [got EXCEPT ![c] = result[c]]
    /\ UNCHANGED <<asked, result>>

(* The caller is told that it will not receive one.                        *)
Fail(c) ==
    /\ c \in asked
    /\ got[c] = None
    /\ \E f \in Failures : got' = [got EXCEPT ![c] = f]
    /\ UNCHANGED <<asked, result>>

Next == \E c \in Calls : Ask(c) \/ Serve(c) \/ Return(c) \/ Fail(c)

Spec == Init /\ [][Next]_absVars
===========================================================================
