---------------------------- MODULE MCDiscovery ----------------------------
(* Instances of Discovery for TLC.                                         *)
EXTENDS Discovery

CONSTANTS
    r1, r2,   \* calls made by two REST handlers
    u1, u2,   \* calls made by a direct user of the bus
    w1, w2

(* Every REST handler connects a bus of its own, all of them by the same   *)
(* name; the direct user has one bus for all its calls.                    *)
MCBusOf == [c \in Calls |-> IF c \in RestCalls THEN c ELSE "user bus"]
MCBuses == {MCBusOf[c] : c \in Calls}
MCNameOf ==
    [b \in MCBuses |-> IF b \in RestCalls THEN "discovery_rest" ELSE "unit-test"]

MCFresh == [c \in Calls |-> c]

(* The direct user changes and sends one Message object again.             *)
MCReused == [c \in Calls |-> IF c \in RestCalls THEN c ELSE "user message"]

MCInputs ==
    { [subject |-> "mibs", payload |-> "good"],
      [subject |-> "mibs", payload |-> "bad"],
      [subject |-> "other", payload |-> "good"] }

MCGoodInputs == { [subject |-> "mibs", payload |-> "good"] }
===========================================================================
