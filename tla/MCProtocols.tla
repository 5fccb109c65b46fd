---------------------------- MODULE MCProtocols ----------------------------
(* Instances of Protocols for TLC: every device there can be.               *)
EXTENDS Protocols

MCDevices ==
    [card : {"nmc", "nmcV4", "other", "none"}, props : BOOLEAN, home : BOOLEAN,
     web : {"ups", "ats", "other", "none"},
     snmp : {"open", "closed", "silent", "unreachable"},
     icmp : {"at once", "later"}]
===========================================================================
