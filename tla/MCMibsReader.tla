---------------------------- MODULE MCMibsReader ----------------------------
(* Instances of MibsReader for TLC: devices with and without an object id,    *)
(* one of them unknown to the MIB database, with nothing, with noise only,    *)
(* and with both; entry 16 is that of an MGE, 17 that of a Powerware, 1 and 3 *)
(* those of an APC device, 13 of an HP one.                                   *)
EXTENDS MibsReader

MCNoise == {"IP-MIB"}

Device(oid, has, walk) == [oid |-> oid, has |-> has, walk |-> walk]

MCAgents == {
    Device("EATON-OIDS::xupsMIB", {17}, <<"IP-MIB", "XUPS-MIB">>),
    Device(None, {}, <<>>),
    Device(None, {}, <<"IP-MIB">>),
    Device(None, {1, 13, 16, 17}, <<"IP-MIB", "MG-SNMP-UPS-MIB", "XUPS-MIB", "EATON-MIB">>),
    Device("iso", {}, <<"IP-MIB">>),
    Device("IP-MIB::ip", {3}, <<"EATON-MIB", "IP-MIB">>) }

Request(credentialId, community, mib) ==
    [credentialId |-> credentialId, community |-> community, mib |-> mib]

MCRequests == {
    Request(None, FALSE, None),
    Request(None, TRUE, None),
    Request("snmpv3", TRUE, None),
    Request("snmpv1", FALSE, "UPS-MIB::upsMIB"),
    Request("password", FALSE, None) }
===========================================================================
