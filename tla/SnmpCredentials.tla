-------------------------- MODULE SnmpCredentials --------------------------
(***************************************************************************)
(* What the wallet knows of how to speak SNMP with a device, translated    *)
(* twice and by different code: by snmp::Session into what net-snmp takes, *)
(* for the MIBs, and by nut::Process into what a NUT driver takes.         *)
(*                                                                         *)
(* A document is [kind, level, auth, priv], the last three as the wallet   *)
(* names them; they only count when kind is "snmpv3".  Names, passwords    *)
(* and the keys made of them are copied and left out here.                 *)
(***************************************************************************)
EXTENDS Naturals

(* uint16_t; and SNMP's own port.                                          *)
Ports == {n \in Nat : n < 65536}
SnmpPort == 161

Documents ==
    [kind  : {"snmpv3", "snmpv1", "password"},
     level : {"NO_AUTH_NO_PRIV", "AUTH_NO_PRIV", "AUTH_PRIV", "MAX_SECURITY_LEVEL"},
     auth  : {"MD5", "SHA", "MAX_AUTH_PROTOCOL"},
     priv  : {"DES", "AES", "MAX_PRIV_PROTOCOL"}]

(***************************************************************************)
(* snmp::Session: net-snmp's numbers, 0 for what was never set.            *)
(***************************************************************************)

SessionLevel(lvl) ==
    CASE lvl = "NO_AUTH_NO_PRIV" -> 1 [] lvl = "AUTH_NO_PRIV" -> 2
      [] lvl = "AUTH_PRIV" -> 3 [] OTHER -> 0

SessionAuth(prot) ==
    CASE prot = "MD5" -> "usmHMACMD5" [] prot = "SHA" -> "usmHMACSHA1" [] OTHER -> "none"

SessionPriv(prot) ==
    CASE prot = "DES" -> "usmDES" [] prot = "AES" -> "usmAES" [] OTHER -> "none"

Sessions ==
    [version : {"unset", "v1", "v3"}, level : 0..3,
     auth : {"usmHMACMD5", "usmHMACSHA1", "none"},
     priv : {"usmDES", "usmAES", "none"}, port : Ports]

NewSession(port) ==
    [version |-> "unset", level |-> 0, auth |-> "none", priv |-> "none", port |-> port]

SessionCommunity(session) == [session EXCEPT !.version = "v1"]

(* A document of another kind leaves the session as it was.                *)
SessionCredentials(session, doc) ==
    CASE doc.kind = "snmpv3" ->
            [version |-> "v3", level |-> SessionLevel(doc.level),
             auth |-> SessionAuth(doc.auth), priv |-> SessionPriv(doc.priv),
             port |-> session.port]
      [] doc.kind = "snmpv1" -> SessionCommunity(session)
      [] OTHER -> session

(***************************************************************************)
(* nut::Process: arguments and environment of the driver, "" for those it  *)
(* is not given.                                                           *)
(***************************************************************************)

DriverLevel(lvl) ==
    CASE lvl = "NO_AUTH_NO_PRIV" -> "noAuthNoPriv" [] lvl = "AUTH_NO_PRIV" -> "authNoPriv"
      [] lvl = "AUTH_PRIV" -> "authPriv" [] OTHER -> ""

DriverAuth(prot) == IF prot \in {"MD5", "SHA"} THEN prot ELSE ""

DriverPrivShifted(prot) == IF prot \in {"DES", "AES"} THEN "DES" ELSE ""

DriverPriv(prot) == IF prot \in {"DES", "AES"} THEN prot ELSE ""

Arguments ==
    [version : {"", "v1", "v3"}, level : {"", "noAuthNoPriv", "authNoPriv", "authPriv"},
     auth : {"", "MD5", "SHA"}, priv : {"", "DES", "AES"}, port : Ports,
     accounts : SUBSET {"wallet account", "account"}]

NewDriver == [version |-> "", level |-> "", auth |-> "", priv |-> "", port |-> 0, accounts |-> {}]

DriverCommunity(args) == [args EXCEPT !.version = "v1"]

DriverCredentials(args, doc) ==
    CASE doc.kind = "snmpv3" ->
            [version |-> "v3", level |-> DriverLevel(doc.level),
             auth |-> DriverAuth(doc.auth), priv |-> DriverPriv(doc.priv),
             port |-> args.port, accounts |-> args.accounts]
      [] doc.kind = "snmpv1" -> DriverCommunity(args)
      [] OTHER -> args

(***************************************************************************)
(* What snmp-ups makes of its arguments.                                   *)
(***************************************************************************)

DriverSession(args) ==
    [version |-> args.version,
     level |-> CASE args.level = "noAuthNoPriv" -> 1 [] args.level = "authNoPriv" -> 2
                 [] args.level = "authPriv" -> 3 [] OTHER -> 0,
     auth |-> CASE args.auth = "MD5" -> "usmHMACMD5" [] args.auth = "SHA" -> "usmHMACSHA1"
                [] OTHER -> "none",
     priv |-> CASE args.priv = "DES" -> "usmDES" [] args.priv = "AES" -> "usmAES"
                [] OTHER -> "none",
     port |-> args.port]
=============================================================================
