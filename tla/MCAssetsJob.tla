---------------------------- MODULE MCAssetsJob ----------------------------
(* An instance of AssetsJob for TLC: every protocol and kind of            *)
(* credentials, documents of the wrong kind and superfluous ones included; *)
(* single devices, chains of two and of ten, and a driver that prints too  *)
(* much.                                                                   *)
EXTENDS AssetsJob

Ask(protocol, credentialId, community, account, port) ==
    [protocol |-> protocol, credentialId |-> credentialId,
     community |-> community, account |-> account, port |-> port]

Document(kind, level, auth, priv) ==
    [kind |-> kind, level |-> level, auth |-> auth, priv |-> priv]

V3 == Document("snmpv3", "AUTH_PRIV", "SHA", "AES")
Unclear == Document("snmpv3", "MAX_SECURITY_LEVEL", "MD5", "MAX_PRIV_PROTOCOL")
Password == Document("password", "NO_AUTH_NO_PRIV", "MD5", "DES")

Line(chain, name, num, value) ==
    [key |-> [chain |-> chain, name |-> name, num |-> num], value |-> value]

MCInventory ==
    [name \in {"ups.mfr", "device.mfr", "ups.model", "ups.serial", "ups.type", "outlet.#.name",
               "power.nominal", "power.default"} |->
        CASE name \in {"ups.mfr", "device.mfr"} -> "manufacturer"
          [] name = "ups.model" -> "model"
          [] name = "ups.serial" -> "serial_no"
          [] name = "ups.type" -> "device.type"
          [] name = "outlet.#.name" -> "outlet.#.label"
          [] name = "power.nominal" -> "realpower.nominal"
          [] name = "power.default" -> "realpower.default.nominal"]

MCHoles == {DOMAIN MCInventory \ {"ups.mfr"},
            DOMAIN MCInventory \ {"ups.model", "power.nominal"}}

MCNumber == [text \in {"1", "2", "10"} |->
    CASE text = "1" -> 1 [] text = "2" -> 2 [] text = "10" -> 10]

Device(chain, serial) == <<
    Line(chain, "ups.mfr", <<>>, "EATON"), Line(chain, "ups.model", <<>>, "G3"),
    Line(chain, "ups.serial", <<>>, serial),
    Line(chain, "outlet.#.name", <<2>>, serial) >>

(* Its type is only among the mapped keys; one key comes twice, and its    *)
(* manufacturer has two names.                                             *)
Single == [size |-> 1, lines |->
    Device(<<>>, "F1") \o << Line(<<>>, "ups.type", <<>>, "pdu"),
        Line(<<>>, "ups.serial", <<>>, "F2"), Line(<<>>, "driver", <<>>, "x"),
        Line(<<>>, "device.mfr", <<>>, "EATON"),
        Line(<<>>, "power.nominal", <<>>, "100"), Line(<<>>, "power.default", <<>>, "50"),
        Line(<<>>, "device.count", <<>>, "1") >>]

Ten == [size |-> 1, lines |->
    << Line(<<>>, "device.type", <<>>, "pdu"), Line(<<>>, "device.count", <<>>, "10") >>
    \o Device(<<1>>, "C1") \o Device(<<1, 0>>, "C10")]

(* The first device has two manufacturers, the second does not print its   *)
(* serial number; a third one is not counted.                              *)
Two == [size |-> 1, lines |->
    << Line(<<>>, "device.type", <<>>, "ats"), Line(<<>>, "device.count", <<>>, "2"),
       Line(<<>>, "ups.mfr", <<>>, "MGE") >>
    \o << Line(<<1>>, "device.mfr", <<>>, "MGE") >>
    \o Device(<<1>>, "D1") \o Device(<<2>>, "") \o Device(<<3>>, "D3")]

Endless == [size |-> 2, lines |-> <<>>]

Input(r, text) == [request |-> r, output |-> text]

MCInputs == {
    Input(Ask("nut_snmp", V3, TRUE, FALSE, None), Ten),
    Input(Ask("nut_snmp", None, TRUE, FALSE, 65536), Ten),
    Input(Ask("nut_snmp", Unclear, FALSE, TRUE, 1161), Single),
    Input(Ask("nut_snmp", Password, FALSE, FALSE, None), Endless),
    Input(Ask("nut_xml_pdc", None, FALSE, FALSE, 8080), Two),
    Input(Ask("nut_powercom", Password, FALSE, TRUE, None), Endless) }
=============================================================================
