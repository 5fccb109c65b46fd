-------------------------- MODULE AssetAttributes --------------------------
(***************************************************************************)
(* What job::Assets answers with: the text a driver printed, split into    *)
(* the devices of a chain, mapped to asset attributes and enriched with    *)
(* what the request and the values tell.                                   *)
(*                                                                         *)
(* A key is [chain, name, num]: chain is the digits of N when the key      *)
(* starts with "device.N.", and empty otherwise; name is the rest, with #  *)
(* for the last number in it, and num the digits of that number.           *)
(***************************************************************************)
EXTENDS SnmpCredentials, Integers, Sequences, TLC

CONSTANTS
    Inventory,  \* mapping.conf, inventoryMapping: name -> attribute
    Number,     \* the strings that are numbers -> their values
    None

(* No name makes an attribute enrichAsset adds that is looked up later.    *)
(* Several may make the same one: what mapping.conf holds is not ours.     *)
ASSUME InventoryAssumption ==
    /\ "" \notin DOMAIN Inventory
    /\ \A n \in DOMAIN Inventory : Inventory[n] \notin {"port", "daisy_chain"}

(* A chain has less than a hundred devices, and no number is empty.        *)
ASSUME NumberAssumption ==
    \A text \in DOMAIN Number :
        /\ Number[text] \in Int /\ Number[text] < 100
        /\ \A i \in 1..Number[text] : ToString(i) # ""

Keys  == [chain : Seq(Nat), name : STRING, num : Seq(Nat)]
Rows  == [key : Keys, value : STRING]
Lines == Seq(Rows)

Digits(i) == IF i < 10 THEN <<i>> ELSE <<i \div 10, i % 10>>

Named(name) == [chain |-> <<>>, name |-> name, num |-> <<>>]

(* tmpMap: of two lines with one key the first counts.                     *)
Dictionary(lines) ==
    [k \in {lines[i].key : i \in DOMAIN lines} |->
        LET first == CHOOSE i \in DOMAIN lines : lines[i].key = k
                        /\ \A h \in 1..(i - 1) : lines[h].key # k
        IN  lines[first].value]

ValueOf(dict, key) == IF key \in DOMAIN dict THEN dict[key] ELSE ""

CountOf(dict) ==
    LET count == ValueOf(dict, Named("device.count"))
    IN  IF count \in DOMAIN Number THEN Number[count] ELSE 0

(* Mapper::mapKey, with the names the mapping has by then.  Only the last  *)
(* number is taken for a #, so a key of a chain with another number in it  *)
(* is unknown as a whole.  A key that is not mapped with its # is looked   *)
(* up once more as it is: that finds the names of the mapping with a       *)
(* number of their own, which Inventory has none of.                       *)
LookedUp(key) ==
    IF key.chain = <<>> THEN key.name
    ELSE IF key.num = <<>> THEN "device.#." \o key.name ELSE ""

NumberIn(key) == IF key.chain = <<>> THEN key.num ELSE key.chain

AddAssetVal(attr, num, value, readOnly) ==
    [attr |-> attr, num |-> num, value |-> value, readOnly |-> readOnly]

(* One entry of ext for each key of a device that the mapping knows.       *)
Suffix(key) == [key EXCEPT !.chain = <<>>]

Mapped(dict, keys, inChain, names) ==
    LET stripped(k) == IF inChain THEN Suffix(k) ELSE k
    IN  {AddAssetVal(Inventory[LookedUp(stripped(k))], NumberIn(stripped(k)),
                     dict[k], TRUE) :
            k \in {k \in keys : LookedUp(stripped(k)) \in names}}

(* What an asset is told apart by.                                         *)
IdentityAttrs == {"manufacturer", "model", "serial_no"}

(* The first entry with the attribute, in the order of the driver's keys,  *)
(* which ext does not keep: any fixed one of them.                         *)
Has(ext, attr)  == \E e \in ext : e.attr = attr
Find(ext, attr) == (CHOOSE e \in ext : e.attr = attr).value

(***************************************************************************)
(* enrichAsset.                                                            *)
(***************************************************************************)

SubtypeKept(type, ext) ==
    IF type = "" /\ Has(ext, "device.type") THEN Find(ext, "device.type") ELSE type

(* NUT's names of two types are changed, wherever the type came from.      *)
Subtype(type, ext) ==
    LET found == SubtypeKept(type, ext)
    IN  CASE found = "pdu" -> "epdu" [] found = "ats" -> "sts" [] OTHER -> found

(* A hash of the three strings in a row; a random number when one of them  *)
(* is empty.                                                               *)
NoUuid == [kind |-> "none", of |-> ""]

GenerateUUID(manufacturer, model, serial) ==
    IF "" \notin {manufacturer, model, serial}
    THEN [kind |-> "hash", of |-> manufacturer \o model \o serial]
    ELSE [kind |-> "random", of |-> ""]

UuidOfSome(ext) ==
    LET part(attr) == IF Has(ext, attr) THEN Find(ext, attr) ELSE "unknown"
    IN  GenerateUUID(part("manufacturer"), part("model"), part("serial_no"))

Uuid(ext) ==
    IF \A attr \in IdentityAttrs : Has(ext, attr)
    THEN GenerateUUID(Find(ext, "manufacturer"), Find(ext, "model"),
                      Find(ext, "serial_no"))
    ELSE NoUuid

MaxPower(ext) ==
    IF Has(ext, "realpower.nominal") THEN {Find(ext, "realpower.nominal")}
    ELSE IF Has(ext, "realpower.default.nominal")
    THEN {Find(ext, "realpower.default.nominal")} ELSE {}

(* m_params.port, which SNMP has a value for when the request has none.    *)
PortAsked(r) == IF r.port # None THEN r.port ELSE 0

Port(r) ==
    IF r.port # None THEN r.port ELSE IF r.protocol = "nut_snmp" THEN SnmpPort ELSE 0

(* What the request says of how to reach the device.                       *)
SnmpEndpoint(r) ==
    {AddAssetVal(attr, <<>>, "", FALSE) : attr \in
        (IF r.credentialId # None THEN {"secw_credential_id"} ELSE {})
        \cup (IF r.community THEN {"community"} ELSE {}) \cup {"MIB"}}

DaisyChain(subAddress, subtype) ==
    IF subtype = "epdu"
    THEN {AddAssetVal("daisy_chain", <<>>, IF subAddress = "" THEN "0" ELSE subAddress, TRUE)}
    ELSE {}

Enriched(subAddress, type, ext, r) ==
    LET subtype == Subtype(type, ext)
    IN  [subAddress |-> subAddress, subtype |-> subtype, uuid |-> Uuid(ext),
         ext |-> ext
            \cup {AddAssetVal("protocol", <<>>, r.protocol, FALSE),
                  AddAssetVal("port", <<>>, ToString(Port(r)), FALSE),
                  AddAssetVal("sub_address", <<>>, subAddress, FALSE)}
            \cup {AddAssetVal("max_power", <<>>, p, FALSE) : p \in MaxPower(ext)}
            \cup (IF r.protocol = "nut_snmp" THEN SnmpEndpoint(r) ELSE {})
            \cup DaisyChain(subAddress, subtype)]

(***************************************************************************)
(* parse.                                                                  *)
(***************************************************************************)

StartsWithDigits(key, i) ==
    /\ Len(key.chain) >= Len(Digits(i))
    /\ SubSeq(key.chain, 1, Len(Digits(i))) = Digits(i)

(* The key starts with "device.i.": the dot ends the number.               *)
InChain(key, i) == key.chain = Digits(i)

(* A device.count above one makes a chain; keys of no device are left out  *)
(* then.  Otherwise there is one asset, of all keys.                       *)
Parse(lines, names, r) ==
    LET dict  == Dictionary(lines)
        type  == ValueOf(dict, Named("device.type"))
        count == CountOf(dict)
        own(i) == {k \in DOMAIN dict : InChain(k, i)}
    IN  IF count > 1
        THEN [i \in 1..count |->
                Enriched(ToString(i), type, Mapped(dict, own(i), TRUE, names), r)]
        ELSE <<Enriched("", type, Mapped(dict, DOMAIN dict, FALSE, names), r)>>
=============================================================================
