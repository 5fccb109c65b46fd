---------------------------- MODULE Protocols ----------------------------
(***************************************************************************)
(* job::Protocols::run: which of three protocols an address speaks.        *)
(*                                                                         *)
(* XML_PDC and GenApi are recognised by what the device's web server       *)
(* sends.  SNMP is recognised by what the kernel says when four datagrams  *)
(* are written to port 161: a closed port is only noticed when the ICMP    *)
(* error for an earlier datagram has come back before a later write.       *)
(***************************************************************************)
EXTENDS Naturals, Sequences

CONSTANT Devices   \* [card, props, home, web, snmp, icmp], see below

(* enum class Type; sortProtocols sorts by its values.                     *)
Powercom == 1
Xml      == 2
Snmp     == 3
Types    == {Powercom, Xml, Snmp}

(* card:  what product.xml says: "nmc", "nmcV4", "other", or "none"        *)
(* props: the page product.xml refers to is served                         *)
(* home:  the page / is served                                             *)
(* web:   the device-type GenApi gives: "ups", "ats", "other", or "none"   *)
(* snmp:  UDP port 161 is "open", "closed", "silent", or without a route:  *)
(*        "unreachable"                                                    *)
(* icmp:  the ICMP error for a datagram is back before the next write      *)
(*        (loopback), or whenever the network brings it                    *)
ASSUME DeviceAssumption ==
    Devices \subseteq
        [card : {"nmc", "nmcV4", "other", "none"}, props : BOOLEAN,
         home : BOOLEAN, web : {"ups", "ats", "other", "none"},
         snmp : {"open", "closed", "silent", "unreachable"},
         icmp : {"at once", "later"}]

Places == {"start", "product", "props", "snmp", "write", "powercom", "sort", "done"}

VARIABLES
    fake,       \* the address is "__fake__"
    device,     \* the device behind the address
    pc,         \* where the job is
    page,       \* the page tryXmlPdc asks for next: "props" or "home"
    stalls,     \* HTTP requests that waited for neon's timeout, 15 s
    writes,     \* datagrams written so far
    lastWrite,  \* ret: the last write succeeded
    inFlight,   \* ICMP errors on their way
    sockError,  \* an ICMP error is pending on the socket
    found,      \* protocols, in the order they were found
    lost,       \* protocols whose probe lost an answer or a resource
    told        \* "none", "error", or "ok" once out is sent

inputVars == <<fake, device>>
probeVars == <<writes, lastWrite, inFlight, sockError>>
vars == <<inputVars, pc, page, stalls, probeVars, found, lost, told>>

TypeOK ==
    /\ fake \in BOOLEAN /\ device \in Devices
    /\ pc \in Places /\ page \in {"props", "home"}
    /\ stalls \in 0..3
    /\ writes \in 0..4 /\ inFlight \in 0..4
    /\ lastWrite \in BOOLEAN /\ sockError \in BOOLEAN
    /\ lost \subseteq Types
    /\ found \in Seq(Types)
    /\ told \in {"none", "error", "ok"}

Init ==
    /\ fake \in BOOLEAN /\ device \in Devices
    /\ pc = "start" /\ page = "props" /\ stalls = 0
    /\ writes = 0 /\ lastWrite = TRUE /\ inFlight = 0 /\ sockError = FALSE
    /\ found = <<>> /\ lost = {}
    /\ told = "none"

Goto(place) == pc' = place /\ UNCHANGED <<inputVars, told>>

Skip(place) == Goto(place) /\ UNCHANGED found
Found(type, place) == Goto(place) /\ found' = Append(found, type)

(* For tests: a fixed list, unsorted.                                      *)
AnswerFake ==
    /\ pc = "start" /\ fake
    /\ found' = <<Snmp, Xml>>
    /\ pc' = "done" /\ told' = "ok"
    /\ UNCHANGED <<inputVars, page, stalls, probeVars, lost>>

(* available(): the name does not resolve or there is no route to it.      *)
NotAvailable ==
    /\ pc = "start" /\ ~fake
    /\ pc' = "done" /\ told' = "error"
    /\ UNCHANGED <<inputVars, page, stalls, probeVars, found, lost>>

Available ==
    /\ pc = "start" /\ ~fake
    /\ Skip("product")
    /\ UNCHANGED <<page, stalls, probeVars, lost>>

(***************************************************************************)
(* tryXmlPdc.                                                              *)
(***************************************************************************)

(* A request may wait for the timeout of connecting or of reading whatever *)
(* becomes of it: Neon::get takes a read that fails for the end of the     *)
(* body, and what has come until then may be all that is looked at.        *)
MayStall == stalls' \in {stalls, stalls + 1}

AcceptedAnyCard(d) == d.card \in {"nmc", "nmcV4"}

(* The card's name is one of two, and its protocol is not XML.V4.          *)
Accepted(d) == d.card = "nmc"

GetProduct ==
    /\ pc = "product"
    /\ IF Accepted(device) THEN Skip("props") ELSE Skip("snmp")
    /\ MayStall
    /\ UNCHANGED <<page, probeVars, lost>>

ProductLostGoesOn ==
    /\ pc = "product" /\ device.card # "none"
    /\ Skip("props")
    /\ lost' = lost \cup {Xml}
    /\ MayStall
    /\ UNCHANGED <<page, probeVars>>

(* The connection fails, or is cut before the root element is complete:    *)
(* there is no name to recognise.                                          *)
ProductLost ==
    /\ pc = "product" /\ device.card # "none"
    /\ Skip("snmp")
    /\ lost' = lost \cup {Xml}
    /\ MayStall
    /\ UNCHANGED <<page, probeVars>>

(* A body cut short is a body.  Cut between the root's attributes and the  *)
(* summary page's address, the card is recognised, but the address empty.  *)
(* A body cut after that is as good as a whole one: GetProduct.            *)
ProductCut ==
    /\ pc = "product" /\ Accepted(device)
    /\ Skip("props")
    /\ page' = "home"
    /\ lost' = lost \cup {Xml}
    /\ MayStall
    /\ UNCHANGED probeVars

Served == IF page = "props" THEN device.props ELSE device.home

(* Whatever the page holds will do, were it cut at its first byte: its     *)
(* values are not looked at.                                               *)
GetProps ==
    /\ pc = "props"
    /\ IF Served THEN Found(Xml, "snmp") ELSE Skip("snmp")
    /\ MayStall
    /\ UNCHANGED <<page, probeVars, lost>>

PropsLostEndsProbing ==
    /\ pc = "props" /\ Served
    /\ Skip("sort")
    /\ lost' = lost \cup {Xml}
    /\ MayStall
    /\ UNCHANGED <<page, probeVars>>

PropsLost ==
    /\ pc = "props" /\ Served
    /\ Skip("snmp")
    /\ lost' = lost \cup {Xml}
    /\ MayStall
    /\ UNCHANGED <<page, probeVars>>

(***************************************************************************)
(* trySnmp.  timeoutConnect tells of no failure of connect itself; on a    *)
(* socket left unconnected every write fails.                              *)
(***************************************************************************)

(* getaddrinfo or socket fails.                                            *)
NoSocket ==
    /\ pc = "snmp"
    /\ Skip("powercom")
    /\ lost' = lost \cup {Snmp}
    /\ UNCHANGED <<page, stalls, probeVars>>

Connect ==
    /\ pc = "snmp"
    /\ Skip("write")
    /\ UNCHANGED <<page, stalls, probeVars, lost>>

MaxWritesLess == 3
MaxWritesMore == 5
MaxWrites == 4

(* A pending error is what the write returns, instead of sending anything. *)
WriteOk == ~sockError /\ device.snmp # "unreachable"

Write ==
    /\ pc = "write" /\ writes < MaxWrites
    /\ writes' = writes + 1
    /\ lastWrite' = WriteOk
    /\ LET refused == WriteOk /\ device.snmp = "closed"
       IN  /\ sockError' = (refused /\ device.icmp = "at once")
           /\ inFlight' = IF refused /\ device.icmp = "later"
                          THEN inFlight + 1
                          ELSE inFlight
    /\ Skip("write")
    /\ UNCHANGED <<page, stalls, lost>>

(* An ICMP error arrives while the loop runs.                              *)
Icmp ==
    /\ pc = "write" /\ inFlight > 0
    /\ inFlight' = inFlight - 1
    /\ sockError' = TRUE
    /\ UNCHANGED <<inputVars, pc, page, stalls, writes, lastWrite, found, lost, told>>

(* Only the last write counts.                                             *)
WritesDone ==
    /\ pc = "write" /\ writes = MaxWrites
    /\ IF lastWrite THEN Found(Snmp, "powercom") ELSE Skip("powercom")
    /\ UNCHANGED <<page, stalls, probeVars, lost>>

(***************************************************************************)
(* tryPowercom.                                                            *)
(***************************************************************************)

GetPowercom ==
    /\ pc = "powercom"
    /\ IF device.web \in {"ups", "ats"}
       THEN Found(Powercom, "sort")
       ELSE Skip("sort")
    /\ MayStall
    /\ UNCHANGED <<page, probeVars, lost>>

(* Lost, or cut short and then not to be parsed: skipped.                  *)
PowercomLost ==
    /\ pc = "powercom" /\ device.web # "none"
    /\ Skip("sort")
    /\ lost' = lost \cup {Powercom}
    /\ MayStall
    /\ UNCHANGED <<page, probeVars>>

(***************************************************************************)

(* std::sort by the values of Type: the list, rearranged in that order.    *)
Sorting(list, p) ==
    /\ p \in [DOMAIN list -> DOMAIN list]
    /\ \A j \in DOMAIN list : \E i \in DOMAIN list : p[i] = j
    /\ \A i, j \in DOMAIN list : i < j => list[p[i]] <= list[p[j]]

Unsorted(list) == list

SortProtocols(list) ==
    LET p == CHOOSE p \in [DOMAIN list -> DOMAIN list] : Sorting(list, p)
    IN  [i \in DOMAIN list |-> list[p[i]]]

Answer ==
    /\ pc = "sort"
    /\ found' = SortProtocols(found)
    /\ pc' = "done" /\ told' = "ok"
    /\ UNCHANGED <<inputVars, page, stalls, probeVars, lost>>

Next ==
    \/ AnswerFake \/ NotAvailable \/ Available
    \/ GetProduct \/ ProductLost \/ ProductCut \/ GetProps \/ PropsLost
    \/ NoSocket \/ Connect \/ Write \/ Icmp \/ WritesDone
    \/ GetPowercom \/ PowercomLost \/ Answer

Spec == Init /\ [][Next]_vars

(***************************************************************************)
(* Properties.                                                             *)
(***************************************************************************)

Answered == told = "ok" /\ ~fake
Listed == {found[i] : i \in DOMAIN found}

(* What the web server is not, or not a supported one of, is not listed,   *)
(* whatever is lost or cut short on the way.                               *)
WebServerIsNotMistaken ==
    Answered =>
        /\ Xml \in Listed => device.card = "nmc"
        /\ Powercom \in Listed => device.web \in {"ups", "ats"}

(* A host that refuses datagrams to port 161, as 127.0.0.1 in the test     *)
(* "Not asset", is not listed as an SNMP one: jobs/protocols.h promises    *)
(* the protocols the endpoint supports.                                    *)
ClosedPortIsRejected ==
    Answered /\ device.snmp \in {"closed", "unreachable"} => Snmp \notin Listed

(* Four writes see to it where the ICMP errors are back at once.           *)
ClosedLocalPortIsRejected == device.icmp = "at once" => ClosedPortIsRejected

(* The probes are independent: a protocol the device speaks is listed      *)
(* unless its own probe lost something, whatever became of the others.     *)
NothingIsMissed ==
    Answered =>
        /\ device.card = "nmc" /\ device.props => Xml \in Listed \cup lost
        /\ device.snmp = "open" => Snmp \in Listed \cup lost
        /\ device.web \in {"ups", "ats"} => Powercom \in Listed \cup lost

(* The caller waits for ten seconds, and a request that stalls takes       *)
(* fifteen: nobody hears of the answer then, but the worker is held.  That *)
(* is for two of them at most where the web server has not said that it is *)
(* a supported card: it is not asked for a second page.                    *)
StallsAreBounded == stalls <= IF device.card = "nmc" THEN 3 ELSE 2

(* sortProtocols: "Just prefer XML_PDC".                                   *)
XmlPdcIsPreferred == Answered /\ Xml \in Listed => found[1] = Xml

(***************************************************************************)
(* The inductive invariant.                                                *)
(***************************************************************************)

(* The probes come one after the other, and each adds its own protocol at  *)
(* the end or nothing.                                                     *)
Orders == { <<>>, <<Xml>>, <<Snmp>>, <<Powercom>>, <<Xml, Snmp>>,
            <<Xml, Powercom>>, <<Snmp, Powercom>>, <<Xml, Snmp, Powercom>> }

Probed ==
    CASE pc \in {"start", "product", "props"} -> {}
      [] pc \in {"snmp", "write"} -> {Xml}
      [] pc = "powercom" -> {Xml, Snmp}
      [] OTHER -> Types

ListInv == told # "ok" => found \in Orders /\ Listed \subseteq Probed

(* What a probe that is over has found or lost.                            *)
XmlInv ==
    /\ Xml \in Listed \/ pc = "props" => device.card = "nmc"
    /\ page = "home" => Xml \in lost
    /\ device.card = "nmc" /\ device.props /\ Xml \in Probed => Xml \in Listed \cup lost

PowercomInv ==
    /\ Powercom \in Listed => device.web \in {"ups", "ats"}
    /\ device.web \in {"ups", "ats"} /\ Powercom \in Probed => Powercom \in Listed \cup lost

SnmpInv ==
    /\ device.snmp = "open" /\ Snmp \in Probed => Snmp \in Listed \cup lost
    /\ device.snmp \in {"closed", "unreachable"} /\ device.icmp = "at once" => Snmp \notin Listed

(* Every second write to a closed local port fails; the fourth is one.     *)
WriteInv ==
    /\ inFlight <= writes
    /\ pc \in {"start", "product", "props", "snmp"} =>
        writes = 0 /\ lastWrite /\ inFlight = 0 /\ ~sockError
    /\ device.snmp = "open" => lastWrite /\ inFlight = 0 /\ ~sockError
    /\ device.icmp = "at once" => inFlight = 0
    /\ device.snmp = "unreachable" /\ writes > 0 => ~lastWrite
    /\ device.snmp = "closed" /\ device.icmp = "at once" =>
        /\ sockError <=> writes \in {1, 3}
        /\ writes \in {2, 4} => ~lastWrite

(* Each request that was made has stalled once at most.                    *)
StallInv ==
    LET pages == IF device.card = "nmc" THEN 2 ELSE 1
    IN  stalls <= CASE pc \in {"start", "product"} -> 0
                    [] pc = "props" -> 1
                    [] pc \in {"snmp", "write", "powercom"} -> pages
                    [] OTHER -> pages + 1

FoundInv == ~fake /\ told # "error" => ListInv /\ XmlInv /\ PowercomInv /\ SnmpInv

PlaceInv ==
    /\ fake => pc \in {"start", "done"}
    /\ pc \in {"start", "product"} => page = "props"
    /\ told = "none" <=> pc # "done"

IInv == TypeOK /\ WriteInv /\ StallInv /\ FoundInv /\ PlaceInv

(***************************************************************************)
(* What the probes amount to.                                              *)
(***************************************************************************)

(* A probe was made once the job is past it; an address that is refused or *)
(* a fake one is not probed.                                               *)
triedBar == IF fake \/ told = "error" THEN {} ELSE Probed

answerBar == IF told = "ok" THEN found ELSE <<>>

Job == INSTANCE ProbeJob WITH
    Ways <- Types, FakeList <- <<Snmp, Xml>>,
    tried <- triedBar, works <- Listed \cap triedBar, answer <- answerBar

(* run: each of the probes is made once, none of them hides what another   *)
(* found or ends the job, and what is answered is all that was found, in   *)
(* the order of Type; an error is only answered before the first probe.    *)
ImplementsProbeJob == Job!Spec
===========================================================================
