-------------------------- MODULE ProtocolsProofs --------------------------
(* Theorems about Protocols, for every set of devices.                      *)
EXTENDS Protocols, TLAPS, SequenceTheorems, FiniteSetTheorems

Elems(q) == {q[i] : i \in DOMAIN q}

(***************************************************************************)
(* The list: what is appended to it, and how it is sorted.                 *)
(***************************************************************************)

(* The elements of short lists.                                             *)
LEMMA ElemsFacts ==
    /\ Elems(<<>>) = {}
    /\ \A x : Elems(<<x>>) = {x}
    /\ \A x, y : Elems(<<x, y>>) = {x, y}
    /\ \A x, y, z : Elems(<<x, y, z>>) = {x, y, z}
<1>1. Elems(<<>>) = {}
  BY DEF Elems
<1>2. ASSUME NEW x PROVE Elems(<<x>>) = {x}
  <2>1. DOMAIN <<x>> = {1} /\ <<x>>[1] = x
    OBVIOUS
  <2> QED
    BY <2>1 DEF Elems
<1>3. ASSUME NEW x, NEW y PROVE Elems(<<x, y>>) = {x, y}
  <2>1. DOMAIN <<x, y>> = {1, 2} /\ <<x, y>>[1] = x /\ <<x, y>>[2] = y
    OBVIOUS
  <2> QED
    BY <2>1 DEF Elems
<1>4. ASSUME NEW x, NEW y, NEW z PROVE Elems(<<x, y, z>>) = {x, y, z}
  <2>1. /\ DOMAIN <<x, y, z>> = {1, 2, 3} /\ <<x, y, z>>[1] = x
        /\ <<x, y, z>>[2] = y /\ <<x, y, z>>[3] = z
    OBVIOUS
  <2> QED
    BY <2>1 DEF Elems
<1> QED
  BY <1>1, <1>2, <1>3, <1>4

(* The protocols are three.                                                 *)
LEMMA TypesDiffer ==
    /\ Xml # Snmp /\ Snmp # Powercom /\ Powercom # Xml
    /\ Types = {Xml, Snmp, Powercom} /\ Types \subseteq Nat
BY DEF Types, Xml, Snmp, Powercom

(* Every list is a sequence of protocols.                                   *)
LEMMA OrdersAreSequences == Orders \subseteq Seq(Types)
BY DEF Orders, Types

(* Short lists, one element longer.                                         *)
LEMMA AppendTo ==
    ASSUME NEW S, NEW x \in S, NEW y \in S, NEW z \in S
    PROVE  /\ Append(<<>>, x) = <<x>>
           /\ Append(<<x>>, y) = <<x, y>>
           /\ Append(<<x, y>>, z) = <<x, y, z>>
<1>1. Append(<<>>, x) = <<x>>
  OBVIOUS
<1>2. Append(<<x>>, y) = <<x, y>>
  <2>1. <<x>> \in Seq(S) /\ <<x, y>> \in Seq(S) /\ Len(<<x>>) = 1 /\ Len(<<x, y>>) = 2
    OBVIOUS
  <2>2. /\ Append(<<x>>, y) \in Seq(S) /\ Len(Append(<<x>>, y)) = 2
        /\ Append(<<x>>, y)[1] = x /\ Append(<<x>>, y)[2] = y
    BY <2>1, AppendProperties
  <2>3. \A i \in 1..2 : i \in {1, 2}
    OBVIOUS
  <2>4. \A i \in 1..2 : Append(<<x>>, y)[i] = <<x, y>>[i]
    BY <2>2, <2>3
  <2> QED
    BY <2>1, <2>2, <2>4, SeqEqual
<1>3. Append(<<x, y>>, z) = <<x, y, z>>
  <2>1. <<x, y>> \in Seq(S) /\ <<x, y, z>> \in Seq(S) /\ Len(<<x, y>>) = 2 /\ Len(<<x, y, z>>) = 3
    OBVIOUS
  <2>2. /\ Append(<<x, y>>, z) \in Seq(S) /\ Len(Append(<<x, y>>, z)) = 3
        /\ Append(<<x, y>>, z)[1] = x /\ Append(<<x, y>>, z)[2] = y /\ Append(<<x, y>>, z)[3] = z
    BY <2>1, AppendProperties
  <2>3. \A i \in 1..3 : i \in {1, 2, 3}
    OBVIOUS
  <2>4. \A i \in 1..3 : Append(<<x, y>>, z)[i] = <<x, y, z>>[i]
    BY <2>2, <2>3
  <2> QED
    BY <2>1, <2>2, <2>4, SeqEqual
<1> QED
  BY <1>1, <1>2, <1>3

(* The eight lists and what they show.                                      *)
LEMMA OrdersFacts ==
    /\ Elems(<<>>) = {} /\ Elems(<<Xml>>) = {Xml} /\ Elems(<<Snmp>>) = {Snmp}
    /\ Elems(<<Powercom>>) = {Powercom} /\ Elems(<<Xml, Snmp>>) = {Xml, Snmp}
    /\ Elems(<<Xml, Powercom>>) = {Xml, Powercom}
    /\ Elems(<<Snmp, Powercom>>) = {Snmp, Powercom}
    /\ Elems(<<Xml, Snmp, Powercom>>) = {Xml, Snmp, Powercom}
<1>1. Elems(<<Xml>>) = {Xml} /\ Elems(<<Snmp>>) = {Snmp} /\ Elems(<<Powercom>>) = {Powercom}
  BY ElemsFacts
<1>2. Elems(<<Xml, Snmp>>) = {Xml, Snmp}
  BY ElemsFacts
<1>3. Elems(<<Xml, Powercom>>) = {Xml, Powercom}
  BY ElemsFacts
<1>4. Elems(<<Snmp, Powercom>>) = {Snmp, Powercom}
  BY ElemsFacts
<1>5. Elems(<<Xml, Snmp, Powercom>>) = {Xml, Snmp, Powercom}
  BY ElemsFacts
<1> QED
  BY <1>1, <1>2, <1>3, <1>4, <1>5, ElemsFacts

(* A protocol is appended to those that are probed before it.               *)
LEMMA Appending ==
    ASSUME NEW q \in Orders, NEW t \in Types,
           t = Xml => Elems(q) = {},
           t = Snmp => Elems(q) \subseteq {Xml},
           t = Powercom => Elems(q) \subseteq {Xml, Snmp}
    PROVE  Append(q, t) \in Orders /\ Elems(Append(q, t)) = Elems(q) \cup {t}
<1> DEFINE longer == Append(q, t)
<1>1. ASSUME t = Xml PROVE q = <<>> /\ longer = <<Xml>>
  <2>1. q = <<>>
    BY <1>1, OrdersFacts, TypesDiffer DEF Orders
  <2> QED
    BY <1>1, <2>1, AppendTo
<1>2. ASSUME t = Snmp
      PROVE  \/ q = <<>> /\ longer = <<Snmp>>
             \/ q = <<Xml>> /\ longer = <<Xml, Snmp>>
  <2>1. q \in {<<>>, <<Xml>>}
    BY <1>2, OrdersFacts, TypesDiffer, ZenonT(40) DEF Orders
  <2> QED
    BY <1>2, <2>1, AppendTo
<1>3. ASSUME t = Powercom
      PROVE  \/ q = <<>> /\ longer = <<Powercom>>
             \/ q = <<Xml>> /\ longer = <<Xml, Powercom>>
             \/ q = <<Snmp>> /\ longer = <<Snmp, Powercom>>
             \/ q = <<Xml, Snmp>> /\ longer = <<Xml, Snmp, Powercom>>
  <2>1. q \in {<<>>, <<Xml>>, <<Snmp>>, <<Xml, Snmp>>}
    BY <1>3, OrdersFacts, TypesDiffer, ZenonT(40) DEF Orders
  <2>2. /\ Append(<<>>, t) = <<t>> /\ Append(<<Xml>>, t) = <<Xml, t>>
        /\ Append(<<Snmp>>, t) = <<Snmp, t>> /\ Append(<<Xml, Snmp>>, t) = <<Xml, Snmp, t>>
    BY AppendTo, TypesDiffer
  <2> QED
    BY <1>3, <2>1, <2>2, Zenon
<1>4. t \in {Xml, Snmp, Powercom}
  BY TypesDiffer
<1> HIDE DEF longer
<1>5. longer \in Orders
  BY <1>1, <1>2, <1>3, <1>4, Zenon DEF Orders
<1>6. Elems(longer) = Elems(q) \cup {t}
  BY <1>1, <1>2, <1>3, <1>4, OrdersFacts, Zenon
<1> QED
  BY <1>5, <1>6 DEF longer

(* Two protocols in the wrong order can be swapped, three turned.           *)
LEMMA Swap ==
    ASSUME NEW x \in Nat, NEW y \in Nat, x > y
    PROVE  \E p \in [DOMAIN <<x, y>> -> DOMAIN <<x, y>>] : Sorting(<<x, y>>, p)
<1> DEFINE list == <<x, y>>
           p == [i \in {1, 2} |-> 3 - i]
<1>1. DOMAIN list = {1, 2} /\ list[1] = x /\ list[2] = y
  OBVIOUS
<1>2. p \in [{1, 2} -> {1, 2}] /\ p[1] = 2 /\ p[2] = 1
  OBVIOUS
<1> HIDE DEF list, p
<1>3. Sorting(list, p)
  BY <1>1, <1>2 DEF Sorting
<1> QED
  BY <1>1, <1>2, <1>3 DEF list

(* Each of the lists can be sorted.                                         *)
LEMMA Sortable ==
    ASSUME NEW list \in Orders
    PROVE  \E p \in [DOMAIN list -> DOMAIN list] : Sorting(list, p)
<1> DEFINE id == [i \in DOMAIN list |-> i]
<1>1. ASSUME \A i, j \in DOMAIN list : i < j => list[i] <= list[j]
      PROVE  \E p \in [DOMAIN list -> DOMAIN list] : Sorting(list, p)
  <2>1. Sorting(list, id)
    BY <1>1 DEF Sorting
  <2> QED
    BY <2>1
<1>2. CASE list \in {<<>>, <<Xml>>, <<Snmp>>, <<Powercom>>}
  <2>1. \A i, j \in DOMAIN list : i = j
    BY <1>2
  <2>2. DOMAIN list \subseteq Nat
    BY <1>2
  <2> QED
    BY <1>1, <2>1, <2>2
<1>3. CASE list = <<Xml, Snmp>>
  <2>1. DOMAIN list = {1, 2} /\ list[1] = 2 /\ list[2] = 3
    BY <1>3 DEF Xml, Snmp
  <2> QED
    BY <1>1, <2>1
<1>4. CASE list \in {<<Xml, Powercom>>, <<Snmp, Powercom>>}
  BY <1>4, Swap DEF Xml, Snmp, Powercom
<1>5. CASE list = <<Xml, Snmp, Powercom>>
  <2> DEFINE p == [i \in {1, 2, 3} |-> IF i = 1 THEN 3 ELSE i - 1]
  <2>1. DOMAIN list = {1, 2, 3} /\ list[1] = 2 /\ list[2] = 3 /\ list[3] = 1
    BY <1>5 DEF Xml, Snmp, Powercom
  <2>2. p \in [{1, 2, 3} -> {1, 2, 3}] /\ p[1] = 3 /\ p[2] = 1 /\ p[3] = 2
    OBVIOUS
  <2> HIDE DEF p
  <2>3. Sorting(list, p)
    BY <2>1, <2>2 DEF Sorting
  <2> QED
    BY <2>1, <2>2, <2>3
<1> QED
  BY <1>2, <1>3, <1>4, <1>5 DEF Orders

(* Sorting keeps what is listed, and puts it in ascending order.            *)
LEMMA SortFacts ==
    ASSUME NEW list \in Orders
    PROVE  /\ Elems(SortProtocols(list)) = Elems(list)
           /\ SortProtocols(list) \in Seq(Types)
           /\ \A i, j \in DOMAIN SortProtocols(list) :
                i < j => SortProtocols(list)[i] <= SortProtocols(list)[j]
<1> DEFINE p == CHOOSE p \in [DOMAIN list -> DOMAIN list] : Sorting(list, p)
           s == SortProtocols(list)
<1>1. Sorting(list, p)
  BY Sortable
<1>2. s = [i \in DOMAIN list |-> list[p[i]]]
  BY DEF SortProtocols
<1> HIDE DEF p, s
<1>3. Elems(s) = Elems(list)
  BY <1>1, <1>2 DEF Sorting, Elems
<1>4. s \in Seq(Types)
  <2>1. Len(list) \in Nat /\ DOMAIN list = 1..Len(list) /\ \A i \in DOMAIN list : list[i] \in Types
    BY OrdersAreSequences
  <2>2. s \in [1..Len(list) -> Types]
    BY <1>1, <1>2, <2>1 DEF Sorting
  <2> QED
    BY <2>1, <2>2
<1>5. \A i, j \in DOMAIN s : i < j => s[i] <= s[j]
  BY <1>1, <1>2 DEF Sorting
<1> QED
  BY <1>3, <1>4, <1>5 DEF s

(***************************************************************************)
(* The parts of the inductive invariant.                                   *)
(***************************************************************************)

LEMMA InitIInv == Init => IInv
<1> SUFFICES ASSUME Init PROVE IInv
  OBVIOUS
<1>1. TypeOK
  <2>1. <<>> \in Seq(Types)
    OBVIOUS
  <2>2. 0 \in 0..3 /\ 0 \in 0..4
    OBVIOUS
  <2> QED
    BY <2>1, <2>2, Zenon DEF Init, TypeOK, Places
<1>2. StallInv /\ PlaceInv
  BY DEF Init, StallInv, PlaceInv
<1>5. WriteInv
  <2>1. writes = 0 /\ inFlight = 0 /\ lastWrite /\ ~sockError
    BY DEF Init
  <2>2. ~(writes > 0) /\ inFlight <= writes /\ writes \notin {1, 3} /\ writes \notin {2, 4}
    BY <2>1
  <2> QED
    BY <2>1, <2>2 DEF WriteInv
<1>3. Listed = {}
  BY DEF Init, Listed
<1>4. FoundInv
  BY <1>3 DEF Init, FoundInv, ListInv, XmlInv, PowercomInv, SnmpInv, Orders, Probed
<1> QED
  BY <1>1, <1>2, <1>4, <1>5 DEF IInv

(* A write returns the error the one before it brought, and brings its own. *)
LEMMA WriteKeeps ==
    ASSUME TypeOK, WriteInv, Write
    PROVE  WriteInv'
<1>1. pc = "write" /\ pc' = pc /\ device' = device /\ writes' = writes + 1
  BY DEF Write, Skip, Goto, inputVars
<1>2. writes \in {0, 1, 2, 3} /\ inFlight \in Nat
  <2>1. writes \in 0..4 /\ writes < 4 /\ inFlight \in 0..4
    BY DEF Write, MaxWrites, TypeOK
  <2> QED
    BY <2>1
<1>3. lastWrite' = (~sockError /\ device.snmp # "unreachable")
  BY DEF Write, WriteOk
<1>4. sockError' = (/\ ~sockError /\ device.snmp = "closed"
                    /\ device.icmp = "at once")
  <2>1. sockError' = (WriteOk /\ device.snmp = "closed" /\ device.icmp = "at once")
    BY DEF Write
  <2>2. device.snmp = "closed" => (WriteOk <=> ~sockError)
    BY DEF WriteOk
  <2> QED
    BY <2>1, <2>2
<1>5. inFlight' \in {inFlight, inFlight + 1}
  BY DEF Write
<1>6. device.snmp = "open" \/ device.icmp = "at once" => inFlight' = inFlight
  BY DEF Write
<1>7. inFlight' <= writes' /\ (device.icmp = "at once" => inFlight' = 0)
  <2>1. inFlight <= writes
    BY DEF WriteInv
  <2>2. inFlight' <= writes'
    BY <1>1, <1>2, <1>5, <2>1
  <2>3. device.icmp = "at once" => inFlight = 0
    BY DEF WriteInv
  <2> QED
    BY <1>6, <2>2, <2>3
<1>8. device.snmp = "open" => lastWrite' /\ inFlight' = 0 /\ ~sockError'
  BY <1>3, <1>4, <1>6 DEF WriteInv
<1>9. device.snmp = "unreachable" => ~lastWrite'
  BY <1>3
<1>10. ASSUME device.snmp = "closed", device.icmp = "at once"
       PROVE  /\ sockError' <=> writes' \in {1, 3}
              /\ writes' \in {2, 4} => ~lastWrite'
  <2>1. sockError <=> writes \in {1, 3}
    BY <1>10 DEF WriteInv
  <2>2. sockError' = ~sockError /\ lastWrite' = ~sockError
    BY <1>10, <1>3, <1>4
  <2>3. (writes' \in {1, 3} <=> writes \notin {1, 3}) /\ (writes' \in {2, 4} => writes \in {1, 3})
    BY <1>1, <1>2
  <2> QED
    BY <2>1, <2>2, <2>3
<1> QED
  BY <1>1, <1>7, <1>8, <1>9, <1>10 DEF WriteInv

(* Only a datagram on its way brings an error later.                        *)
LEMMA IcmpKeeps ==
    ASSUME TypeOK, WriteInv, Icmp
    PROVE  WriteInv'
<1>1. /\ inFlight > 0 /\ inFlight' = inFlight - 1 /\ pc = "write"
      /\ UNCHANGED <<device, pc, writes, lastWrite>>
  BY DEF Icmp, inputVars
<1>2. inFlight \in Nat /\ writes \in Nat
  BY DEF TypeOK
<1>3. device.snmp # "open" /\ device.icmp # "at once"
  <2>1. inFlight # 0
    BY <1>1, <1>2
  <2> QED
    BY <2>1, Zenon DEF WriteInv
<1>4. inFlight' <= writes'
  <2>1. inFlight <= writes
    BY Zenon DEF WriteInv
  <2> QED
    BY <1>1, <1>2, <2>1
<1> QED
  BY <1>1, <1>3, <1>4 DEF WriteInv

(* What each write returns depends on the one before it.                    *)
LEMMA WriteStep ==
    ASSUME TypeOK, WriteInv, [Next]_vars
    PROVE  WriteInv'
<1> USE DEF TypeOK, WriteInv, inputVars, probeVars, Goto, Skip, Found
<1>1. CASE AnswerFake
  BY <1>1 DEF AnswerFake
<1>2. CASE NotAvailable
  BY <1>2 DEF NotAvailable
<1>3. CASE Available
  BY <1>3 DEF Available
<1>4. CASE GetProduct
  BY <1>4 DEF GetProduct, MayStall, Accepted
<1>5. CASE ProductLost
  BY <1>5 DEF ProductLost, MayStall
<1>6. CASE ProductCut
  BY <1>6 DEF ProductCut, MayStall, Accepted
<1>7. CASE GetProps
  BY <1>7 DEF GetProps, MayStall, Served
<1>8. CASE PropsLost
  BY <1>8 DEF PropsLost, MayStall
<1>9. CASE NoSocket
  BY <1>9 DEF NoSocket
<1>10. CASE Connect
  BY <1>10 DEF Connect
<1>11. CASE Write
  BY <1>11, WriteKeeps
<1>12. CASE Icmp
  BY <1>12, IcmpKeeps
<1>13. CASE WritesDone
  BY <1>13 DEF WritesDone, MaxWrites
<1>14. CASE GetPowercom
  BY <1>14 DEF GetPowercom, MayStall
<1>15. CASE PowercomLost
  BY <1>15 DEF PowercomLost, MayStall
<1>16. CASE Answer
  BY <1>16 DEF Answer
<1>17. CASE UNCHANGED vars
  BY <1>17 DEF vars
<1> QED
  BY <1>1, <1>2, <1>3, <1>4, <1>5, <1>6, <1>7, <1>8, <1>9, <1>10,
     <1>11, <1>12, <1>13, <1>14, <1>15, <1>16, <1>17 DEF Next

(* While the job runs its list is one of eight, and holds what was probed.  *)
LEMMA Running ==
    ASSUME FoundInv, PlaceInv, pc # "start", pc # "done"
    PROVE  /\ ~fake /\ told = "none"
           /\ found \in Orders /\ Listed \subseteq Probed
           /\ XmlInv /\ PowercomInv /\ SnmpInv
BY DEF FoundInv, PlaceInv, ListInv

(* Each request stalls once, and a page is asked of a supported card only.  *)
LEMMA StallStep ==
    ASSUME TypeOK, StallInv, FoundInv, PlaceInv, [Next]_vars
    PROVE  StallInv' /\ PlaceInv'
<1> USE DEF TypeOK, StallInv, PlaceInv, inputVars, probeVars, Goto, Skip, Found
<1>1. CASE AnswerFake
  BY <1>1 DEF AnswerFake
<1>2. CASE NotAvailable
  BY <1>2 DEF NotAvailable
<1>3. CASE Available
  BY <1>3 DEF Available
<1>4. CASE GetProduct
  BY <1>4 DEF GetProduct, MayStall, Accepted
<1>5. CASE ProductLost
  BY <1>5 DEF ProductLost, MayStall
<1>6. CASE ProductCut
  BY <1>6 DEF ProductCut, MayStall, Accepted
<1>7. CASE GetProps
  <2>1. device.card = "nmc"
    BY <1>7, Running, Zenon DEF GetProps, XmlInv
  <2> QED
    BY <1>7, <2>1 DEF GetProps, MayStall, Served
<1>8. CASE PropsLost
  <2>1. device.card = "nmc"
    BY <1>8, Running, Zenon DEF PropsLost, XmlInv
  <2> QED
    BY <1>8, <2>1 DEF PropsLost, MayStall
<1>9. CASE NoSocket
  BY <1>9 DEF NoSocket
<1>10. CASE Connect
  BY <1>10 DEF Connect
<1>11. CASE Write
  BY <1>11 DEF Write, MaxWrites
<1>12. CASE Icmp
  BY <1>12 DEF Icmp
<1>13. CASE WritesDone
  BY <1>13 DEF WritesDone, MaxWrites
<1>14. CASE GetPowercom
  BY <1>14 DEF GetPowercom, MayStall
<1>15. CASE PowercomLost
  BY <1>15 DEF PowercomLost, MayStall
<1>16. CASE Answer
  BY <1>16 DEF Answer
<1>17. CASE UNCHANGED vars
  BY <1>17 DEF vars
<1> QED
  BY <1>1, <1>2, <1>3, <1>4, <1>5, <1>6, <1>7, <1>8, <1>9, <1>10,
     <1>11, <1>12, <1>13, <1>14, <1>15, <1>16, <1>17 DEF Next

(* A protocol just found is added to those listed.                          *)
LEMMA FoundAdds ==
    ASSUME NEW type \in Types, NEW place, Found(type, place), found \in Orders,
           type = Xml => Listed = {},
           type = Snmp => Listed \subseteq {Xml},
           type = Powercom => Listed \subseteq {Xml, Snmp}
    PROVE  found' \in Orders /\ Listed' = Listed \cup {type}
<1>1. Listed = Elems(found) /\ Listed' = Elems(found')
  BY DEF Listed, Elems
<1>2. found' = Append(found, type)
  BY DEF Found
<1> QED
  BY <1>1, <1>2, Appending

(* What changes is of the declared types.                                   *)
LEMMA TypeOKStep ==
    ASSUME TypeOK, WriteInv, StallInv, FoundInv, PlaceInv, [Next]_vars
    PROVE  TypeOK'
<1> USE DEF TypeOK, Places, inputVars, probeVars, Goto, Skip
<1>a. StallInv'
  BY StallStep
<1>1. CASE AnswerFake
  <2>1. <<Snmp, Xml>> \in Seq(Types)
    BY TypesDiffer
  <2> QED
    BY <1>1, <2>1 DEF AnswerFake
<1>2. CASE NotAvailable
  BY <1>2 DEF NotAvailable
<1>3. CASE Available
  BY <1>3 DEF Available
<1>4. CASE GetProduct
  <2>1. stalls' \in 0..3
    <3>1. stalls' \in Nat
      BY <1>4 DEF GetProduct, MayStall
    <3>2. stalls' <= 3
      BY <3>1, <1>a DEF StallInv
    <3> QED
      BY <3>1, <3>2
  <2> QED
    BY <1>4, <2>1 DEF GetProduct
<1>5. CASE ProductLost
  <2>1. stalls' \in 0..3
    <3>1. stalls' \in Nat
      BY <1>5 DEF ProductLost, MayStall
    <3>2. stalls' <= 3
      BY <3>1, <1>a DEF StallInv
    <3> QED
      BY <3>1, <3>2
  <2> QED
    BY <1>5, <2>1, TypesDiffer DEF ProductLost
<1>6. CASE ProductCut
  <2>1. stalls' \in 0..3
    <3>1. stalls' \in Nat
      BY <1>6 DEF ProductCut, MayStall
    <3>2. stalls' <= 3
      BY <3>1, <1>a DEF StallInv
    <3> QED
      BY <3>1, <3>2
  <2> QED
    BY <1>6, <2>1, TypesDiffer DEF ProductCut
<1>7. CASE GetProps
  <2>1. stalls' \in 0..3
    <3>1. stalls' \in Nat
      BY <1>7 DEF GetProps, MayStall
    <3>2. stalls' <= 3
      BY <3>1, <1>a DEF StallInv
    <3> QED
      BY <3>1, <3>2
  <2>2. found' = Append(found, Xml) \/ found' = found
    BY <1>7 DEF GetProps, Found
  <2>3. found' \in Seq(Types)
    BY <2>2, TypesDiffer, AppendProperties
  <2> QED
    BY <1>7, <2>1, <2>3 DEF GetProps, Found
<1>8. CASE PropsLost
  <2>1. stalls' \in 0..3
    <3>1. stalls' \in Nat
      BY <1>8 DEF PropsLost, MayStall
    <3>2. stalls' <= 3
      BY <3>1, <1>a DEF StallInv
    <3> QED
      BY <3>1, <3>2
  <2> QED
    BY <1>8, <2>1, TypesDiffer DEF PropsLost
<1>9. CASE NoSocket
  BY <1>9, TypesDiffer DEF NoSocket
<1>10. CASE Connect
  BY <1>10 DEF Connect
<1>11. CASE Write
  <2>1. WriteInv'
    BY <1>11, WriteKeeps
  <2>2. writes' \in 0..4
    <3>1. writes' = writes + 1 /\ writes < 4 /\ writes \in 0..4
      BY <1>11 DEF Write, MaxWrites
    <3> QED
      BY <3>1
  <2>3. inFlight' \in Nat
    <3>1. inFlight' \in {inFlight, inFlight + 1} /\ inFlight \in 0..4
      BY <1>11 DEF Write
    <3> QED
      BY <3>1
  <2>4. inFlight' <= writes'
    BY <2>1, Zenon DEF WriteInv
  <2>5. inFlight' \in 0..4
    BY <2>2, <2>3, <2>4
  <2>6. lastWrite' \in BOOLEAN /\ sockError' \in BOOLEAN
    BY <1>11, Zenon DEF Write, WriteOk
  <2> QED
    BY <1>11, <2>2, <2>5, <2>6 DEF Write
<1>12. CASE Icmp
  <2>1. inFlight' \in 0..4
    BY <1>12 DEF Icmp
  <2> QED
    BY <1>12, <2>1 DEF Icmp
<1>13. CASE WritesDone
  <2>1. found' = Append(found, Snmp) \/ found' = found
    BY <1>13 DEF WritesDone, Found
  <2>2. found \in Seq(Types) /\ Snmp \in Types
    BY TypesDiffer
  <2>3. found' \in Seq(Types)
    BY <2>1, <2>2, AppendProperties
  <2> QED
    BY <1>13, <2>3 DEF WritesDone, Found
<1>14. CASE GetPowercom
  <2>1. stalls' \in 0..3
    <3>1. stalls' \in Nat
      BY <1>14 DEF GetPowercom, MayStall
    <3>2. stalls' <= 3
      BY <3>1, <1>a DEF StallInv
    <3> QED
      BY <3>1, <3>2
  <2>2. found' = Append(found, Powercom) \/ found' = found
    BY <1>14 DEF GetPowercom, Found
  <2>3. found' \in Seq(Types)
    BY <2>2, TypesDiffer, AppendProperties
  <2> QED
    BY <1>14, <2>1, <2>3 DEF GetPowercom, Found
<1>15. CASE PowercomLost
  <2>1. stalls' \in 0..3
    <3>1. stalls' \in Nat
      BY <1>15 DEF PowercomLost, MayStall
    <3>2. stalls' <= 3
      BY <3>1, <1>a DEF StallInv
    <3> QED
      BY <3>1, <3>2
  <2> QED
    BY <1>15, <2>1, TypesDiffer DEF PowercomLost
<1>16. CASE Answer
  <2>1. found \in Orders
    BY <1>16, Running DEF Answer
  <2>2. found' \in Seq(Types)
    BY <1>16, <2>1, SortFacts DEF Answer
  <2> QED
    BY <1>16, <2>2 DEF Answer
<1>17. CASE UNCHANGED vars
  BY <1>17 DEF vars
<1> QED
  BY <1>1, <1>2, <1>3, <1>4, <1>5, <1>6, <1>7, <1>8, <1>9, <1>10,
     <1>11, <1>12, <1>13, <1>14, <1>15, <1>16, <1>17 DEF Next

(* What is listed is what the device answered, and what it speaks is listed *)
(* or lost.                                                                 *)
LEMMA FoundStep ==
    ASSUME TypeOK, WriteInv, FoundInv, PlaceInv, [Next]_vars
    PROVE  FoundInv'
<1> SUFFICES ASSUME ~fake', told' # "error"
             PROVE  ListInv' /\ XmlInv' /\ PowercomInv' /\ SnmpInv'
  BY DEF FoundInv
<1> USE DEF ListInv, XmlInv, PowercomInv, SnmpInv, Probed, inputVars, Goto, Skip
<1>0. Xml # Snmp /\ Snmp # Powercom /\ Powercom # Xml /\ Types = {Xml, Snmp, Powercom}
  BY TypesDiffer
<1>u. found' = found => Listed' = Listed
  BY DEF Listed
<1>r. pc # "start" /\ pc # "done" =>
        /\ told = "none" /\ found \in Orders /\ Listed \subseteq Probed
        /\ XmlInv /\ PowercomInv /\ SnmpInv
  BY Running
<1>1. CASE AnswerFake
  BY <1>1 DEF AnswerFake
<1>2. CASE NotAvailable
  BY <1>2 DEF NotAvailable
<1>3. CASE Available
  BY <1>3, <1>u DEF Available, FoundInv, PlaceInv
<1>4. CASE GetProduct
  BY <1>4, <1>0, <1>u, <1>r DEF GetProduct, Accepted
<1>5. CASE ProductLost
  BY <1>5, <1>0, <1>u, <1>r DEF ProductLost
<1>6. CASE ProductCut
  BY <1>6, <1>0, <1>u, <1>r DEF ProductCut, Accepted
<1>7. CASE GetProps
  <2>1. CASE Served
    <3>1. found' \in Orders /\ Listed' = Listed \cup {Xml}
      BY <1>7, <2>1, <1>0, <1>r, FoundAdds DEF GetProps
    <3> QED
      BY <1>7, <2>1, <3>1, <1>0, <1>r DEF GetProps, Served, Found
  <2>2. CASE ~Served
    <3>1. page \in {"props", "home"} /\ pc = "props"
      BY <1>7 DEF GetProps, TypeOK
    <3>2. device.props => Xml \in lost
      BY <2>2, <3>1, <1>r DEF Served
    <3> QED
      BY <1>7, <2>2, <3>2, <1>0, <1>u, <1>r DEF GetProps
  <2> QED
    BY <2>1, <2>2
<1>8. CASE PropsLost
  BY <1>8, <1>0, <1>u, <1>r DEF PropsLost
<1>9. CASE NoSocket
  BY <1>9, <1>0, <1>u, <1>r DEF NoSocket
<1>10. CASE Connect
  BY <1>10, <1>0, <1>u, <1>r DEF Connect
<1>11. CASE Write
  BY <1>11, <1>0, <1>u, <1>r DEF Write
<1>12. CASE Icmp
  BY <1>12, <1>0, <1>u, <1>r DEF Icmp
<1>13. CASE WritesDone
  <2>a. /\ device.snmp = "open" => lastWrite
        /\ device.snmp = "unreachable" => ~lastWrite
        /\ device.snmp = "closed" /\ device.icmp = "at once" => ~lastWrite
    <3>1. writes \in {2, 4} /\ writes > 0
      BY <1>13 DEF WritesDone, MaxWrites
    <3> QED
      BY <3>1, Zenon DEF WriteInv
  <2>1. CASE lastWrite
    <3>1. found' \in Orders /\ Listed' = Listed \cup {Snmp}
      BY <1>13, <2>1, <1>0, <1>r, FoundAdds DEF WritesDone
    <3> QED
      BY <1>13, <2>1, <3>1, <1>0, <1>r, <2>a DEF WritesDone, Found
  <2>2. CASE ~lastWrite
    BY <1>13, <2>2, <1>0, <1>u, <1>r, <2>a DEF WritesDone
  <2> QED
    BY <2>1, <2>2
<1>14. CASE GetPowercom
  <2>1. CASE device.web \in {"ups", "ats"}
    <3>1. found' \in Orders /\ Listed' = Listed \cup {Powercom}
      BY <1>14, <2>1, <1>0, <1>r, FoundAdds DEF GetPowercom
    <3> QED
      BY <1>14, <2>1, <3>1, <1>0, <1>r DEF GetPowercom, Found
  <2>2. CASE ~(device.web \in {"ups", "ats"})
    BY <1>14, <2>2, <1>0, <1>u, <1>r DEF GetPowercom
  <2> QED
    BY <2>1, <2>2
<1>15. CASE PowercomLost
  BY <1>15, <1>0, <1>u, <1>r DEF PowercomLost
<1>16. CASE Answer
  <2>1. Listed' = Elems(found') /\ Listed = Elems(found)
    BY DEF Listed, Elems
  <2>2. Listed' = Listed
    BY <1>16, <2>1, <1>r, SortFacts DEF Answer
  <2> QED
    BY <1>16, <2>2, <1>0, <1>r DEF Answer
<1>17. CASE UNCHANGED vars
  <2>1. /\ UNCHANGED <<inputVars, pc, page, told, found, lost>> /\ Listed' = Listed
        /\ Probed' = Probed
    BY <1>17, <1>u DEF vars, Probed
  <2>2. ListInv' <=> ListInv
    BY <2>1 DEF ListInv
  <2>3. (XmlInv' <=> XmlInv) /\ (PowercomInv' <=> PowercomInv) /\ (SnmpInv' <=> SnmpInv)
    BY <2>1 DEF inputVars, XmlInv, PowercomInv, SnmpInv
  <2> QED
    BY <2>1, <2>2, <2>3 DEF FoundInv, inputVars
<1> QED
  BY <1>1, <1>2, <1>3, <1>4, <1>5, <1>6, <1>7, <1>8, <1>9, <1>10,
     <1>11, <1>12, <1>13, <1>14, <1>15, <1>16, <1>17 DEF Next

(* The inductive invariant is one.                                          *)
LEMMA IInvStep == IInv /\ [Next]_vars => IInv'
<1> SUFFICES ASSUME IInv, [Next]_vars PROVE IInv'
  OBVIOUS
<1>1. TypeOK /\ WriteInv /\ StallInv /\ FoundInv /\ PlaceInv
  BY DEF IInv
<1>2. TypeOK'
  BY <1>1, TypeOKStep
<1>3. WriteInv'
  BY <1>1, WriteStep
<1>4. StallInv' /\ PlaceInv'
  BY <1>1, StallStep
<1>5. FoundInv'
  BY <1>1, FoundStep
<1> QED
  BY <1>2, <1>3, <1>4, <1>5 DEF IInv

(***************************************************************************)
(* What the answer says.                                                   *)
(***************************************************************************)

(* Of every device, whatever is lost on the way: the probes keep what the   *)
(* answer is made of.                                                       *)
THEOREM Invariance == Spec => []IInv
<1>1. Init => IInv
  BY InitIInv
<1>2. IInv /\ [Next]_vars => IInv'
  BY IInvStep
<1> QED
  BY <1>1, <1>2, PTL DEF Spec

(* An answer has come through every probe.                                  *)
LEMMA AnsweredFacts ==
    ASSUME IInv, Answered
    PROVE  XmlInv /\ PowercomInv /\ SnmpInv /\ Probed = Types
<1>1. FoundInv /\ PlaceInv /\ told = "ok" /\ ~fake
  BY DEF IInv, Answered
<1>2. pc = "done"
  BY <1>1 DEF PlaceInv
<1> QED
  BY <1>1, <1>2 DEF FoundInv, Probed

(* Every variable keeps its type; the list is one of protocols.             *)
THEOREM TypeCorrect == Spec => []TypeOK
<1>1. IInv => TypeOK
  BY DEF IInv
<1> QED
  BY <1>1, Invariance, PTL

(* tryXmlPdc and tryPowercom: what the web server is not is not listed.     *)
THEOREM WebIsTold == Spec => []WebServerIsNotMistaken
<1>1. IInv => WebServerIsNotMistaken
  BY AnsweredFacts DEF WebServerIsNotMistaken, XmlInv, PowercomInv
<1> QED
  BY <1>1, Invariance, PTL

(* trySnmp: four writes tell a closed port where errors are back at once.   *)
THEOREM ClosedPortIsTold == Spec => []ClosedLocalPortIsRejected
<1>1. IInv => ClosedLocalPortIsRejected
  BY AnsweredFacts DEF ClosedLocalPortIsRejected, ClosedPortIsRejected, SnmpInv
<1> QED
  BY <1>1, Invariance, PTL

(* run: what the device speaks is listed or lost by its own probe.          *)
THEOREM ProbesAreIndependent == Spec => []NothingIsMissed
<1>1. IInv => NothingIsMissed
  BY AnsweredFacts, TypesDiffer DEF NothingIsMissed, XmlInv, PowercomInv, SnmpInv
<1> QED
  BY <1>1, Invariance, PTL

(* tryXmlPdc, tryPowercom: the worker waits for neon's timeout twice at     *)
(* most where no supported card has answered.                               *)
THEOREM WaitIsBounded == Spec => []StallsAreBounded
<1>1. ASSUME TypeOK, StallInv PROVE StallsAreBounded
  <2>1. stalls \in 0..3
    BY <1>1 DEF TypeOK
  <2> QED
    BY <1>1, <2>1 DEF StallInv, StallsAreBounded
<1>2. IInv => StallsAreBounded
  BY <1>1 DEF IInv
<1> QED
  BY <1>2, Invariance, PTL

(***************************************************************************)
(* What the probes amount to: ProbeJob.                                    *)
(***************************************************************************)

(* None of the lists shows a protocol twice.                                *)
LEMMA OnceListed ==
    ASSUME NEW list \in Orders
    PROVE  \A i, j \in DOMAIN list : list[i] = list[j] => i = j
<1>1. CASE list \in {<<>>, <<Xml>>, <<Snmp>>, <<Powercom>>}
  BY <1>1
<1>2. CASE list \in {<<Xml, Snmp>>, <<Xml, Powercom>>, <<Snmp, Powercom>>}
  BY <1>2, TypesDiffer
<1>3. CASE list = <<Xml, Snmp, Powercom>>
  BY <1>3, TypesDiffer
<1> QED
  BY <1>1, <1>2, <1>3 DEF Orders

(* A sorted list is one of what was found, by rank.                         *)
LEMMA SortedRanks ==
    ASSUME NEW list \in Orders
    PROVE  Job!Ranks(SortProtocols(list), Elems(list))
<1> DEFINE p == CHOOSE p \in [DOMAIN list -> DOMAIN list] : Sorting(list, p)
           s == SortProtocols(list)
<1>1. Sorting(list, p)
  BY Sortable
<1>2. s = [i \in DOMAIN list |-> list[p[i]]]
  BY DEF SortProtocols
<1> HIDE DEF p, s
<1>3. list \in Seq(Types) /\ DOMAIN list = 1..Len(list) /\ Len(list) \in Nat
  BY OrdersAreSequences
<1>4. p \in Surjection(DOMAIN list, DOMAIN list)
  BY <1>1 DEF Sorting, Surjection
<1>5. IsFiniteSet(DOMAIN list)
  BY <1>3, FS_Interval
<1>6. p \in Injection(DOMAIN list, DOMAIN list)
  BY <1>4, <1>5, FS_SurjSameCardinalityImpliesInj
<1>7. \A i, j \in DOMAIN list : p[i] = p[j] => i = j
  BY <1>6 DEF Injection, IsInjective
<1>8. \A i \in DOMAIN list : p[i] \in DOMAIN list
  BY <1>1 DEF Sorting
<1>9. /\ Elems(s) = Elems(list) /\ s \in Seq(Types)
      /\ \A i, j \in DOMAIN s : i < j => s[i] <= s[j]
  BY SortFacts DEF s
<1>10. \A i, j \in DOMAIN s : i < j => s[i] # s[j]
  <2> SUFFICES ASSUME NEW i \in DOMAIN list, NEW j \in DOMAIN list, i < j
               PROVE  list[p[i]] # list[p[j]]
    BY <1>2
  <2>1. i # j
    BY <1>3
  <2>2. p[i] # p[j] /\ p[i] \in DOMAIN list /\ p[j] \in DOMAIN list
    BY <2>1, <1>7, <1>8
  <2> QED
    BY <2>2, OnceListed
<1>11. \A i \in DOMAIN s : s[i] \in Nat
  BY <1>9, TypesDiffer
<1>12. \A i, j \in DOMAIN s : i < j => s[i] < s[j]
  BY <1>9, <1>10, <1>11
<1>13. {s[i] : i \in DOMAIN s} = Elems(list)
  BY <1>9 DEF Elems
<1> QED
  BY <1>9, <1>12, <1>13 DEF Job!Ranks, s

(* A step that leaves the probes and the list as they are is a stutter.     *)
LEMMA Stutters ==
    ASSUME UNCHANGED <<fake, told, found>>, Probed' = Probed
    PROVE  UNCHANGED Job!absVars
BY DEF Job!absVars, triedBar, answerBar, Listed

(* A step that ends one probe, and finds its protocol or nothing, tries it. *)
LEMMA Tries ==
    ASSUME FoundInv, PlaceInv, pc # "start", pc # "done",
           UNCHANGED <<fake, told>>,
           NEW t \in Types, t \notin Probed, Probed' = Probed \cup {t},
           found' = found \/ Listed' = Listed \cup {t}
    PROVE  Job!Try(t)
<1>1. ~fake /\ told = "none" /\ Listed \subseteq Probed
  BY Running
<1>2. triedBar = Probed /\ triedBar' = Probed \cup {t} /\ answerBar = <<>> /\ answerBar' = <<>>
  BY <1>1 DEF triedBar, answerBar
<1>3. Listed \cap triedBar = Listed
  BY <1>1, <1>2
<1>4. Listed' \cap triedBar' \in {Listed, Listed \cup {t}}
  <2>1. CASE found' = found
    <3>1. Listed' = Listed
      BY <2>1 DEF Listed
    <3> QED
      BY <3>1, <1>1, <1>2
  <2>2. CASE Listed' = Listed \cup {t}
    BY <2>2, <1>1, <1>2
  <2> QED
    BY <2>1, <2>2
<1> QED
  BY <1>1, <1>2, <1>3, <1>4 DEF Job!Try

(* The three probes, one action at a time.                                  *)
LEMMA ProbesTry ==
    ASSUME FoundInv, PlaceInv,
           \/ GetProduct \/ ProductLost \/ ProductCut \/ GetProps \/ PropsLost
           \/ NoSocket \/ Connect \/ Write \/ Icmp \/ WritesDone
           \/ GetPowercom \/ PowercomLost
    PROVE  [Job!Next]_(Job!absVars)
<1> USE DEF inputVars, Goto, Skip
<1>0. Xml # Snmp /\ Snmp # Powercom /\ Powercom # Xml /\ Types = {Xml, Snmp, Powercom}
  BY TypesDiffer
<1>1. ASSUME NEW t \in Types, Job!Try(t) PROVE Job!Next
  BY <1>1 DEF Job!Next
<1>2. CASE GetProduct
  <2>1. CASE Accepted(device)
    <3>1. UNCHANGED <<fake, told, found>> /\ Probed' = Probed
      BY <1>2, <2>1 DEF GetProduct, Probed
    <3> QED
      BY <3>1, Stutters
  <2>2. CASE ~Accepted(device)
    <3>1. /\ pc = "product" /\ UNCHANGED <<fake, told, found>>
          /\ Probed = {} /\ Probed' = {Xml}
      BY <1>2, <2>2 DEF GetProduct, Probed
    <3> QED
      BY <3>1, <1>0, <1>1, Tries
  <2> QED
    BY <2>1, <2>2
<1>3. CASE ProductLost \/ PropsLost
  <2>1. /\ pc \in {"product", "props"} /\ UNCHANGED <<fake, told, found>>
        /\ Probed = {} /\ Probed' = {Xml}
    BY <1>3 DEF ProductLost, PropsLost, Probed
  <2> QED
    BY <2>1, <1>0, <1>1, Tries
<1>4. CASE ProductCut \/ Connect \/ Write \/ Icmp
  <2>1. ProductCut \/ Connect => UNCHANGED <<fake, told, found>> /\ Probed' = Probed
    BY DEF ProductCut, Connect, Probed
  <2>2. Write \/ Icmp => UNCHANGED <<fake, told, found, pc>>
    BY Zenon DEF Write, Icmp
  <2>3. UNCHANGED pc => Probed' = Probed
    BY DEF Probed
  <2> QED
    BY <1>4, <2>1, <2>2, <2>3, Stutters
<1>5. CASE GetProps
  <2>1. pc = "props" /\ UNCHANGED <<fake, told>> /\ Probed = {} /\ Probed' = {Xml}
    BY <1>5 DEF GetProps, Found, Probed
  <2>2. found' = found \/ Found(Xml, "snmp")
    BY <1>5 DEF GetProps
  <2>3. found \in Orders /\ Listed = {}
    BY <2>1, Running
  <2>4. found' = found \/ Listed' = Listed \cup {Xml}
    BY <2>2, <2>3, <1>0, FoundAdds
  <2> QED
    BY <2>1, <2>4, <1>0, <1>1, Tries
<1>6. CASE NoSocket
  <2>1. /\ pc = "snmp" /\ UNCHANGED <<fake, told, found>>
        /\ Probed = {Xml} /\ Probed' = {Xml, Snmp}
    BY <1>6 DEF NoSocket, Probed
  <2> QED
    BY <2>1, <1>0, <1>1, Tries
<1>7. CASE WritesDone
  <2>1. /\ pc = "write" /\ UNCHANGED <<fake, told>>
        /\ Probed = {Xml} /\ Probed' = {Xml, Snmp}
    BY <1>7 DEF WritesDone, Found, Probed
  <2>2. found' = found \/ Found(Snmp, "powercom")
    BY <1>7 DEF WritesDone
  <2>3. found \in Orders /\ Listed \subseteq {Xml}
    BY <2>1, Running
  <2>4. found' = found \/ Listed' = Listed \cup {Snmp}
    BY <2>2, <2>3, <1>0, FoundAdds
  <2> QED
    BY <2>1, <2>4, <1>0, <1>1, Tries
<1>8. CASE GetPowercom \/ PowercomLost
  <2>1. /\ pc = "powercom" /\ UNCHANGED <<fake, told>>
        /\ Probed = {Xml, Snmp} /\ Probed' = Types
    BY <1>8 DEF GetPowercom, PowercomLost, Found, Probed
  <2>2. found' = found \/ Found(Powercom, "sort")
    BY <1>8 DEF GetPowercom, PowercomLost
  <2>3. found \in Orders /\ Listed \subseteq {Xml, Snmp}
    BY <2>1, Running
  <2>4. found' = found \/ Listed' = Listed \cup {Powercom}
    BY <2>2, <2>3, <1>0, FoundAdds
  <2> QED
    BY <2>1, <2>4, <1>0, <1>1, Tries
<1> QED
  BY <1>2, <1>3, <1>4, <1>5, <1>6, <1>7, <1>8

(* What begins and ends the job.                                            *)
LEMMA EndsReport ==
    ASSUME FoundInv, PlaceInv, AnswerFake \/ NotAvailable \/ Available \/ Answer
    PROVE  [Job!Next]_(Job!absVars)
<1> USE DEF inputVars, Goto, Skip
<1>1. CASE AnswerFake
  <2>1. fake /\ fake' /\ told = "none" /\ told' = "ok" /\ found' = <<Snmp, Xml>>
    BY <1>1 DEF AnswerFake, PlaceInv
  <2> QED
    BY <2>1 DEF Job!Next, Job!Pretend, triedBar, answerBar
<1>2. CASE NotAvailable
  <2>1. /\ ~fake /\ ~fake' /\ told = "none" /\ told' = "error" /\ Probed = {}
        /\ fake' = fake
    BY <1>2 DEF NotAvailable, PlaceInv, Probed
  <2> QED
    BY <2>1 DEF Job!Next, Job!Refuse, triedBar, answerBar
<1>3. CASE Available
  <2>1. UNCHANGED <<fake, told, found>> /\ Probed' = Probed
    BY <1>3 DEF Available, Probed
  <2> QED
    BY <2>1, Stutters
<1>4. CASE Answer
  <2>1. /\ pc = "sort" /\ UNCHANGED fake /\ told' = "ok"
        /\ found' = SortProtocols(found) /\ Probed = Types /\ Probed' = Types
    BY <1>4 DEF Answer, Probed
  <2>2. ~fake /\ told = "none" /\ found \in Orders /\ Listed \subseteq Types
    BY <2>1, Running
  <2>3. Listed = Elems(found) /\ Listed' = Elems(found')
    BY DEF Listed, Elems
  <2>4. Listed' = Listed
    BY <2>1, <2>2, <2>3, SortFacts
  <2>5. Job!Ranks(found', Listed)
    BY <2>1, <2>2, <2>3, SortedRanks
  <2>6. /\ triedBar = Types /\ triedBar' = Types
        /\ Listed \cap triedBar = Listed /\ Listed' \cap triedBar' = Listed
        /\ answerBar' = found'
    BY <2>1, <2>2, <2>4 DEF triedBar, answerBar
  <2>7. Job!Ranks(answerBar', Listed \cap triedBar)
    BY <2>5, <2>6
  <2> QED
    BY <2>1, <2>2, <2>6, <2>7 DEF Job!Next, Job!Report
<1> QED
  BY <1>1, <1>2, <1>3, <1>4

(* run: whatever a device answers, and whatever is lost on the way, the     *)
(* three probes are a ProbeJob: each is made once and for itself, and the   *)
(* answer is what they found, each protocol once, by rank.                  *)
THEOREM Refinement == Spec => ImplementsProbeJob
<1>1. Init => Job!Init
  BY DEF Init, Job!Init, triedBar, answerBar, Probed
<1>2. IInv /\ [Next]_vars => [Job!Next]_(Job!absVars)
  <2> SUFFICES ASSUME IInv, [Next]_vars PROVE [Job!Next]_(Job!absVars)
    OBVIOUS
  <2>1. FoundInv /\ PlaceInv
    BY DEF IInv
  <2>2. CASE UNCHANGED vars
    <3>1. UNCHANGED <<fake, told, found>> /\ Probed' = Probed
      BY <2>2 DEF vars, inputVars, Probed
    <3> QED
      BY <3>1, Stutters
  <2> QED
    BY <2>1, <2>2, EndsReport, ProbesTry DEF Next
<1> QED
  BY <1>1, <1>2, Invariance, PTL DEF Spec, ImplementsProbeJob, Job!Spec
============================================================================
