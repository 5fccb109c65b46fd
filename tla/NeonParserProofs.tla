-------------------------- MODULE NeonParserProofs --------------------------
(* Theorems about NeonParser, for documents of every size and shape.        *)
EXTENDS NeonParser, FlatSequences

(***************************************************************************)
(* Vectors.                                                                *)
(***************************************************************************)

(* A vector of nodes that gets one more is still one, and ends with it.     *)
LEMMA AppendedNodes ==
    ASSUME NEW s \in Seq(Nodes), NEW node \in Nodes
    PROVE  /\ Append(s, node) \in Seq(Nodes)
           /\ Len(Append(s, node)) = Len(s) + 1
           /\ Len(s) + 1 \in DOMAIN Append(s, node)
           /\ Append(s, node)[Len(s) + 1] = node
  OBVIOUS

(* As long as ever, if it has the same indices.                             *)
LEMMA SameInterval == \A k, n \in Nat : 1..k = 1..n => k = n
<1> SUFFICES ASSUME NEW k \in Nat, NEW n \in Nat, 1..k = 1..n, k < n \/ n < k PROVE FALSE
  OBVIOUS
<1>1. CASE k < n
  BY <1>1
<1>2. CASE n < k
  BY <1>2
<1> QED
  BY <1>1, <1>2

(* So the length of a sequence is known from its indices.                   *)
LEMMA SameLength ==
    ASSUME NEW s \in Seq(Nodes), NEW t \in Seq(Nodes), DOMAIN s = DOMAIN t
    PROVE  Len(s) = Len(t)
  BY SameInterval, LenProperties

(* Which node is which: only the block and the index tell.                  *)
LEMMA AddressFacts ==
    /\ Root \in Addresses /\ Null \in Addresses /\ None \in Nat
    /\ \A a \in Addresses : a[1] \in Nat /\ a[2] \in Nat /\ a = <<a[1], a[2]>>
  BY SMT DEF Addresses, Root, Null, None

(* A node that is new has no children, wherever its parent is.              *)
LEMMA NewNodes ==
    \A name \in Names, a \in Addresses : /\ Node(name, a) \in Nodes
                                          /\ Node(name, a).name = name
                                          /\ Node(name, a).parent = a
                                          /\ Node(name, a).kids = None
  BY AddressFacts, SMT DEF Node, Nodes

(* Blocks are numbered in the order they were made, and hold nodes.         *)
Sound(m) ==
    /\ m.fresh \in Nat
    /\ \A b \in DOMAIN m.heap : b \in Nat /\ b < m.fresh /\ m.heap[b] \in Seq(Nodes)

Holds(m, a) == a[1] \in DOMAIN m.heap /\ a[2] \in DOMAIN m.heap[a[1]]

(* The children of the node at a are in a block made after its own.         *)
Younger(m, a) ==
    LET kids == m.heap[a[1]][a[2]].kids
    IN  kids # None => kids \in DOMAIN m.heap /\ a[1] < kids

(* From m to e no node of a block up to last changed, but that the children *)
(* of the one at a are in block into.                                       *)
Kept(m, e, last, a, into) ==
    \A b \in DOMAIN m.heap : b <= last =>
        /\ b \in DOMAIN e.heap /\ DOMAIN e.heap[b] = DOMAIN m.heap[b]
        /\ \A i \in DOMAIN m.heap[b] :
            e.heap[b][i] = IF <<b, i>> = a THEN [m.heap[b][i] EXCEPT !.kids = into]
                                           ELSE m.heap[b][i]

(* The children of the one at a, and then node, are block into of e; what   *)
(* was in other blocks is where it was, and only that is.                   *)
Elsewhere(m, a, b) ==
    LET kids == m.heap[a[1]][a[2]].kids
    IN  b \in DOMAIN m.heap /\ (kids = None \/ b # kids)

Moved(m, e, a, node, into) ==
    LET kids == m.heap[a[1]][a[2]].kids
    IN  /\ into \in Nat /\ a[1] < into /\ into \in DOMAIN e.heap
        /\ e.heap[into] = Append(IF kids = None THEN <<>> ELSE m.heap[kids], node)
        /\ (kids # None /\ into = kids) \/ into \notin DOMAIN m.heap
        /\ e.heap[a[1]][a[2]].kids = into
        /\ \A b \in DOMAIN e.heap : b = into \/ Elsewhere(m, a, b)
        /\ \A b : Elsewhere(m, a, b) =>
                /\ b \in DOMAIN e.heap /\ b # into
                /\ b # a[1] => e.heap[b] = m.heap[b]

(* The heap when only that has changed.                                     *)
Redirect(m, a, into) == [m.heap EXCEPT ![a[1]][a[2]].kids = into]

OnlyKids(m, here, a, into) ==
    /\ DOMAIN here = DOMAIN m.heap
    /\ here[a[1]][a[2]] = [m.heap[a[1]][a[2]] EXCEPT !.kids = into]
    /\ \A b \in DOMAIN m.heap : b # a[1] => here[b] = m.heap[b]
    /\ \A b \in DOMAIN m.heap :
        /\ here[b] \in Seq(Nodes) /\ DOMAIN here[b] = DOMAIN m.heap[b]
        /\ \A i \in DOMAIN m.heap[b] :
            here[b][i] = IF <<b, i>> = a THEN [m.heap[b][i] EXCEPT !.kids = into]
                                         ELSE m.heap[b][i]

(* One node whose children moved: the heap is sound if it was.              *)
LEMMA Redirected ==
    ASSUME NEW m, Sound(m), NEW a \in Addresses, Holds(m, a), NEW into \in Nat
    PROVE  OnlyKids(m, Redirect(m, a, into), a, into)
<1> DEFINE here == Redirect(m, a, into)
           block == [m.heap[a[1]] EXCEPT ![a[2]] = [@ EXCEPT !.kids = into]]
<1>1. \A b \in DOMAIN m.heap : m.heap[b] \in Seq(Nodes)
  BY DEF Sound
<1>2. a[1] \in DOMAIN m.heap /\ a[2] \in DOMAIN m.heap[a[1]] /\ m.heap[a[1]] \in Seq(Nodes)
  BY <1>1 DEF Holds
<1>3. here = [m.heap EXCEPT ![a[1]] = block]
  BY DEF Redirect
<1>4. block \in Seq(Nodes) /\ DOMAIN block = DOMAIN m.heap[a[1]]
  <2> DEFINE node == [m.heap[a[1]][a[2]] EXCEPT !.kids = into]
  <2>1. m.heap[a[1]][a[2]] \in Nodes
    BY <1>2
  <2>2. node \in Nodes
    BY <2>1 DEF Nodes
  <2> HIDE DEF node
  <2>3. [m.heap[a[1]] EXCEPT ![a[2]] = node] \in Seq(Nodes)
    BY <1>2, <2>2
  <2> QED
    BY <2>3 DEF node
<1>5. \A i \in DOMAIN m.heap[a[1]] :
        block[i] = IF i = a[2] THEN [m.heap[a[1]][i] EXCEPT !.kids = into] ELSE m.heap[a[1]][i]
  OBVIOUS
<1>6. a = <<a[1], a[2]>>
  BY AddressFacts
<1>7. ASSUME NEW b \in DOMAIN m.heap
      PROVE  here[b] = IF b = a[1] THEN block ELSE m.heap[b]
  BY <1>3
<1> HIDE DEF here, block
<1>8. DOMAIN here = DOMAIN m.heap
  BY <1>3
<1>9. ASSUME NEW b \in DOMAIN m.heap
      PROVE  /\ here[b] \in Seq(Nodes) /\ DOMAIN here[b] = DOMAIN m.heap[b]
             /\ \A i \in DOMAIN m.heap[b] :
                 here[b][i] = IF <<b, i>> = a THEN [m.heap[b][i] EXCEPT !.kids = into]
                                              ELSE m.heap[b][i]
  <2>1. CASE b = a[1]
    <3>1. here[b] = block
      BY <2>1, <1>7
    <3>2. \A i : <<b, i>> = a <=> i = a[2]
      BY <1>6, <2>1
    <3> QED
      BY <2>1, <3>1, <3>2, <1>4, <1>5
  <2>2. CASE b # a[1]
    <3>1. here[b] = m.heap[b]
      BY <2>2, <1>7
    <3>2. \A i : <<b, i>> # a
      BY <1>6, <2>2
    <3> QED
      BY <3>1, <3>2, <1>1
  <2> QED
    BY <2>1, <2>2
<1>10. here[a[1]][a[2]] = [m.heap[a[1]][a[2]] EXCEPT !.kids = into]
  BY <1>2, <1>5, <1>7
<1>11. \A b \in DOMAIN m.heap : b # a[1] => here[b] = m.heap[b]
  BY <1>7
<1> QED
  BY <1>8, <1>9, <1>10, <1>11 DEF here, OnlyKids

(* emplace_back moves nothing but the children of that node, which are all  *)
(* in younger blocks; the new one is the last of them.                      *)
LEMMA Emplaced ==
    ASSUME NEW m, Sound(m), NEW a \in Addresses, Holds(m, a), Younger(m, a), NEW node \in Nodes
    PROVE  LET e    == EmplaceBack(m, a, node)
               back == Back(e, a)
           IN  /\ Sound(e) /\ m.fresh <= e.fresh /\ Kept(m, e, a[1], a, back[1])
               /\ back \in Addresses /\ a[1] < back[1]
               /\ Holds(e, back) /\ e.heap[back[1]][back[2]] = node
               /\ back[2] = Len(e.heap[back[1]]) /\ Moved(m, e, a, node, back[1])
<1> DEFINE e    == EmplaceBack(m, a, node)
           back == Back(e, a)
           kids == m.heap[a[1]][a[2]].kids
           old  == IF kids = None THEN <<>> ELSE m.heap[kids]
           grow == kids = None \/ Full(Len(old))
           into == IF grow THEN m.fresh ELSE kids
           here == [m.heap EXCEPT ![a[1]][a[2]].kids = into]
           alive == (DOMAIN m.heap \ (IF grow THEN {kids} \ {None} ELSE {})) \cup {into}
<1>1. /\ m.fresh \in Nat /\ a[1] \in DOMAIN m.heap /\ a[1] \in Nat
      /\ a[2] \in DOMAIN m.heap[a[1]]
      /\ \A b \in DOMAIN m.heap : b \in Nat /\ b < m.fresh /\ m.heap[b] \in Seq(Nodes)
  BY AddressFacts DEF Sound, Holds
<1>2. kids \in Nat
  <2>1. m.heap[a[1]][a[2]] \in Nodes
    BY <1>1
  <2> QED
    BY <2>1 DEF Nodes
<1>3. kids # None => kids \in DOMAIN m.heap /\ a[1] < kids
  BY DEF Younger
<1>4. old \in Seq(Nodes) /\ (~grow => kids # None)
  BY <1>1, <1>3
<1>5. into \in Nat /\ a[1] < into /\ (~grow => into = kids) /\ (grow => into = m.fresh)
  BY <1>1, <1>2, <1>3
<1>6. /\ e.heap = [b \in alive |-> IF b = into THEN Append(old, node) ELSE here[b]]
      /\ e.fresh = IF grow THEN m.fresh + 1 ELSE m.fresh
  BY DEF EmplaceBack
<1>7. e.fresh \in Nat /\ m.fresh <= e.fresh /\ into < e.fresh
  <2> HIDE DEF e, kids, old, grow, into, here, alive
  <2>1. CASE grow
    BY <1>1, <1>5, <1>6, <2>1
  <2>2. CASE ~grow
    <3>1. kids \in DOMAIN m.heap
      BY <1>3, <1>4, <2>2
    <3> QED
      BY <1>1, <1>5, <1>6, <2>2, <3>1
  <2> QED
    BY <2>1, <2>2
<1>8. /\ \A b \in alive : b = into \/ b \in DOMAIN m.heap
      /\ into \in alive
      /\ \A b \in DOMAIN m.heap : b <= a[1] => b \in alive /\ b # into
      /\ \A b \in alive : b = into \/ (b \in DOMAIN m.heap /\ (kids = None \/ b # kids))
      /\ \A b \in DOMAIN m.heap : (kids = None \/ b # kids) => b \in alive /\ b # into
  <2> HIDE DEF e, kids, old, grow, into, here
  <2> QED
    BY <1>1, <1>2, <1>3, <1>4, <1>5
<1>9. /\ DOMAIN here = DOMAIN m.heap
      /\ here[a[1]][a[2]] = [m.heap[a[1]][a[2]] EXCEPT !.kids = into]
      /\ \A b \in DOMAIN m.heap : b # a[1] => here[b] = m.heap[b]
      /\ \A b \in DOMAIN m.heap :
            /\ here[b] \in Seq(Nodes) /\ DOMAIN here[b] = DOMAIN m.heap[b]
            /\ \A i \in DOMAIN m.heap[b] :
                here[b][i] = IF <<b, i>> = a THEN [m.heap[b][i] EXCEPT !.kids = into]
                                             ELSE m.heap[b][i]
  <2>1. into \in Nat /\ here = Redirect(m, a, into)
    BY <1>5 DEF Redirect
  <2> HIDE DEF e, kids, old, grow, into, here, alive
  <2>2. OnlyKids(m, Redirect(m, a, into), a, into)
    BY <2>1, Redirected
  <2> QED
    BY <2>1, <2>2 DEF OnlyKids
<1>10. back = <<e.heap[a[1]][a[2]].kids, Len(e.heap[e.heap[a[1]][a[2]].kids])>>
  BY DEF Back
<1> HIDE DEF e, back, kids, old, grow, into, here, alive
<1>11. DOMAIN e.heap = alive
  BY <1>6
<1>12. /\ e.heap[into] = Append(old, node)
       /\ \A b \in alive : b # into => e.heap[b] = here[b]
  BY <1>6, <1>8
<1>13. Sound(e)
  <2>1. ASSUME NEW b \in DOMAIN e.heap
        PROVE  b \in Nat /\ b < e.fresh /\ e.heap[b] \in Seq(Nodes)
    <3>1. CASE b = into
      BY <3>1, <1>4, <1>5, <1>7, <1>12, AppendedNodes
    <3>2. CASE b # into
      <4>1. b \in DOMAIN m.heap /\ e.heap[b] = here[b]
        BY <3>2, <1>8, <1>11, <1>12
      <4> QED
        BY <4>1, <1>1, <1>7, <1>9
    <3> QED
      BY <3>1, <3>2
  <2> QED
    BY <2>1, <1>7 DEF Sound
<1>14. Kept(m, e, a[1], a, into)
  <2>1. ASSUME NEW b \in DOMAIN m.heap, b <= a[1]
        PROVE  b \in DOMAIN e.heap /\ e.heap[b] = here[b]
    BY <1>8, <1>11, <1>12, <2>1
  <2>2. \A b \in DOMAIN m.heap :
          /\ DOMAIN here[b] = DOMAIN m.heap[b]
          /\ \A i \in DOMAIN m.heap[b] :
              here[b][i] = IF <<b, i>> = a THEN [m.heap[b][i] EXCEPT !.kids = into]
                                           ELSE m.heap[b][i]
    BY <1>9
  <2> QED
    BY <2>1, <2>2 DEF Kept
<1>15. e.heap[a[1]][a[2]].kids = into
  <2>1. m.heap[a[1]][a[2]] \in Nodes
    BY <1>1
  <2>2. [m.heap[a[1]][a[2]] EXCEPT !.kids = into].kids = into
    BY <2>1 DEF Nodes
  <2>3. e.heap[a[1]] = here[a[1]]
    BY <1>1, <1>8, <1>12
  <2>4. e.heap[a[1]][a[2]] = [m.heap[a[1]][a[2]] EXCEPT !.kids = into]
    <3>1. here[a[1]][a[2]] = [m.heap[a[1]][a[2]] EXCEPT !.kids = into]
      BY <1>9
    <3> QED
      BY <2>3, <3>1
  <2> QED
    BY <2>2, <2>4
<1>16. back = <<into, Len(old) + 1>>
  BY <1>4, <1>10, <1>12, <1>15, AppendedNodes
<1>17. /\ back \in Addresses /\ back[1] = into /\ back[2] = Len(old) + 1
  BY <1>4, <1>5, <1>16 DEF Addresses
<1>18. Holds(e, back) /\ e.heap[back[1]][back[2]] = node
  BY <1>4, <1>8, <1>11, <1>12, <1>17, AppendedNodes DEF Holds
<1>19. back[2] = Len(e.heap[back[1]])
  BY <1>4, <1>12, <1>17, AppendedNodes
<1>20. ASSUME NEW b, Elsewhere(m, a, b), b # a[1]
       PROVE  e.heap[b] = m.heap[b]
  <2>1. b \in DOMAIN m.heap /\ b \in alive /\ b # into
    BY <1>8, <1>20 DEF Elsewhere, kids
  <2> QED
    BY <1>9, <1>12, <1>20, <2>1
<1>21. Moved(m, e, a, node, into)
  <2>1. (kids # None /\ into = kids) \/ into \notin DOMAIN m.heap
    BY <1>1, <1>4, <1>5
  <2>2. /\ \A b \in DOMAIN e.heap : b = into \/ Elsewhere(m, a, b)
        /\ \A b : Elsewhere(m, a, b) => b \in DOMAIN e.heap /\ b # into
    BY <1>8, <1>11 DEF Elsewhere, kids
  <2>3. e.heap[into] = Append(IF kids = None THEN <<>> ELSE m.heap[kids], node)
    BY <1>12 DEF old
  <2>4. into \in Nat /\ a[1] < into /\ into \in DOMAIN e.heap
    BY <1>5, <1>8, <1>11
  <2> QED
    BY <1>15, <1>20, <2>1, <2>2, <2>3, <2>4 DEF Moved, kids
<1> QED
  BY <1>5, <1>7, <1>13, <1>14, <1>17, <1>18, <1>19, <1>21 DEF e, back

(* The attributes of a new node are its only children, and its youngest.    *)
Leaves(m, e, a, attrs) ==
    IF attrs = <<>> THEN e = m
    ELSE /\ m.fresh \notin DOMAIN m.heap /\ DOMAIN e.heap = DOMAIN m.heap \cup {m.fresh}
         /\ e.heap[m.fresh] = [i \in DOMAIN attrs |-> Node(attrs[i], a)]
         /\ e.heap[a[1]][a[2]].kids = m.fresh
         /\ \A b \in DOMAIN m.heap : b # a[1] => e.heap[b] = m.heap[b]

LEMMA Attributed ==
    ASSUME NEW m, Sound(m), NEW a \in Addresses, Holds(m, a), m.heap[a[1]][a[2]].kids = None,
           NEW attrs \in Seq(Names)
    PROVE  LET e == AddAttrs(m, a, attrs)
           IN  /\ Sound(e) /\ Holds(e, a) /\ Younger(e, a) /\ Leaves(m, e, a, attrs)
               /\ e.heap[a[1]][a[2]].name = m.heap[a[1]][a[2]].name
               /\ e.heap[a[1]][a[2]].parent = m.heap[a[1]][a[2]].parent
               /\ \A b \in DOMAIN m.heap :
                    /\ b \in DOMAIN e.heap /\ DOMAIN e.heap[b] = DOMAIN m.heap[b]
                    /\ Len(e.heap[b]) = Len(m.heap[b])
                    /\ \A i \in DOMAIN m.heap[b] : <<b, i>> # a => e.heap[b][i] = m.heap[b][i]
<1> DEFINE e    == AddAttrs(m, a, attrs)
           here == [m.heap EXCEPT ![a[1]][a[2]].kids = m.fresh]
           list == [i \in DOMAIN attrs |-> Node(attrs[i], a)]
<1>1. CASE attrs = <<>>
  <2>1. e = m
    BY <1>1 DEF AddAttrs
  <2> QED
    BY <1>1, <2>1 DEF Younger, Leaves
<1>2. CASE attrs # <<>>
  <2>1. /\ m.fresh \in Nat /\ a[1] \in DOMAIN m.heap /\ a[1] \in Nat
        /\ a[2] \in DOMAIN m.heap[a[1]]
        /\ \A b \in DOMAIN m.heap : b \in Nat /\ b < m.fresh /\ m.heap[b] \in Seq(Nodes)
    BY AddressFacts DEF Sound, Holds
  <2>2. /\ e.heap = [b \in DOMAIN m.heap \cup {m.fresh} |-> IF b = m.fresh THEN list ELSE here[b]]
        /\ e.fresh = m.fresh + 1
    BY <1>2 DEF AddAttrs
  <2>3. /\ DOMAIN here = DOMAIN m.heap
        /\ here[a[1]][a[2]] = [m.heap[a[1]][a[2]] EXCEPT !.kids = m.fresh]
        /\ \A b \in DOMAIN m.heap : b # a[1] => here[b] = m.heap[b]
        /\ \A b \in DOMAIN m.heap :
              /\ here[b] \in Seq(Nodes) /\ DOMAIN here[b] = DOMAIN m.heap[b]
              /\ \A i \in DOMAIN m.heap[b] :
                  here[b][i] = IF <<b, i>> = a THEN [m.heap[b][i] EXCEPT !.kids = m.fresh]
                                               ELSE m.heap[b][i]
    <3>1. here = Redirect(m, a, m.fresh)
      BY DEF Redirect
    <3> HIDE DEF here, e
    <3>2. OnlyKids(m, Redirect(m, a, m.fresh), a, m.fresh)
      BY <2>1, Redirected
    <3> QED
      BY <3>1, <3>2 DEF OnlyKids
  <2>4. list \in Seq(Nodes)
    <3>1. \A i \in 1..Len(attrs) : attrs[i] \in Names
      OBVIOUS
    <3>2. \A i \in 1..Len(attrs) : Node(attrs[i], a) \in Nodes
      BY <3>1, NewNodes
    <3> QED
      BY <3>2
  <2>5. m.heap[a[1]][a[2]] \in Nodes
    BY <2>1
  <2> HIDE DEF e, here, list
  <2>6. /\ DOMAIN e.heap = DOMAIN m.heap \cup {m.fresh} /\ e.heap[m.fresh] = list
        /\ \A b \in DOMAIN m.heap : b # m.fresh /\ e.heap[b] = here[b]
    BY <2>1, <2>2
  <2>7. Sound(e)
    BY <2>1, <2>2, <2>3, <2>4, <2>6 DEF Sound
  <2>8. e.heap[a[1]][a[2]] = [m.heap[a[1]][a[2]] EXCEPT !.kids = m.fresh]
    BY <2>1, <2>3, <2>6
  <2>9. /\ e.heap[a[1]][a[2]].name = m.heap[a[1]][a[2]].name
        /\ e.heap[a[1]][a[2]].parent = m.heap[a[1]][a[2]].parent
        /\ e.heap[a[1]][a[2]].kids = m.fresh
    BY <2>5, <2>8 DEF Nodes
  <2>10. Holds(e, a) /\ Younger(e, a)
    BY <2>1, <2>3, <2>6, <2>9 DEF Holds, Younger
  <2>11. ASSUME NEW b \in DOMAIN m.heap
         PROVE  /\ b \in DOMAIN e.heap /\ DOMAIN e.heap[b] = DOMAIN m.heap[b]
                /\ Len(e.heap[b]) = Len(m.heap[b])
                /\ \A i \in DOMAIN m.heap[b] : <<b, i>> # a => e.heap[b][i] = m.heap[b][i]
    <3>1. e.heap[b] = here[b] /\ b \in DOMAIN e.heap
      BY <2>6
    <3>2. ASSUME NEW i \in DOMAIN m.heap[b], <<b, i>> # a
          PROVE  here[b][i] = m.heap[b][i]
      BY <2>3, <3>2
    <3>3. DOMAIN here[b] = DOMAIN m.heap[b] /\ Len(here[b]) = Len(m.heap[b])
      <4>1. here[b] \in Seq(Nodes) /\ m.heap[b] \in Seq(Nodes) /\ DOMAIN here[b] = DOMAIN m.heap[b]
        BY <2>1, <2>3
      <4> QED
        BY <4>1, SameLength
    <3> QED
      BY <3>1, <3>2, <3>3
  <2>12. Leaves(m, e, a, attrs)
    <3>1. \A b \in DOMAIN m.heap : b # a[1] => e.heap[b] = m.heap[b]
      BY <2>3, <2>6
    <3>2. m.fresh \notin DOMAIN m.heap
      BY <2>1
    <3> QED
      BY <1>2, <2>6, <2>9, <3>1, <3>2 DEF Leaves, list
  <2> QED
    BY <2>7, <2>9, <2>10, <2>11, <2>12 DEF e
<1> QED
  BY <1>1, <1>2

(***************************************************************************)
(* One more child of m_current, with its attributes if it is an element.   *)
(***************************************************************************)

(* What the invariant says of the memory.                                   *)
LEMMA MemoryFacts ==
    ASSUME TypeOK, KidsInv
    PROVE  /\ Memory.heap = heap /\ Memory.fresh = fresh
           /\ Sound(Memory) /\ current \in Addresses
           /\ Holds(Memory, current) /\ Younger(Memory, current)
<1>1. Memory.heap = heap /\ Memory.fresh = fresh
  BY DEF Memory
<1>2. Sound(Memory)
  <2>1. ASSUME NEW b \in DOMAIN heap PROVE b \in Nat /\ b < fresh /\ heap[b] \in Seq(Nodes)
    <3>1. fresh \in Nat /\ b \in 0..(fresh - 1) /\ heap[b] \in Seq(Nodes)
      BY DEF TypeOK
    <3> QED
      BY <3>1
  <2>2. fresh \in Nat
    BY DEF TypeOK
  <2> QED
    BY <1>1, <2>1, <2>2 DEF Sound
<1>3. Holds(Memory, current) /\ current \in Addresses
  BY <1>1 DEF TypeOK, Live, Holds
<1>4. Younger(Memory, current)
  BY <1>1 DEF KidsInv, At, Younger
<1> QED
  BY <1>1, <1>2, <1>3, <1>4

(* The memory e holds the node at a, as it is but for its children.         *)
Stays(e, a, kids) ==
    /\ Holds(e, a) /\ Len(e.heap[a[1]]) = Len(heap[a[1]])
    /\ e.heap[a[1]][a[2]].name = At(a).name
    /\ e.heap[a[1]][a[2]].parent = At(a).parent
    /\ e.heap[a[1]][a[2]].kids = kids

(* m_current gets its child in a younger block, and what is open stays.     *)
LEMMA Added ==
    ASSUME TypeOK, KidsInv, NEW path \in [0..Len(open) -> Addresses], Leads(path),
           NEW node \in Nodes, node.kids = None, NEW attrs \in Seq(Names)
    PROVE  LET started == EmplaceBack(Memory, current, node)
               back    == Back(started, current)
               e       == AddAttrs(started, back, attrs)
           IN  /\ Sound(e) /\ back \in Addresses /\ current[1] < back[1]
               /\ Holds(e, back) /\ Younger(e, back) /\ back[2] = Len(e.heap[back[1]])
               /\ e.heap[back[1]][back[2]].name = node.name
               /\ e.heap[back[1]][back[2]].parent = node.parent
               /\ \A n \in 0..Len(open) :
                    Stays(e, path[n], IF n = Len(open) THEN back[1] ELSE At(path[n]).kids)
<1> DEFINE started == EmplaceBack(Memory, current, node)
           back    == Back(started, current)
           e       == AddAttrs(started, back, attrs)
<1>1. /\ Memory.heap = heap /\ Memory.fresh = fresh
      /\ Sound(Memory) /\ current \in Addresses
      /\ Holds(Memory, current) /\ Younger(Memory, current)
  BY MemoryFacts
<1>2. /\ Sound(started) /\ Kept(Memory, started, current[1], current, back[1])
      /\ back \in Addresses /\ current[1] < back[1]
      /\ Holds(started, back) /\ started.heap[back[1]][back[2]] = node
      /\ back[2] = Len(started.heap[back[1]])
  BY <1>1, Emplaced
<1> HIDE DEF started, back
<1>3. /\ Sound(e) /\ Holds(e, back) /\ Younger(e, back)
      /\ e.heap[back[1]][back[2]].name = node.name
      /\ e.heap[back[1]][back[2]].parent = node.parent
      /\ \A b \in DOMAIN started.heap :
           /\ b \in DOMAIN e.heap /\ DOMAIN e.heap[b] = DOMAIN started.heap[b]
           /\ Len(e.heap[b]) = Len(started.heap[b])
           /\ \A i \in DOMAIN started.heap[b] :
                <<b, i>> # back => e.heap[b][i] = started.heap[b][i]
  BY <1>2, Attributed
<1> HIDE DEF e
<1>4. ASSUME NEW n \in 0..Len(open)
      PROVE  Stays(e, path[n], IF n = Len(open) THEN back[1] ELSE At(path[n]).kids)
  <2> DEFINE a == path[n]
  <2>1. Len(open) \in Nat /\ n \in Nat /\ n <= Len(open)
    BY DEF TypeOK
  <2>2. /\ a \in Addresses /\ a[1] \in Nat /\ a[2] \in Nat /\ a = <<a[1], a[2]>>
        /\ current[1] \in Nat /\ back[1] \in Nat
        /\ current = <<current[1], current[2]>> /\ back = <<back[1], back[2]>>
    BY <1>1, <1>2, AddressFacts
  <2>3. Live(a)
    BY DEF Leads
  <2>4. a[1] \in DOMAIN heap /\ a[2] \in DOMAIN heap[a[1]] /\ heap[a[1]][a[2]] \in Nodes
    <3>1. a[1] \in DOMAIN heap /\ a[2] \in DOMAIN heap[a[1]]
      BY <2>3 DEF Live
    <3>2. heap[a[1]] \in Seq(Nodes)
      BY <3>1 DEF TypeOK
    <3> QED
      BY <3>1, <3>2
  <2>5. /\ a[1] <= current[1]
        /\ n # Len(open) => a # current
        /\ n = Len(open) => a = current
    <3>1. CASE n = Len(open)
      <4>1. a = current
        BY <3>1 DEF Leads
      <4> QED
        BY <2>2, <3>1, <4>1
    <3>2. CASE n # Len(open)
      <4>1. n < Len(open) /\ Len(open) \in 0..Len(open) /\ path[Len(open)] = current
        BY <2>1, <3>2 DEF Leads
      <4>2. a[1] < current[1]
        BY <4>1 DEF Leads
      <4> QED
        BY <2>2, <3>2, <4>2
    <3> QED
      BY <3>1, <3>2
  <2> HIDE DEF a
  <2>6. a # back
    BY <1>2, <2>2, <2>5
  <2>7. /\ a[1] \in DOMAIN started.heap /\ a[2] \in DOMAIN started.heap[a[1]]
        /\ Len(started.heap[a[1]]) = Len(heap[a[1]])
        /\ started.heap[a[1]][a[2]] = IF a = current
                                      THEN [heap[a[1]][a[2]] EXCEPT !.kids = back[1]]
                                      ELSE heap[a[1]][a[2]]
    <3> DEFINE b == a[1]
               i == a[2]
    <3>1. b \in DOMAIN Memory.heap /\ b <= current[1] /\ i \in DOMAIN Memory.heap[b]
      BY <1>1, <2>4, <2>5
    <3>2. <<b, i>> = a
      BY <2>2
    <3> HIDE DEF b, i
    <3>3. /\ b \in DOMAIN started.heap /\ DOMAIN started.heap[b] = DOMAIN Memory.heap[b]
          /\ started.heap[b][i] = IF <<b, i>> = a /\ a = current
                                  THEN [Memory.heap[b][i] EXCEPT !.kids = back[1]]
                                  ELSE Memory.heap[b][i]
      BY <1>2, <3>1, <3>2 DEF Kept
    <3>4. Len(started.heap[b]) = Len(Memory.heap[b])
      <4>1. started.heap[b] \in Seq(Nodes) /\ Memory.heap[b] \in Seq(Nodes)
        BY <1>1, <1>2, <3>1, <3>3 DEF Sound
      <4> QED
        BY <3>3, <4>1, SameLength
    <3> QED
      BY <1>1, <3>1, <3>2, <3>3, <3>4 DEF b, i
  <2>8. /\ e.heap[a[1]][a[2]] = started.heap[a[1]][a[2]] /\ Holds(e, a)
        /\ Len(e.heap[a[1]]) = Len(heap[a[1]])
    <3>1. <<a[1], a[2]>> # back
      BY <2>2, <2>6
    <3> QED
      BY <1>3, <2>7, <3>1 DEF Holds
  <2>9. /\ e.heap[a[1]][a[2]].name = heap[a[1]][a[2]].name
        /\ e.heap[a[1]][a[2]].parent = heap[a[1]][a[2]].parent
        /\ e.heap[a[1]][a[2]].kids = IF n = Len(open) THEN back[1] ELSE heap[a[1]][a[2]].kids
    <3>1. CASE n = Len(open)
      <4>1. e.heap[a[1]][a[2]] = [heap[a[1]][a[2]] EXCEPT !.kids = back[1]]
        BY <2>5, <2>7, <2>8, <3>1
      <4> QED
        BY <2>4, <3>1, <4>1 DEF Nodes
    <3>2. CASE n # Len(open)
      BY <2>5, <2>7, <2>8, <3>2
    <3> QED
      BY <3>1, <3>2
  <2>10. Stays(e, a, IF n = Len(open) THEN back[1] ELSE At(a).kids)
    BY <2>8, <2>9 DEF Stays, At
  <2> QED
    BY <2>10 DEF a
<1>5. back[2] = Len(e.heap[back[1]])
  BY <1>2, <1>3 DEF Holds
<1> QED
  BY <1>2, <1>3, <1>4, <1>5 DEF started, back, e

(* Two sequences, one after the other.                                      *)
LEMMA Joined ==
    ASSUME NEW S, NEW s \in Seq(S), NEW t \in Seq(S)
    PROVE  s \o t \in Seq(S) /\ Len(s \o t) = Len(s) + Len(t)
  OBVIOUS

(***************************************************************************)
(* The invariant holds at first and every handler keeps it.                *)
(***************************************************************************)

(* The root is an element of its own, and nothing is open.                  *)
LEMMA InitHolds == Init => IInv
<1> SUFFICES ASSUME Init PROVE IInv
  OBVIOUS
<1> DEFINE root == Node(NoName, Null)
<1>1. root \in Nodes /\ root.kids = None
  <2>1. NoName \in Names
    BY DEF Names
  <2> QED
    BY <2>1, NewNodes, AddressFacts
<1>2. /\ heap = [b \in {0} |-> <<root>>] /\ fresh = 1 /\ current = Root /\ open = <<>>
      /\ doc = <<>> /\ ended = FALSE
  BY DEF Init
<1> HIDE DEF root
<1>3. DOMAIN heap = {0} /\ heap[0] = <<root>> /\ <<root>> \in Seq(Nodes)
  BY <1>1, <1>2
<1>4. Root[1] = 0 /\ Root[2] = 1 /\ current = Root
  BY <1>2 DEF Root
<1>5. Live(Root) /\ At(Root) = root
  BY <1>2, <1>3, <1>4 DEF Live, At
<1>6. TypeOK
  <2>1. DOMAIN heap \subseteq 0..(fresh - 1) /\ \A b \in DOMAIN heap : heap[b] \in Seq(Nodes)
    BY <1>2, <1>3
  <2>2. Len(open) = 0 /\ open \in Seq(Tags) /\ Len(doc) = 0 /\ doc \in Seq(Nat \X Names)
    BY <1>2
  <2>3. Len(open) <= MaxDepth /\ Len(doc) <= MaxNodes
    BY <2>2, BoundsAssumption
  <2> QED
    BY <1>2, <1>5, <2>1, <2>2, <2>3, AddressFacts DEF TypeOK, Live
<1>7. KidsInv
  BY <1>1, <1>4, <1>5 DEF KidsInv
<1>8. PathInv
  <2> DEFINE path == [n \in 0..0 |-> Root]
  <2>1. Len(open) = 0 /\ path \in [0..Len(open) -> Addresses]
    BY <1>2, AddressFacts
  <2>2. path[0] = Root
    OBVIOUS
  <2> HIDE DEF path
  <2>3. Root[2] = Len(heap[Root[1]])
    <3>1. Len(<<root>>) = 1
      OBVIOUS
    <3> QED
      BY <1>3, <1>4, <3>1
  <2>4. Leads(path)
    BY <1>4, <1>5, <2>1, <2>2, <2>3 DEF Leads
  <2> QED
    BY <2>1, <2>4 DEF PathInv
<1> QED
  BY <1>6, <1>7, <1>8 DEF IInv

(* A sound memory is typed, and an address it holds is alive.               *)
LEMMA StoredIsTyped ==
    ASSUME NEW m, Sound(m), Store(m)
    PROVE  /\ fresh' \in Nat /\ DOMAIN heap' \subseteq 0..(fresh' - 1)
           /\ \A b \in DOMAIN heap' : heap'[b] \in Seq(Nodes)
           /\ \A a \in Addresses : Holds(m, a) => Live(a)'
           /\ \A a \in Addresses : At(a)' = m.heap[a[1]][a[2]]
<1>1. heap' = m.heap /\ fresh' = m.fresh
  BY DEF Store
<1>2. fresh' \in Nat /\ \A b \in DOMAIN heap' : b \in Nat /\ b < fresh' /\ heap'[b] \in Seq(Nodes)
  BY <1>1 DEF Sound
<1>3. DOMAIN heap' \subseteq 0..(fresh' - 1)
  BY <1>2
<1>4. \A a \in Addresses : Holds(m, a) => Live(a)'
  BY <1>1 DEF Holds, Live
<1>5. \A a \in Addresses : At(a)' = m.heap[a[1]][a[2]]
  BY <1>1 DEF At
<1> QED
  BY <1>2, <1>3, <1>4, <1>5

(* startEl goes one element deeper: into the block that was made last.      *)
LEMMA StartElKeeps ==
    ASSUME IInv, NEW tag \in Tags, NEW attrs \in AttrLists, StartEl(tag, attrs)
    PROVE  IInv'
<1> DEFINE new     == Node(tag, current)
           started == EmplaceBack(Memory, current, new)
           back    == Back(started, current)
           grown   == AddAttrs(started, back, attrs)
<1>1. /\ TypeOK /\ KidsInv /\ Len(open) \in Nat /\ current \in Addresses
      /\ open \in Seq(Tags) /\ ended \in BOOLEAN
  BY DEF IInv, TypeOK
<1>2. PICK path \in [0..Len(open) -> Addresses] : Leads(path)
  BY DEF IInv, PathInv
<1>3. tag \in Names /\ attrs \in Seq(Names)
  BY NamesAssumption DEF Names
<1>4. /\ new \in Nodes /\ new.name = tag /\ new.parent = current /\ new.kids = None
  BY <1>1, <1>3, NewNodes
<1>5. /\ Store(grown) /\ current' = back /\ open' = Append(open, tag) /\ ended' = ended
      /\ Len(open) < MaxDepth /\ Len(doc) + (1 + Len(attrs)) <= MaxNodes
      /\ doc' = doc \o <<<<Len(open) + 1, tag>>>>
                    \o [i \in DOMAIN attrs |-> <<Len(open) + 2, attrs[i]>>]
  BY DEF StartEl, Room
<1> HIDE DEF new
<1>6. /\ Sound(grown) /\ back \in Addresses /\ current[1] < back[1]
      /\ Holds(grown, back) /\ Younger(grown, back) /\ back[2] = Len(grown.heap[back[1]])
      /\ grown.heap[back[1]][back[2]].name = new.name
      /\ grown.heap[back[1]][back[2]].parent = new.parent
      /\ \A n \in 0..Len(open) :
           Stays(grown, path[n], IF n = Len(open) THEN back[1] ELSE At(path[n]).kids)
  BY <1>1, <1>2, <1>3, <1>4, Added
<1> HIDE DEF started, back, grown
<1>7. PICK e, node, depth : e = grown /\ node = back /\ depth = Len(open)
  OBVIOUS
<1>8. /\ Store(e) /\ current' = node /\ Sound(e) /\ node \in Addresses /\ current[1] < node[1]
      /\ Holds(e, node) /\ Younger(e, node) /\ node[2] = Len(e.heap[node[1]])
      /\ e.heap[node[1]][node[2]].name = tag
      /\ e.heap[node[1]][node[2]].parent = current
      /\ \A n \in 0..depth : Stays(e, path[n], IF n = depth THEN node[1] ELSE At(path[n]).kids)
      /\ depth = Len(open) /\ depth \in Nat
  BY <1>1, <1>4, <1>5, <1>6, <1>7
<1>9. /\ Len(open') = depth + 1 /\ open' \in Seq(Tags)
      /\ \A n \in 1..depth : open'[n] = open[n]
      /\ open'[depth + 1] = tag
  BY <1>1, <1>5, <1>8
<1>10. doc' \in Seq(Nat \X Names) /\ Len(doc') <= MaxNodes
  <2> DEFINE Entries == Nat \X Names
             entry == <<depth + 1, tag>>
             list  == [i \in DOMAIN attrs |-> <<depth + 2, attrs[i]>>]
  <2>1. list \in Seq(Entries) /\ Len(list) = Len(attrs) /\ Len(attrs) \in Nat
    <3>1. \A i \in 1..Len(attrs) : <<depth + 2, attrs[i]>> \in Entries
      BY <1>3, <1>8
    <3>2. DOMAIN attrs = 1..Len(attrs) /\ Len(attrs) \in Nat
      BY <1>3
    <3> HIDE DEF Entries
    <3> QED
      BY <3>1, <3>2
  <2>2. entry \in Entries
    BY <1>3, <1>8
  <2>3. doc \in Seq(Entries)
    BY <1>1 DEF TypeOK
  <2>4. doc' = doc \o <<entry>> \o list
    BY <1>5, <1>8
  <2> HIDE DEF list, entry, Entries
  <2> DEFINE head == doc \o <<entry>>
  <2>5. head \in Seq(Entries) /\ Len(head) = Len(doc) + 1 /\ doc' = head \o list
    BY <2>2, <2>3, <2>4
  <2> HIDE DEF head
  <2>6. doc' \in Seq(Entries) /\ Len(doc') = Len(doc) + 1 + Len(attrs)
    <3>1. head \o list \in Seq(Entries) /\ Len(head \o list) = Len(head) + Len(list)
      BY <2>1, <2>5, Joined
    <3> QED
      BY <2>1, <2>5, <3>1
  <2>7. Len(doc') <= MaxNodes
    BY <1>5, <2>1, <2>3, <2>6
  <2> QED
    BY <2>6, <2>7 DEF Entries
<1>11. /\ Live(node)' /\ At(node)' = e.heap[node[1]][node[2]]
       /\ heap' = e.heap
  BY <1>8, StoredIsTyped DEF Store
<1>12. TypeOK'
  <2>1. Len(open') <= MaxDepth
    BY <1>5, <1>8, <1>9, BoundsAssumption
  <2>2. Live(current)'
    BY <1>8, <1>11 DEF Live
  <2>3. ended' \in BOOLEAN
    BY <1>1, <1>5
  <2>4. /\ fresh' \in Nat /\ DOMAIN heap' \subseteq 0..(fresh' - 1)
        /\ \A b \in DOMAIN heap' : heap'[b] \in Seq(Nodes)
    BY <1>8, StoredIsTyped
  <2> QED
    BY <1>8, <1>9, <1>10, <2>1, <2>2, <2>3, <2>4 DEF TypeOK
<1>13. KidsInv'
  BY <1>8, <1>11 DEF KidsInv, Younger, At
<1>14. PathInv'
  <2>1. PICK longer \in [0..(depth + 1) -> Addresses] :
            /\ \A n \in 0..depth : longer[n] = path[n]
            /\ longer[depth + 1] = node
    <3> DEFINE w == [n \in 0..(depth + 1) |-> IF n = depth + 1 THEN node ELSE path[n]]
    <3>1. /\ w \in [0..(depth + 1) -> Addresses]
          /\ \A n \in 0..depth : w[n] = path[n]
          /\ w[depth + 1] = node
      BY <1>2, <1>8
    <3> HIDE DEF w
    <3> QED
      BY <3>1
  <2>2. ASSUME NEW n \in 0..depth
        PROVE  /\ path[n] \in Addresses /\ Live(path[n])' /\ At(path[n])'.name = At(path[n]).name
               /\ At(path[n])'.parent = At(path[n]).parent
               /\ At(path[n])'.kids = IF n = depth THEN node[1] ELSE At(path[n]).kids
               /\ path[n][2] = Len(heap'[path[n][1]])
    <3>1. Stays(e, path[n], IF n = depth THEN node[1] ELSE At(path[n]).kids)
      BY <1>8
    <3>2. path[n] \in Addresses
      BY <1>2, <1>8
    <3>3. (Holds(e, path[n]) => Live(path[n])') /\ At(path[n])' = e.heap[path[n][1]][path[n][2]]
      BY <1>8, <3>2, StoredIsTyped
    <3>4. path[n][2] = Len(heap[path[n][1]])
      BY <1>2, <1>8 DEF Leads
    <3> QED
      BY <1>11, <3>1, <3>2, <3>3, <3>4 DEF Stays
  <2>3. path[depth] = current /\ longer[0] = Root /\ longer[depth + 1] = current'
    BY <1>2, <1>8, <2>1 DEF Leads
  <2>4. ASSUME NEW n \in 0..(depth + 1)
        PROVE  Live(longer[n])' /\ longer[n][2] = Len(heap'[longer[n][1]])
    <3>1. CASE n = depth + 1
      BY <1>8, <1>11, <2>1, <3>1
    <3>2. CASE n # depth + 1
      <4>1. n \in 0..depth
        BY <1>8, <3>2
      <4> QED
        BY <2>1, <2>2, <4>1
    <3> QED
      BY <3>1, <3>2
  <2>5. ASSUME NEW n \in 1..(depth + 1)
        PROVE  /\ At(longer[n])'.parent = longer[n - 1] /\ At(longer[n])'.name = open'[n]
               /\ At(longer[n - 1])'.kids = longer[n][1]
    <3>1. CASE n = depth + 1
      <4>1. n - 1 = depth /\ depth \in 0..depth
        BY <1>8, <3>1
      <4>2. longer[n] = node /\ longer[n - 1] = path[depth]
        BY <2>1, <3>1, <4>1
      <4>3. At(node)'.parent = current /\ At(node)'.name = tag
        BY <1>8, <1>11
      <4>4. At(path[depth])'.kids = node[1]
        BY <2>2, <4>1
      <4> QED
        BY <1>9, <2>3, <3>1, <4>2, <4>3, <4>4
    <3>2. CASE n # depth + 1
      <4>1. n \in 1..depth /\ n \in 0..depth /\ n - 1 \in 0..depth /\ n - 1 # depth
        BY <1>8, <3>2
      <4>2. /\ At(path[n]).parent = path[n - 1] /\ At(path[n]).name = open[n]
            /\ At(path[n - 1]).kids = path[n][1]
        BY <1>2, <1>8, <4>1 DEF Leads
      <4>3. /\ At(path[n])'.parent = path[n - 1] /\ At(path[n])'.name = open[n]
            /\ At(path[n - 1])'.kids = path[n][1]
        BY <2>2, <4>1, <4>2
      <4>4. longer[n] = path[n] /\ longer[n - 1] = path[n - 1] /\ open'[n] = open[n]
        BY <1>9, <2>1, <4>1
      <4> QED
        BY <4>3, <4>4
    <3> QED
      BY <3>1, <3>2
  <2>6. ASSUME NEW k \in 0..(depth + 1), NEW n \in 0..(depth + 1), k < n
        PROVE  longer[k][1] < longer[n][1]
    <3>1. k \in 0..depth /\ longer[k] = path[k] /\ path[k][1] \in Nat
      <4>1. k \in 0..depth
        BY <1>8, <2>6
      <4> QED
        BY <2>1, <2>2, <4>1, AddressFacts
    <3>2. CASE n = depth + 1
      <4>1. current[1] \in Nat /\ node[1] \in Nat /\ longer[n] = node
        BY <1>1, <1>8, <2>1, <3>2, AddressFacts
      <4>2. path[k][1] <= current[1]
        <5>1. CASE k = depth
          BY <2>3, <4>1, <5>1
        <5>2. CASE k # depth
          <6>1. k < depth /\ depth \in 0..depth
            BY <1>8, <3>1, <5>2
          <6>2. path[k][1] < path[depth][1]
            BY <1>2, <1>8, <3>1, <6>1 DEF Leads
          <6> QED
            BY <2>3, <3>1, <4>1, <6>2
        <5> QED
          BY <5>1, <5>2
      <4> QED
        BY <1>8, <3>1, <4>1, <4>2
    <3>3. CASE n # depth + 1
      <4>1. n \in 0..depth
        BY <1>8, <3>3
      <4>2. path[k][1] < path[n][1]
        BY <1>2, <1>8, <2>6, <3>1, <4>1 DEF Leads
      <4> QED
        BY <2>1, <3>1, <4>1, <4>2
    <3> QED
      BY <3>2, <3>3
  <2>7. Leads(longer)'
    BY <1>9, <2>3, <2>4, <2>5, <2>6, <1>8 DEF Leads
  <2> QED
    BY <1>9, <2>1, <2>7 DEF PathInv
<1> QED
  BY <1>12, <1>13, <1>14 DEF IInv

(* valueEl adds text and stays where it is.                                 *)
LEMMA ValueElKeeps == ASSUME IInv, ValueEl PROVE IInv'
<1> DEFINE new     == Node("cdata", current)
           started == EmplaceBack(Memory, current, new)
           back    == Back(started, current)
<1>1. /\ TypeOK /\ KidsInv /\ Len(open) \in Nat /\ current \in Addresses
      /\ open \in Seq(Tags) /\ Len(open) <= MaxDepth /\ ended \in BOOLEAN
  BY DEF IInv, TypeOK
<1>2. PICK path \in [0..Len(open) -> Addresses] : Leads(path)
  BY DEF IInv, PathInv
<1>3. new \in Nodes /\ new.kids = None
  <2>1. "cdata" \in Names
    BY DEF Names
  <2> QED
    BY <1>1, <2>1, NewNodes
<1>4. /\ Store(started) /\ current' = current /\ open' = open /\ ended' = ended
      /\ Len(doc) + 1 <= MaxNodes /\ doc' = Append(doc, <<Len(open) + 1, "cdata">>)
  BY DEF ValueEl, Room
<1> HIDE DEF new
<1>5. /\ Sound(started) /\ back \in Addresses /\ current[1] < back[1] /\ Holds(started, back)
      /\ \A n \in 0..Len(open) :
           Stays(started, path[n], IF n = Len(open) THEN back[1] ELSE At(path[n]).kids)
  <2>1. <<>> \in Seq(Names) /\ AddAttrs(started, back, <<>>) = started
    BY DEF AddAttrs
  <2> HIDE DEF started, back
  <2>2. LET e == AddAttrs(EmplaceBack(Memory, current, new),
                          Back(EmplaceBack(Memory, current, new), current), <<>>)
        IN  /\ Sound(e) /\ back \in Addresses /\ current[1] < back[1] /\ Holds(e, back)
            /\ \A n \in 0..Len(open) :
                 Stays(e, path[n], IF n = Len(open) THEN back[1] ELSE At(path[n]).kids)
    BY <1>1, <1>2, <1>3, <2>1, Added DEF started, back
  <2> QED
    BY <2>1, <2>2 DEF started, back
<1> HIDE DEF started, back
<1>6. PICK e, last, depth : e = started /\ last = back[1] /\ depth = Len(open)
  OBVIOUS
<1>7. /\ Store(e) /\ Sound(e) /\ last \in Nat /\ current[1] < last /\ last \in DOMAIN e.heap
      /\ \A n \in 0..depth : Stays(e, path[n], IF n = depth THEN last ELSE At(path[n]).kids)
      /\ depth = Len(open) /\ depth \in Nat
  BY <1>1, <1>4, <1>5, <1>6, AddressFacts DEF Holds
<1>8. ASSUME NEW n \in 0..depth
      PROVE  /\ path[n] \in Addresses /\ Live(path[n])' /\ At(path[n])'.name = At(path[n]).name
             /\ At(path[n])'.parent = At(path[n]).parent
             /\ At(path[n])'.kids = IF n = depth THEN last ELSE At(path[n]).kids
             /\ path[n][2] = Len(heap'[path[n][1]])
  <2>1. Stays(e, path[n], IF n = depth THEN last ELSE At(path[n]).kids)
    BY <1>7
  <2>2. path[n] \in Addresses
    BY <1>2, <1>7
  <2>3. (Holds(e, path[n]) => Live(path[n])') /\ At(path[n])' = e.heap[path[n][1]][path[n][2]]
    BY <1>7, <2>2, StoredIsTyped
  <2>4. path[n][2] = Len(heap[path[n][1]]) /\ heap' = e.heap
    BY <1>2, <1>7 DEF Leads, Store
  <2> QED
    BY <2>1, <2>2, <2>3, <2>4 DEF Stays
<1>9. path[depth] = current /\ path[0] = Root /\ depth \in 0..depth /\ current' = path[depth]
  BY <1>2, <1>4, <1>7 DEF Leads
<1>10. TypeOK'
  <2>1. doc' \in Seq(Nat \X Names) /\ Len(doc') <= MaxNodes
    <3> DEFINE Entries == Nat \X Names
               entry == <<depth + 1, "cdata">>
    <3>1. entry \in Entries
      BY <1>7 DEF Names
    <3>2. doc \in Seq(Entries) /\ doc' = Append(doc, entry)
      BY <1>1, <1>4, <1>7 DEF TypeOK
    <3> HIDE DEF Entries, entry
    <3>3. doc' \in Seq(Entries) /\ Len(doc') = Len(doc) + 1
      BY <3>1, <3>2
    <3> QED
      BY <1>4, <3>3 DEF Entries
  <2>2. Live(current)' /\ current' \in Addresses
    BY <1>8, <1>9 DEF Live
  <2>3. /\ fresh' \in Nat /\ DOMAIN heap' \subseteq 0..(fresh' - 1)
        /\ \A b \in DOMAIN heap' : heap'[b] \in Seq(Nodes)
    BY <1>7, StoredIsTyped
  <2>4. open' \in Seq(Tags) /\ Len(open') <= MaxDepth /\ ended' \in BOOLEAN
    BY <1>1, <1>4
  <2> QED
    BY <2>1, <2>2, <2>3, <2>4 DEF TypeOK
<1>11. KidsInv'
  <2>1. At(path[depth])'.kids = last /\ heap' = e.heap
    BY <1>7, <1>8, <1>9 DEF Store
  <2>2. At(current)'.kids = last
    BY <1>9, <2>1 DEF At
  <2> QED
    BY <1>4, <1>7, <2>1, <2>2 DEF KidsInv
<1>12. PathInv'
  <2>1. ASSUME NEW n \in 1..depth
        PROVE  /\ At(path[n])'.parent = path[n - 1] /\ At(path[n])'.name = open'[n]
               /\ At(path[n - 1])'.kids = path[n][1]
    <3>1. n \in 0..depth /\ n - 1 \in 0..depth /\ n - 1 # depth
      BY <1>7
    <3>2. /\ At(path[n]).parent = path[n - 1] /\ At(path[n]).name = open[n]
          /\ At(path[n - 1]).kids = path[n][1]
      BY <1>2, <1>7 DEF Leads
    <3> QED
      BY <1>4, <1>8, <3>1, <3>2
  <2>2. \A k, n \in 0..depth : k < n => path[k][1] < path[n][1]
    BY <1>2, <1>7 DEF Leads
  <2>3. Len(open') = depth
    BY <1>4, <1>7
  <2>4. Leads(path)'
    BY <1>8, <1>9, <2>1, <2>2, <2>3 DEF Leads
  <2> QED
    BY <1>2, <1>7, <2>3, <2>4 DEF PathInv
<1> QED
  BY <1>10, <1>11, <1>12 DEF IInv

(* All but the last.                                                        *)
LEMMA FrontFacts ==
    ASSUME NEW S, NEW s \in Seq(S), s # <<>>
    PROVE  /\ Front(s) \in Seq(S) /\ Len(s) \in Nat \ {0} /\ Len(Front(s)) = Len(s) - 1
           /\ \A i \in 1..(Len(s) - 1) : Front(s)[i] = s[i]
<1>1. Len(s) \in Nat \ {0}
  OBVIOUS
<1>2. Front(s) = SubSeq(s, 1, Len(s) - 1)
  BY DEF Front
<1> DEFINE n == Len(s) - 1
<1>3. n \in Int /\ 0 <= n /\ 1 \in Int /\ \A i \in 1..n : s[i] \in S
  BY <1>1
<1> HIDE DEF n
<1>4. /\ SubSeq(s, 1, n) \in Seq(S)
      /\ Len(SubSeq(s, 1, n)) = IF 1 <= n THEN n - 1 + 1 ELSE 0
      /\ \A i \in 1..(n - 1 + 1) : SubSeq(s, 1, n)[i] = s[1 + i - 1]
  BY <1>3, SubSeqProperties
<1>5. Len(SubSeq(s, 1, n)) = n /\ \A i \in 1..n : SubSeq(s, 1, n)[i] = s[i]
  BY <1>3, <1>4
<1> QED
  BY <1>1, <1>2, <1>4, <1>5 DEF n

(* endEl goes back to the element that was open before.                     *)
LEMMA EndElKeeps == ASSUME IInv, EndEl PROVE IInv'
<1>1. /\ TypeOK /\ KidsInv /\ current \in Addresses /\ Live(current)
      /\ open \in Seq(Tags) /\ Len(open) <= MaxDepth
  BY DEF IInv, TypeOK
<1>2. PICK path \in [0..Len(open) -> Addresses] : Leads(path)
  BY DEF IInv, PathInv
<1>3. /\ open # <<>> /\ current' = Parent(current) /\ open' = Front(open)
      /\ heap' = heap /\ fresh' = fresh /\ doc' = doc /\ ended' = ended
  BY DEF EndEl, EndsAt
<1>4. PICK depth \in Nat : Len(open) = depth + 1
  <2>1. Len(open) \in Nat \ {0}
    BY <1>1, <1>3, FrontFacts
  <2>2. Len(open) - 1 \in Nat /\ Len(open) = (Len(open) - 1) + 1
    BY <2>1
  <2> QED
    BY <2>2
<1>5. open' \in Seq(Tags) /\ Len(open') = depth /\ \A i \in 1..depth : open'[i] = open[i]
  BY <1>1, <1>3, <1>4, FrontFacts
<1>6. /\ path[0] = Root /\ path[depth + 1] = current
      /\ \A n \in 0..(depth + 1) : /\ path[n] \in Addresses /\ Live(path[n])
                                    /\ path[n][2] = Len(heap[path[n][1]])
      /\ \A n \in 1..(depth + 1) :
           /\ At(path[n]).parent = path[n - 1] /\ At(path[n]).name = open[n]
           /\ At(path[n - 1]).kids = path[n][1]
      /\ \A k, n \in 0..(depth + 1) : k < n => path[k][1] < path[n][1]
  BY <1>2, <1>4 DEF Leads
<1>7. depth + 1 \in 1..(depth + 1) /\ depth \in 0..(depth + 1) /\ (depth + 1) - 1 = depth
  BY <1>4
<1>8. /\ current' = path[depth] /\ At(path[depth]).kids = current[1]
      /\ path[depth][1] < current[1] /\ path[depth] \in Addresses /\ Live(path[depth])
  <2>1. At(current).parent = path[depth] /\ At(path[depth]).kids = current[1]
    BY <1>6, <1>7
  <2>2. path[depth][1] < path[depth + 1][1]
    <3>1. depth + 1 \in 0..(depth + 1) /\ depth < depth + 1
      BY <1>4
    <3> QED
      BY <1>6, <1>7, <3>1
  <2> QED
    BY <1>1, <1>3, <1>6, <1>7, <2>1, <2>2 DEF Parent
<1>9. \A n \in 0..(depth + 1) : Live(path[n])' /\ At(path[n])' = At(path[n])
  BY <1>3, <1>6 DEF Live, At
<1>10. TypeOK'
  <2>1. Live(current)'
    BY <1>7, <1>8, <1>9 DEF Live
  <2>2. Len(open') <= MaxDepth
    BY <1>1, <1>4, <1>5, BoundsAssumption
  <2> QED
    BY <1>1, <1>3, <1>5, <1>8, <2>1, <2>2 DEF TypeOK
<1>11. KidsInv'
  <2>1. At(current)' = At(path[depth])
    BY <1>7, <1>8, <1>9 DEF At
  <2>2. current[1] \in DOMAIN heap
    BY <1>1 DEF Live
  <2> QED
    BY <1>3, <1>8, <2>1, <2>2 DEF KidsInv
<1>12. PathInv'
  <2>1. PICK shorter \in [0..depth -> Addresses] : \A n \in 0..depth : shorter[n] = path[n]
    <3> DEFINE w == [n \in 0..depth |-> path[n]]
    <3>1. w \in [0..depth -> Addresses] /\ \A n \in 0..depth : w[n] = path[n]
      BY <1>4, <1>6
    <3> HIDE DEF w
    <3> QED
      BY <3>1
  <2>2. \A n \in 0..depth : n \in 0..(depth + 1)
    BY <1>4
  <2>3. shorter[0] = Root /\ shorter[depth] = current'
    BY <1>4, <1>6, <1>8, <2>1
  <2>4. ASSUME NEW n \in 1..depth
        PROVE  /\ At(shorter[n])'.parent = shorter[n - 1] /\ At(shorter[n])'.name = open'[n]
               /\ At(shorter[n - 1])'.kids = shorter[n][1]
    <3>1. /\ n \in 0..depth /\ n - 1 \in 0..depth /\ n \in 1..(depth + 1)
          /\ n \in 0..(depth + 1) /\ n - 1 \in 0..(depth + 1)
      BY <1>4
    <3>2. shorter[n] = path[n] /\ shorter[n - 1] = path[n - 1]
      BY <2>1, <3>1
    <3>3. At(path[n])' = At(path[n]) /\ At(path[n - 1])' = At(path[n - 1])
      BY <1>9, <3>1
    <3>4. /\ At(path[n]).parent = path[n - 1] /\ At(path[n]).name = open'[n]
          /\ At(path[n - 1]).kids = path[n][1]
      BY <1>5, <1>6, <3>1
    <3>5. At(shorter[n])' = At(path[n])' /\ At(shorter[n - 1])' = At(path[n - 1])'
      BY <3>2
    <3> QED
      BY <3>2, <3>3, <3>4, <3>5
  <2>5. \A n \in 0..depth : Live(shorter[n])' /\ shorter[n][2] = Len(heap'[shorter[n][1]])
    BY <1>3, <1>6, <1>9, <2>1, <2>2
  <2>6. \A k, n \in 0..depth : k < n => shorter[k][1] < shorter[n][1]
    BY <1>6, <2>1, <2>2
  <2>7. Leads(shorter)'
    BY <1>5, <2>3, <2>4, <2>5, <2>6 DEF Leads
  <2> QED
    BY <1>5, <2>1, <2>7 DEF PathInv
<1> QED
  BY <1>10, <1>11, <1>12 DEF IInv

(***************************************************************************)
(* Where the parents lead.                                                 *)
(***************************************************************************)

(* n parents up from m_current is the nth of the path from its end.         *)
LEMMA UpIsThePath ==
    ASSUME NEW path, Leads(path), Len(open) \in Nat, NEW n \in 0..Len(open)
    PROVE  Up(n) = path[Len(open) - n]
<1> DEFINE F(f) == [k \in 0..n |-> IF k = 0 THEN current ELSE Parent(f[k - 1])]
           up   == CHOOSE f : f = F(f)
           w    == [k \in 0..n |-> path[Len(open) - k]]
<1>1. ASSUME NEW k \in 0..n, k # 0
      PROVE  Parent(path[Len(open) - (k - 1)]) = path[Len(open) - k]
  <2> DEFINE i == Len(open) - (k - 1)
  <2>1. i \in 1..Len(open) /\ i \in 0..Len(open) /\ i - 1 = Len(open) - k
    BY <1>1
  <2> HIDE DEF i
  <2>2. Live(path[i]) /\ At(path[i]).parent = path[i - 1]
    BY <2>1 DEF Leads
  <2> QED
    BY <2>1, <2>2 DEF Parent, i
<1>2. path[Len(open)] = current /\ Len(open) - 0 = Len(open)
  BY DEF Leads
<1>3. w = F(w)
  <2>1. ASSUME NEW k \in 0..n
        PROVE  w[k] = IF k = 0 THEN current ELSE Parent(w[k - 1])
    <3>1. CASE k = 0
      BY <1>2, <3>1
    <3>2. CASE k # 0
      <4>1. k - 1 \in 0..n
        BY <3>2
      <4>2. w[k - 1] = path[Len(open) - (k - 1)] /\ w[k] = path[Len(open) - k]
        BY <4>1
      <4> QED
        BY <1>1, <3>2, <4>2
    <3> QED
      BY <3>1, <3>2
  <2> QED
    BY <2>1
<1>4. up = F(up)
  <2>1. \E f : f = F(f)
    <3> HIDE DEF F, w
    <3> QED
      BY <1>3
  <2> HIDE DEF F
  <2> QED
    BY <2>1
<1>5. Up(n) = up[n]
  BY DEF Up
<1> HIDE DEF up
<1>6. \A k \in 0..n : up[k] = IF k = 0 THEN current ELSE Parent(up[k - 1])
  BY <1>4
<1> HIDE DEF F, w
<1>7. \A k \in 0..n : up[k] = path[Len(open) - k]
  <2> DEFINE T == {k \in 0..n : up[k] # path[Len(open) - k]}
  <2>1. SUFFICES ASSUME T # {} PROVE FALSE
    OBVIOUS
  <2>2. T \subseteq Nat
    OBVIOUS
  <2>3. PICK m \in T : \A k \in T : m <= k
    <3> HIDE DEF T
    <3> QED
      BY <2>1, <2>2, Least
  <2>4. m \in 0..n /\ up[m] # path[Len(open) - m]
    OBVIOUS
  <2>5. CASE m = 0
    BY <1>2, <1>6, <2>4, <2>5
  <2>6. CASE m # 0
    <3>1. m - 1 \in 0..n /\ ~(m <= m - 1)
      BY <2>4, <2>6
    <3>2. m - 1 \notin T
      <4> HIDE DEF T
      <4> QED
        BY <2>3, <3>1
    <3>3. up[m - 1] = path[Len(open) - (m - 1)]
      BY <3>1, <3>2
    <3> QED
      BY <1>1, <1>6, <2>4, <2>6, <3>3
  <2> QED
    BY <2>5, <2>6
<1> QED
  BY <1>5, <1>7

(* The path is what OpenPathIsAlive asks for.                               *)
LEMMA PathIsAlive == IInv => OpenPathIsAlive
<1> SUFFICES ASSUME IInv PROVE OpenPathIsAlive
  OBVIOUS
<1>1. open \in Seq(Tags) /\ Len(open) \in Nat /\ DOMAIN open = 1..Len(open)
  BY DEF IInv, TypeOK
<1>2. PICK path \in [0..Len(open) -> Addresses] : Leads(path)
  BY DEF IInv, PathInv
<1>3. \A n \in 0..Len(open) : Up(n) = path[Len(open) - n]
  BY <1>1, <1>2, UpIsThePath
<1>4. Up(Len(open)) = Root
  <2>1. Len(open) \in 0..Len(open) /\ Len(open) - Len(open) = 0
    BY <1>1
  <2> QED
    BY <1>2, <1>3, <2>1 DEF Leads
<1>5. ASSUME NEW n \in 0..Len(open) PROVE Live(Up(n))
  <2>1. Len(open) - n \in 0..Len(open)
    BY <1>1
  <2>2. Live(path[Len(open) - n])
    BY <1>2, <2>1 DEF Leads
  <2> QED
    BY <1>3, <2>2
<1>6. ASSUME NEW i \in DOMAIN open PROVE At(Up(Len(open) - i)).name = open[i]
  <2>1. Len(open) - i \in 0..Len(open) /\ Len(open) - (Len(open) - i) = i /\ i \in 1..Len(open)
    BY <1>1
  <2>2. Up(Len(open) - i) = path[i]
    BY <1>3, <2>1
  <2>3. At(path[i]).name = open[i]
    BY <1>2, <2>1 DEF Leads
  <2> QED
    BY <2>2, <2>3
<1> QED
  BY <1>4, <1>5, <1>6 DEF OpenPathIsAlive

(***************************************************************************)
(* Theorems.                                                               *)
(***************************************************************************)

(* Every step of the parser keeps the invariant: startEl and valueEl move   *)
(* only what is below m_current, and endEl goes back the way it came.       *)
THEOREM Invariance == Spec => []IInv
<1>1. Init => IInv
  BY InitHolds
<1>2. IInv /\ [Next]_vars => IInv'
  <2> SUFFICES ASSUME IInv, [Next]_vars PROVE IInv'
    OBVIOUS
  <2>1. ASSUME NEW tag \in Tags, NEW attrs \in AttrLists, StartEl(tag, attrs) PROVE IInv'
    BY <2>1, StartElKeeps
  <2>2. CASE ValueEl
    BY <2>2, ValueElKeeps
  <2>3. CASE EndEl
    BY <2>3, EndElKeeps
  <2>4. ASSUME heap' = heap, fresh' = fresh, current' = current, open' = open, doc' = doc,
               ended' \in BOOLEAN
        PROVE  IInv'
    <3> USE <2>4
    <3>1. TypeOK'
      BY DEF IInv, TypeOK, Live
    <3>2. PathInv'
      <4>1. PICK path \in [0..Len(open) -> Addresses] : Leads(path)
        BY DEF IInv, PathInv
      <4>2. Leads(path)'
        BY <4>1 DEF Leads, Live, At
      <4> QED
        BY <4>1, <4>2 DEF PathInv
    <3>3. KidsInv'
      BY DEF IInv, KidsInv, At
    <3> QED
      BY <3>1, <3>2, <3>3 DEF IInv
  <2>5. CASE Parsed
    BY <2>4, <2>5 DEF Parsed
  <2>6. CASE UNCHANGED vars
    <3>1. ended \in BOOLEAN
      BY DEF IInv, TypeOK
    <3> QED
      BY <2>4, <2>6, <3>1 DEF vars
  <2> QED
    BY <2>1, <2>2, <2>3, <2>5, <2>6 DEF Next
<1> QED
  BY <1>1, <1>2, PTL DEF Spec

(* The vectors hold nodes, and m_current is always one of them.             *)
THEOREM TypeCorrect == Spec => []TypeOK
<1>1. IInv => TypeOK
  BY DEF IInv
<1> QED
  BY <1>1, Invariance, PTL

(* Whatever the document and however its vectors grow, m_current and the    *)
(* parents above it are no dangling pointers and are the elements open.     *)
THEOREM AlivePath == Spec => []OpenPathIsAlive
  BY PathIsAlive, Invariance, PTL

=============================================================================
