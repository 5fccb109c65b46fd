--------------------------- MODULE NeonTreeProofs ---------------------------
(***************************************************************************)
(* Theorems about what is read from the tree that NeonParser builds, for   *)
(* documents of every size and shape.                                      *)
(*                                                                         *)
(* TreeInv is kept because a step changes the heap in one place only: a    *)
(* node, with its attributes, becomes the last child of the innermost open *)
(* element, whose ancestors are each the last child of theirs.  So from the*)
(* children of that element up to the root, level by level, what is read   *)
(* of each block is what was read, and then the new node: it is at the end *)
(* of the whole.  All other blocks read as they did.                       *)
(***************************************************************************)
EXTENDS NeonParserProofs

(***************************************************************************)
(* Reading.                                                                *)
(***************************************************************************)

Heap(h) == \A b \in DOMAIN h : b \in Nat /\ h[b] \in Seq(Nodes)

Entries == Nat \X Names

(* What is read of a node at depth d, and below it.                         *)
Deep(d) == {entry \in Entries : entry[1] >= d}

(* What is read of the ith node of block b, if n levels are left.           *)
Line(h, n, b, i) ==
    <<<<Levels + 1 - n, h[b][i].name>>>> \o Reading(h)[n - 1][h[b][i].kids]

Lines(h, n, b) == [i \in DOMAIN h[b] |-> Line(h, n, b, i)]

(* There is a level more than elements may be open, for the attributes.     *)
LEMMA LevelsFacts == Levels \in Nat /\ Levels = MaxDepth + 1 /\ MaxDepth \in Nat /\ MaxDepth >= 1
  BY BoundsAssumption DEF Levels

(* Nodes at depth d, and what is below them.                                *)
Items(q, d, below) == [i \in DOMAIN q |-> <<<<d, q[i].name>>>> \o below[q[i].kids]]

(* They are sequences, none empty, and so is what they make up.             *)
LEMMA ItemsTyped ==
    ASSUME NEW D, NEW q \in Seq(Nodes), NEW d, \A name \in Names : <<d, name>> \in D,
           NEW below, \A k \in Nat : below[k] \in Seq(D)
    PROVE  /\ Items(q, d, below) \in Seq(Seq(D)) /\ Len(Items(q, d, below)) = Len(q)
           /\ FlattenSeq(Items(q, d, below)) \in Seq(D)
           /\ \A i \in 1..Len(q) : Items(q, d, below)[i] # <<>>
<1> DEFINE items == [i \in DOMAIN q |-> <<<<d, q[i].name>>>> \o below[q[i].kids]]
<1>1. DOMAIN q = 1..Len(q) /\ Len(q) \in Nat
  OBVIOUS
<1>2. ASSUME NEW i \in 1..Len(q)
      PROVE  /\ <<<<d, q[i].name>>>> \o below[q[i].kids] \in Seq(D)
             /\ <<<<d, q[i].name>>>> \o below[q[i].kids] # <<>>
  <2>1. q[i].name \in Names /\ q[i].kids \in Nat
    <3>1. q[i] \in Nodes
      OBVIOUS
    <3> QED
      BY <3>1 DEF Nodes
  <2>2. <<<<d, q[i].name>>>> \in Seq(D)
    BY <2>1
  <2>3. below[q[i].kids] \in Seq(D)
    BY <2>1
  <2> DEFINE u == <<<<d, q[i].name>>>>
             v == below[q[i].kids]
  <2>4. Len(u) = 1 /\ Len(u) \in Nat
    OBVIOUS
  <2> HIDE DEF u, v
  <2>5. u \o v \in Seq(D) /\ Len(u \o v) = Len(u) + Len(v) /\ Len(v) \in Nat
    BY <2>2, <2>3, ConcatProperties DEF u, v
  <2>6. u \o v # <<>>
    BY <2>4, <2>5
  <2> QED
    BY <2>5, <2>6 DEF u, v
<1>3. items \in Seq(Seq(D)) /\ Len(items) = Len(q) /\ \A i \in 1..Len(q) : items[i] # <<>>
  BY <1>1, <1>2
<1> HIDE DEF items
<1>4. FlattenSeq(items) \in Seq(D)
  BY <1>3, FlatIsSequence
<1> QED
  BY <1>3, <1>4 DEF items, Items

(* A block is read node by node, each followed by what is below it.         *)
LEMMA ReadingEquation ==
    ASSUME NEW h, Heap(h)
    PROVE  /\ \A b \in Nat : Reading(h)[0][b] = <<>>
           /\ \A n \in 1..Levels, b \in Nat :
                Reading(h)[n][b] = IF b = None \/ b \notin DOMAIN h THEN <<>>
                                   ELSE FlattenSeq(Lines(h, n, b))
<1> DEFINE V == [Nat -> Seq(Entries)]
           Layer(n, below) ==
               [b \in Nat |-> IF n = 0 \/ b = None \/ b \notin DOMAIN h THEN <<>>
                              ELSE FlattenSeq(Items(h[b], Levels + 1 - n, below))]
           F(f) == [n \in 0..Levels |-> Layer(n, f[n - 1])]
           read == CHOOSE f : f = F(f)
           none == [b \in Nat |-> <<>>]
           step == [x \in (1..Levels) \X V |-> Layer(x[1], x[2])]
<1>1. none \in V /\ Levels \in Nat
  BY LevelsFacts
<1>2. ASSUME NEW n \in 1..Levels, NEW below \in V PROVE Layer(n, below) \in V
  <2>1. ASSUME NEW b \in Nat, b \in DOMAIN h PROVE FlattenSeq(Items(h[b], Levels + 1 - n, below)) \in Seq(Entries)
    <3>1. h[b] \in Seq(Nodes)
      BY <2>1 DEF Heap
    <3>2. \A k \in Nat : below[k] \in Seq(Entries)
      OBVIOUS
    <3>3. Levels + 1 - n \in Nat
      BY <1>1
    <3>4. \A name \in Names : <<Levels + 1 - n, name>> \in Entries
      BY <3>3 DEF Entries
    <3>5. PICK d : d = Levels + 1 - n
      OBVIOUS
    <3> HIDE DEF V, Layer, F, read, none, step
    <3> QED
      BY <3>1, <3>2, <3>4, <3>5, ItemsTyped
  <2>2. <<>> \in Seq(Entries)
    OBVIOUS
  <2> QED
    BY <2>1, <2>2
<1>3. step \in [(1..Levels) \X V -> V] /\ \A n \in 1..Levels, f \in V : step[<<n, f>>] = Layer(n, f)
  <2> HIDE DEF V, Layer
  <2> QED
    BY <1>2
<1>4. PICK w : Iterates(V, none, Levels, step, w)
  <2> HIDE DEF V, none, step
  <2>1. Steps(V, Levels, step)
    BY <1>3 DEF Steps
  <2> QED
    BY <1>1, <2>1, Recursion
<1>5. w = F(w)
  <2> HIDE DEF V, step
  <2>1. /\ DOMAIN w = 0..Levels /\ w[0] = none /\ w = [n \in 0..Levels |-> w[n]]
        /\ \A n \in 0..Levels : w[n] \in V
        /\ \A n \in 1..Levels : w[n] = step[<<n, w[n - 1]>>]
    BY <1>4 DEF Iterates
  <2>2. ASSUME NEW n \in 0..Levels PROVE w[n] = Layer(n, w[n - 1])
    <3>1. CASE n = 0
      BY <2>1, <3>1
    <3>2. CASE n # 0
      <4>1. n \in 1..Levels /\ n - 1 \in 0..Levels
        BY <1>1, <3>2
      <4>2. w[n - 1] \in V /\ w[n] = step[<<n, w[n - 1]>>]
        BY <2>1, <4>1
      <4> HIDE DEF Layer
      <4> QED
        BY <1>3, <4>1, <4>2
    <3> QED
      BY <3>1, <3>2
  <2> HIDE DEF Layer
  <2> QED
    BY <2>1, <2>2
<1>6. read = F(read)
  <2>1. \E f : f = F(f)
    <3> HIDE DEF F
    <3> QED
      BY <1>5
  <2> HIDE DEF F
  <2> QED
    BY <2>1
<1>7. Reading(h) = read
  BY DEF Reading, Items
<1> HIDE DEF read
<1>8. \A n \in 0..Levels : read[n] = Layer(n, read[n - 1])
  <2> HIDE DEF Layer
  <2> QED
    BY <1>6
<1>9. ASSUME NEW b \in Nat PROVE Reading(h)[0][b] = <<>>
  <2>1. PICK n \in 0..Levels : n = 0
    BY <1>1
  <2>2. Layer(n, read[n - 1])[b] = <<>>
    BY <2>1
  <2> HIDE DEF Layer
  <2> QED
    BY <1>7, <1>8, <2>1, <2>2
<1>10. ASSUME NEW n \in 1..Levels, NEW b \in Nat
       PROVE  Reading(h)[n][b] = IF b = None \/ b \notin DOMAIN h THEN <<>>
                                 ELSE FlattenSeq(Lines(h, n, b))
  <2>1. n \in 0..Levels /\ n # 0
    BY <1>1
  <2>2. Items(h[b], Levels + 1 - n, read[n - 1]) = Lines(h, n, b)
    BY <1>7 DEF Lines, Line, Items
  <2>3. Layer(n, read[n - 1])[b] = IF b = None \/ b \notin DOMAIN h THEN <<>>
                                   ELSE FlattenSeq(Items(h[b], Levels + 1 - n, read[n - 1]))
    BY <2>1
  <2> HIDE DEF Layer
  <2> QED
    BY <1>7, <1>8, <2>1, <2>2, <2>3
<1> QED
  BY <1>9, <1>10

(* What n levels hold is as deep as they are.                               *)
LEMMA ReadingIsDeep ==
    ASSUME NEW h, Heap(h)
    PROVE  \A n \in 0..Levels : \A b \in Nat : Reading(h)[n][b] \in Seq(Deep(Levels + 1 - n))
<1> DEFINE T == {n \in 0..Levels : \A b \in Nat : Reading(h)[n][b] \in Seq(Deep(Levels + 1 - n))}
<1>1. Levels \in Nat
  BY LevelsFacts
<1>2. 0 \in T
  <2>1. \A b \in Nat : Reading(h)[0][b] = <<>>
    BY ReadingEquation
  <2> QED
    <3>1. <<>> \in Seq(Deep(Levels + 1 - 0)) /\ 0 \in 0..Levels
      BY <1>1
    <3> QED
      BY <2>1, <3>1
<1>3. ASSUME NEW n \in 1..Levels, n - 1 \in T PROVE n \in T
  <2> DEFINE D == Deep(Levels + 1 - n)
  <2>1. n \in 0..Levels /\ n - 1 \in 0..Levels /\ Levels + 1 - n \in Nat
    BY <1>1
  <2>2. ASSUME NEW b \in Nat PROVE Reading(h)[n - 1][b] \in Seq(D)
    <3>1. Reading(h)[n - 1][b] \in Seq(Deep(Levels + 1 - (n - 1)))
      BY <1>3
    <3>2. Deep(Levels + 1 - (n - 1)) \subseteq D
      BY <1>1, <2>1 DEF Deep, Entries
    <3> HIDE DEF D
    <3> QED
      BY <3>1, <3>2, SeqMonotonic
  <2>3. ASSUME NEW b \in Nat, b \in DOMAIN h PROVE FlattenSeq(Lines(h, n, b)) \in Seq(D)
    <3>1. h[b] \in Seq(Nodes)
      BY <2>3 DEF Heap
    <3>2. \A name \in Names : <<Levels + 1 - n, name>> \in D
      BY <2>1 DEF Entries, Deep
    <3> HIDE DEF D
    <3>3. FlattenSeq(Items(h[b], Levels + 1 - n, Reading(h)[n - 1])) \in Seq(D)
      BY <2>2, <3>1, <3>2, ItemsTyped
    <3> QED
      BY <3>3 DEF Lines, Line, Items
  <2>4. ASSUME NEW b \in Nat PROVE Reading(h)[n][b] \in Seq(D)
    <3>1. Reading(h)[n][b] = IF b = None \/ b \notin DOMAIN h THEN <<>>
                             ELSE FlattenSeq(Lines(h, n, b))
      BY ReadingEquation
    <3>2. <<>> \in Seq(D)
      OBVIOUS
    <3> HIDE DEF D
    <3> QED
      BY <2>3, <3>1, <3>2
  <2> QED
    BY <2>1, <2>4
<1>4. 0..Levels \subseteq T
  <2> HIDE DEF T
  <2> QED
    BY <1>1, <1>2, <1>3, Counting
<1> QED
  BY <1>4

(* A block as a sequence of what is read of its nodes.                      *)
LEMMA LinesTyped ==
    ASSUME NEW h, Heap(h), NEW n \in 1..Levels, NEW b \in DOMAIN h
    PROVE  /\ h[b] \in Seq(Nodes) /\ DOMAIN h[b] = 1..Len(h[b]) /\ Len(h[b]) \in Nat
           /\ Lines(h, n, b) \in Seq(Seq(Entries)) /\ Len(Lines(h, n, b)) = Len(h[b])
           /\ \A i \in 1..Len(h[b]) : Lines(h, n, b)[i] = Line(h, n, b, i)
           /\ \A i \in 1..Len(h[b]) : h[b][i].kids \in Nat /\ h[b][i].name \in Names
<1>1. Levels \in Nat /\ n - 1 \in 0..Levels /\ Levels + 1 - n \in Nat
  BY LevelsFacts
<1>2. h[b] \in Seq(Nodes)
  BY DEF Heap
<1>3. \A k \in Nat : Reading(h)[n - 1][k] \in Seq(Entries)
  <2>1. Deep(Levels + 1 - (n - 1)) \subseteq Entries
    BY DEF Deep
  <2> QED
    BY <1>1, <2>1, ReadingIsDeep, SeqMonotonic
<1>4. \A name \in Names : <<Levels + 1 - n, name>> \in Entries
  BY <1>1 DEF Entries
<1>5. Lines(h, n, b) = Items(h[b], Levels + 1 - n, Reading(h)[n - 1])
  BY DEF Lines, Line, Items
<1>6. PICK q, d, below :
          q \in Seq(Nodes) /\ q = h[b] /\ d = Levels + 1 - n /\ below = Reading(h)[n - 1]
  BY <1>2
<1>7. Items(q, d, below) \in Seq(Seq(Entries)) /\ Len(Items(q, d, below)) = Len(q)
  <2>1. /\ q \in Seq(Nodes)
        /\ \A name \in Names : <<d, name>> \in Entries
        /\ \A k \in Nat : below[k] \in Seq(Entries)
    BY <1>3, <1>4, <1>6
  <2> QED
    BY <2>1, ItemsTyped, SMTT(20)
<1>8. Lines(h, n, b) \in Seq(Seq(Entries)) /\ Len(Lines(h, n, b)) = Len(h[b])
  BY <1>5, <1>6, <1>7
<1>9. DOMAIN h[b] = 1..Len(h[b]) /\ Len(h[b]) \in Nat
  BY <1>2
<1>10. \A i \in 1..Len(h[b]) : Lines(h, n, b)[i] = Line(h, n, b, i)
  BY <1>9 DEF Lines
<1>11. \A i \in 1..Len(h[b]) : h[b][i].kids \in Nat /\ h[b][i].name \in Names
  <2>1. \A i \in 1..Len(h[b]) : h[b][i] \in Nodes
    BY <1>2
  <2> QED
    BY <2>1 DEF Nodes
<1> QED
  BY <1>2, <1>8, <1>9, <1>10, <1>11

(***************************************************************************)
(* What a new node changes.                                                *)
(***************************************************************************)

OldKids(h, c) == LET kids == h[c[1]][c[2]].kids IN IF kids = None THEN <<>> ELSE h[kids]

(* A block that neither holds m_current, which is at c, nor its children.   *)
Untouched(h, c, b) ==
    LET kids == h[c[1]][c[2]].kids
    IN  b \in DOMAIN h /\ b # c[1] /\ (kids = None \/ b # kids)

(* The block of m_current is as it was, but that its children are in into.  *)
Turned(h, g, c, into) ==
    /\ c[1] \in DOMAIN g /\ DOMAIN g[c[1]] = DOMAIN h[c[1]]
    /\ \A i \in DOMAIN h[c[1]] :
        /\ g[c[1]][i].name = h[c[1]][i].name /\ g[c[1]][i].parent = h[c[1]][i].parent
        /\ g[c[1]][i].kids = IF i = c[2] THEN into ELSE h[c[1]][i].kids

(* They are those it had, and after them the new one at <<into, last>>.     *)
Extended(h, g, c, into, last, node) ==
    /\ into \in DOMAIN g /\ into \in Nat /\ c[1] < into
    /\ (h[c[1]][c[2]].kids # None /\ into = h[c[1]][c[2]].kids) \/ into \notin DOMAIN h
    /\ last = Len(OldKids(h, c)) + 1 /\ Len(g[into]) = last
    /\ \A i \in 1..Len(OldKids(h, c)) : g[into][i] = OldKids(h, c)[i]
    /\ g[into][last].name = node.name /\ g[into][last].parent = node.parent

(* That one has its attributes for children.                                *)
WithLeaves(h, g, into, last, attrs) ==
    LET kids == g[into][last].kids
    IN  IF attrs = <<>> THEN kids = None
        ELSE /\ kids # None /\ kids # into /\ kids \in DOMAIN g /\ kids \notin DOMAIN h
             /\ g[kids] = [i \in DOMAIN attrs |-> Node(attrs[i], <<into, last>>)]

(* Nothing else was changed.                                                *)
NothingElse(h, g, c, into, last) ==
    /\ \A b : Untouched(h, c, b) => b \in DOMAIN g /\ b # into /\ g[b] = h[b]
    /\ \A b \in DOMAIN g :
        \/ b = into \/ b = c[1] \/ Untouched(h, c, b)
        \/ b = g[into][last].kids /\ b # None

(* emplace_back and then the attributes change the heap in that way only.   *)
LEMMA Grown ==
    ASSUME NEW m, Sound(m), NEW c \in Addresses, Holds(m, c), Younger(m, c),
           NEW node \in Nodes, node.kids = None, NEW attrs \in Seq(Names)
    PROVE  LET started == EmplaceBack(m, c, node)
               back    == Back(started, c)
               e       == AddAttrs(started, back, attrs)
           IN  /\ Heap(e.heap) /\ back = <<back[1], back[2]>>
               /\ Turned(m.heap, e.heap, c, back[1])
               /\ Extended(m.heap, e.heap, c, back[1], back[2], node)
               /\ WithLeaves(m.heap, e.heap, back[1], back[2], attrs)
               /\ NothingElse(m.heap, e.heap, c, back[1], back[2])
<1> DEFINE s    == EmplaceBack(m, c, node)
           back == Back(s, c)
           e    == AddAttrs(s, back, attrs)
           into == back[1]
           kids == m.heap[c[1]][c[2]].kids
<1>1. /\ Sound(s) /\ m.fresh <= s.fresh /\ Kept(m, s, c[1], c, into)
      /\ back \in Addresses /\ c[1] < into
      /\ Holds(s, back) /\ s.heap[back[1]][back[2]] = node
      /\ back[2] = Len(s.heap[into]) /\ Moved(m, s, c, node, into)
  BY Emplaced
<1> HIDE DEF s, back, into
<1>2. /\ Sound(e) /\ Holds(e, back) /\ Younger(e, back) /\ Leaves(s, e, back, attrs)
      /\ e.heap[back[1]][back[2]].name = node.name
      /\ e.heap[back[1]][back[2]].parent = node.parent
      /\ \A b \in DOMAIN s.heap :
           /\ b \in DOMAIN e.heap /\ DOMAIN e.heap[b] = DOMAIN s.heap[b]
           /\ Len(e.heap[b]) = Len(s.heap[b])
           /\ \A i \in DOMAIN s.heap[b] : <<b, i>> # back => e.heap[b][i] = s.heap[b][i]
  BY <1>1, Attributed
<1> HIDE DEF e
<1>3. /\ into \in Nat /\ into \in DOMAIN s.heap /\ into \in DOMAIN e.heap /\ c[1] \in Nat
      /\ back = <<into, back[2]>> /\ into = back[1] /\ c = <<c[1], c[2]>> /\ into # c[1]
  <2>1. into \in DOMAIN s.heap /\ into \in DOMAIN e.heap
    BY <1>1, <1>2 DEF Holds, into
  <2>2. /\ back = <<back[1], back[2]>> /\ back[1] \in Nat
        /\ c = <<c[1], c[2]>> /\ c[1] \in Nat
    BY <1>1, AddressFacts
  <2>3. into = back[1]
    BY DEF into
  <2> QED
    BY <1>1, <2>1, <2>2, <2>3
<1>4. /\ (kids # None /\ into = kids) \/ into \notin DOMAIN m.heap
      /\ s.heap[into] = Append(OldKids(m.heap, c), node)
      /\ \A b \in DOMAIN s.heap : b = into \/ Elsewhere(m, c, b)
      /\ \A b : Elsewhere(m, c, b) => /\ b \in DOMAIN s.heap /\ b # into
                                      /\ b # c[1] => s.heap[b] = m.heap[b]
  BY <1>1 DEF Moved, OldKids
<1>5. OldKids(m.heap, c) \in Seq(Nodes) /\ (kids # None => kids # c[1])
  <2>1. kids # None => kids \in DOMAIN m.heap /\ c[1] < kids
    BY DEF Younger
  <2>2. kids # None => m.heap[kids] \in Seq(Nodes) /\ kids # c[1]
    BY <1>3, <2>1 DEF Sound
  <2> QED
    BY <2>2 DEF OldKids
<1>6. Heap(e.heap)
  BY <1>2 DEF Sound, Heap
<1>7. Turned(m.heap, e.heap, c, into)
  <2>1. c[1] \in DOMAIN m.heap /\ Elsewhere(m, c, c[1])
    BY <1>5 DEF Holds, Elsewhere
  <2>2. c[1] \in DOMAIN s.heap /\ DOMAIN s.heap[c[1]] = DOMAIN m.heap[c[1]]
    BY <1>1, <1>3, <2>1 DEF Kept
  <2>3. ASSUME NEW i \in DOMAIN m.heap[c[1]]
        PROVE  /\ e.heap[c[1]][i].name = m.heap[c[1]][i].name
               /\ e.heap[c[1]][i].parent = m.heap[c[1]][i].parent
               /\ e.heap[c[1]][i].kids = IF i = c[2] THEN into ELSE m.heap[c[1]][i].kids
    <3>1. s.heap[c[1]][i] = IF <<c[1], i>> = c THEN [m.heap[c[1]][i] EXCEPT !.kids = into]
                                               ELSE m.heap[c[1]][i]
      <4>1. \A b \in DOMAIN m.heap : b <= c[1] =>
              \A j \in DOMAIN m.heap[b] :
                s.heap[b][j] = IF <<b, j>> = c THEN [m.heap[b][j] EXCEPT !.kids = into]
                                               ELSE m.heap[b][j]
        BY <1>1 DEF Kept
      <4>2. c[1] <= c[1]
        BY <1>3
      <4> QED
        BY <2>1, <4>1, <4>2
    <3>2. <<c[1], i>> # back /\ (<<c[1], i>> = c <=> i = c[2])
      BY <1>3
    <3>3. e.heap[c[1]][i] = s.heap[c[1]][i]
      BY <1>2, <2>2, <3>2
    <3>4. m.heap[c[1]][i] \in Nodes
      <4>1. m.heap[c[1]] \in Seq(Nodes)
        BY <2>1 DEF Sound
      <4> QED
        BY <4>1
    <3>5. CASE i = c[2]
      <4>1. e.heap[c[1]][i] = [m.heap[c[1]][i] EXCEPT !.kids = into]
        BY <3>1, <3>2, <3>3, <3>5
      <4> QED
        BY <3>4, <3>5, <4>1 DEF Nodes
    <3>6. CASE i # c[2]
      BY <3>1, <3>2, <3>3, <3>6
    <3> QED
      BY <3>5, <3>6
  <2> QED
    BY <1>2, <2>2, <2>3 DEF Turned
<1>8. Extended(m.heap, e.heap, c, into, back[2], node)
  <2> DEFINE old == OldKids(m.heap, c)
  <2>1. /\ Len(s.heap[into]) = Len(old) + 1 /\ DOMAIN s.heap[into] = 1..(Len(old) + 1)
        /\ Len(old) \in Nat /\ \A i \in 1..Len(old) : s.heap[into][i] = old[i]
    <3> HIDE DEF old
    <3>1. old \in Seq(Nodes) /\ s.heap[into] = Append(old, node)
      BY <1>4, <1>5 DEF old
    <3> QED
      BY <3>1
  <2>2. back[2] = Len(old) + 1 /\ Len(e.heap[into]) = back[2]
    BY <1>1, <1>2, <1>3, <2>1
  <2>3. ASSUME NEW i \in 1..Len(old) PROVE e.heap[into][i] = old[i]
    <3> HIDE DEF old
    <3>1. i \in DOMAIN s.heap[into] /\ <<into, i>> # back
      BY <1>3, <2>1, <2>2
    <3>2. e.heap[into][i] = s.heap[into][i]
      BY <1>2, <1>3, <3>1
    <3> QED
      BY <2>1, <3>2
  <2> QED
    BY <1>1, <1>2, <1>3, <1>4, <2>2, <2>3 DEF Extended
<1>9. WithLeaves(m.heap, e.heap, into, back[2], attrs) /\ NothingElse(m.heap, e.heap, c, into, back[2])
  <2>1. \A b : Untouched(m.heap, c, b) <=> Elsewhere(m, c, b) /\ b # c[1]
    BY DEF Untouched, Elsewhere
  <2>2. CASE attrs = <<>>
    <3>1. e.heap = s.heap /\ e.heap[into][back[2]].kids = None
      BY <1>1, <1>2, <1>3, <2>2 DEF Leaves
    <3>2. WithLeaves(m.heap, e.heap, into, back[2], attrs)
      BY <2>2, <3>1 DEF WithLeaves
    <3>3. NothingElse(m.heap, e.heap, c, into, back[2])
      BY <1>4, <2>1, <3>1 DEF NothingElse
    <3> QED
      BY <3>2, <3>3
  <2>3. CASE attrs # <<>>
    <3>1. /\ s.fresh \notin DOMAIN s.heap /\ DOMAIN e.heap = DOMAIN s.heap \cup {s.fresh}
          /\ e.heap[s.fresh] = [i \in DOMAIN attrs |-> Node(attrs[i], back)]
          /\ e.heap[into][back[2]].kids = s.fresh
          /\ \A b \in DOMAIN s.heap : b # into => e.heap[b] = s.heap[b]
      BY <1>2, <1>3, <2>3 DEF Leaves
    <3>2. s.fresh \notin DOMAIN m.heap /\ s.fresh # into /\ s.fresh # None
      <4>1. /\ \A b \in DOMAIN m.heap : b \in Nat /\ b < m.fresh
            /\ m.fresh \in Nat /\ s.fresh \in Nat /\ m.fresh <= s.fresh /\ into < s.fresh
        BY <1>1, <1>3 DEF Sound
      <4> QED
        BY <1>3, <4>1 DEF None
    <3>3. WithLeaves(m.heap, e.heap, into, back[2], attrs)
      BY <1>3, <2>3, <3>1, <3>2 DEF WithLeaves
    <3>4. ASSUME NEW b, Untouched(m.heap, c, b)
          PROVE  b \in DOMAIN e.heap /\ b # into /\ e.heap[b] = m.heap[b]
      BY <1>4, <2>1, <3>1, <3>4
    <3>5. ASSUME NEW b \in DOMAIN e.heap
          PROVE  b = into \/ b = c[1] \/ Untouched(m.heap, c, b) \/ (b = s.fresh /\ b # None)
      BY <1>4, <2>1, <3>1, <3>2
    <3>6. NothingElse(m.heap, e.heap, c, into, back[2])
      BY <3>1, <3>4, <3>5 DEF NothingElse
    <3> QED
      BY <3>3, <3>6
  <2> QED
    BY <2>2, <2>3
<1> QED
  BY <1>3, <1>6, <1>7, <1>8, <1>9 DEF e, back, s, into

(* All that is known of such a change.                                      *)
Grows(h, g, c, into, last, node, attrs) ==
    /\ Heap(h) /\ Heap(g) /\ Owned(h)
    /\ c \in Addresses /\ c[1] \in DOMAIN h /\ c[2] \in DOMAIN h[c[1]]
    /\ h[c[1]][c[2]].kids # None => c[1] < h[c[1]][c[2]].kids
    /\ Turned(h, g, c, into) /\ Extended(h, g, c, into, last, node)
    /\ WithLeaves(h, g, into, last, attrs) /\ NothingElse(h, g, c, into, last)

(* What follows from it for the blocks concerned.                           *)
LEMMA GrowsFacts ==
    ASSUME NEW h, NEW g, NEW c, NEW into, NEW last, NEW node, NEW attrs,
           Grows(h, g, c, into, last, node, attrs)
    PROVE  /\ c = <<c[1], c[2]>> /\ c[1] \in Nat /\ into \in Nat /\ c[1] # into /\ into # None
           /\ h[c[1]][c[2]].kids # None =>
                h[c[1]][c[2]].kids \in DOMAIN h /\ h[c[1]][c[2]].kids # c[1]
           /\ OldKids(h, c) \in Seq(Nodes) /\ Len(OldKids(h, c)) \in Nat
           /\ g[into] \in Seq(Nodes) /\ DOMAIN g[into] = 1..last /\ last \in Nat \ {0}
<1>1. c = <<c[1], c[2]>> /\ c[1] \in Nat
  BY AddressFacts DEF Grows
<1>2. into \in Nat /\ c[1] < into
  BY DEF Grows, Extended
<1>3. h[c[1]][c[2]].kids # None => h[c[1]][c[2]].kids \in DOMAIN h /\ h[c[1]][c[2]].kids # c[1]
  <2>1. h[c[1]][c[2]].kids # None => h[c[1]][c[2]].kids \in DOMAIN h
    BY DEF Grows, Owned
  <2>2. h[c[1]][c[2]].kids # None => c[1] < h[c[1]][c[2]].kids
    BY DEF Grows
  <2>3. \A b \in DOMAIN h : b \in Nat
    BY DEF Grows, Heap
  <2> QED
    BY <1>1, <2>1, <2>2, <2>3
<1>4. OldKids(h, c) \in Seq(Nodes)
  <2>1. \A b \in DOMAIN h : h[b] \in Seq(Nodes)
    BY DEF Grows, Heap
  <2> QED
    BY <1>3, <2>1 DEF OldKids
<1>5. Len(OldKids(h, c)) \in Nat
  BY <1>4
<1>6. g[into] \in Seq(Nodes) /\ last = Len(OldKids(h, c)) + 1 /\ Len(g[into]) = last
  BY DEF Grows, Heap, Extended
<1>7. DOMAIN g[into] = 1..last /\ last \in Nat \ {0}
  BY <1>5, <1>6
<1> QED
  BY <1>1, <1>2, <1>3, <1>4, <1>5, <1>6, <1>7 DEF None

(* Whose children were the block that those at b and i are now in.          *)
Was(h, c, into, b) == IF b = into THEN h[c[1]][c[2]].kids ELSE b

Inherits(h, g, c, into, b, i) ==
    LET old == Was(h, c, into, b)
    IN  /\ b = into => old # None
        /\ old \in DOMAIN h /\ i \in DOMAIN h[old] /\ <<old, i>> # c
        /\ h[old][i].kids = g[b][i].kids /\ g[b][i].kids \in DOMAIN h
        /\ g[b][i].kids # into /\ g[b][i].kids \in DOMAIN g

(* Every node with children has those it had, or is one of two.             *)
LEMMA Inheritance ==
    ASSUME NEW h, NEW g, NEW c, NEW into, NEW last, NEW node, NEW attrs,
           Grows(h, g, c, into, last, node, attrs),
           NEW b \in DOMAIN g, NEW i \in DOMAIN g[b], g[b][i].kids # None
    PROVE  \/ <<b, i>> = c /\ g[b][i].kids = into
           \/ b = into /\ i = last /\ attrs # <<>>
           \/ Inherits(h, g, c, into, b, i)
<1> DEFINE kids == h[c[1]][c[2]].kids
<1>1. /\ c = <<c[1], c[2]>> /\ c[1] \in Nat /\ c[1] # into
      /\ kids # None => kids \in DOMAIN h /\ kids # c[1]
      /\ Len(OldKids(h, c)) \in Nat /\ DOMAIN g[into] = 1..last
      /\ OldKids(h, c) \in Seq(Nodes)
  BY GrowsFacts
<1>2. ASSUME NEW d \in DOMAIN h, NEW j \in DOMAIN h[d], <<d, j>> # c, h[d][j].kids # None
      PROVE  /\ h[d][j].kids \in DOMAIN h /\ h[d][j].kids # into
             /\ h[d][j].kids \in DOMAIN g
  <2>1. Owned(h) /\ c[1] \in DOMAIN h /\ c[2] \in DOMAIN h[c[1]]
    BY DEF Grows
  <2>2. h[d][j].kids \in DOMAIN h
    BY <1>2, <2>1 DEF Owned
  <2>3. h[d][j].kids # kids
    <3>1. SUFFICES ASSUME h[d][j].kids = kids PROVE FALSE
      OBVIOUS
    <3>2. <<d, j>> = <<c[1], c[2]>>
      BY <1>2, <2>1, <3>1 DEF Owned
    <3> QED
      BY <1>1, <1>2, <3>2
  <2>4. h[d][j].kids # into
    BY <2>2, <2>3 DEF Grows, Extended
  <2>5. h[d][j].kids \in DOMAIN g
    <3>1. CASE h[d][j].kids = c[1]
      BY <3>1 DEF Grows, Turned
    <3>2. CASE h[d][j].kids # c[1]
      <4>1. Untouched(h, c, h[d][j].kids)
        BY <2>2, <2>3, <3>2 DEF Untouched
      <4> QED
        BY <4>1 DEF Grows, NothingElse
    <3> QED
      BY <3>1, <3>2
  <2> QED
    BY <2>2, <2>4, <2>5
<1>3. CASE b = into
  <2>1. CASE i = last
    <3>1. attrs # <<>>
      BY <1>3, <2>1 DEF Grows, WithLeaves
    <3> QED
      BY <1>3, <2>1, <3>1
  <2>2. CASE i # last
    <3>1. i \in 1..Len(OldKids(h, c)) /\ g[into][i] = OldKids(h, c)[i]
      <4>1. last = Len(OldKids(h, c)) + 1 /\ \A j \in 1..Len(OldKids(h, c)) : g[into][j] = OldKids(h, c)[j]
        BY DEF Grows, Extended
      <4>2. i \in 1..Len(OldKids(h, c))
        BY <1>1, <1>3, <2>2, <4>1
      <4> QED
        BY <4>1, <4>2
    <3>2. kids # None
      BY <3>1 DEF OldKids
    <3>3. OldKids(h, c) = h[kids] /\ i \in DOMAIN h[kids] /\ kids \in DOMAIN h /\ kids # c[1]
      BY <1>1, <3>1, <3>2 DEF OldKids
    <3>4. <<kids, i>> # c
      BY <1>1, <3>3
    <3> HIDE DEF kids
    <3>5. Inherits(h, g, c, into, b, i)
      BY <1>2, <1>3, <3>1, <3>2, <3>3, <3>4 DEF Inherits, Was, kids
    <3> QED
      BY <3>5
  <2> QED
    BY <2>1, <2>2
<1>4. CASE b = c[1]
  <2>1. i \in DOMAIN h[c[1]] /\ g[c[1]][i].kids = IF i = c[2] THEN into ELSE h[c[1]][i].kids
    BY <1>4 DEF Grows, Turned
  <2>2. CASE i = c[2]
    BY <1>1, <1>4, <2>1, <2>2
  <2>3. CASE i # c[2]
    <3>1. <<b, i>> # c /\ b \in DOMAIN h /\ Was(h, c, into, b) = b
      BY <1>1, <1>4, <2>3 DEF Grows, Was
    <3>2. Inherits(h, g, c, into, b, i)
      BY <1>1, <1>2, <1>4, <2>1, <2>3, <3>1 DEF Inherits
    <3> QED
      BY <3>2
  <2> QED
    BY <2>2, <2>3
<1>5. CASE Untouched(h, c, b)
  <2>1. b # into /\ g[b] = h[b] /\ b \in DOMAIN h /\ b # c[1]
    BY <1>5 DEF Grows, NothingElse, Untouched
  <2>2. <<b, i>> # c /\ Was(h, c, into, b) = b
    BY <1>1, <2>1 DEF Was
  <2>3. Inherits(h, g, c, into, b, i)
    BY <1>2, <2>1, <2>2 DEF Inherits
  <2> QED
    BY <2>3
<1>6. CASE b = g[into][last].kids /\ b # None
  <2>1. g[b] = [j \in DOMAIN attrs |-> Node(attrs[j], <<into, last>>)]
    BY <1>6 DEF Grows, WithLeaves
  <2>2. g[b][i].kids = None
    BY <2>1 DEF Node
  <2> QED
    BY <2>2
<1> QED
  BY <1>3, <1>4, <1>5, <1>6 DEF Grows, NothingElse

(* So every vector still is the children of one node only.                  *)
LEMMA OwnedStill ==
    ASSUME NEW h, NEW g, NEW c, NEW into, NEW last, NEW node, NEW attrs,
           Grows(h, g, c, into, last, node, attrs)
    PROVE  Owned(g)
<1> DEFINE kids == h[c[1]][c[2]].kids
           leaves == g[into][last].kids
<1>1. /\ kids # None => kids \in DOMAIN h /\ kids # c[1]
      /\ into \in DOMAIN g
  BY GrowsFacts DEF Grows, Extended
<1>2. attrs # <<>> => leaves \in DOMAIN g /\ leaves \notin DOMAIN h /\ leaves # into
  BY DEF Grows, WithLeaves
<1>3. ASSUME NEW b \in DOMAIN g, NEW d \in DOMAIN g,
             Was(h, c, into, b) = Was(h, c, into, d), Was(h, c, into, b) \in DOMAIN h, kids # None
      PROVE  b = d
  <2>1. ASSUME NEW e \in DOMAIN g, e # into, e \in DOMAIN h PROVE e # kids
    <3>1. e = c[1] \/ Untouched(h, c, e) \/ (e = leaves /\ e # None)
      BY <2>1 DEF Grows, NothingElse
    <3>2. CASE e = leaves /\ e # None
      BY <1>2, <2>1, <3>2 DEF Grows, WithLeaves
    <3>3. CASE e = c[1]
      BY <1>1, <1>3, <3>3
    <3>4. CASE Untouched(h, c, e)
      BY <1>3, <3>4 DEF Untouched
    <3> QED
      BY <3>1, <3>2, <3>3, <3>4
  <2> QED
    BY <1>3, <2>1 DEF Was
<1>4. ASSUME NEW b \in DOMAIN g, NEW i \in DOMAIN g[b], g[b][i].kids # None
      PROVE  g[b][i].kids \in DOMAIN g
  BY <1>1, <1>2, <1>4, Inheritance DEF Inherits
<1>5. ASSUME NEW b \in DOMAIN g, NEW i \in DOMAIN g[b], g[b][i].kids # None,
             NEW d \in DOMAIN g, NEW j \in DOMAIN g[d], g[d][j].kids = g[b][i].kids
      PROVE  <<d, j>> = <<b, i>>
  <2> HIDE DEF kids, leaves
  <2>1. \/ <<b, i>> = c /\ g[b][i].kids = into
        \/ b = into /\ i = last /\ attrs # <<>>
        \/ Inherits(h, g, c, into, b, i)
    BY <1>5, Inheritance
  <2>2. \/ <<d, j>> = c /\ g[d][j].kids = into
        \/ d = into /\ j = last /\ attrs # <<>>
        \/ Inherits(h, g, c, into, d, j)
    BY <1>5, Inheritance
  <2>3. /\ Inherits(h, g, c, into, b, i) => g[b][i].kids # into /\ g[b][i].kids \in DOMAIN h
        /\ Inherits(h, g, c, into, d, j) => g[d][j].kids # into /\ g[d][j].kids \in DOMAIN h
    BY DEF Inherits
  <2>4. CASE Inherits(h, g, c, into, b, i) /\ Inherits(h, g, c, into, d, j)
    <3> DEFINE p == Was(h, c, into, b)
               q == Was(h, c, into, d)
    <3>1. /\ p \in DOMAIN h /\ i \in DOMAIN h[p] /\ q \in DOMAIN h /\ j \in DOMAIN h[q]
          /\ h[p][i].kids = h[q][j].kids /\ h[p][i].kids # None
      BY <1>5, <2>4 DEF Inherits
    <3> HIDE DEF p, q
    <3>2. <<q, j>> = <<p, i>>
      <4>1. Owned(h)
        BY DEF Grows
      <4> QED
        BY <3>1, <4>1 DEF Owned
    <3>3. p = q /\ i = j
      BY <3>2
    <3>4. CASE kids # None
      <4>1. b = d
        BY <1>3, <3>1, <3>3, <3>4 DEF p, q
      <4> QED
        BY <3>3, <4>1
    <3>5. CASE kids = None
      <4>1. b # into /\ d # into
        BY <2>4, <3>5 DEF Inherits, Was, kids
      <4> QED
        BY <3>3, <4>1 DEF p, q, Was
    <3> QED
      BY <3>4, <3>5
  <2>5. CASE ~(Inherits(h, g, c, into, b, i) /\ Inherits(h, g, c, into, d, j))
    BY <1>2, <1>5, <2>1, <2>2, <2>3, <2>5 DEF leaves
  <2> QED
    BY <2>4, <2>5
<1> QED
  BY <1>4, <1>5 DEF Owned

(***************************************************************************)
(* What is read before and after.                                          *)
(***************************************************************************)

KidsAt(h, a) == h[a[1]][a[2]].kids

(* The elements open, each the last child of the one before, down to c.     *)
Trail(h, c, path, depth) ==
    /\ depth \in Nat /\ path[0] = Root /\ path[depth] = c
    /\ \A n \in 0..depth : /\ path[n] \in Addresses /\ path[n][1] \in DOMAIN h
                           /\ path[n][2] \in DOMAIN h[path[n][1]]
                           /\ path[n][2] = Len(h[path[n][1]])
    /\ \A n \in 1..depth : KidsAt(h, path[n - 1]) = path[n][1]
    /\ \A k, n \in 0..depth : k < n => path[k][1] < path[n][1]

(* A block that holds none of them and no child of the last.                *)
Off(h, c, path, depth, b) ==
    b \in DOMAIN h /\ b # KidsAt(h, c) /\ \A n \in 0..depth : b # path[n][1]

(* What is below other nodes than those is off the trail.                   *)
LEMMA KidsAreOff ==
    ASSUME NEW h, Owned(h), NEW c, NEW path, NEW depth, Trail(h, c, path, depth),
           NEW b \in DOMAIN h, NEW i \in DOMAIN h[b], \A n \in 0..depth : <<b, i>> # path[n],
           h[b][i].kids # None
    PROVE  Off(h, c, path, depth, h[b][i].kids)
<1>1. /\ depth \in Nat /\ path[0] = Root /\ path[depth] = c
      /\ \A n \in 0..depth : /\ path[n] = <<path[n][1], path[n][2]>> /\ path[n][1] \in DOMAIN h
                             /\ path[n][2] \in DOMAIN h[path[n][1]]
      /\ \A n \in 1..depth : KidsAt(h, path[n - 1]) = path[n][1]
  BY AddressFacts DEF Trail
<1>2. ASSUME NEW n \in 0..depth PROVE h[b][i].kids # KidsAt(h, path[n])
  <2>1. SUFFICES ASSUME h[b][i].kids = KidsAt(h, path[n]) PROVE FALSE
    OBVIOUS
  <2>2. <<path[n][1], path[n][2]>> = <<b, i>>
    BY <1>1, <2>1 DEF Owned, KidsAt
  <2> QED
    BY <1>1, <2>2
<1>3. h[b][i].kids # KidsAt(h, c)
  BY <1>1, <1>2
<1>4. ASSUME NEW n \in 0..depth PROVE h[b][i].kids # path[n][1]
  <2>1. CASE n = 0
    BY <1>1, <2>1 DEF Root, None
  <2>2. CASE n # 0
    <3>1. n \in 1..depth /\ n - 1 \in 0..depth
      BY <1>1, <2>2
    <3> QED
      BY <1>1, <1>2, <3>1
  <2> QED
    BY <2>1, <2>2
<1>5. h[b][i].kids \in DOMAIN h
  BY DEF Owned
<1> QED
  BY <1>3, <1>4, <1>5 DEF Off

(* What is off the trail reads as it did.                                   *)
LEMMA OffReads ==
    ASSUME NEW h, NEW g, NEW c, NEW into, NEW last, NEW node, NEW attrs,
           Grows(h, g, c, into, last, node, attrs), NEW path, NEW depth, Trail(h, c, path, depth)
    PROVE  \A n \in 0..Levels : \A b \in Nat :
              b = None \/ Off(h, c, path, depth, b) => Reading(g)[n][b] = Reading(h)[n][b]
<1> DEFINE Quiet(b) == b = None \/ Off(h, c, path, depth, b)
           T == {n \in 0..Levels : \A b \in Nat : Quiet(b) => Reading(g)[n][b] = Reading(h)[n][b]}
<1>1. Heap(h) /\ Heap(g) /\ Owned(h) /\ Levels \in Nat
  BY LevelsFacts DEF Grows
<1>2. ASSUME NEW b, Off(h, c, path, depth, b)
      PROVE  b \in DOMAIN h /\ b \in DOMAIN g /\ g[b] = h[b]
  <2>1. depth \in 0..depth /\ path[depth] = c
    BY DEF Trail
  <2>2. Untouched(h, c, b)
    BY <1>2, <2>1 DEF Off, Untouched, KidsAt
  <2> QED
    BY <2>2 DEF Grows, NothingElse, Untouched
<1>3. 0 \in T
  <2>1. \A b \in Nat : Reading(g)[0][b] = <<>> /\ Reading(h)[0][b] = <<>>
    BY <1>1, ReadingEquation
  <2> QED
    BY <1>1, <2>1
<1>4. ASSUME NEW n \in 1..Levels, n - 1 \in T PROVE n \in T
  <2>1. \A b \in Nat : Quiet(b) => Reading(g)[n - 1][b] = Reading(h)[n - 1][b]
    BY <1>4
  <2>2. ASSUME NEW b \in Nat, Quiet(b) PROVE Reading(g)[n][b] = Reading(h)[n][b]
    <3>1. /\ Reading(g)[n][b] = IF b = None \/ b \notin DOMAIN g THEN <<>> ELSE FlattenSeq(Lines(g, n, b))
          /\ Reading(h)[n][b] = IF b = None \/ b \notin DOMAIN h THEN <<>> ELSE FlattenSeq(Lines(h, n, b))
      BY <1>1, ReadingEquation
    <3>2. CASE b # None
      <4>1. Off(h, c, path, depth, b)
        BY <2>2, <3>2
      <4>2. b \in DOMAIN h /\ b \in DOMAIN g /\ g[b] = h[b]
        BY <1>2, <4>1
      <4>3. ASSUME NEW i \in DOMAIN h[b] PROVE Line(g, n, b, i) = Line(h, n, b, i)
        <5>1. h[b][i].kids \in Nat
          <6>1. DOMAIN h[b] = 1..Len(h[b]) /\ \A j \in 1..Len(h[b]) : h[b][j].kids \in Nat
            BY <1>1, <4>2, LinesTyped
          <6> QED
            BY <6>1
        <5>2. \A m \in 0..depth : <<b, i>> # path[m]
          <6>1. \A m \in 0..depth : path[m] = <<path[m][1], path[m][2]>> /\ b # path[m][1]
            BY <4>1, AddressFacts DEF Trail, Off
          <6> QED
            BY <6>1
        <5>3. Quiet(h[b][i].kids)
          BY <1>1, <4>2, <5>2, KidsAreOff
        <5> HIDE DEF Quiet
        <5>4. Reading(g)[n - 1][h[b][i].kids] = Reading(h)[n - 1][h[b][i].kids]
          BY <2>1, <5>1, <5>3
        <5> QED
          BY <4>2, <5>4 DEF Line
      <4>4. Lines(g, n, b) = Lines(h, n, b)
        BY <4>2, <4>3 DEF Lines
      <4> QED
        BY <3>1, <4>2, <4>4
    <3>3. CASE b = None
      BY <3>1, <3>3
    <3> QED
      BY <3>2, <3>3
  <2>3. n \in 0..Levels
    BY <1>1
  <2> HIDE DEF Quiet
  <2> QED
    BY <2>2, <2>3
<1>5. 0..Levels \subseteq T
  <2> HIDE DEF T
  <2> QED
    BY <1>1, <1>3, <1>4, Counting
<1> QED
  BY <1>5

(* The children of m_current read as they did, and then the new one.        *)
LEMMA NewReads ==
    ASSUME NEW h, NEW g, NEW c, NEW into, NEW last, NEW node, NEW attrs,
           Grows(h, g, c, into, last, node, attrs), NEW path, NEW depth, Trail(h, c, path, depth),
           NEW n \in 1..Levels
    PROVE  Joins(Reading(g)[n][into], Reading(h)[n][KidsAt(h, c)], Line(g, n, into, last))
<1> DEFINE kids == KidsAt(h, c)
           before == IF kids = None THEN <<>> ELSE Lines(h, n, kids)
           old == OldKids(h, c)
<1>1. Heap(h) /\ Heap(g) /\ Owned(h) /\ Levels \in Nat /\ n - 1 \in 0..Levels
  BY LevelsFacts DEF Grows
<1>2. /\ into \in Nat /\ into # None /\ into \in DOMAIN g /\ Len(old) \in Nat /\ Len(g[into]) = last
      /\ last = Len(old) + 1 /\ \A i \in 1..Len(old) : g[into][i] = old[i]
      /\ c = <<c[1], c[2]>> /\ c[1] \in DOMAIN h /\ c[2] \in DOMAIN h[c[1]]
      /\ kids # None => kids \in DOMAIN h /\ kids # c[1] /\ c[1] < kids
  BY GrowsFacts DEF Grows, Extended, KidsAt
<1>3. /\ Lines(g, n, into) \in Seq(Seq(Entries)) /\ Len(Lines(g, n, into)) = last
      /\ \A i \in 1..last : Lines(g, n, into)[i] = Line(g, n, into, i)
  BY <1>1, <1>2, LinesTyped
<1>4. /\ before \in Seq(Seq(Entries)) /\ Len(before) = Len(old)
      /\ kids # None => \A i \in 1..Len(old) : before[i] = Line(h, n, kids, i)
  <2>1. CASE kids = None
    BY <2>1 DEF OldKids, KidsAt
  <2>2. CASE kids # None
    <3>1. old = h[kids] /\ kids \in DOMAIN h
      BY <1>2, <2>2 DEF OldKids, KidsAt
    <3>2. /\ Lines(h, n, kids) \in Seq(Seq(Entries)) /\ Len(Lines(h, n, kids)) = Len(h[kids])
          /\ \A i \in 1..Len(h[kids]) : Lines(h, n, kids)[i] = Line(h, n, kids, i)
      BY <1>1, <3>1, LinesTyped
    <3> QED
      BY <2>2, <3>1, <3>2
  <2> QED
    BY <2>1, <2>2
<1>5. Reading(g)[n][into] = FlattenSeq(Lines(g, n, into))
  BY <1>1, <1>2, ReadingEquation
<1>6. Reading(h)[n][kids] = FlattenSeq(before)
  <2>1. kids \in Nat
    <3>1. DOMAIN h[c[1]] = 1..Len(h[c[1]]) /\ \A j \in 1..Len(h[c[1]]) : h[c[1]][j].kids \in Nat
      BY <1>1, <1>2, LinesTyped
    <3> QED
      BY <1>2, <3>1 DEF KidsAt
  <2>2. Reading(h)[n][kids] = IF kids = None \/ kids \notin DOMAIN h THEN <<>>
                              ELSE FlattenSeq(Lines(h, n, kids))
    BY <1>1, <2>1, ReadingEquation
  <2>3. <<>> \in Seq(Seq(Entries)) /\ FlattenSeq(<<>>) = <<>>
    BY DEF FlattenSeq
  <2> QED
    BY <1>2, <2>2, <2>3
<1> HIDE DEF before, kids, old
<1>7. ASSUME NEW i \in 1..Len(old) PROVE Lines(g, n, into)[i] = before[i]
  <2>1. kids # None
    <3>1. old # <<>>
      BY <1>2
    <3> QED
      BY <3>1 DEF OldKids, KidsAt, old, kids
  <2>2. old = h[kids] /\ kids \in DOMAIN h
    BY <1>2, <2>1 DEF OldKids, KidsAt, old, kids
  <2>3. h[kids][i].kids \in Nat /\ DOMAIN h[kids] = 1..Len(h[kids])
    BY <1>1, <2>2, LinesTyped
  <2>4. ASSUME NEW m \in 0..depth PROVE <<kids, i>> # path[m]
    <3>1. depth \in Nat /\ path[depth] = c /\ path[m] = <<path[m][1], path[m][2]>> /\ path[m][1] \in Nat
      BY AddressFacts DEF Trail
    <3>2. path[m][1] <= c[1] /\ c[1] \in Nat
      <4>1. CASE m = depth
        BY <3>1, <4>1
      <4>2. CASE m # depth
        <5>1. m < depth /\ depth \in 0..depth
          BY <3>1, <4>2
        <5>2. path[m][1] < path[depth][1] /\ path[depth][1] \in Nat
          BY <5>1, AddressFacts DEF Trail
        <5> QED
          BY <3>1, <5>2
      <4> QED
        BY <4>1, <4>2
    <3>3. kids \in Nat /\ c[1] < kids
      BY <1>1, <1>2, <2>1, <2>2 DEF Heap
    <3>4. kids # path[m][1]
      BY <3>1, <3>2, <3>3
    <3> QED
      BY <3>1, <3>4
  <2>5. h[kids][i].kids = None \/ Off(h, c, path, depth, h[kids][i].kids)
    BY <1>1, <2>2, <2>3, <2>4, KidsAreOff
  <2>6. Reading(g)[n - 1][h[kids][i].kids] = Reading(h)[n - 1][h[kids][i].kids]
    BY <1>1, <2>3, <2>5, OffReads
  <2>7. g[into][i] = h[kids][i]
    BY <1>2, <2>2
  <2>8. Line(g, n, into, i) = Line(h, n, kids, i)
    BY <2>6, <2>7 DEF Line
  <2>9. i \in 1..last
    BY <1>2
  <2> QED
    BY <1>3, <1>4, <2>1, <2>8, <2>9
<1>8. FlattenSeq(Lines(g, n, into)) = FlattenSeq(before) \o Lines(g, n, into)[last]
  <2>1. PICK t \in Seq(Seq(Entries)) : t = Lines(g, n, into)
    BY <1>3
  <2>2. PICK s \in Seq(Seq(Entries)) : s = before
    BY <1>4
  <2>3. Len(t) = Len(s) + 1 /\ Len(t) = last /\ \A i \in 1..Len(s) : t[i] = s[i]
    BY <1>2, <1>3, <1>4, <1>7, <2>1, <2>2
  <2>4. FlattenSeq(t) = FlattenSeq(s) \o t[Len(t)]
    BY <2>3, FlatLast
  <2> QED
    BY <2>1, <2>2, <2>3, <2>4
<1>9. Lines(g, n, into)[last] = Line(g, n, into, last)
  <2>1. last \in 1..last
    BY <1>2
  <2> QED
    BY <1>3, <2>1
<1> QED
  BY <1>5, <1>6, <1>8, <1>9 DEF Joins, kids

(* Of the blocks of the elements open only the last nodes read otherwise.   *)
TrailBlock(h, g, c, path, depth, r) ==
    LET b == path[r][1]
    IN  /\ b \in DOMAIN h /\ b \in DOMAIN g /\ b \in Nat /\ b # None
        /\ KidsAt(h, path[r - 1]) = b /\ KidsAt(g, path[r - 1]) = b
        /\ path[r][2] \in Nat \ {0} /\ Len(h[b]) = path[r][2] /\ Len(g[b]) = path[r][2]
        /\ \A i \in 1..path[r][2] : /\ g[b][i].name = h[b][i].name
                                     /\ g[b][i].parent = h[b][i].parent
        /\ \A i \in 1..path[r][2] : i # path[r][2] =>
            /\ g[b][i].kids = h[b][i].kids
            /\ h[b][i].kids = None \/ Off(h, c, path, depth, h[b][i].kids)

(* That is so, as the new node is below the last of each.                   *)
LEMMA TrailBlocks ==
    ASSUME NEW h, NEW g, NEW c, NEW into, NEW last, NEW node, NEW attrs,
           Grows(h, g, c, into, last, node, attrs), NEW path, NEW depth, Trail(h, c, path, depth),
           NEW r \in 1..depth
    PROVE  TrailBlock(h, g, c, path, depth, r)
<1>1. /\ depth \in Nat /\ path[0] = Root /\ path[depth] = c
      /\ \A n \in 0..depth : /\ path[n] = <<path[n][1], path[n][2]>> /\ path[n][1] \in DOMAIN h
                             /\ path[n][1] \in Nat
                             /\ path[n][2] \in DOMAIN h[path[n][1]]
                             /\ path[n][2] = Len(h[path[n][1]])
      /\ \A n \in 1..depth : KidsAt(h, path[n - 1]) = path[n][1]
      /\ \A k, n \in 0..depth : k < n => path[k][1] < path[n][1]
  BY AddressFacts DEF Trail
<1>2. PICK k \in 0..depth : k = r - 1
  BY <1>1
<1>3. r \in 0..depth /\ depth \in 0..depth /\ 0 \in 0..depth /\ r \in Nat /\ k < r /\ k < depth
  BY <1>1, <1>2
<1> DEFINE b == path[r][1]
           kids == h[c[1]][c[2]].kids
<1>4. b \in DOMAIN h /\ b \in Nat /\ b # None /\ KidsAt(h, path[k]) = b
  <2>1. path[0][1] < b /\ path[0][1] = 0
    BY <1>1, <1>3 DEF Root
  <2> QED
    BY <1>1, <1>2, <1>3, <2>1 DEF None
<1>5. Heap(h) /\ Heap(g) /\ Owned(h)
  BY DEF Grows
<1>6. h[b] \in Seq(Nodes) /\ path[r][2] \in Nat \ {0} /\ DOMAIN h[b] = 1..path[r][2]
  <2>1. h[b] \in Seq(Nodes)
    BY <1>4, <1>5 DEF Heap
  <2>2. path[r][2] = Len(h[b]) /\ path[r][2] \in DOMAIN h[b]
    BY <1>1, <1>3
  <2> HIDE DEF b
  <2> QED
    BY <2>1, <2>2
<1>7. ASSUME NEW n \in 0..depth, n # depth PROVE Untouched(h, c, path[n][1])
  <2>1. path[n][1] < c[1] /\ path[n][1] \in DOMAIN h /\ c[1] \in Nat /\ path[n][1] \in Nat
    BY <1>1, <1>3, <1>7
  <2>2. kids # None => c[1] < kids /\ kids \in DOMAIN h
    BY GrowsFacts DEF Grows
  <2>3. kids # None => kids \in Nat
    BY <1>5, <2>2 DEF Heap
  <2> QED
    BY <2>1, <2>2, <2>3 DEF Untouched
<1>8. KidsAt(g, path[k]) = b
  <2>1. g[path[k][1]] = h[path[k][1]]
    BY <1>2, <1>3, <1>7 DEF Grows, NothingElse
  <2> QED
    BY <1>4, <2>1 DEF KidsAt
<1>9. /\ b \in DOMAIN g /\ DOMAIN g[b] = DOMAIN h[b]
      /\ \A i \in DOMAIN h[b] : g[b][i].name = h[b][i].name /\ g[b][i].parent = h[b][i].parent
      /\ \A i \in DOMAIN h[b] : i # path[r][2] => g[b][i].kids = h[b][i].kids
  <2>1. CASE r = depth
    BY <1>1, <2>1 DEF Grows, Turned
  <2>2. CASE r # depth
    <3>1. b \in DOMAIN g /\ g[b] = h[b]
      BY <1>3, <1>7, <2>2 DEF Grows, NothingElse
    <3> QED
      BY <3>1
  <2> QED
    BY <2>1, <2>2
<1>10. Len(g[b]) = path[r][2]
  <2>1. g[b] \in Seq(Nodes)
    BY <1>5, <1>9 DEF Heap
  <2>2. Len(g[b]) = Len(h[b])
    BY <1>6, <1>9, <2>1, SameLength
  <2> QED
    BY <1>1, <1>3, <2>2
<1>11. ASSUME NEW i \in DOMAIN h[b], i # path[r][2]
       PROVE  h[b][i].kids = None \/ Off(h, c, path, depth, h[b][i].kids)
  <2>1. ASSUME NEW n \in 0..depth PROVE <<b, i>> # path[n]
    <3>1. CASE n = r
      BY <1>1, <1>3, <1>11, <3>1
    <3>2. CASE n # r
      <4>1. n < r \/ r < n
        BY <1>1, <1>3, <3>2
      <4>2. path[n][1] # b
        BY <1>1, <1>3, <4>1
      <4> QED
        BY <1>1, <4>2
    <3> QED
      BY <3>1, <3>2
  <2> HIDE DEF b
  <2> QED
    BY <1>4, <1>5, <2>1, KidsAreOff
<1>12. Len(h[b]) = path[r][2]
  BY <1>1, <1>3
<1> QED
  BY <1>2, <1>4, <1>6, <1>8, <1>9, <1>10, <1>11, <1>12 DEF TrailBlock

(* What is below an element open reads as it did, and then the new node, if *)
(* that is so for the next one.                                             *)
LEMMA ReadsAbove ==
    ASSUME NEW h, NEW g, NEW c, NEW into, NEW last, NEW node, NEW attrs,
           Grows(h, g, c, into, last, node, attrs), NEW path, NEW depth, Trail(h, c, path, depth),
           NEW r \in 1..depth, NEW n \in 1..Levels, NEW x \in Seq(Entries),
           Joins(Reading(g)[n - 1][KidsAt(g, path[r])], Reading(h)[n - 1][KidsAt(h, path[r])], x)
    PROVE  Joins(Reading(g)[n][KidsAt(g, path[r - 1])], Reading(h)[n][KidsAt(h, path[r - 1])], x)
<1> DEFINE b == path[r][1]
           top == path[r][2]
<1>1. /\ Heap(h) /\ Heap(g) /\ Levels \in Nat /\ n - 1 \in 0..Levels /\ Levels + 1 - n \in Nat
  BY LevelsFacts DEF Grows
<1>2. /\ b \in DOMAIN h /\ b \in DOMAIN g /\ b \in Nat /\ b # None
      /\ KidsAt(h, path[r - 1]) = b /\ KidsAt(g, path[r - 1]) = b
      /\ top \in Nat \ {0} /\ Len(h[b]) = top /\ Len(g[b]) = top
      /\ \A i \in 1..top : g[b][i].name = h[b][i].name
      /\ \A i \in 1..top : i # top =>
          /\ g[b][i].kids = h[b][i].kids
          /\ h[b][i].kids = None \/ Off(h, c, path, depth, h[b][i].kids)
  BY TrailBlocks DEF TrailBlock
<1>3. KidsAt(g, path[r]) = g[b][top].kids /\ KidsAt(h, path[r]) = h[b][top].kids
  BY DEF KidsAt
<1> HIDE DEF b, top
<1>4. /\ Lines(g, n, b) \in Seq(Seq(Entries)) /\ Len(Lines(g, n, b)) = top
      /\ \A i \in 1..top : Lines(g, n, b)[i] = Line(g, n, b, i)
      /\ \A i \in 1..top : g[b][i].kids \in Nat /\ g[b][i].name \in Names
  <2>1. PICK q \in DOMAIN g : q = b
    BY <1>2
  <2>2. /\ Lines(g, n, q) \in Seq(Seq(Entries)) /\ Len(Lines(g, n, q)) = Len(g[q])
        /\ \A i \in 1..Len(g[q]) : Lines(g, n, q)[i] = Line(g, n, q, i)
        /\ \A i \in 1..Len(g[q]) : g[q][i].kids \in Nat /\ g[q][i].name \in Names
    BY <1>1, LinesTyped
  <2>3. Len(g[q]) = top
    BY <1>2, <2>1
  <2> QED
    BY <2>1, <2>2, <2>3
<1>5. /\ Lines(h, n, b) \in Seq(Seq(Entries)) /\ Len(Lines(h, n, b)) = top
      /\ \A i \in 1..top : Lines(h, n, b)[i] = Line(h, n, b, i)
      /\ \A i \in 1..top : h[b][i].kids \in Nat /\ h[b][i].name \in Names
  <2>1. PICK q \in DOMAIN h : q = b
    BY <1>2
  <2>2. /\ Lines(h, n, q) \in Seq(Seq(Entries)) /\ Len(Lines(h, n, q)) = Len(h[q])
        /\ \A i \in 1..Len(h[q]) : Lines(h, n, q)[i] = Line(h, n, q, i)
        /\ \A i \in 1..Len(h[q]) : h[q][i].kids \in Nat /\ h[q][i].name \in Names
    BY <1>1, LinesTyped
  <2>3. Len(h[q]) = top
    BY <1>2, <2>1
  <2> QED
    BY <2>1, <2>2, <2>3
<1>6. /\ Reading(g)[n][b] = FlattenSeq(Lines(g, n, b))
      /\ Reading(h)[n][b] = FlattenSeq(Lines(h, n, b))
  BY <1>1, <1>2, ReadingEquation
<1>7. ASSUME NEW i \in 1..top, i # top PROVE Lines(g, n, b)[i] = Lines(h, n, b)[i]
  <2>1. Reading(g)[n - 1][h[b][i].kids] = Reading(h)[n - 1][h[b][i].kids]
    <3>1. PICK k \in Nat : k = h[b][i].kids
      BY <1>5
    <3>2. k = None \/ Off(h, c, path, depth, k)
      BY <1>2, <1>7, <3>1
    <3>3. \A m \in 0..Levels : Reading(g)[m][k] = Reading(h)[m][k]
      BY <3>2, OffReads
    <3> QED
      BY <1>1, <3>1, <3>3
  <2>2. Line(g, n, b, i) = Line(h, n, b, i)
    BY <1>2, <1>7, <2>1 DEF Line
  <2> QED
    BY <1>4, <1>5, <2>2
<1>8. top \in 1..top
  BY <1>2
<1>9. Joins(Line(g, n, b, top), Line(h, n, b, top), x)
  <2>1. PICK u \in Seq(Entries) : u = <<<<Levels + 1 - n, h[b][top].name>>>>
    <3>1. PICK entry \in Entries : entry = <<Levels + 1 - n, h[b][top].name>>
      <4>1. h[b][top].name \in Names
        BY <1>5, <1>8
      <4>2. <<Levels + 1 - n, h[b][top].name>> \in Entries
        BY <1>1, <4>1 DEF Entries
      <4> QED
        BY <4>2
    <3>2. <<entry>> \in Seq(Entries)
      OBVIOUS
    <3> QED
      BY <3>1, <3>2
  <2>2. PICK v \in Seq(Entries) : v = Reading(h)[n - 1][h[b][top].kids]
    <3>1. h[b][top].kids \in Nat
      BY <1>5, <1>8
    <3>2. Reading(h)[n - 1][h[b][top].kids] \in Seq(Deep(Levels + 1 - (n - 1)))
      BY <1>1, <3>1, ReadingIsDeep
    <3>3. Deep(Levels + 1 - (n - 1)) \subseteq Entries
      BY DEF Deep
    <3>4. Reading(h)[n - 1][h[b][top].kids] \in Seq(Entries)
      BY <3>2, <3>3, SeqMonotonic
    <3> QED
      BY <3>4
  <2>3. PICK w : w = Reading(g)[n - 1][g[b][top].kids]
    OBVIOUS
  <2>4. Joins(Line(h, n, b, top), u, v)
    BY <2>1, <2>2 DEF Joins, Line
  <2>5. Joins(Line(g, n, b, top), u, w)
    BY <1>2, <1>8, <2>1, <2>3 DEF Joins, Line
  <2>6. Joins(w, v, x)
    BY <1>3, <2>2, <2>3
  <2> QED
    BY <2>4, <2>5, <2>6, Rejoined
<1>10. Joins(FlattenSeq(Lines(g, n, b)), FlattenSeq(Lines(h, n, b)), x)
  <2>1. PICK t \in Seq(Seq(Entries)) : t = Lines(g, n, b)
    BY <1>4
  <2>2. PICK s \in Seq(Seq(Entries)) : s = Lines(h, n, b)
    BY <1>5
  <2>3. PICK m \in Nat : top = m + 1
    <3>1. top - 1 \in Nat /\ top = (top - 1) + 1
      BY <1>2
    <3> QED
      BY <3>1
  <2>4. Len(s) = m + 1 /\ Len(t) = m + 1
    BY <1>4, <1>5, <2>1, <2>2, <2>3
  <2>5. \A i \in 1..m : t[i] = s[i]
    BY <1>7, <2>1, <2>2, <2>3
  <2>6. Joins(t[m + 1], s[m + 1], x)
    BY <1>4, <1>5, <1>8, <1>9, <2>1, <2>2, <2>3
  <2>7. Joins(FlattenSeq(t), FlattenSeq(s), x)
    BY <2>4, <2>5, <2>6, FlatLastLonger
  <2> QED
    BY <2>1, <2>2, <2>7
<1> QED
  BY <1>2, <1>6, <1>10

(* And so it is for the root, from which all is read.                       *)
LEMMA RootReads ==
    ASSUME NEW h, NEW g, NEW c, NEW into, NEW last, NEW node, NEW attrs,
           Grows(h, g, c, into, last, node, attrs), NEW path, NEW depth, Trail(h, c, path, depth),
           depth <= MaxDepth, Line(g, Levels - depth, into, last) \in Seq(Entries)
    PROVE  Joins(Reading(g)[Levels][KidsAt(g, Root)], Reading(h)[Levels][KidsAt(h, Root)],
                 Line(g, Levels - depth, into, last))
<1> DEFINE R(k, j) == Joins(Reading(g)[k][KidsAt(g, path[j])], Reading(h)[k][KidsAt(h, path[j])],
                            Line(g, Levels - depth, into, last))
           T == {j \in 0..depth : R(Levels - depth + j, depth - j)}
<1>1. /\ depth \in Nat /\ path[0] = Root /\ path[depth] = c
      /\ Levels \in Nat /\ Levels = MaxDepth + 1 /\ MaxDepth \in Nat /\ Levels - depth \in 1..Levels
  BY LevelsFacts DEF Trail
<1>2. 0 \in T
  <2>1. KidsAt(g, c) = into
    BY DEF Grows, Turned, KidsAt
  <2>2. R(Levels - depth, depth)
    BY <1>1, <2>1, NewReads
  <2> HIDE DEF R
  <2>3. Levels - depth + 0 = Levels - depth /\ depth - 0 = depth /\ 0 \in 0..depth
    BY <1>1
  <2> QED
    BY <2>2, <2>3
<1>3. ASSUME NEW j \in 1..depth, j - 1 \in T PROVE j \in T
  <2>1. PICK r \in 1..depth : r = depth - j + 1
    BY <1>1
  <2>2. PICK n \in 1..Levels : n = Levels - depth + j
    BY <1>1
  <2>3. /\ Levels - depth + (j - 1) = n - 1 /\ depth - (j - 1) = r
        /\ r - 1 = depth - j /\ j \in 0..depth
    BY <1>1, <2>1, <2>2
  <2>4. R(n - 1, r)
    <3>1. R(Levels - depth + (j - 1), depth - (j - 1))
      BY <1>3
    <3> HIDE DEF R
    <3> QED
      BY <2>3, <3>1
  <2>5. R(n, r - 1)
    <3>1. PICK x \in Seq(Entries) : x = Line(g, Levels - depth, into, last)
      OBVIOUS
    <3> QED
      BY <2>4, <3>1, ReadsAbove
  <2> HIDE DEF R
  <2> QED
    BY <2>2, <2>3, <2>5
<1>4. 0..depth \subseteq T
  <2> HIDE DEF T
  <2> QED
    BY <1>1, <1>2, <1>3, Counting
<1>5. R(Levels, 0)
  <2>1. depth \in T /\ Levels - depth + depth = Levels /\ depth - depth = 0
    BY <1>1, <1>4
  <2> HIDE DEF R
  <2> QED
    BY <2>1
<1> QED
  BY <1>1, <1>5


(* What is read of the new node: its name, and those of its attributes.     *)
Name(depth, node) == <<<<depth + 1, node.name>>>>

Below(depth, attrs) == [i \in DOMAIN attrs |-> <<depth + 2, attrs[i]>>]

Fits(depth, attrs) == depth <= MaxDepth /\ (attrs # <<>> => depth < MaxDepth)

Says(line, depth, node, attrs) ==
    /\ Name(depth, node) \in Seq(Entries) /\ Below(depth, attrs) \in Seq(Entries)
    /\ attrs = <<>> => Below(depth, attrs) = <<>>
    /\ line = Name(depth, node) \o Below(depth, attrs)

(* This is how the new node reads, if its attributes are within the levels. *)
LEMMA LineIs ==
    ASSUME NEW h, NEW g, NEW c, NEW into, NEW last, NEW node, NEW attrs \in Seq(Names),
           Grows(h, g, c, into, last, node, attrs), node.name \in Names,
           NEW depth \in Nat, Fits(depth, attrs)
    PROVE  Says(Line(g, Levels - depth, into, last), depth, node, attrs)
<1> DEFINE leaves == g[into][last].kids
<1>1. /\ Levels \in Nat /\ Levels = MaxDepth + 1 /\ MaxDepth \in Nat /\ Heap(g)
      /\ depth <= MaxDepth /\ (attrs # <<>> => depth < MaxDepth)
  BY LevelsFacts DEF Grows, Fits
<1>2. PICK n \in 1..Levels : n = Levels - depth
  BY <1>1
<1>3. Levels + 1 - n = depth + 1 /\ n - 1 \in 0..Levels /\ (attrs # <<>> => n - 1 \in 1..Levels)
  BY <1>1, <1>2
<1>4. <<depth + 1, node.name>> \in Entries /\ \A i \in DOMAIN attrs : <<depth + 2, attrs[i]>> \in Entries
  BY DEF Entries
<1>5. Below(depth, attrs) \in Seq(Entries) /\ Len(Below(depth, attrs)) = Len(attrs)
  <2>1. DOMAIN attrs = 1..Len(attrs) /\ Len(attrs) \in Nat
    OBVIOUS
  <2> QED
    BY <1>4, <2>1 DEF Below
<1>6. attrs = <<>> => Below(depth, attrs) = <<>>
  BY <1>5
<1>7. \A k \in 0..Levels : Reading(g)[k][None] = <<>>
  <2>1. ASSUME NEW k \in 0..Levels PROVE Reading(g)[k][None] = <<>>
    <3>1. None \in Nat
      BY DEF None
    <3>2. CASE k = 0
      BY <1>1, <3>1, <3>2, ReadingEquation
    <3>3. CASE k # 0
      <4>1. k \in 1..Levels
        BY <1>1, <3>3
      <4> QED
        BY <1>1, <3>1, <4>1, ReadingEquation
    <3> QED
      BY <3>2, <3>3
  <2> QED
    BY <2>1
<1>8. Reading(g)[n - 1][leaves] = Below(depth, attrs)
  <2>1. CASE attrs = <<>>
    <3>1. leaves = None
      BY <2>1 DEF Grows, WithLeaves
    <3> QED
      BY <1>3, <1>6, <1>7, <2>1, <3>1
  <2>2. CASE attrs # <<>>
    <3>1. /\ leaves # None /\ leaves \in DOMAIN g
          /\ g[leaves] = [i \in DOMAIN attrs |-> Node(attrs[i], <<into, last>>)]
      BY <2>2 DEF Grows, WithLeaves
    <3> HIDE DEF leaves
    <3>2. leaves \in Nat
      BY <1>1, <3>1 DEF Heap
    <3>3. PICK m \in 1..Levels : m = n - 1
      BY <1>3, <2>2
    <3>4. Reading(g)[m][leaves] = FlattenSeq(Lines(g, m, leaves))
      BY <1>1, <3>1, <3>2, ReadingEquation
    <3>5. m - 1 \in 0..Levels /\ Levels + 1 - m = depth + 2
      BY <1>1, <1>2, <3>3
    <3>6. DOMAIN g[leaves] = DOMAIN attrs
          /\ \A i \in DOMAIN attrs : g[leaves][i].name = attrs[i] /\ g[leaves][i].kids = None
      BY <3>1 DEF Node
    <3>7. ASSUME NEW i \in DOMAIN attrs PROVE Line(g, m, leaves, i) = <<Below(depth, attrs)[i]>>
      <4>1. Line(g, m, leaves, i) = <<<<depth + 2, attrs[i]>>>> \o <<>>
        BY <1>7, <3>5, <3>6 DEF Line
      <4>2. PICK entry \in Entries : entry = <<depth + 2, attrs[i]>>
        BY <1>4
      <4>3. <<entry>> \o <<>> = <<entry>>
        OBVIOUS
      <4> QED
        BY <4>1, <4>2, <4>3 DEF Below
    <3>8. PICK e \in Seq(Entries) : e = Below(depth, attrs)
      BY <1>5
    <3>9. Lines(g, m, leaves) = [i \in 1..Len(e) |-> <<e[i]>>]
      <4>1. DOMAIN attrs = 1..Len(e)
        BY <1>5, <3>8
      <4> QED
        BY <3>6, <3>7, <3>8, <4>1 DEF Lines
    <3>10. FlattenSeq(Lines(g, m, leaves)) = e
      BY <3>9, FlatOnes
    <3> QED
      BY <3>3, <3>4, <3>8, <3>10
  <2> QED
    BY <2>1, <2>2
<1>9. g[into][last].name = node.name
  BY DEF Grows, Extended
<1>10. Line(g, n, into, last) = <<<<depth + 1, node.name>>>> \o Below(depth, attrs)
  BY <1>3, <1>8, <1>9 DEF Line
<1>11. <<<<depth + 1, node.name>>>> \in Seq(Entries)
  <2>1. PICK entry \in Entries : entry = <<depth + 1, node.name>>
    BY <1>4
  <2>2. <<entry>> \in Seq(Entries)
    OBVIOUS
  <2> QED
    BY <2>1, <2>2
<1> QED
  BY <1>2, <1>5, <1>6, <1>10, <1>11 DEF Name, Says

(* There is one outermost element, and its children point to it.            *)
Top(h) ==
    LET kids == KidsAt(h, Root)
    IN  kids # None =>
            /\ Len(h[kids]) = 1
            /\ h[kids][1].kids # None =>
                \A i \in DOMAIN h[h[kids][1].kids] : h[h[kids][1].kids][i].parent = <<kids, 1>>

(* A new outermost element has no sibling, and a new child of it its        *)
(* address.                                                                 *)
LEMMA TopStill ==
    ASSUME NEW h, NEW g, NEW c, NEW into, NEW last, NEW node, NEW attrs,
           Grows(h, g, c, into, last, node, attrs), NEW path, NEW depth, Trail(h, c, path, depth),
           Top(h), node.parent = c, depth = 0 => KidsAt(h, Root) = None
    PROVE  Top(g) /\ KidsAt(g, Root) # None
<1>1. /\ depth \in Nat /\ path[0] = Root /\ path[depth] = c
      /\ \A n \in 0..depth : /\ path[n] = <<path[n][1], path[n][2]>>
                             /\ path[n][2] = Len(h[path[n][1]])
  BY AddressFacts DEF Trail
<1>2. /\ KidsAt(g, c) = into /\ into # None /\ DOMAIN g[into] = 1..last
      /\ last = Len(OldKids(h, c)) + 1 /\ Len(g[into]) = last /\ Len(OldKids(h, c)) \in Nat
      /\ \A i \in 1..Len(OldKids(h, c)) : g[into][i] = OldKids(h, c)[i]
      /\ g[into][last].parent = c /\ OldKids(h, c) \in Seq(Nodes)
  BY GrowsFacts DEF Grows, Turned, Extended, KidsAt
<1>3. CASE depth = 0
  <2>1. c = Root /\ OldKids(h, c) = <<>>
    BY <1>1, <1>3 DEF OldKids, KidsAt
  <2>2. last = 1
    BY <1>2, <2>1
  <2>3. KidsAt(g, Root) = into
    BY <1>2, <2>1
  <2>4. ASSUME g[into][1].kids # None, NEW i \in DOMAIN g[g[into][1].kids]
        PROVE  g[g[into][1].kids][i].parent = <<into, 1>>
    <3>1. g[g[into][1].kids] = [j \in DOMAIN attrs |-> Node(attrs[j], <<into, 1>>)]
      BY <2>2, <2>4 DEF Grows, WithLeaves
    <3> QED
      BY <2>4, <3>1 DEF Node
  <2> QED
    BY <1>2, <2>2, <2>3, <2>4 DEF Top
<1>4. CASE depth # 0
  <2> DEFINE top == path[1][1]
  <2>1. PICK r \in 1..depth : r = 1
    BY <1>1, <1>4
  <2>2. TrailBlock(h, g, c, path, depth, r)
    BY TrailBlocks
  <2>3. /\ top \in DOMAIN h /\ top # None /\ KidsAt(h, Root) = top /\ KidsAt(g, Root) = top
        /\ Len(h[top]) = path[1][2] /\ Len(g[top]) = path[1][2]
    BY <1>1, <2>1, <2>2 DEF TrailBlock
  <2>4. Len(h[top]) = 1 /\ path[1] = <<top, 1>> /\ Len(g[top]) = 1
    <3>1. 1 \in 0..depth
      BY <1>1, <1>4
    <3>2. path[1] = <<top, path[1][2]>>
      BY <1>1, <3>1
    <3> HIDE DEF top
    <3>3. Len(h[top]) = 1
      BY <2>3 DEF Top
    <3> QED
      BY <2>3, <3>2, <3>3
  <2>5. h[top][1].kids # None =>
           \A i \in DOMAIN h[h[top][1].kids] : h[h[top][1].kids][i].parent = <<top, 1>>
    BY <2>3 DEF Top
  <2>6. KidsAt(h, path[1]) = h[top][1].kids /\ KidsAt(g, path[1]) = g[top][1].kids
    BY <2>4 DEF KidsAt
  <2> HIDE DEF top
  <2>7. ASSUME g[top][1].kids # None, NEW i \in DOMAIN g[g[top][1].kids]
        PROVE  g[g[top][1].kids][i].parent = <<top, 1>>
    <3>1. CASE depth = 1
      <4>1. c = <<top, 1>> /\ g[top][1].kids = into
        BY <1>1, <1>2, <2>4, <2>6, <3>1
      <4>2. CASE i = last
        BY <1>2, <4>1, <4>2
      <4>3. CASE i # last
        <5>1. i \in 1..Len(OldKids(h, c)) /\ g[into][i] = OldKids(h, c)[i]
          <6>1. i \in 1..Len(OldKids(h, c))
            BY <1>2, <2>7, <4>1, <4>3
          <6> QED
            BY <1>2, <6>1
        <5>2. OldKids(h, c) # <<>>
          BY <1>2, <5>1
        <5>3. h[top][1].kids # None /\ OldKids(h, c) = h[h[top][1].kids]
          BY <4>1, <5>2 DEF OldKids
        <5>4. i \in DOMAIN h[h[top][1].kids]
          BY <1>2, <5>1, <5>3
        <5> QED
          BY <2>5, <4>1, <5>1, <5>3, <5>4
      <4> QED
        BY <4>2, <4>3
    <3>2. CASE depth # 1
      <4> DEFINE low == path[2][1]
      <4>1. PICK s \in 1..depth : s = 2
        BY <1>1, <1>4, <3>2
      <4>2. TrailBlock(h, g, c, path, depth, s) /\ s - 1 = 1
        BY <4>1, TrailBlocks
      <4>3. /\ low \in DOMAIN h /\ low \in DOMAIN g /\ low # None
            /\ KidsAt(h, path[1]) = low /\ KidsAt(g, path[1]) = low
            /\ Len(h[low]) = path[2][2] /\ Len(g[low]) = path[2][2]
            /\ \A j \in 1..path[2][2] : g[low][j].parent = h[low][j].parent
        BY <4>1, <4>2 DEF TrailBlock
      <4>4. h[low] \in Seq(Nodes) /\ g[low] \in Seq(Nodes)
        BY <4>3 DEF Grows, Heap
      <4>5. DOMAIN h[low] = 1..path[2][2] /\ DOMAIN g[low] = 1..path[2][2]
        BY <4>3, <4>4
      <4> HIDE DEF low
      <4>6. i \in DOMAIN h[low] /\ g[low][i].parent = h[low][i].parent
        BY <2>6, <2>7, <4>3, <4>5
      <4> QED
        BY <2>5, <2>6, <4>3, <4>6
    <3> QED
      BY <3>1, <3>2
  <2> QED
    BY <2>3, <2>4, <2>7 DEF Top
<1> QED
  BY <1>3, <1>4


(***************************************************************************)
(* The invariant of the tree.                                              *)
(***************************************************************************)

(* What the types say of the heap, the depth and the document.              *)
LEMMA HeapFacts ==
    ASSUME TypeOK
    PROVE  /\ Heap(heap) /\ Len(open) \in Nat /\ (open = <<>> <=> Len(open) = 0)
           /\ doc \in Seq(Entries) /\ Len(open) <= MaxDepth
<1>1. /\ fresh \in Nat /\ DOMAIN heap \subseteq 0..(fresh - 1)
      /\ \A b \in DOMAIN heap : heap[b] \in Seq(Nodes)
      /\ open \in Seq(Tags) /\ doc \in Seq(Nat \X Names) /\ Len(open) <= MaxDepth
  BY DEF TypeOK
<1>2. Heap(heap)
  BY <1>1 DEF Heap
<1>3. Len(open) \in Nat /\ (open = <<>> <=> Len(open) = 0)
  BY <1>1
<1> QED
  BY <1>1, <1>2, <1>3 DEF Entries

(* What a handler that adds a node leaves of the heap.                      *)
LEMMA NodeAdded ==
    ASSUME IInv, TreeInv, NEW node \in Nodes, node.kids = None, node.parent = current,
           NEW attrs \in Seq(Names), attrs # <<>> => Len(open) < MaxDepth, MayStart
    PROVE  LET started == EmplaceBack(Memory, current, node)
               g       == AddAttrs(started, Back(started, current), attrs).heap
           IN  /\ Owned(g) /\ Top(g) /\ KidsAt(g, Root) # None
               /\ Name(Len(open), node) \in Seq(Entries)
               /\ Below(Len(open), attrs) \in Seq(Entries)
               /\ attrs = <<>> => Below(Len(open), attrs) = <<>>
               /\ Reading(g)[Levels][KidsAt(g, Root)] =
                    doc \o (Name(Len(open), node) \o Below(Len(open), attrs))
<1> DEFINE started == EmplaceBack(Memory, current, node)
           back    == Back(started, current)
           e       == AddAttrs(started, back, attrs)
<1>1. /\ TypeOK /\ KidsInv /\ Owned(heap) /\ TopInv /\ TreeIsDocument
      /\ Heap(heap) /\ Len(open) \in Nat /\ (open = <<>> <=> Len(open) = 0)
      /\ doc \in Seq(Entries) /\ Len(open) <= MaxDepth
  BY HeapFacts DEF IInv, TreeInv
<1>2. PICK path \in [0..Len(open) -> Addresses] : Leads(path)
  BY DEF IInv, PathInv
<1>3. /\ Memory.heap = heap /\ Sound(Memory) /\ current \in Addresses
      /\ Holds(Memory, current) /\ Younger(Memory, current)
  BY <1>1, MemoryFacts
<1>4. PICK depth \in Nat : depth = Len(open)
  BY <1>1
<1>5. Trail(heap, current, path, depth)
  <2>1. /\ path[0] = Root /\ path[depth] = current
        /\ \A n \in 0..depth : Live(path[n]) /\ path[n][2] = Len(heap[path[n][1]])
        /\ \A n \in 1..depth : At(path[n - 1]).kids = path[n][1]
        /\ \A k, n \in 0..depth : k < n => path[k][1] < path[n][1]
    BY <1>2, <1>4 DEF Leads
  <2>2. \A n \in 0..depth : path[n] \in Addresses
    BY <1>2, <1>4
  <2> QED
    BY <2>1, <2>2 DEF Trail, Live, At, KidsAt
<1>6. /\ Heap(e.heap) /\ back = <<back[1], back[2]>>
      /\ Turned(Memory.heap, e.heap, current, back[1])
      /\ Extended(Memory.heap, e.heap, current, back[1], back[2], node)
      /\ WithLeaves(Memory.heap, e.heap, back[1], back[2], attrs)
      /\ NothingElse(Memory.heap, e.heap, current, back[1], back[2])
  BY <1>3, Grown
<1>7. PICK g, into, last : g = e.heap /\ into = back[1] /\ last = back[2]
  OBVIOUS
<1> HIDE DEF e, back, started
<1>8. Grows(heap, g, current, into, last, node, attrs)
  <2>1. /\ current[1] \in DOMAIN heap /\ current[2] \in DOMAIN heap[current[1]]
        /\ heap[current[1]][current[2]].kids # None =>
             current[1] < heap[current[1]][current[2]].kids
    BY <1>3 DEF Holds, Younger
  <2> QED
    BY <1>1, <1>3, <1>6, <1>7, <2>1 DEF Grows
<1>9. Owned(g)
  BY <1>8, OwnedStill
<1>10. Top(g) /\ KidsAt(g, Root) # None
  <2>1. Top(heap)
    BY <1>1 DEF TopInv, Top, KidsAt, At
  <2>2. depth = 0 => KidsAt(heap, Root) = None
    BY <1>1, <1>4 DEF MayStart, KidsAt, Root
  <2> QED
    BY <1>5, <1>8, <2>1, <2>2, TopStill
<1> DEFINE u == Name(depth, node)
           v == Below(depth, attrs)
<1>11. /\ u \in Seq(Entries) /\ v \in Seq(Entries) /\ (attrs = <<>> => v = <<>>)
       /\ Line(g, Levels - depth, into, last) = u \o v
  <2>1. node.name \in Names
    BY DEF Nodes
  <2>2. Fits(depth, attrs)
    BY <1>1, <1>4 DEF Fits
  <2> HIDE DEF u, v
  <2>3. Says(Line(g, Levels - depth, into, last), depth, node, attrs)
    BY <1>8, <2>1, <2>2, LineIs
  <2> QED
    BY <2>3 DEF Says, u, v
<1> HIDE DEF u, v
<1>12. u \o v \in Seq(Entries)
  BY <1>11
<1>13. Joins(Reading(g)[Levels][KidsAt(g, Root)], Reading(heap)[Levels][KidsAt(heap, Root)],
             Line(g, Levels - depth, into, last))
  BY <1>1, <1>4, <1>5, <1>8, <1>11, <1>12, RootReads
<1>14. Reading(heap)[Levels][KidsAt(heap, Root)] = doc
  BY <1>1 DEF TreeIsDocument, At, KidsAt
<1>15. Reading(g)[Levels][KidsAt(g, Root)] = doc \o (u \o v)
  BY <1>11, <1>13, <1>14 DEF Joins
<1> QED
  BY <1>4, <1>7, <1>9, <1>10, <1>11, <1>15 DEF u, v, e, back, started

(* The invariant from what is known of the heap after a step.               *)
LEMMA TreeAfter ==
    ASSUME NEW g, heap' = g, Owned(g), Top(g), open' # <<>> => KidsAt(g, Root) # None,
           Reading(g)[Levels][KidsAt(g, Root)] = doc'
    PROVE  TreeInv'
<1>1. TopInv'
  BY DEF TopInv, Top, KidsAt, At
<1>2. TreeIsDocument'
  BY DEF TreeIsDocument, KidsAt, At
<1>3. Owned(heap)'
  BY DEF Owned
<1> QED
  BY <1>1, <1>2, <1>3 DEF TreeInv

(* At first there is the root only, and nothing was read.                   *)
LEMMA TreeAtFirst == Init => TreeInv
<1> SUFFICES ASSUME Init PROVE TreeInv
  OBVIOUS
<1>1. heap = [b \in {0} |-> <<Node(NoName, Null)>>] /\ open = <<>> /\ doc = <<>>
  BY DEF Init
<1>2. Heap(heap)
  BY InitHolds, HeapFacts DEF IInv
<1>3. DOMAIN heap = {0} /\ DOMAIN heap[0] = {1} /\ heap[0][1].kids = None
  BY <1>1 DEF Node
<1>4. Owned(heap)
  BY <1>3 DEF Owned
<1>5. At(Root).kids = None
  BY <1>3 DEF At, Root
<1>6. TopInv
  BY <1>1, <1>5 DEF TopInv
<1>7. TreeIsDocument
  <2>1. Levels \in 1..Levels /\ None \in Nat
    BY LevelsFacts DEF None
  <2>2. Reading(heap)[Levels][None] = <<>>
    BY <1>2, <2>1, ReadingEquation
  <2> QED
    BY <1>1, <1>5, <2>2 DEF TreeIsDocument
<1> QED
  BY <1>4, <1>6, <1>7 DEF TreeInv

(* An element, and its attributes below it.                                 *)
LEMMA StartElGrows ==
    ASSUME IInv, TreeInv, NEW tag \in Tags, NEW attrs \in AttrLists, StartEl(tag, attrs)
    PROVE  TreeInv'
<1> DEFINE new     == Node(tag, current)
           started == EmplaceBack(Memory, current, new)
           back    == Back(started, current)
           e       == AddAttrs(started, back, attrs)
<1>1. tag \in Names /\ attrs \in Seq(Names) /\ current \in Addresses
  <2>1. current \in Addresses
    BY DEF IInv, TypeOK
  <2>2. AttrNames \subseteq Names
    BY DEF Names
  <2>3. attrs \in Seq(Names)
    BY <2>2, NamesAssumption, SeqMonotonic
  <2> QED
    BY <2>1, <2>3 DEF Names
<1>2. /\ MayStart /\ Len(open) < MaxDepth /\ Store(e)
      /\ doc' = doc \o <<<<Len(open) + 1, tag>>>> \o Below(Len(open), attrs)
  BY DEF StartEl, Below
<1>3. /\ new \in Nodes /\ new.name = tag /\ new.parent = current /\ new.kids = None
  BY <1>1, NewNodes
<1> HIDE DEF new
<1>4. PICK g : g = e.heap
  OBVIOUS
<1>5. /\ Owned(g) /\ Top(g) /\ KidsAt(g, Root) # None
      /\ Name(Len(open), new) \in Seq(Entries)
      /\ Below(Len(open), attrs) \in Seq(Entries)
      /\ Reading(g)[Levels][KidsAt(g, Root)] =
           doc \o (Name(Len(open), new) \o Below(Len(open), attrs))
  BY <1>1, <1>2, <1>3, <1>4, NodeAdded
<1> HIDE DEF e
<1>6. heap' = g
  BY <1>2, <1>4 DEF Store
<1>7. Reading(g)[Levels][KidsAt(g, Root)] = doc'
  <2>1. doc \in Seq(Entries)
    BY HeapFacts DEF IInv
  <2>2. PICK u \in Seq(Entries) : u = <<<<Len(open) + 1, tag>>>>
    BY <1>3, <1>5 DEF Name
  <2>3. PICK v \in Seq(Entries) : v = Below(Len(open), attrs)
    BY <1>5
  <2>4. (doc \o u) \o v = doc \o (u \o v)
    BY <2>1, ConcatAssociative
  <2> QED
    BY <1>2, <1>3, <1>5, <2>2, <2>3, <2>4 DEF Name
<1> QED
  BY <1>5, <1>6, <1>7, TreeAfter

(* Text, and nothing below it.                                              *)
LEMMA ValueElGrows == ASSUME IInv, TreeInv, ValueEl PROVE TreeInv'
<1> DEFINE new     == Node("cdata", current)
           started == EmplaceBack(Memory, current, new)
           back    == Back(started, current)
           attrs   == <<>>
           e       == AddAttrs(started, back, attrs)
<1>1. "cdata" \in Names /\ attrs \in Seq(Names) /\ current \in Addresses
  BY DEF IInv, TypeOK, Names
<1>2. MayStart /\ Store(started) /\ doc' = Append(doc, <<Len(open) + 1, "cdata">>)
  BY DEF ValueEl, MayStart
<1>3. /\ new \in Nodes /\ new.name = "cdata" /\ new.parent = current /\ new.kids = None
  BY <1>1, NewNodes
<1> HIDE DEF new
<1>4. PICK g : g = e.heap
  OBVIOUS
<1>5. /\ Owned(g) /\ Top(g) /\ KidsAt(g, Root) # None
      /\ Name(Len(open), new) \in Seq(Entries)
      /\ Below(Len(open), attrs) = <<>>
      /\ Reading(g)[Levels][KidsAt(g, Root)] =
           doc \o (Name(Len(open), new) \o Below(Len(open), attrs))
  BY <1>1, <1>2, <1>3, <1>4, NodeAdded
<1>6. heap' = g
  BY <1>2, <1>4 DEF Store, AddAttrs
<1>7. Reading(g)[Levels][KidsAt(g, Root)] = doc'
  <2>1. doc \in Seq(Entries)
    BY HeapFacts DEF IInv
  <2>2. PICK u \in Seq(Entries) : u = <<<<Len(open) + 1, "cdata">>>>
    BY <1>3, <1>5 DEF Name
  <2>3. u \o <<>> = u
    OBVIOUS
  <2>4. doc' = doc \o u
    <3>1. PICK entry \in Entries : entry = <<Len(open) + 1, "cdata">>
      <4>1. Len(open) + 1 \in Nat
        BY HeapFacts DEF IInv
      <4>2. <<Len(open) + 1, "cdata">> \in Entries
        BY <1>1, <4>1 DEF Entries
      <4> QED
        BY <4>2
    <3>2. Append(doc, entry) = doc \o <<entry>>
      BY <2>1, AppendIsConcat
    <3> QED
      BY <1>2, <2>2, <3>1, <3>2
  <2> QED
    BY <1>3, <1>5, <2>2, <2>3, <2>4 DEF Name
<1> QED
  BY <1>5, <1>6, <1>7, TreeAfter

(* endEl and the end leave the tree alone.                                  *)
LEMMA TreeStays ==
    ASSUME TreeInv, UNCHANGED <<heap, doc>>, open' # <<>> => open # <<>>
    PROVE  TreeInv'
<1>1. Owned(heap) /\ TopInv /\ TreeIsDocument
  BY DEF TreeInv
<1>2. PICK g : g = heap
  OBVIOUS
<1>3. Top(g) /\ (open # <<>> => KidsAt(g, Root) # None)
  BY <1>1, <1>2 DEF TopInv, Top, KidsAt, At
<1>4. Reading(g)[Levels][KidsAt(g, Root)] = doc
  BY <1>1, <1>2 DEF TreeIsDocument, KidsAt, At
<1> QED
  BY <1>1, <1>2, <1>3, <1>4, TreeAfter


(* Every handler keeps the tree the document.                               *)
THEOREM TreeInvariance == Spec => []TreeInv
<1>1. Init => TreeInv
  BY TreeAtFirst
<1>2. IInv /\ TreeInv /\ [Next]_vars => TreeInv'
  <2> SUFFICES ASSUME IInv, TreeInv, [Next]_vars PROVE TreeInv'
    OBVIOUS
  <2>1. ASSUME NEW tag \in Tags, NEW attrs \in AttrLists, StartEl(tag, attrs) PROVE TreeInv'
    BY <2>1, StartElGrows
  <2>2. CASE ValueEl
    BY <2>2, ValueElGrows
  <2>3. CASE EndEl
    <3>1. UNCHANGED <<heap, doc>> /\ open # <<>>
      BY <2>3 DEF EndEl
    <3> QED
      BY <3>1, TreeStays
  <2>4. CASE Parsed
    <3>1. UNCHANGED <<heap, doc>> /\ open' = open
      BY <2>4 DEF Parsed
    <3> QED
      BY <3>1, TreeStays
  <2>5. CASE UNCHANGED vars
    <3>1. UNCHANGED <<heap, doc>> /\ open' = open
      BY <2>5 DEF vars
    <3> QED
      BY <3>1, TreeStays
  <2> QED
    BY <2>1, <2>2, <2>3, <2>4, <2>5 DEF Next
<1> QED
  BY <1>1, <1>2, Invariance, PTL DEF Spec

(* Whatever document expat reports, and however the vectors of its tree     *)
(* grow and move, what startEl and valueEl leave is that document: no node  *)
(* is lost, doubled or out of its place.                                    *)
THEOREM WholeTree == Spec => []TreeIsDocument
<1>1. TreeInv => TreeIsDocument
  BY DEF TreeInv
<1> QED
  BY <1>1, TreeInvariance, PTL

(***************************************************************************)
(* Lists.                                                                  *)
(***************************************************************************)

(* The children of the outermost element, which are in block s.             *)
TopIs(t, s) ==
    /\ At(Root).kids = t /\ t # None /\ t \in DOMAIN heap /\ t \in Nat
    /\ heap[t] \in Seq(Nodes) /\ Len(heap[t]) = 1 /\ heap[t][1].kids = s /\ s \in Nat
    /\ s # None => /\ s \in DOMAIN heap /\ heap[s] \in Seq(Nodes)
                   /\ \A i \in DOMAIN heap[s] : heap[s][i].parent = <<t, 1>>

(* What was read is that element, and then all that is below it.            *)
LEMMA DocIs ==
    ASSUME IInv, TreeInv, doc # <<>>
    PROVE  \E t, s : /\ TopIs(t, s)
                     /\ doc = <<<<1, heap[t][1].name>>>> \o Reading(heap)[MaxDepth][s]
                     /\ <<1, heap[t][1].name>> \in Entries
<1> DEFINE t == At(Root).kids
           s == heap[t][1].kids
<1>1. /\ TypeOK /\ Owned(heap) /\ TopInv /\ TreeIsDocument /\ Heap(heap)
      /\ Levels \in 1..Levels /\ Levels = MaxDepth + 1 /\ MaxDepth \in Nat
  BY HeapFacts, LevelsFacts DEF IInv, TreeInv
<1>2. Live(Root)
  <2>1. PICK path \in [0..Len(open) -> Addresses] : Leads(path)
    BY DEF IInv, PathInv
  <2>2. path[0] = Root /\ 0 \in 0..Len(open) /\ \A n \in 0..Len(open) : Live(path[n])
    BY <1>1, <2>1, HeapFacts DEF Leads
  <2> QED
    BY <2>2
<1>3. t \in Nat
  <2>1. At(Root) \in Nodes
    BY <1>1, <1>2 DEF Heap, Live, At
  <2> QED
    BY <2>1 DEF Nodes
<1>4. Reading(heap)[Levels][t] = doc
  BY <1>1 DEF TreeIsDocument
<1>5. t # None /\ t \in DOMAIN heap
  <2>1. Reading(heap)[Levels][t] = IF t = None \/ t \notin DOMAIN heap THEN <<>>
                                   ELSE FlattenSeq(Lines(heap, Levels, t))
    BY <1>1, <1>3, ReadingEquation
  <2> QED
    BY <1>4, <2>1
<1>6. Len(heap[t]) = 1 /\ heap[t] \in Seq(Nodes)
  BY <1>1, <1>5 DEF TopInv, Heap
<1>7. heap[t][1] \in Nodes /\ s \in Nat /\ heap[t][1].name \in Names
  <2>1. heap[t][1] \in Nodes
    BY <1>6
  <2> QED
    BY <2>1 DEF Nodes
<1>8. s # None => /\ s \in DOMAIN heap /\ heap[s] \in Seq(Nodes)
                  /\ \A i \in DOMAIN heap[s] : heap[s][i].parent = <<t, 1>>
  <2>1. 1 \in DOMAIN heap[t]
    BY <1>6
  <2>2. s # None => s \in DOMAIN heap
    BY <1>1, <1>5, <2>1 DEF Owned
  <2>3. s # None => \A i \in DOMAIN heap[s] : heap[s][i].parent = <<t, 1>>
    BY <1>1, <1>5 DEF TopInv
  <2> QED
    BY <1>1, <2>2, <2>3 DEF Heap
<1>9. TopIs(t, s)
  BY <1>3, <1>5, <1>6, <1>7, <1>8 DEF TopIs
<1> HIDE DEF t, s
<1>10. Reading(heap)[Levels][t] = FlattenSeq(Lines(heap, Levels, t))
  BY <1>1, <1>3, <1>5, ReadingEquation
<1>11. FlattenSeq(Lines(heap, Levels, t)) = Line(heap, Levels, t, 1)
  <2>1. PICK b \in DOMAIN heap : b = t
    BY <1>5
  <2>2. /\ Lines(heap, Levels, b) \in Seq(Seq(Entries)) /\ Len(Lines(heap, Levels, b)) = Len(heap[b])
        /\ \A i \in 1..Len(heap[b]) : Lines(heap, Levels, b)[i] = Line(heap, Levels, b, i)
    BY <1>1, LinesTyped
  <2>3. PICK q \in Seq(Seq(Entries)) : q = Lines(heap, Levels, b)
    BY <2>2
  <2>4. PICK none \in Seq(Seq(Entries)) : none = <<>>
    <3>1. <<>> \in Seq(Seq(Entries))
      OBVIOUS
    <3> QED
      BY <3>1
  <2>5. Len(q) = Len(none) + 1 /\ (\A i \in 1..Len(none) : q[i] = none[i]) /\ Len(q) = 1
    BY <1>6, <2>1, <2>2, <2>3, <2>4
  <2>6. FlattenSeq(q) = FlattenSeq(none) \o q[Len(q)]
    BY <2>5, FlatLast
  <2>7. FlattenSeq(none) = <<>>
    BY <2>4, FlatIsSequence
  <2>8. q[1] \in Seq(Entries)
    BY <2>5
  <2>9. <<>> \o q[1] = q[1]
    <3>1. PICK r \in Seq(Entries) : r = q[1]
      BY <2>8
    <3>2. <<>> \o r = r
      OBVIOUS
    <3> QED
      BY <3>1, <3>2
  <2>10. q[1] = Line(heap, Levels, t, 1)
    BY <1>6, <2>1, <2>2, <2>3
  <2> QED
    BY <2>1, <2>3, <2>5, <2>6, <2>7, <2>9, <2>10
<1>12. Levels + 1 - Levels = 1 /\ Levels - 1 = MaxDepth
  BY <1>1
<1>13. doc = <<<<1, heap[t][1].name>>>> \o Reading(heap)[MaxDepth][s]
  BY <1>4, <1>10, <1>11, <1>12 DEF Line, s
<1>14. <<1, heap[t][1].name>> \in Entries
  BY <1>7 DEF Entries
<1> QED
  BY <1>9, <1>13, <1>14

(* As many entries of a name as the outermost element has such children.    *)
Named(s, name) == IF s = None THEN {} ELSE {i \in 1..Len(heap[s]) : heap[s][i].name = name}

(* FlattenSeq counted: what is deeper in the tree has another depth.        *)
LEMMA Counted ==
    ASSUME IInv, TreeInv, doc # <<>>, NEW t, NEW s, TopIs(t, s),
           doc = <<<<1, heap[t][1].name>>>> \o Reading(heap)[MaxDepth][s],
           <<1, heap[t][1].name>> \in Entries, NEW name
    PROVE  Count(<<2, name>>) = Cardinality(Named(s, name))
<1> DEFINE y == <<2, name>>
<1>1. /\ Heap(heap) /\ Levels \in Nat /\ MaxDepth \in 1..Levels /\ MaxDepth \in 0..Levels
      /\ Levels + 1 - MaxDepth = 2 /\ MaxDepth - 1 \in 0..Levels
      /\ Levels + 1 - (MaxDepth - 1) = 3
  BY HeapFacts, LevelsFacts DEF IInv
<1>2. PICK below \in Seq(Entries) : below = Reading(heap)[MaxDepth][s]
  <2>1. Reading(heap)[MaxDepth][s] \in Seq(Deep(Levels + 1 - MaxDepth))
    BY <1>1, ReadingIsDeep DEF TopIs
  <2>2. Deep(Levels + 1 - MaxDepth) \subseteq Entries
    BY DEF Deep
  <2>3. Reading(heap)[MaxDepth][s] \in Seq(Entries)
    BY <2>1, <2>2, SeqMonotonic
  <2> QED
    BY <2>3
<1>3. Cardinality(Found(doc, y)) = Cardinality(Found(below, y))
  <2>1. PICK a \in Entries : a = <<1, heap[t][1].name>>
    OBVIOUS
  <2>2. a # y
    BY <2>1
  <2> HIDE DEF y
  <2>3. Cardinality(Found(<<a>> \o below, y)) = Cardinality(Found(below, y))
    BY <2>2, FoundAfter
  <2> QED
    BY <1>2, <2>1, <2>3
<1>4. Cardinality(Found(below, y)) = Cardinality(Named(s, name))
  <2>1. CASE s = None
    <3>1. below = <<>>
      BY <1>1, <1>2, <2>1, ReadingEquation DEF TopIs
    <3>2. Found(below, y) = {}
      BY <3>1 DEF Found
    <3> QED
      BY <2>1, <3>2 DEF Named
  <2>2. CASE s # None
    <3>1. s \in DOMAIN heap /\ s \in Nat
      BY <2>2 DEF TopIs
    <3>2. below = FlattenSeq(Lines(heap, MaxDepth, s))
      BY <1>1, <1>2, <2>2, <3>1, ReadingEquation
    <3>3. PICK b \in DOMAIN heap : b = s
      BY <3>1
    <3>4. /\ Lines(heap, MaxDepth, b) \in Seq(Seq(Entries)) /\ Len(heap[b]) \in Nat
          /\ Len(Lines(heap, MaxDepth, b)) = Len(heap[b])
          /\ \A i \in 1..Len(heap[b]) : Lines(heap, MaxDepth, b)[i] = Line(heap, MaxDepth, b, i)
          /\ \A i \in 1..Len(heap[b]) : heap[b][i].kids \in Nat /\ heap[b][i].name \in Names
      BY <1>1, LinesTyped
    <3>5. PICK q \in Seq(Seq(Entries)) : q = Lines(heap, MaxDepth, b)
      BY <3>4
    <3>6. ASSUME NEW i \in 1..Len(q)
          PROVE  q[i] # <<>> /\ q[i][1] = <<2, heap[s][i].name>> /\ \A j \in 2..Len(q[i]) : q[i][j] # y
      <4>1. i \in 1..Len(heap[b]) /\ q[i] = Line(heap, MaxDepth, b, i)
        BY <3>4, <3>5
      <4>2. PICK entry : entry = <<2, heap[b][i].name>>
        OBVIOUS
      <4>3. PICK v \in Seq(Deep(3)) : v = Reading(heap)[MaxDepth - 1][heap[b][i].kids]
        <5>1. heap[b][i].kids \in Nat
          BY <3>4, <4>1
        <5>2. Reading(heap)[MaxDepth - 1][heap[b][i].kids] \in Seq(Deep(Levels + 1 - (MaxDepth - 1)))
          BY <1>1, <5>1, ReadingIsDeep
        <5> QED
          BY <1>1, <5>2
      <4>4. q[i] = <<entry>> \o v
        BY <1>1, <4>1, <4>2, <4>3 DEF Line
      <4>5. /\ Len(<<entry>> \o v) = 1 + Len(v) /\ Len(v) \in Nat /\ (<<entry>> \o v)[1] = entry
            /\ \A j \in 2..(1 + Len(v)) : (<<entry>> \o v)[j] = v[j - 1]
        OBVIOUS
      <4>6. \A k \in 1..Len(v) : v[k] # y
        <5>1. \A k \in 1..Len(v) : v[k] \in Deep(3)
          OBVIOUS
        <5>2. ~(y \in Deep(3))
          BY DEF Deep
        <5> QED
          BY <5>1, <5>2
      <4>7. ASSUME NEW j \in 2..Len(q[i]) PROVE q[i][j] # y
        <5>1. j - 1 \in 1..Len(v) /\ q[i][j] = v[j - 1]
          BY <4>4, <4>5
        <5> QED
          BY <4>6, <5>1
      <4>8. q[i] # <<>>
        BY <4>4, <4>5
      <4> QED
        BY <3>3, <4>2, <4>4, <4>5, <4>7, <4>8
    <3>7. Cardinality(Found(FlattenSeq(q), y)) = Cardinality({i \in 1..Len(q) : q[i][1] = y})
      <4> HIDE DEF y
      <4> QED
        BY <3>6, FlatCount
    <3>8. {i \in 1..Len(q) : q[i][1] = y} = Named(s, name)
      <4>1. Len(q) = Len(heap[s])
        BY <3>3, <3>4, <3>5
      <4> QED
        BY <2>2, <3>6, <4>1 DEF Named
    <3> QED
      BY <3>2, <3>3, <3>5, <3>7, <3>8
  <2> QED
    BY <2>1, <2>2
<1>5. Count(y) = Cardinality(Found(doc, y))
  BY DEF Count, Found
<1> QED
  BY <1>3, <1>4, <1>5

(* They are the items that are found through the parent of the first.       *)
LEMMA AllItems ==
    ASSUME NEW t, NEW s, TopIs(t, s), NEW name
    PROVE  LET top   == Children(Root)[1]
               first == FoundField(top, name)
           IN  (IF first = 0 THEN {} ELSE ItemsOf(Children(top)[first])) =
                   {<<s, i>> : i \in Named(s, name)}
<1> DEFINE top   == Children(Root)[1]
           first == FoundField(top, name)
           below == IF s = None THEN <<>> ELSE [i \in DOMAIN heap[s] |-> <<s, i>>]
           count == IF s = None THEN 0 ELSE Len(heap[s])
<1>1. /\ At(Root).kids = t /\ t # None /\ t \in DOMAIN heap /\ heap[t] \in Seq(Nodes)
      /\ Len(heap[t]) = 1 /\ heap[t][1].kids = s
      /\ s # None => /\ s \in DOMAIN heap /\ heap[s] \in Seq(Nodes)
                     /\ \A i \in DOMAIN heap[s] : heap[s][i].parent = <<t, 1>>
  BY DEF TopIs
<1>2. top = <<t, 1>>
  <2>1. DOMAIN heap[t] = {1}
    BY <1>1
  <2> QED
    BY <1>1, <2>1 DEF Children
<1>3. Live(top) /\ Children(top) = below
  BY <1>1, <1>2 DEF Live, Children, At
<1> HIDE DEF top
<1>4. /\ count \in Nat /\ Len(below) = count /\ (s # None => DOMAIN heap[s] = 1..count)
      /\ DOMAIN below = 1..count /\ \A i \in 1..count : below[i] = <<s, i>>
  <2>1. CASE s = None
    BY <2>1
  <2>2. CASE s # None
    <3>1. DOMAIN heap[s] = 1..count /\ count \in Nat
      BY <1>1, <2>2
    <3>2. below = [i \in 1..count |-> <<s, i>>]
      BY <2>2, <3>1
    <3> HIDE DEF below, count
    <3> QED
      BY <3>1, <3>2
  <2> QED
    BY <2>1, <2>2
<1>5. Named(s, name) = {i \in 1..count : heap[s][i].name = name}
  BY DEF Named
<1> HIDE DEF below, count
<1>6. {i \in 1..Len(below) : At(below[i]).name = name} = Named(s, name)
  BY <1>4, <1>5 DEF At
<1>7. first = IF Named(s, name) # {} THEN Min(Named(s, name)) ELSE 0
  BY <1>3, <1>6 DEF FoundField, SelectInSeq
<1> HIDE DEF first
<1>8. CASE Named(s, name) = {}
  BY <1>7, <1>8 DEF first, top
<1>9. CASE Named(s, name) # {}
  <2>1. first \in Named(s, name)
    <3>1. Named(s, name) \subseteq Nat
      BY <1>4, <1>5
    <3>2. \E m \in Named(s, name) : \A k \in Named(s, name) : m <= k
      BY <1>9, <3>1, Least
    <3> QED
      BY <1>7, <1>9, <3>2 DEF Min
  <2>2. first \in 1..count /\ first # 0 /\ heap[s][first].name = name
    BY <1>4, <1>5, <2>1
  <2>3. s # None
    BY <2>1 DEF Named
  <2> DEFINE item == <<s, first>>
  <2>4. Children(top)[first] = item
    BY <1>3, <1>4, <2>2
  <2>5. Parent(item) = top /\ At(item).name = name
    BY <1>1, <1>2, <1>4, <2>2, <2>3 DEF Parent, Live, At
  <2>6. ItemsOf(item) = {c \in Range(below) : At(c).name = name}
    <3> HIDE DEF item
    <3> QED
      BY <1>3, <2>5 DEF ItemsOf
  <2>7. Range(below) = {<<s, i>> : i \in 1..count}
    BY <1>4 DEF Range
  <2>8. {c \in Range(below) : At(c).name = name} = {<<s, i>> : i \in Named(s, name)}
    BY <1>5, <2>7 DEF At
  <2> QED
    BY <2>2, <2>4, <2>6, <2>8 DEF first, top
<1> QED
  BY <1>8, <1>9

(* Both count the same nodes, one by one.                                   *)
LEMMA ListsAreWhole == IInv /\ TreeInv => ListIsWhole
<1> SUFFICES ASSUME IInv, TreeInv, doc # <<>>, NEW tag \in Tags
             PROVE  LET top   == Children(Root)[1]
                        first == FoundField(top, tag)
                    IN  Cardinality(IF first = 0 THEN {} ELSE ItemsOf(Children(top)[first])) =
                            Count(<<2, tag>>)
  BY DEF ListIsWhole
<1>1. PICK t, s : /\ TopIs(t, s) /\ doc = <<<<1, heap[t][1].name>>>> \o Reading(heap)[MaxDepth][s]
                  /\ <<1, heap[t][1].name>> \in Entries
  BY DocIs
<1> DEFINE S == Named(s, tag)
           T == {<<s, i>> : i \in S}
           f == [i \in S |-> <<s, i>>]
<1>2. Count(<<2, tag>>) = Cardinality(S)
  BY <1>1, Counted
<1>3. IsFiniteSet(S)
  <2>1. CASE s = None
    <3>1. S = {}
      BY <2>1 DEF Named
    <3> QED
      BY <3>1, FS_EmptySet
  <2>2. CASE s # None
    <3>1. S \in SUBSET (1..Len(heap[s])) /\ Len(heap[s]) \in Nat
      BY <1>1, <2>2 DEF Named, TopIs
    <3>2. IsFiniteSet(1..Len(heap[s]))
      BY <3>1, FS_Interval
    <3> QED
      BY <3>1, <3>2, FS_Subset
  <2> QED
    BY <2>1, <2>2
<1>4. Cardinality(T) = Cardinality(S)
  <2> HIDE DEF S
  <2>1. f \in [S -> T] /\ \A x \in T : \E i \in S : f[i] = x
    OBVIOUS
  <2>2. \A x, z \in S : f[x] = f[z] => x = z
    OBVIOUS
  <2> HIDE DEF T, f
  <2> QED
    BY <1>3, <2>1, <2>2, OneToOne
<1> QED
  BY <1>1, <1>2, <1>4, AllItems

(* A device's list has all its items: through the parent of the first,      *)
(* unpackValue finds as many as expat reported, whatever vectors moved.     *)
THEOREM WholeList == Spec => []ListIsWhole
  BY ListsAreWhole, Invariance, TreeInvariance, PTL


=============================================================================
