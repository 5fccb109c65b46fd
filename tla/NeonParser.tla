---------------------------- MODULE NeonParser ----------------------------
(***************************************************************************)
(* neon::Parser: how the XML of a device becomes a tree of NeonNodes, and  *)
(* what NeonDeserializer reads back from it.                               *)
(*                                                                         *)
(* A node keeps its children in a std::vector and points to its parent.    *)
(* When a vector grows beyond its capacity its nodes move to a new block   *)
(* of memory, and whatever points into the old one dangles.  The model     *)
(* keeps the blocks, so that it can tell whether a pointer the code        *)
(* follows is still good.  expat, which calls startEl, valueEl and endEl   *)
(* and sees to it that elements nest, is external; the document is the     *)
(* sequence of calls it makes, and may be cut off anywhere.                *)
(***************************************************************************)
EXTENDS Naturals, Sequences, FiniteSets, SequencesExt

CONSTANTS
    Tags,       \* names of elements
    AttrLists,  \* attributes an element may have, in order
    MaxNodes,   \* bound: nodes of the tree
    MaxDepth    \* bound: elements open at once

ASSUME BoundsAssumption == MaxNodes \in Nat /\ MaxDepth \in Nat \ {0}
AttrNames == UNION {Range(attrs) : attrs \in AttrLists}

ASSUME NamesAssumption == AttrLists \subseteq Seq(AttrNames)

VARIABLES
    heap,      \* block alive -> its nodes
    fresh,     \* the next block of memory
    current,   \* m_current
    open,      \* names of the elements open, outermost first
    doc,       \* <<depth, name>> of all that was read, in document order
    ended      \* expat is done, or gave up

vars == <<heap, fresh, current, open, doc, ended>>

(* A node is found at an index of a block.  Block 0 is the variable neon   *)
(* of neon::deserialize, which holds the root.                             *)
Addresses == Nat \X Nat

Root == <<0, 1>>
Null == <<0, 0>>
None == 0

NoName == ""

Names == Tags \cup AttrNames \cup {"cdata", NoName}

NodeOrphan(name, parent) == [name |-> name, parent |-> Null, kids |-> None]

Node(name, parent) == [name |-> name, parent |-> parent, kids |-> None]

Nodes == [name : Names, parent : Addresses, kids : Nat]

Live(a)   == a[1] \in DOMAIN heap /\ a[2] \in DOMAIN heap[a[1]]
At(a)     == heap[a[1]][a[2]]
Parent(a) == IF Live(a) THEN At(a).parent ELSE Null

TypeOK ==
    /\ fresh \in Nat
    /\ DOMAIN heap \subseteq 0..(fresh - 1)
    /\ \A b \in DOMAIN heap : heap[b] \in Seq(Nodes)
    /\ current \in Addresses /\ Live(current)
    /\ open \in Seq(Tags) /\ Len(open) <= MaxDepth
    /\ doc \in Seq(Nat \X Names) /\ Len(doc) <= MaxNodes
    /\ ended \in BOOLEAN

Init ==
    /\ heap = [b \in {0} |-> <<Node(NoName, Null)>>]
    /\ fresh = 1
    /\ current = Root
    /\ open = <<>>
    /\ doc = <<>>
    /\ ended = FALSE

(***************************************************************************)
(* children.emplace_back().  Capacity goes 1, 2, 4...  Nodes are moved:    *)
(* their own children stay where they are, still pointing to where their   *)
(* parent was.                                                             *)
(***************************************************************************)

Full(n) == \E k \in 0..n : n = 2 ^ k

(* m = [heap, fresh]; node is added to the children of the one at a.       *)
EmplaceBack(m, a, node) ==
    LET kids == m.heap[a[1]][a[2]].kids
        old  == IF kids = None THEN <<>> ELSE m.heap[kids]
        grow == kids = None \/ Full(Len(old))
        into == IF grow THEN m.fresh ELSE kids
        here == [m.heap EXCEPT ![a[1]][a[2]].kids = into]
        alive == (DOMAIN m.heap \ (IF grow THEN {kids} \ {None} ELSE {})) \cup {into}
    IN  [heap |-> [b \in alive |->
                     IF b = into
                     THEN Append(old, node)
                     ELSE here[b]],
         fresh |-> IF grow THEN m.fresh + 1 ELSE m.fresh]

Memory == [heap |-> heap, fresh |-> fresh]

(* The attributes of a new node.  Their vector grows too, but nothing      *)
(* points to them yet, and so all its blocks but the last are left out.    *)
AddAttrs(m, a, attrs) ==
    IF attrs = <<>> THEN m
    ELSE LET here == [m.heap EXCEPT ![a[1]][a[2]].kids = m.fresh]
         IN  [heap |-> [b \in DOMAIN m.heap \cup {m.fresh} |->
                          IF b = m.fresh
                          THEN [i \in DOMAIN attrs |-> Node(attrs[i], a)]
                          ELSE here[b]],
              fresh |-> m.fresh + 1]

(* The address of the node that was added last.                            *)
Back(m, a) ==
    LET kids == m.heap[a[1]][a[2]].kids IN <<kids, Len(m.heap[kids])>>

Store(m) == heap' = m.heap /\ fresh' = m.fresh

(***************************************************************************)
(* The handlers.                                                           *)
(***************************************************************************)

Room(n) == ~ended /\ Len(doc) + n <= MaxNodes

(* A document has one outermost element.                                   *)
MayStart == open # <<>> \/ heap[0][1].kids = None

StartEl(tag, attrs) ==
    /\ Room(1 + Len(attrs)) /\ MayStart /\ Len(open) < MaxDepth
    /\ LET started == EmplaceBack(Memory, current, Node(tag, current))
           node    == Back(started, current)
       IN  /\ Store(AddAttrs(started, node, attrs))
           /\ current' = node
    /\ open' = Append(open, tag)
    /\ doc' = doc \o <<<<Len(open) + 1, tag>>>>
                  \o [i \in DOMAIN attrs |-> <<Len(open) + 2, attrs[i]>>]
    /\ UNCHANGED ended

ValueElEnters ==
    /\ Room(1) /\ open # <<>>
    /\ Store(EmplaceBack(Memory, current, Node("cdata", current)))
    /\ current' = Back([heap |-> heap', fresh |-> fresh'], current)
    /\ doc' = Append(doc, <<Len(open) + 1, "cdata">>)
    /\ UNCHANGED <<open, ended>>

(* Blank text is skipped.                                                  *)
ValueEl ==
    /\ Room(1) /\ open # <<>>
    /\ Store(EmplaceBack(Memory, current, Node("cdata", current)))
    /\ doc' = Append(doc, <<Len(open) + 1, "cdata">>)
    /\ UNCHANGED <<current, open, ended>>

EndsAtRoot == Root

EndsAt == Parent(current)

EndEl ==
    /\ ~ended /\ open # <<>>
    /\ current' = EndsAt
    /\ open' = Front(open)
    /\ UNCHANGED <<heap, fresh, doc, ended>>

(* The end of the document, or of the part of it that was received.        *)
Parsed ==
    /\ ~ended
    /\ ended' = TRUE
    /\ UNCHANGED <<heap, fresh, current, open, doc>>

Next ==
    \/ \E tag \in Tags, attrs \in AttrLists : StartEl(tag, attrs)
    \/ ValueEl \/ EndEl \/ Parsed

Spec == Init /\ [][Next]_vars

(***************************************************************************)
(* Reading it back.                                                        *)
(***************************************************************************)

Children(a) ==
    LET kids == At(a).kids
    IN  IF kids = None THEN <<>> ELSE [i \in DOMAIN heap[kids] |-> <<kids, i>>]

(* unpackValue(INode): the first child of a field's name.                  *)
FoundField(a, key) ==
    SelectInSeq(Children(a), LAMBDA c : At(c).name = key)

(* unpackValue(IObjectList): from the first item to all, by its parent.    *)
ItemsOfAnyName(item) ==
    IF Live(Parent(item)) THEN Range(Children(Parent(item))) ELSE {}

ItemsOf(item) ==
    LET parent == Parent(item)
    IN  IF Live(parent)
        THEN {c \in Range(Children(parent)) : At(c).name = At(item).name}
        ELSE {}

(* The blocks of h, read as NeonNode::dump and NeonDeserializer::visit do:  *)
(* of every node its depth and name, and then all that is below it.  What  *)
(* n levels hold is read from the block of the uppermost.                  *)
Levels == MaxDepth + 1

Reading(h) ==
    LET read[n \in 0..Levels] ==
            [b \in Nat |->
                IF n = 0 \/ b = None \/ b \notin DOMAIN h THEN <<>>
                ELSE FlattenSeq([i \in DOMAIN h[b] |->
                        <<<<Levels + 1 - n, h[b][i].name>>>> \o read[n - 1][h[b][i].kids]])]
    IN  read

(***************************************************************************)
(* Properties.                                                             *)
(***************************************************************************)

(* Where n steps towards the root lead from m_current.                     *)
Up(n) ==
    LET up[k \in 0..n] == IF k = 0 THEN current ELSE Parent(up[k - 1])
    IN  up[n]

(* m_current and the parents it leads to are alive and are the elements    *)
(* open, whatever was moved: what startEl, valueEl and endEl write through *)
(* is no dangling pointer, and endEl's assertion on the name holds.        *)
OpenPathIsAlive ==
    /\ Up(Len(open)) = Root
    /\ \A n \in 0..Len(open) : Live(Up(n))
    /\ \A i \in DOMAIN open : At(Up(Len(open) - i)).name = open[i]

(* No node is lost, moved elsewhere or doubled: the tree that is read from *)
(* the root downwards is the document, or as much of it as came.           *)
TreeIsDocument == Reading(heap)[Levels][At(Root).kids] = doc

(* A list (the OBJECTs of Properties) is read through the parent of its    *)
(* first item.  Deeper in the tree such pointers dangle; of the outermost  *)
(* element's children they do not, and all the items are found.            *)
Count(entry) == Cardinality({i \in DOMAIN doc : doc[i] = entry})

ListIsWhole ==
    LET Items(tag) ==
            LET top   == Children(Root)[1]
                first == FoundField(top, tag)
            IN  IF first = 0 THEN {} ELSE ItemsOf(Children(top)[first])
    IN  doc # <<>> => \A tag \in Tags : Cardinality(Items(tag)) = Count(<<2, tag>>)

(***************************************************************************)
(* The inductive invariant.                                                *)
(***************************************************************************)

(* The elements open, from the root to m_current: each points to the one   *)
(* before it, which keeps it, as its last child, in the vector that was    *)
(* made last of theirs.                                                    *)
Leads(path) ==
    /\ path[0] = Root /\ path[Len(open)] = current
    /\ \A n \in 0..Len(open) : Live(path[n]) /\ path[n][2] = Len(heap[path[n][1]])
    /\ \A n \in 1..Len(open) :
        /\ At(path[n]).parent = path[n - 1] /\ At(path[n]).name = open[n]
        /\ At(path[n - 1]).kids = path[n][1]
    /\ \A k, n \in 0..Len(open) : k < n => path[k][1] < path[n][1]

PathInv == \E path \in [0..Len(open) -> Addresses] : Leads(path)

(* So a vector that moves is below m_current, and none of those.           *)
KidsInv ==
    LET kids == At(current).kids
    IN  kids # None => kids \in DOMAIN heap /\ current[1] < kids

IInv == TypeOK /\ PathInv /\ KidsInv

(* Every vector is alive, and holds the children of one node only.         *)
Owned(h) ==
    \A b \in DOMAIN h : \A i \in DOMAIN h[b] :
        h[b][i].kids # None =>
            /\ h[b][i].kids \in DOMAIN h
            /\ \A c \in DOMAIN h : \A j \in DOMAIN h[c] :
                h[c][j].kids = h[b][i].kids => <<c, j>> = <<b, i>>

(* There is one outermost element, and its children point to it.           *)
TopInv ==
    LET kids == At(Root).kids
    IN  /\ open # <<>> => kids # None
        /\ kids # None =>
            /\ Len(heap[kids]) = 1
            /\ heap[kids][1].kids # None =>
                \A i \in DOMAIN heap[heap[kids][1].kids] :
                    heap[heap[kids][1].kids][i].parent = <<kids, 1>>

TreeInv == Owned(heap) /\ TopInv /\ TreeIsDocument
===========================================================================
