-------------------------------- MODULE DbNode --------------------------------
(***************************************************************************)
(* The nodes of a B-tree (src/lib/db/badd.c, bdelete.c, fs.h): what they    *)
(* hold, how many bytes that takes, and how a node is built from others.    *)
(*                                                                         *)
(* A node is the sequence of its items.  Keys have different sizes and are  *)
(* stored without the bytes they share with the key before them, so what    *)
(* an item takes depends on its neighbour; the bytes are sizes only.        *)
(***************************************************************************)
EXTENDS Integers, Sequences

CONSTANTS
  Key,        \* the keys, numbers in the order of the key bytes
  Capacity,   \* MAX_INDEX_DATA_SIZE
  Link,       \* LINK'size
  MaxItem,    \* bytes of the largest item of a leaf
  First,      \* First[k]: bytes of key k as the first item of a leaf
  Behind      \* Behind[<<j, k>>]: bytes of key k behind key j

(* MAX_KEY_SIZE is 116 with the bytes that compression takes, a link 8 and  *)
(* MAX_INDEX_DATA_SIZE 505.  The bytes that two keys share with a third one *)
(* they share with each other: without an item its neighbours take no more. *)
ASSUME SizeAssumption ==
  /\ Key \subseteq Nat \ {0}
  /\ Capacity \in Nat /\ Link \in Nat \ {0} /\ MaxItem \in Nat
  /\ 4 * MaxItem <= Capacity - Link /\ 3 * (MaxItem + Link) <= Capacity - Link
  /\ \A k \in Key : First[k] \in Link + 1..MaxItem
  /\ \A j, k \in Key : j < k =>
       /\ Behind[<<j, k>>] \in Link + 1..MaxItem
       /\ First[k] <= First[j] + Behind[<<j, k>>]
       /\ \A i \in Key : i < j => Behind[<<i, k>>] <= Behind[<<i, j>>] + Behind[<<j, k>>]

Block == Nat \ {0}

(* has_children iff next0 # 0; a leaf's items have no child.                *)
Item == [key : Key, child : Block \cup {0}]
Node == [next0 : Block \cup {0}, items : Seq(Item)]

-----------------------------------------------------------------------------
Child(n, i) == IF i = 0 THEN n.next0 ELSE n.items[i].child

Children(n) == {Child(n, i) : i \in 0..Len(n.items)} \ {0}

KeysIn(n) == {n.items[i].key : i \in 1..Len(n.items)}

(* Key k belongs behind the first i items.                                  *)
InGap(n, i, k) ==
  /\ i > 0 => n.items[i].key < k
  /\ i < Len(n.items) => k < n.items[i + 1].key

(* compute_fils: whether the key is there, and behind how many items it is. *)
Found(n, k) == k \in KeysIn(n)

Before(n, k) ==
  CHOOSE i \in 0..Len(n.items) :
    /\ \A j \in 1..i : n.items[j].key < k
    /\ i < Len(n.items) => n.items[i + 1].key >= k

(* Bytes.  A key is stored without the bytes it shares with the one before. *)
(* delete_item_in_node keeps the smaller of two stored prefixes for the     *)
(* item behind the gap, which may then take some more bytes than ItemSize   *)
(* says, within the bounds of SizeAssumption, until it is written again.    *)
LinkOf(n) == IF n.next0 = 0 THEN 0 ELSE Link

ItemSize(n, i) ==
  (IF i = 1 THEN First[n.items[1].key] ELSE Behind[<<n.items[i - 1].key, n.items[i].key>>])
  + LinkOf(n)

(* The offset behind the first i items.                                     *)
Offset(n, i) ==
  LET offset[j \in 0..Len(n.items)] ==
        IF j = 0 THEN LinkOf(n) ELSE offset[j - 1] + ItemSize(n, j)
  IN  offset[i]

Bytes(n) == Offset(n, Len(n.items))

SplitPoint == Link + (Capacity - Link) \div 2

(* Faulty: no node is ever too small.                                       *)
UnderflowsNever(n) == FALSE

Underflows(n) == Bytes(n) <= SplitPoint - (MaxItem + LinkOf(n))

-----------------------------------------------------------------------------
(* Nodes from nodes.  Those that are built in HUGE_DB_INDEX may be too      *)
(* large for a block.                                                       *)

(* copy_node_and_insert_items.                                              *)
Inserted(n, i, items) ==
  [n EXCEPT !.items = SubSeq(@, 1, i) \o items \o SubSeq(@, i + 1, Len(@))]

(* delete_item_in_node: item i + 1.                                         *)
Deleted(n, i) ==
  [n EXCEPT !.items = SubSeq(@, 1, i) \o SubSeq(@, i + 2, Len(@))]

(* Faulty: the item between the two nodes is dropped.                       *)
CatenatedWithout(left, middle, right) == [left EXCEPT !.items = @ \o right.items]

(* catenate_node_item_node.                                                 *)
Catenated(left, middle, right) ==
  [left EXCEPT !.items = @ \o <<[middle EXCEPT !.child = right.next0]>> \o right.items]

(* E_INTERN_20 to 23: the buffer is full.                                   *)
Huge(n) == IF Bytes(n) > 2 * Capacity THEN {"E_INTERN_20"} ELSE {}

(* split_node: an item in the middle emerges, the items before and behind   *)
(* it fill a node each.                                                     *)
LeftOf(n, e)  == [n EXCEPT !.items = SubSeq(@, 1, e)]
RightOf(n, e) ==
  [next0 |-> n.items[e + 1].child, items |-> SubSeq(n.items, e + 2, Len(n.items))]

(* The last item that begins at the limit or before.                        *)
LastBelow(n, limit) ==
  CHOOSE j \in 0..Len(n.items) - 1 :
    /\ Offset(n, j) <= limit \/ j = 0
    /\ \A i \in j + 1..Len(n.items) - 1 : Offset(n, i) > limit

Least(i, j)   == IF i <= j THEN i ELSE j
LastPlace(n)  == Least(LastBelow(n, Capacity), Len(n.items) - 2)
FirstPlace(n) == Least(IF LastBelow(n, SplitPoint) < 1 THEN 1 ELSE LastBelow(n, SplitPoint),
                       LastPlace(n))

GoodPlace(n, e) ==
  /\ Bytes(RightOf(n, e)) <= Capacity
  /\ Bytes(RightOf(n, e)) <= Offset(n, e) \/ e = LastPlace(n)

(* The first good place, the last one if there is none.                     *)
Place(n) ==
  CHOOSE e \in FirstPlace(n)..LastPlace(n) :
    /\ GoodPlace(n, e) \/ e = LastPlace(n)
    /\ \A i \in FirstPlace(n)..e - 1 : ~GoodPlace(n, i)

Split(n) ==
  [left   |-> LeftOf(n, Place(n)),
   item   |-> n.items[Place(n) + 1],
   right  |-> RightOf(n, Place(n)),
   errors |-> Huge(n) \cup (IF Len(n.items) < 3 THEN {"assert"} ELSE {})
                      \cup (IF GoodPlace(n, Place(n)) THEN {} ELSE {"E_INTERN_17"})]
=============================================================================
