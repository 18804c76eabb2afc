---------------------------- MODULE DbTree_proofs ----------------------------
(***************************************************************************)
(* The B-tree keeps its order, its levels and its blocks through every      *)
(* insertion and deletion, never meets an internal error, and is the set of *)
(* keys that the calls make, for all sizes of keys, nodes and trees.        *)
(***************************************************************************)
EXTENDS DbTree, DbNode_proofs, FiniteSetTheorems

(***************************************************************************)
(* The shape of a tree t with root r: functions exist that give every block *)
(* its level above the leaves (lv), the block of its father (up) and a set   *)
(* that the keys of the node and of all nodes below it are in (sp).         *)
(***************************************************************************)
Linked(t, r, lv, up, sp, b) ==
  LET n == t[b]
  IN  /\ lv[b] = 1 => \A i \in 0..Len(n.items) : Child(n, i) = 0
      /\ lv[b] # 1 =>
           /\ \A i \in 0..Len(n.items) :
                /\ Child(n, i) \in DOMAIN t /\ Child(n, i) # r
                /\ lv[Child(n, i)] = lv[b] - 1 /\ up[Child(n, i)] = b
                /\ \A k \in sp[Child(n, i)] : k \in sp[b] /\ InGap(n, i, k)
           /\ \A i, j \in 0..Len(n.items) : i # j => Child(n, i) # Child(n, j)

Leveled(t, r, lv, sp, b) ==
  /\ GoodNode(t[b]) /\ KeysIn(t[b]) \subseteq sp[b] /\ sp[b] \subseteq Key
  /\ lv[b] \in Nat \ {0} /\ lv[b] <= lv[r]

Owned(t, up, c) ==
  up[c] \in DOMAIN t /\ \E i \in 0..Len(t[up[c]].items) : Child(t[up[c]], i) = c

Shape(t, r, lv, up, sp) ==
  /\ IsFiniteSet(DOMAIN t) /\ DOMAIN t \subseteq Block
  /\ r \in DOMAIN t \/ (r = 0 /\ DOMAIN t = {})
  /\ \A b \in DOMAIN t : Leveled(t, r, lv, sp, b) /\ Linked(t, r, lv, up, sp, b)
  /\ \A c \in DOMAIN t : c # r => Owned(t, up, c)

LEMMA ChildFacts ==
  ASSUME NEW t, NEW r, NEW lv, NEW up, NEW sp, Shape(t, r, lv, up, sp),
         NEW b \in DOMAIN t, NEW i \in 0..Len(t[b].items), lv[b] # 1 \/ Child(t[b], i) # 0
  PROVE  /\ lv[b] # 1 /\ Child(t[b], i) \in DOMAIN t /\ Child(t[b], i) \in Block
         /\ Child(t[b], i) # r /\ Child(t[b], i) # 0
         /\ lv[Child(t[b], i)] = lv[b] - 1 /\ up[Child(t[b], i)] = b
         /\ \A k \in sp[Child(t[b], i)] : k \in sp[b] /\ InGap(t[b], i, k)
         /\ \A j \in 0..Len(t[b].items) : i # j => Child(t[b], i) # Child(t[b], j)
<1>1. lv[b] # 1
  BY DEF Shape, Linked
<1>2. Child(t[b], i) \in DOMAIN t /\ DOMAIN t \subseteq Block
  BY <1>1 DEF Shape, Linked
<1> QED
  BY <1>1, <1>2 DEF Shape, Linked, Block

LEMMA InnerFacts ==
  ASSUME NEW t, NEW r, NEW lv, NEW up, NEW sp, Shape(t, r, lv, up, sp),
         NEW b \in DOMAIN t, NEW i \in 0..Len(t[b].items), lv[b] # 1
  PROVE  /\ Child(t[b], i) \in DOMAIN t /\ Child(t[b], i) \in Block
         /\ Child(t[b], i) # r /\ Child(t[b], i) # 0
         /\ lv[Child(t[b], i)] = lv[b] - 1 /\ up[Child(t[b], i)] = b
         /\ \A k \in sp[Child(t[b], i)] : k \in sp[b] /\ InGap(t[b], i, k)
         /\ \A j \in 0..Len(t[b].items) : i # j => Child(t[b], i) # Child(t[b], j)
BY ChildFacts

LEMMA OwnerFacts ==
  ASSUME NEW t, NEW r, NEW lv, NEW up, NEW sp, Shape(t, r, lv, up, sp),
         NEW c \in DOMAIN t, c # r
  PROVE  /\ up[c] \in DOMAIN t /\ lv[up[c]] # 1 /\ lv[up[c]] = lv[c] + 1 /\ lv[c] < lv[r]
         /\ \E i \in 0..Len(t[up[c]].items) :
              Child(t[up[c]], i) = c /\ \A k \in sp[c] : k \in sp[up[c]] /\ InGap(t[up[c]], i, k)
<1>1. up[c] \in DOMAIN t
  BY DEF Shape, Owned
<1>2. PICK i \in 0..Len(t[up[c]].items) : Child(t[up[c]], i) = c
  BY DEF Shape, Owned
<1>3. c # 0
  BY DEF Shape, Block
<1>4. lv[up[c]] # 1 /\ lv[c] = lv[up[c]] - 1 /\ \A k \in sp[c] : k \in sp[up[c]] /\ InGap(t[up[c]], i, k)
  BY <1>1, <1>2, <1>3, ChildFacts
<1>5. lv[up[c]] \in Nat /\ lv[c] \in Nat /\ lv[up[c]] <= lv[r] /\ r \in DOMAIN t
  BY <1>1 DEF Shape, Leveled
<1>6. lv[r] \in Nat
  BY <1>5 DEF Shape, Leveled
<1>7. lv[up[c]] = lv[c] + 1 /\ lv[c] < lv[r]
  BY <1>4, <1>5, <1>6
<1> QED
  BY <1>1, <1>2, <1>4, <1>7

LEMMA BlockFacts ==
  ASSUME NEW t, NEW r, NEW lv, NEW up, NEW sp, Shape(t, r, lv, up, sp), NEW b \in DOMAIN t
  PROVE  /\ GoodNode(t[b]) /\ t[b] \in Node /\ Len(t[b].items) \in Nat
         /\ KeysIn(t[b]) \subseteq sp[b] /\ sp[b] \subseteq Key /\ sp[b] \subseteq Nat \ {0}
         /\ lv[b] \in Nat \ {0} /\ lv[r] \in Nat \ {0} /\ lv[b] <= lv[r]
         /\ b \in Block /\ b # 0 /\ r \in DOMAIN t /\ (b # r => lv[b] < lv[r])
<1>1. Leveled(t, r, lv, sp, b) /\ b \in Block /\ r \in DOMAIN t
  BY DEF Shape
<1>2. Leveled(t, r, lv, sp, r)
  BY <1>1 DEF Shape
<1>3. b # r => lv[b] < lv[r]
  BY OwnerFacts
<1> QED
  BY <1>1, <1>2, <1>3, NodeKeys, SizeAssumption DEF Leveled, Block

(* No number is in the sets of two nodes of one level.                      *)
LEMMA OneOnLevel ==
  ASSUME NEW t, NEW r, NEW lv, NEW up, NEW sp, Shape(t, r, lv, up, sp),
         NEW b \in DOMAIN t, NEW c \in DOMAIN t, NEW k \in sp[b], k \in sp[c], lv[b] = lv[c]
  PROVE  b = c
<1> SUFFICES ASSUME b # c PROVE FALSE
  OBVIOUS
<1> DEFINE Two(x, y, j) == x # y /\ lv[x] = lv[y] /\ j \in sp[x] /\ j \in sp[y]
           S == {d \in Nat : \E x, y \in DOMAIN t : \E j \in Key : Two(x, y, j) /\ d = lv[r] - lv[x]}
<1>1. S \in SUBSET Nat /\ S # {}
  <2>1. k \in Key /\ Two(b, c, k) /\ lv[r] - lv[b] \in Nat
    BY BlockFacts
  <2>2. lv[r] - lv[b] \in S
    BY <2>1
  <2> QED
    BY <2>2
<1>2. PICK d \in S : \A e \in S : d <= e
  <2> HIDE DEF S
  <2> QED
    BY <1>1, MinIn
<1>3. PICK x \in DOMAIN t, y \in DOMAIN t, j \in Key : Two(x, y, j) /\ d = lv[r] - lv[x]
  BY <1>2
<1>4. lv[x] \in Nat /\ lv[y] \in Nat /\ lv[r] \in Nat /\ (x # r => lv[x] < lv[r]) /\ (y # r => lv[y] < lv[r])
  BY BlockFacts
<1>5. x # r /\ y # r
  BY <1>3, <1>4
<1>6. /\ up[x] \in DOMAIN t /\ lv[up[x]] = lv[x] + 1
      /\ \E i \in 0..Len(t[up[x]].items) :
           Child(t[up[x]], i) = x /\ \A k1 \in sp[x] : k1 \in sp[up[x]] /\ InGap(t[up[x]], i, k1)
  BY <1>5, OwnerFacts
<1>7. /\ up[y] \in DOMAIN t /\ lv[up[y]] = lv[y] + 1
      /\ \E i \in 0..Len(t[up[y]].items) :
           Child(t[up[y]], i) = y /\ \A k1 \in sp[y] : k1 \in sp[up[y]] /\ InGap(t[up[y]], i, k1)
  BY <1>5, OwnerFacts
<1>8. CASE up[x] # up[y]
  <2>1. Two(up[x], up[y], j)
    BY <1>3, <1>6, <1>7, <1>8
  <2>2. lv[r] - lv[up[x]] \in Nat /\ ~(d <= lv[r] - lv[up[x]])
    <3>1. lv[up[x]] <= lv[r]
      BY <1>6, BlockFacts
    <3> QED
      BY <1>3, <1>4, <1>6, <3>1
  <2>3. lv[r] - lv[up[x]] \in S
    BY <1>6, <1>7, <2>1, <2>2
  <2> HIDE DEF S
  <2> QED
    BY <1>2, <2>2, <2>3
<1>9. CASE up[x] = up[y]
  <2>1. PICK i \in 0..Len(t[up[x]].items) : Child(t[up[x]], i) = x /\ InGap(t[up[x]], i, j)
    BY <1>3, <1>6
  <2>2. PICK i2 \in 0..Len(t[up[x]].items) : Child(t[up[x]], i2) = y /\ InGap(t[up[x]], i2, j)
    BY <1>3, <1>7, <1>9
  <2>3. GoodNode(t[up[x]]) /\ j \in Nat
    BY <1>6, BlockFacts, SizeAssumption
  <2>4. i = i2
    BY <2>1, <2>2, <2>3, OneGap
  <2> QED
    BY <1>3, <2>1, <2>2, <2>4
<1> QED
  BY <1>8, <1>9

(* No node has a key that is in the set of a node on a lower level.         *)
LEMMA NotAbove ==
  ASSUME NEW t, NEW r, NEW lv, NEW up, NEW sp, Shape(t, r, lv, up, sp),
         NEW b \in DOMAIN t, NEW c \in DOMAIN t, NEW k \in sp[c], lv[c] < lv[b]
  PROVE  k \notin KeysIn(t[b])
<1> SUFFICES ASSUME k \in KeysIn(t[b]) PROVE FALSE
  OBVIOUS
<1> DEFINE Both(x) == k \in sp[x] /\ lv[x] < lv[b]
           S == {d \in Nat : \E x \in DOMAIN t : Both(x) /\ d = lv[b] - lv[x]}
<1>0. lv[b] \in Nat /\ GoodNode(t[b]) /\ k \in sp[b] /\ k \in Nat /\ lv[b] <= lv[r] /\ lv[r] \in Nat
  BY BlockFacts
<1>1. S \in SUBSET Nat /\ S # {}
  <2>1. Both(c) /\ lv[b] - lv[c] \in Nat
    BY <1>0, BlockFacts
  <2>2. lv[b] - lv[c] \in S
    BY <2>1
  <2> QED
    BY <2>2
<1>2. PICK d \in S : \A e \in S : d <= e
  <2> HIDE DEF S
  <2> QED
    BY <1>1, MinIn
<1>3. PICK x \in DOMAIN t : Both(x) /\ d = lv[b] - lv[x]
  BY <1>2
<1>4. lv[x] \in Nat /\ x # r
  BY <1>0, <1>3, BlockFacts
<1>5. /\ up[x] \in DOMAIN t /\ lv[up[x]] = lv[x] + 1
      /\ \E i \in 0..Len(t[up[x]].items) :
           Child(t[up[x]], i) = x /\ \A k1 \in sp[x] : k1 \in sp[up[x]] /\ InGap(t[up[x]], i, k1)
  BY <1>4, OwnerFacts
<1>6. CASE lv[up[x]] = lv[b]
  <2>1. up[x] = b
    BY <1>0, <1>3, <1>5, <1>6, OneOnLevel
  <2>2. PICK i \in 0..Len(t[b].items) : InGap(t[b], i, k)
    BY <1>3, <1>5, <2>1
  <2> QED
    BY <1>0, <2>2, OneGap
<1>7. CASE lv[up[x]] # lv[b]
  <2>1. Both(up[x]) /\ lv[b] - lv[up[x]] \in Nat /\ ~(d <= lv[b] - lv[up[x]])
    BY <1>0, <1>3, <1>4, <1>5, <1>7
  <2>2. lv[b] - lv[up[x]] \in S
    BY <1>5, <2>1
  <2> HIDE DEF S
  <2> QED
    BY <1>2, <2>1, <2>2
<1> QED
  BY <1>6, <1>7

LEMMA KeysApart ==
  ASSUME NEW t, NEW r, NEW lv, NEW up, NEW sp, Shape(t, r, lv, up, sp),
         NEW b \in DOMAIN t, NEW c \in DOMAIN t, b # c
  PROVE  KeysIn(t[b]) \cap KeysIn(t[c]) = {}
<1> SUFFICES ASSUME NEW k \in KeysIn(t[b]), k \in KeysIn(t[c]) PROVE FALSE
  OBVIOUS
<1>1. k \in sp[b] /\ k \in sp[c] /\ lv[b] \in Nat /\ lv[c] \in Nat
  BY BlockFacts
<1>2. lv[b] = lv[c] \/ lv[b] < lv[c] \/ lv[c] < lv[b]
  BY <1>1
<1> QED
  BY <1>1, <1>2, OneOnLevel, NotAbove

-----------------------------------------------------------------------------
(* What insertions and deletions do to a tree.                              *)
Formed(t, r) == \E lv, up, sp : Shape(t, r, lv, up, sp)

LEMMA InContents ==
  ASSUME NEW t, NEW k
  PROVE  k \in Contents(t) <=> \E b \in DOMAIN t : k \in KeysIn(t[b])
BY DEF Contents

LEMMA LeafIs ==
  ASSUME NEW t, NEW r, NEW lv, NEW up, NEW sp, Shape(t, r, lv, up, sp), NEW b \in DOMAIN t
  PROVE  /\ lv[b] = 1 <=> t[b].next0 = 0
         /\ \A i \in 0..Len(t[b].items) : lv[b] = 1 <=> Child(t[b], i) = 0
<1>1. Len(t[b].items) \in Nat /\ t[b] \in Node
  BY BlockFacts
<1>2. 0 \in 0..Len(t[b].items) /\ Child(t[b], 0) = t[b].next0
  BY <1>1, ChildIs
<1>3. \A i \in 0..Len(t[b].items) : lv[b] = 1 => Child(t[b], i) = 0
  BY DEF Shape, Linked
<1>4. \A i \in 0..Len(t[b].items) : lv[b] # 1 => Child(t[b], i) # 0
  BY ChildFacts
<1> QED
  BY <1>2, <1>3, <1>4

(* The child b behind the first i items of p is split before and behind its *)
(* item e + 1, which moves to p.                                            *)
AsSplit(t, u, p, i, b, e, c) ==
  /\ p \in DOMAIN t /\ i \in 0..Len(t[p].items) /\ b = Child(t[p], i) /\ b # 0
  /\ c \in Block /\ c \notin DOMAIN t /\ e \in 0..Len(t[b].items) - 1
  /\ DOMAIN u = DOMAIN t \cup {c}
  /\ u[p] = Inserted(t[p], i, <<[key |-> t[b].items[e + 1].key, child |-> c]>>)
  /\ u[b] = LeftOf(t[b], e) /\ u[c] = RightOf(t[b], e)
  /\ \A x \in DOMAIN t : x # p /\ x # b => u[x] = t[x]

LEMMA SplitShape ==
  ASSUME NEW t, NEW r, NEW lv, NEW up, NEW sp, Shape(t, r, lv, up, sp),
         NEW u, NEW p, NEW i, NEW b, NEW e, NEW c, AsSplit(t, u, p, i, b, e, c)
  PROVE  Formed(u, r) /\ Contents(u) = Contents(t)
<1> DEFINE ek == t[b].items[e + 1].key
           it == [key |-> ek, child |-> c]
           lv2 == [x \in DOMAIN u |-> IF x = c THEN lv[b] ELSE lv[x]]
           up2 == [x \in DOMAIN u |-> IF x = c THEN p
                                      ELSE IF x \in Children(u[c]) THEN c ELSE up[x]]
           sp2 == [x \in DOMAIN u |-> IF x = c THEN {k \in sp[b] : ek < k}
                                      ELSE IF x = b THEN {k \in sp[b] : k < ek} ELSE sp[x]]
           P == Len(t[p].items)
           B == Len(t[b].items)
<1>1. /\ p \in DOMAIN t /\ i \in 0..P /\ b = Child(t[p], i) /\ b # 0
      /\ c \in Block /\ c \notin DOMAIN t /\ e \in 0..B - 1
      /\ DOMAIN u = DOMAIN t \cup {c}
      /\ u[p] = Inserted(t[p], i, <<it>>)
      /\ u[b] = LeftOf(t[b], e) /\ u[c] = RightOf(t[b], e)
      /\ \A x \in DOMAIN t : x # p /\ x # b => u[x] = t[x]
  BY DEF AsSplit
<1>2. /\ lv[p] # 1 /\ b \in DOMAIN t /\ b # r /\ lv[b] = lv[p] - 1 /\ up[b] = p
      /\ \A k \in sp[b] : k \in sp[p] /\ InGap(t[p], i, k)
  BY <1>1, ChildFacts
<1>3. /\ GoodNode(t[p]) /\ t[p] \in Node /\ P \in Nat /\ KeysIn(t[p]) \subseteq sp[p] /\ sp[p] \subseteq Key
      /\ GoodNode(t[b]) /\ t[b] \in Node /\ B \in Nat /\ KeysIn(t[b]) \subseteq sp[b] /\ sp[b] \subseteq Key
      /\ lv[p] \in Nat \ {0} /\ lv[b] \in Nat \ {0} /\ lv[b] <= lv[r] /\ lv[p] <= lv[r] /\ p # 0
  BY <1>1, <1>2, BlockFacts
<1>4. p # b /\ p # c /\ b # c
  BY <1>1, <1>2, <1>3
<1>5. ek \in Key /\ ek \in KeysIn(t[b]) /\ ek \in sp[b] /\ ek \in sp[p] /\ InGap(t[p], i, ek) /\ ek \in Nat
  <2>1. e + 1 \in 1..B
    BY <1>1, <1>3
  <2>2. ek \in KeysIn(t[b])
    BY <2>1 DEF KeysIn
  <2> QED
    BY <1>2, <1>3, <2>2, SizeAssumption
<1>6. it \in Item /\ it.key = ek /\ it.child = c
  BY <1>1, <1>5 DEF Item
<1> HIDE DEF ek, it
<1>7. /\ GoodNode(u[p]) /\ KeysIn(u[p]) = KeysIn(t[p]) \cup {ek} /\ Len(u[p].items) = P + 1
      /\ Child(u[p], i + 1) = c
      /\ \A y \in 0..i : Child(u[p], y) = Child(t[p], y)
      /\ \A y \in i + 1..P : Child(u[p], y + 1) = Child(t[p], y)
  BY <1>1, <1>3, <1>5, <1>6, OrderInserted, InsertedOne
<1>8. /\ \A k : \A y \in 0..i : y # i /\ InGap(t[p], y, k) => InGap(u[p], y, k)
      /\ \A k : InGap(t[p], i, k) /\ k < ek => InGap(u[p], i, k)
      /\ \A k : InGap(t[p], i, k) /\ ek < k => InGap(u[p], i + 1, k)
      /\ \A k : \A y \in i + 1..P : InGap(t[p], y, k) => InGap(u[p], y + 1, k)
  BY <1>1, <1>3, <1>6, GapInserted
<1>9. /\ GoodNode(u[b]) /\ Len(u[b].items) = e /\ \A y \in 0..e : Child(u[b], y) = Child(t[b], y)
      /\ GoodNode(u[c]) /\ Len(u[c].items) = (B - e) - 1
      /\ \A y \in 0..(B - e) - 1 : Child(u[c], y) = Child(t[b], (y + e) + 1)
      /\ KeysIn(t[b]) = KeysIn(u[b]) \cup {ek} \cup KeysIn(u[c])
      /\ (\A k \in KeysIn(u[b]) : k < ek) /\ (\A k \in KeysIn(u[c]) : ek < k)
  <2>1. e \in 0..B
    BY <1>1, <1>3
  <2>2. GoodNode(u[b]) /\ GoodNode(u[c]) /\ KeysIn(t[b]) = KeysIn(u[b]) \cup {ek} \cup KeysIn(u[c])
           /\ (\A k \in KeysIn(u[b]) : k < ek) /\ (\A k \in KeysIn(u[c]) : ek < k)
    BY <1>1, <1>3, OrderHalves DEF ek
  <2>3. Len(LeftOf(t[b], e).items) = e /\ \A y \in 0..e : Child(LeftOf(t[b], e), y) = Child(t[b], y)
    BY <1>3, <2>1, LeftIs, LeftChild
  <2>4. Len(RightOf(t[b], e).items) = (B - e) - 1
           /\ \A y \in 0..(B - e) - 1 : Child(RightOf(t[b], e), y) = Child(t[b], (y + e) + 1)
    BY <1>1, <1>3, RightIs, RightChild
  <2> HIDE DEF B
  <2> QED
    BY <1>1, <2>2, <2>3, <2>4
<1>10. /\ \A k \in Nat : \A y \in 0..e : InGap(t[b], y, k) => InGap(u[b], y, k) /\ k < ek
       /\ \A k \in Nat : \A y \in 0..(B - e) - 1 :
            InGap(t[b], (y + e) + 1, k) => InGap(u[c], y, k) /\ ek < k
  <2>1. ASSUME NEW k \in Nat
        PROVE  /\ \A y \in 0..e : InGap(t[b], y, k) => InGap(LeftOf(t[b], e), y, k) /\ k < ek
               /\ \A y \in 0..(B - e) - 1 :
                    InGap(t[b], (y + e) + 1, k) => InGap(RightOf(t[b], e), y, k) /\ ek < k
    BY <1>1, <1>3, GapHalves DEF ek
  <2> HIDE DEF B
  <2> QED
    BY <1>1, <2>1
<1>11. /\ lv2[c] = lv[b] /\ up2[c] = p /\ sp2[c] = {k \in sp[b] : ek < k}
       /\ \A x \in DOMAIN t : lv2[x] = lv[x] /\ up2[x] = IF x \in Children(u[c]) THEN c ELSE up[x]
       /\ sp2[b] = {k \in sp[b] : k < ek}
       /\ \A x \in DOMAIN t : x # b => sp2[x] = sp[x]
  BY <1>1, <1>2, <1>4
<1> HIDE DEF lv2, up2, sp2
<1>12. \A x \in Children(u[c]) :
         \E y \in 0..(B - e) - 1 : x = Child(t[b], (y + e) + 1) /\ (y + e) + 1 \in 0..B /\ x # 0
  <2>1. ASSUME NEW x \in Children(u[c])
        PROVE  \E y \in 0..(B - e) - 1 : x = Child(t[b], (y + e) + 1) /\ (y + e) + 1 \in 0..B /\ x # 0
    <3>1. PICK y \in 0..(B - e) - 1 : x = Child(u[c], y) /\ x # 0
      BY <1>9 DEF Children
    <3>2. (y + e) + 1 \in 0..B
      <4> HIDE DEF B
      <4> QED
        BY <1>1, <1>3
    <3> QED
      BY <1>9, <3>1, <3>2
  <2> QED
    BY <2>1
<1>13. \A x \in Children(u[c]) : x \in DOMAIN t /\ up[x] = b /\ x # r
  BY <1>2, <1>12, ChildFacts
<1>14. \A x \in DOMAIN u : Leveled(u, r, lv2, sp2, x)
  <2>1. r \in DOMAIN t /\ lv2[r] = lv[r]
    BY <1>1, <1>11, BlockFacts
  <2>2. Leveled(u, r, lv2, sp2, c)
    BY <1>3, <1>9, <1>11, <2>1 DEF Leveled
  <2>3. Leveled(u, r, lv2, sp2, b)
    BY <1>2, <1>3, <1>9, <1>11, <2>1 DEF Leveled
  <2>4. Leveled(u, r, lv2, sp2, p)
    BY <1>1, <1>3, <1>4, <1>5, <1>7, <1>11, <2>1 DEF Leveled
  <2>5. ASSUME NEW x \in DOMAIN t, x # p, x # b PROVE Leveled(u, r, lv2, sp2, x)
    <3>1. Leveled(t, r, lv, sp, x) /\ u[x] = t[x]
      BY <1>1, <2>5 DEF Shape
    <3> QED
      BY <1>11, <2>1, <2>5, <3>1 DEF Leveled
  <2> QED
    BY <1>1, <2>2, <2>3, <2>4, <2>5
<1>15. Linked(u, r, lv2, up2, sp2, p)
  <2>1. ASSUME NEW y \in 0..P
        PROVE  /\ Child(t[p], y) \in DOMAIN t /\ Child(t[p], y) # r /\ Child(t[p], y) # c
               /\ lv2[Child(t[p], y)] = lv[p] - 1 /\ up2[Child(t[p], y)] = p
    <3>1. Child(t[p], y) \in DOMAIN t /\ Child(t[p], y) # r /\ lv[Child(t[p], y)] = lv[p] - 1
             /\ up[Child(t[p], y)] = p
      BY <1>1, <1>2, ChildFacts
    <3> QED
      BY <1>1, <1>4, <1>11, <1>13, <3>1
  <2>2. ASSUME NEW y \in 0..P, y # i
        PROVE  sp2[Child(t[p], y)] = sp[Child(t[p], y)]
               /\ \A k \in sp[Child(t[p], y)] : k \in sp[p] /\ InGap(t[p], y, k)
    <3>1. Child(t[p], y) # Child(t[p], i)
      BY <1>1, <1>2, <2>2, ChildFacts
    <3> QED
      BY <1>1, <1>2, <1>11, <2>1, <2>2, <3>1, ChildFacts
  <2>3. ASSUME NEW y \in 0..P + 1
        PROVE  /\ Child(u[p], y) \in DOMAIN u /\ Child(u[p], y) # r
               /\ lv2[Child(u[p], y)] = lv2[p] - 1 /\ up2[Child(u[p], y)] = p
               /\ \A k \in sp2[Child(u[p], y)] : k \in sp2[p] /\ InGap(u[p], y, k)
    <3>1. lv2[p] = lv[p] /\ sp2[p] = sp[p]
      BY <1>1, <1>4, <1>11
    <3>2. CASE y = i + 1
      <4>1. Child(u[p], y) = c /\ c # r
        BY <1>1, <1>2, <1>7, <3>2, BlockFacts
      <4>2. \A k \in sp2[c] : k \in sp[p] /\ InGap(u[p], i + 1, k)
        BY <1>2, <1>8, <1>11
      <4> QED
        BY <1>1, <1>2, <1>11, <3>1, <3>2, <4>1, <4>2
    <3>3. CASE y = i
      <4>1. Child(u[p], y) = b
        BY <1>1, <1>3, <1>7, <3>3
      <4>2. \A k \in sp2[b] : k \in sp[p] /\ InGap(u[p], i, k)
        BY <1>2, <1>8, <1>11
      <4> QED
        BY <1>1, <2>1, <3>1, <3>3, <4>1, <4>2
    <3>4. CASE y < i
      <4>1. y \in 0..i /\ y \in 0..P /\ y # i
        BY <1>1, <1>3, <3>4
      <4>2. Child(u[p], y) = Child(t[p], y)
        BY <1>7, <4>1
      <4> QED
        BY <1>1, <1>8, <2>1, <2>2, <3>1, <4>1, <4>2
    <3>5. CASE i + 1 < y
      <4>1. y - 1 \in i + 1..P /\ y - 1 \in 0..P /\ y - 1 # i /\ (y - 1) + 1 = y
        <5> HIDE DEF P
        <5> QED
          BY <1>1, <1>3, <3>5
      <4>2. Child(u[p], (y - 1) + 1) = Child(t[p], y - 1)
        BY <1>7, <4>1
      <4>3. \A k : InGap(t[p], y - 1, k) => InGap(u[p], (y - 1) + 1, k)
        BY <1>8, <4>1
      <4> QED
        BY <1>1, <2>1, <2>2, <3>1, <4>1, <4>2, <4>3
    <3> QED
      BY <1>1, <1>3, <3>2, <3>3, <3>4, <3>5
  <2>4. ASSUME NEW y \in 0..P + 1, NEW z \in 0..P + 1, y # z
        PROVE  Child(u[p], y) # Child(u[p], z)
    <3> DEFINE Moved(j) == IF j <= i THEN j ELSE j - 1
    <3>1. ASSUME NEW j \in 0..P + 1, j # i + 1
          PROVE  Moved(j) \in 0..P /\ Child(u[p], j) = Child(t[p], Moved(j))
      <4>1. CASE j <= i
        <5>1. j \in 0..i /\ j \in 0..P
          BY <1>1, <1>3, <4>1
        <5> QED
          BY <1>7, <4>1, <5>1
      <4>2. CASE ~(j <= i)
        <5>1. j - 1 \in i + 1..P /\ j - 1 \in 0..P /\ (j - 1) + 1 = j
          <6> HIDE DEF P
          <6> QED
            BY <1>1, <1>3, <3>1, <4>2
        <5>2. Child(u[p], (j - 1) + 1) = Child(t[p], j - 1)
          BY <1>7, <5>1
        <5> QED
          BY <4>2, <5>1, <5>2
      <4> QED
        BY <4>1, <4>2
    <3>2. \A j, j2 \in 0..P : j # j2 => Child(t[p], j) # Child(t[p], j2)
      BY <1>1, <1>2, ChildFacts
    <3>3. \A j \in 0..P : Child(t[p], j) # c
      BY <2>1
    <3>4. ASSUME y # i + 1, z # i + 1 PROVE Moved(y) # Moved(z)
      <4> HIDE DEF P
      <4> QED
        BY <1>1, <1>3, <2>4, <3>4
    <3> HIDE DEF Moved
    <3>5. CASE y = i + 1
      BY <1>7, <2>4, <3>1, <3>3, <3>5
    <3>6. CASE z = i + 1
      BY <1>7, <2>4, <3>1, <3>3, <3>6
    <3>7. CASE y # i + 1 /\ z # i + 1
      BY <3>1, <3>2, <3>4, <3>7
    <3> QED
      BY <3>5, <3>6, <3>7
  <2>5. lv2[p] # 1 /\ Len(u[p].items) = P + 1
    BY <1>1, <1>2, <1>7, <1>11
  <2> HIDE DEF P
  <2> QED
    BY <2>3, <2>4, <2>5 DEF Linked
<1>16. Linked(u, r, lv2, up2, sp2, b)
  <2>1. ASSUME lv[b] = 1 PROVE \A y \in 0..e : Child(u[b], y) = 0
    <3>1. \A y \in 0..e : y \in 0..B
      BY <1>1, <1>3
    <3> QED
      BY <1>2, <1>9, <2>1, <3>1, LeafIs
  <2>2. ASSUME NEW y \in 0..e, lv[b] # 1
        PROVE  /\ Child(u[b], y) \in DOMAIN u /\ Child(u[b], y) # r
               /\ lv2[Child(u[b], y)] = lv2[b] - 1 /\ up2[Child(u[b], y)] = b
               /\ \A k \in sp2[Child(u[b], y)] : k \in sp2[b] /\ InGap(u[b], y, k)
    <3>1. y \in 0..B
      BY <1>1, <1>3
    <3>2. /\ Child(t[b], y) \in DOMAIN t /\ Child(t[b], y) # r
          /\ lv[Child(t[b], y)] = lv[b] - 1 /\ up[Child(t[b], y)] = b
          /\ \A k \in sp[Child(t[b], y)] : k \in sp[b] /\ InGap(t[b], y, k)
          /\ \A j \in 0..B : y # j => Child(t[b], y) # Child(t[b], j)
      <4>1. b \in DOMAIN t /\ y \in 0..Len(t[b].items) /\ lv[b] # 1
        BY <1>2, <2>2, <3>1
      <4> HIDE DEF B
      <4>2. /\ Child(t[b], y) \in DOMAIN t /\ Child(t[b], y) # r
            /\ lv[Child(t[b], y)] = lv[b] - 1 /\ up[Child(t[b], y)] = b
        BY <4>1, InnerFacts
      <4>3. \A j \in 0..Len(t[b].items) : y # j => Child(t[b], y) # Child(t[b], j)
        BY <4>1, InnerFacts
      <4>4. \A k \in sp[Child(t[b], y)] : k \in sp[b] /\ InGap(t[b], y, k)
        BY <4>1, InnerFacts
      <4> QED
        BY <4>2, <4>3, <4>4 DEF B
    <3>3. Child(t[b], y) \notin Children(u[c])
      <4>1. \A j \in 0..(B - e) - 1 : (j + e) + 1 # y
        BY <1>1, <1>3
      <4> QED
        BY <1>12, <3>2, <4>1
    <3>4. Child(t[b], y) # b /\ Child(u[b], y) = Child(t[b], y)
      BY <1>3, <1>9, <3>2
    <3>5. \A k \in sp[Child(t[b], y)] : k \in Nat
      BY <1>3, <3>2, SizeAssumption
    <3> QED
      BY <1>1, <1>2, <1>9, <1>10, <1>11, <3>2, <3>3, <3>4, <3>5
  <2>3. ASSUME NEW y \in 0..e, NEW z \in 0..e, lv[b] # 1, y # z
        PROVE  Child(u[b], y) # Child(u[b], z)
    <3>1. y \in 0..B /\ z \in 0..B
      BY <1>1, <1>3
    <3>2. b \in DOMAIN t /\ lv[b] # 1
      BY <1>2, <2>3
    <3>3. Child(t[b], y) # Child(t[b], z)
      BY <2>3, <3>1, <3>2, InnerFacts
    <3> QED
      BY <1>9, <3>3
  <2> QED
    BY <1>2, <1>9, <1>11, <2>1, <2>2, <2>3 DEF Linked
<1>17. Linked(u, r, lv2, up2, sp2, c)
  <2> DEFINE R == (B - e) - 1
  <2>0. \A y \in 0..R : (y + e) + 1 \in 0..B
    <3> HIDE DEF B
    <3> QED
      BY <1>1, <1>3
  <2>1. ASSUME lv[b] = 1 PROVE \A y \in 0..R : Child(u[c], y) = 0
    BY <1>2, <1>9, <2>0, <2>1, LeafIs
  <2>2. ASSUME NEW y \in 0..R, lv[b] # 1
        PROVE  /\ Child(u[c], y) \in DOMAIN u /\ Child(u[c], y) # r
               /\ lv2[Child(u[c], y)] = lv2[c] - 1 /\ up2[Child(u[c], y)] = c
               /\ \A k \in sp2[Child(u[c], y)] : k \in sp2[c] /\ InGap(u[c], y, k)
    <3> DEFINE z == (y + e) + 1
    <3>1. z \in 0..B
      BY <2>0
    <3>a. Child(u[c], y) = Child(t[b], z)
      BY <1>9
    <3>b. \A k \in Nat : InGap(t[b], z, k) => InGap(u[c], y, k) /\ ek < k
      BY <1>10
    <3> HIDE DEF z
    <3>2. /\ Child(t[b], z) \in DOMAIN t /\ Child(t[b], z) # r /\ Child(t[b], z) # 0
          /\ lv[Child(t[b], z)] = lv[b] - 1 /\ up[Child(t[b], z)] = b
          /\ \A k \in sp[Child(t[b], z)] : k \in sp[b] /\ InGap(t[b], z, k)
      <4>1. b \in DOMAIN t /\ z \in 0..Len(t[b].items) /\ lv[b] # 1
        BY <1>2, <2>2, <3>1
      <4> HIDE DEF B
      <4>2. Child(t[b], z) \in DOMAIN t /\ Child(t[b], z) # r /\ Child(t[b], z) # 0
        BY <4>1, InnerFacts
      <4>3. lv[Child(t[b], z)] = lv[b] - 1 /\ up[Child(t[b], z)] = b
        BY <4>1, InnerFacts
      <4>4. \A k \in sp[Child(t[b], z)] : k \in sp[b] /\ InGap(t[b], z, k)
        BY <4>1, InnerFacts
      <4> QED
        BY <4>2, <4>3, <4>4
    <3>3. Child(t[b], z) \in Children(u[c])
      BY <1>9, <3>a, <3>2 DEF Children
    <3>4. Child(t[b], z) # b
      BY <1>3, <3>2
    <3>5. \A k \in sp[Child(t[b], z)] : k \in Nat
      BY <1>3, <3>2, SizeAssumption
    <3> QED
      BY <1>1, <1>2, <1>11, <3>a, <3>b, <3>2, <3>3, <3>4, <3>5
  <2>3. ASSUME NEW y \in 0..R, NEW z \in 0..R, lv[b] # 1, y # z
        PROVE  Child(u[c], y) # Child(u[c], z)
    <3>1. (y + e) + 1 \in 0..B /\ (z + e) + 1 \in 0..B /\ (y + e) + 1 # (z + e) + 1
      <4>1. (y + e) + 1 # (z + e) + 1
        BY <1>1, <1>3, <2>3
      <4> QED
        BY <2>0, <4>1
    <3>2. Child(t[b], (y + e) + 1) # Child(t[b], (z + e) + 1)
      <4>1. b \in DOMAIN t /\ lv[b] # 1
        BY <1>2, <2>3
      <4> QED
        BY <4>1, <3>1, InnerFacts
    <3> QED
      BY <1>9, <3>2
  <2> HIDE DEF B
  <2> QED
    BY <1>9, <1>11, <2>1, <2>2, <2>3 DEF Linked
<1>18. ASSUME NEW x \in DOMAIN t, x # p, x # b PROVE Linked(u, r, lv2, up2, sp2, x)
  <2>1. u[x] = t[x] /\ lv2[x] = lv[x] /\ sp2[x] = sp[x] /\ x # c
    BY <1>1, <1>11, <1>18
  <2>2. ASSUME NEW y \in 0..Len(t[x].items), lv[x] # 1
        PROVE  /\ Child(t[x], y) \in DOMAIN u /\ Child(t[x], y) # r
               /\ lv2[Child(t[x], y)] = lv[x] - 1 /\ up2[Child(t[x], y)] = x
               /\ \A k \in sp2[Child(t[x], y)] : k \in sp[x] /\ InGap(t[x], y, k)
    <3>1. /\ Child(t[x], y) \in DOMAIN t /\ Child(t[x], y) # r
          /\ lv[Child(t[x], y)] = lv[x] - 1 /\ up[Child(t[x], y)] = x
          /\ \A k \in sp[Child(t[x], y)] : k \in sp[x] /\ InGap(t[x], y, k)
      BY <2>2, ChildFacts
    <3>2. Child(t[x], y) # b /\ Child(t[x], y) \notin Children(u[c])
      BY <1>2, <1>13, <1>18, <3>1
    <3> QED
      BY <1>1, <1>11, <3>1, <3>2
  <2>3. Linked(t, r, lv, up, sp, x)
    BY DEF Shape
  <2> QED
    BY <2>1, <2>2, <2>3 DEF Linked
<1>19. ASSUME NEW x \in DOMAIN u, x # r PROVE Owned(u, up2, x)
  <2>1. CASE x = c
    <3>1. i + 1 \in 0..Len(u[p].items)
      BY <1>1, <1>3, <1>7
    <3> QED
      BY <1>1, <1>7, <1>11, <2>1, <3>1 DEF Owned
  <2>2. CASE x # c
    <3>0. x \in DOMAIN t
      BY <1>1, <2>2
    <3>1. PICK y \in 0..Len(t[up[x]].items) : up[x] \in DOMAIN t /\ Child(t[up[x]], y) = x /\ x # 0
      <4>1. Owned(t, up, x) /\ x # 0
        BY <1>19, <3>0, BlockFacts DEF Shape
      <4> QED
        BY <4>1 DEF Owned
    <3>2. CASE up[x] = p
      <4>1. x \notin Children(u[c])
        BY <1>4, <1>13, <3>2
      <4>2. up2[x] = p /\ p \in DOMAIN u /\ Len(u[p].items) = P + 1 /\ y \in 0..P
        BY <1>1, <1>7, <1>11, <3>0, <3>1, <3>2, <4>1
      <4>3. CASE y <= i
        <5>1. y \in 0..i /\ y \in 0..P + 1
          BY <1>1, <1>3, <4>2, <4>3
        <5>2. Child(u[p], y) = x
          BY <1>7, <3>1, <3>2, <5>1
        <5> QED
          BY <4>2, <5>1, <5>2 DEF Owned
      <4>4. CASE ~(y <= i)
        <5>1. y \in i + 1..P /\ y + 1 \in 0..P + 1
          <6> HIDE DEF P
          <6> QED
            BY <1>1, <1>3, <4>2, <4>4
        <5>2. Child(u[p], y + 1) = x
          BY <1>7, <3>1, <3>2, <5>1
        <5> QED
          BY <4>2, <5>1, <5>2 DEF Owned
      <4> QED
        BY <4>3, <4>4
    <3>3. CASE up[x] = b
      <4>1. y \in 0..B
        BY <3>1, <3>3
      <4>2. CASE y <= e
        <5>1. y \in 0..e
          BY <4>1, <4>2, <1>1, <1>3
        <5>2. x \notin Children(u[c])
          <6>1. \A j \in 0..(B - e) - 1 : (j + e) + 1 # y /\ (j + e) + 1 \in 0..B
            <7> HIDE DEF B
            <7> QED
              BY <1>1, <1>3, <5>1
          <6>2. \A j \in 0..(B - e) - 1 : Child(t[b], (j + e) + 1) # Child(t[b], y)
            BY <1>2, <3>1, <3>3, <4>1, <6>1, ChildFacts
          <6> QED
            BY <1>12, <3>1, <3>3, <6>2
        <5>3. up2[x] = b /\ b \in DOMAIN u /\ Child(u[b], y) = x /\ Len(u[b].items) = e
          BY <1>1, <1>2, <1>9, <1>11, <3>0, <3>1, <3>3, <5>1, <5>2
        <5> QED
          BY <5>1, <5>3 DEF Owned
      <4>3. CASE ~(y <= e)
        <5> DEFINE z == y - (e + 1)
        <5>1. z \in 0..(B - e) - 1 /\ (z + e) + 1 = y
          <6> HIDE DEF B
          <6> QED
            BY <1>1, <1>3, <4>1, <4>3
        <5> HIDE DEF z
        <5>2. Child(u[c], z) = x /\ Len(u[c].items) = (B - e) - 1
          BY <1>9, <3>1, <3>3, <5>1
        <5>3. x \in Children(u[c])
          BY <3>1, <5>1, <5>2 DEF Children
        <5>4. up2[x] = c /\ c \in DOMAIN u
          BY <1>1, <1>11, <3>0, <5>3
        <5> QED
          BY <5>1, <5>2, <5>4 DEF Owned
      <4> QED
        BY <4>2, <4>3
    <3>4. CASE up[x] # p /\ up[x] # b
      <4>1. x \notin Children(u[c])
        BY <1>13, <3>4
      <4>2. up2[x] = up[x] /\ u[up[x]] = t[up[x]] /\ up[x] \in DOMAIN u
        BY <1>1, <1>11, <3>0, <3>1, <3>4, <4>1
      <4> QED
        BY <3>1, <4>2 DEF Owned
    <3> QED
      BY <3>2, <3>3, <3>4
  <2> QED
    BY <2>1, <2>2
<1>20. Shape(u, r, lv2, up2, sp2)
  <2>1. IsFiniteSet(DOMAIN u) /\ DOMAIN u \subseteq Block /\ r \in DOMAIN u
    <3>1. IsFiniteSet(DOMAIN t) /\ DOMAIN t \subseteq Block /\ r \in DOMAIN t
      BY <1>1, BlockFacts DEF Shape
    <3>2. IsFiniteSet(DOMAIN t \cup {c})
      BY <3>1, FS_AddElement
    <3> QED
      BY <1>1, <3>1, <3>2
  <2>2. \A x \in DOMAIN u : Linked(u, r, lv2, up2, sp2, x)
    BY <1>1, <1>15, <1>16, <1>17, <1>18
  <2> QED
    BY <1>14, <1>19, <2>1, <2>2 DEF Shape
<1>21. Contents(u) = Contents(t)
  <2>1. ASSUME NEW k PROVE (\E x \in DOMAIN u : k \in KeysIn(u[x])) <=> (\E x \in DOMAIN t : k \in KeysIn(t[x]))
    <3>1. \A x \in DOMAIN t : x # p /\ x # b => KeysIn(u[x]) = KeysIn(t[x])
      BY <1>1
    <3>2. ASSUME NEW x \in DOMAIN u, k \in KeysIn(u[x]) PROVE \E y \in DOMAIN t : k \in KeysIn(t[y])
      <4>1. x = c => k \in KeysIn(t[b])
        BY <1>9, <3>2
      <4>2. x = b => k \in KeysIn(t[b])
        BY <1>9, <3>2
      <4>3. x = p => k \in KeysIn(t[p]) \/ k \in KeysIn(t[b])
        BY <1>5, <1>7, <3>2
      <4> QED
        BY <1>1, <1>2, <3>1, <3>2, <4>1, <4>2, <4>3
    <3>3. ASSUME NEW x \in DOMAIN t, k \in KeysIn(t[x]) PROVE \E y \in DOMAIN u : k \in KeysIn(u[y])
      <4>1. x = p => k \in KeysIn(u[p])
        BY <1>7, <3>3
      <4>2. x = b => k \in KeysIn(u[b]) \/ k \in KeysIn(u[p]) \/ k \in KeysIn(u[c])
        BY <1>7, <1>9, <3>3
      <4> QED
        BY <1>1, <1>2, <3>1, <3>3, <4>1, <4>2
    <3> QED
      BY <3>2, <3>3
  <2>2. \A k : k \in Contents(u) <=> k \in Contents(t)
    BY <2>1, InContents
  <2> QED
    BY <2>2
<1> QED
  BY <1>20, <1>21 DEF Formed

(* A way down from the root: blocks, each with the place of the child.      *)
Way(t, r, p) ==
  /\ p \in Seq([block : Block, place : Nat])
  /\ \A m \in 1..Len(p) :
       /\ p[m].block \in DOMAIN t /\ p[m].place \in 0..Len(t[p[m].block].items)
       /\ m = 1 => p[m].block = r
       /\ m # 1 => p[m].block = Child(t[p[m - 1].block], p[m - 1].place)

LEMMA WayFacts ==
  ASSUME NEW t, NEW r, NEW lv, NEW up, NEW sp, Shape(t, r, lv, up, sp),
         NEW p, Way(t, r, p), NEW m \in 1..Len(p)
  PROVE  /\ Len(p) \in Nat /\ p[m].block \in DOMAIN t /\ p[m].place \in 0..Len(t[p[m].block].items)
         /\ p[m].block = r <=> m = 1
         /\ m # 1 => /\ m - 1 \in 1..Len(p) /\ lv[p[m - 1].block] # 1
                     /\ p[m].block = Child(t[p[m - 1].block], p[m - 1].place)
                     /\ lv[p[m].block] = lv[p[m - 1].block] - 1
                     /\ up[p[m].block] = p[m - 1].block
<1>1. Len(p) \in Nat
  BY DEF Way
<1>2. p[m].block \in DOMAIN t /\ p[m].place \in 0..Len(t[p[m].block].items)
  BY DEF Way
<1>3. m = 1 => p[m].block = r
  BY DEF Way
<1>4. ASSUME m # 1
      PROVE  /\ m - 1 \in 1..Len(p) /\ lv[p[m - 1].block] # 1 /\ p[m].block # r
             /\ p[m].block = Child(t[p[m - 1].block], p[m - 1].place)
             /\ lv[p[m].block] = lv[p[m - 1].block] - 1
             /\ up[p[m].block] = p[m - 1].block
  <2>1. m - 1 \in 1..Len(p)
    BY <1>1, <1>4
  <2>2. p[m - 1].block \in DOMAIN t /\ p[m - 1].place \in 0..Len(t[p[m - 1].block].items)
    BY <2>1 DEF Way
  <2>3. p[m].block = Child(t[p[m - 1].block], p[m - 1].place) /\ p[m].block # 0
    BY <1>2, <1>4, BlockFacts DEF Way
  <2> QED
    BY <2>1, <2>2, <2>3, ChildFacts
<1> QED
  BY <1>1, <1>2, <1>3, <1>4

(* Its blocks are on different levels.                                      *)
LEMMA WayLevels ==
  ASSUME NEW t, NEW r, NEW lv, NEW up, NEW sp, Shape(t, r, lv, up, sp),
         NEW p, Way(t, r, p)
  PROVE  \A m \in 1..Len(p) : lv[p[m].block] = lv[r] - (m - 1)
<1> SUFFICES ASSUME NEW n \in 1..Len(p), lv[p[n].block] # lv[r] - (n - 1) PROVE FALSE
  OBVIOUS
<1> DEFINE S == {m \in 1..Len(p) : lv[p[m].block] # lv[r] - (m - 1)}
<1>1. S \in SUBSET Nat /\ n \in S
  OBVIOUS
<1>2. PICK m \in S : \A j \in S : m <= j
  <2> HIDE DEF S
  <2> QED
    BY <1>1, MinIn
<1>3. m \in 1..Len(p) /\ lv[p[m].block] # lv[r] - (m - 1)
  BY <1>2
<1>4. lv[r] \in Nat /\ Len(p) \in Nat
  BY <1>3, WayFacts, BlockFacts
<1>5. m # 1
  <2>1. m = 1 => p[m].block = r
    BY <1>3, WayFacts
  <2> QED
    BY <1>3, <1>4, <2>1
<1>6. m - 1 \in 1..Len(p) /\ lv[p[m].block] = lv[p[m - 1].block] - 1
  BY <1>3, <1>5, WayFacts
<1>7. lv[p[m - 1].block] = lv[r] - ((m - 1) - 1)
  <2>1. ~(m <= m - 1)
    BY <1>3
  <2>2. m - 1 \notin S
    <3> HIDE DEF S
    <3> QED
      BY <1>2, <2>1
  <2> QED
    BY <1>6, <2>2
<1> QED
  BY <1>3, <1>4, <1>6, <1>7

(* A key that belongs on the way can be in the sets of its nodes.           *)
Widened(t, sp, p, n, k) ==
  [x \in DOMAIN t |-> IF \E m \in 1..n : p[m].block = x THEN sp[x] \cup {k} ELSE sp[x]]

LEMMA Widen ==
  ASSUME NEW t, NEW r, NEW lv, NEW up, NEW sp, Shape(t, r, lv, up, sp),
         NEW p, Way(t, r, p), NEW n \in 1..Len(p), NEW k \in Key,
         \A m \in 1..n - 1 : InGap(t[p[m].block], p[m].place, k)
  PROVE  /\ Shape(t, r, lv, up, Widened(t, sp, p, n, k))
         /\ \A m \in 1..n : k \in Widened(t, sp, p, n, k)[p[m].block]
         /\ \A x \in DOMAIN t : sp[x] \subseteq Widened(t, sp, p, n, k)[x]
<1> DEFINE s2 == Widened(t, sp, p, n, k)
<1>0. \A m \in 1..n : m \in 1..Len(p)
  BY WayFacts
<1>1. /\ \A x \in DOMAIN t : \A j : j \in s2[x] <=> j \in sp[x] \/ (j = k /\ \E m \in 1..n : p[m].block = x)
      /\ \A x \in DOMAIN t : sp[x] \subseteq s2[x]
  BY DEF Widened
<1>2. \A m \in 1..n : p[m].block \in DOMAIN t /\ k \in s2[p[m].block]
  BY <1>0, <1>1, WayFacts
<1> HIDE DEF s2
<1>3. ASSUME NEW x \in DOMAIN t, NEW i \in 0..Len(t[x].items), lv[x] # 1,
             NEW j \in s2[Child(t[x], i)]
      PROVE  j \in s2[x] /\ InGap(t[x], i, j)
  <2>1. /\ Child(t[x], i) \in DOMAIN t /\ Child(t[x], i) # r /\ up[Child(t[x], i)] = x
        /\ \A k1 \in sp[Child(t[x], i)] : k1 \in sp[x] /\ InGap(t[x], i, k1)
        /\ \A i2 \in 0..Len(t[x].items) : i # i2 => Child(t[x], i) # Child(t[x], i2)
    BY <1>3, InnerFacts
  <2>2. CASE j \in sp[Child(t[x], i)]
    BY <1>1, <2>1, <2>2
  <2>3. CASE j \notin sp[Child(t[x], i)]
    <3>1. j = k /\ \E m \in 1..n : p[m].block = Child(t[x], i)
      BY <1>1, <1>3, <2>1, <2>3
    <3>2. PICK m \in 1..n : p[m].block = Child(t[x], i)
      BY <3>1
    <3>3. m \in 1..Len(p) /\ m # 1 /\ n \in 1..Len(p) /\ Len(p) \in Nat
      BY <1>0, <2>1, <3>2, WayFacts
    <3>4. /\ p[m].block = Child(t[p[m - 1].block], p[m - 1].place)
          /\ up[p[m].block] = p[m - 1].block /\ m - 1 \in 1..Len(p)
      BY <3>3, WayFacts
    <3>5. p[m - 1].place \in 0..Len(t[p[m - 1].block].items)
      BY <3>4, WayFacts
    <3>6. p[m - 1].block = x /\ p[m - 1].place = i
      BY <2>1, <3>2, <3>4, <3>5
    <3>7. m - 1 \in 1..n - 1 /\ m - 1 \in 1..n
      BY <3>2, <3>3
    <3> QED
      BY <1>2, <3>1, <3>6, <3>7
  <2> QED
    BY <2>2, <2>3
<1>4. ASSUME NEW x \in DOMAIN t PROVE Leveled(t, r, lv, s2, x)
  <2>1. Leveled(t, r, lv, sp, x)
    BY DEF Shape
  <2> QED
    BY <1>1, <2>1 DEF Leveled
<1>5. ASSUME NEW x \in DOMAIN t PROVE Linked(t, r, lv, up, s2, x)
  <2>1. Linked(t, r, lv, up, sp, x)
    BY DEF Shape
  <2> QED
    BY <1>3, <2>1 DEF Linked
<1>6. Shape(t, r, lv, up, s2)
  BY <1>4, <1>5 DEF Shape
<1> QED
  BY <1>1, <1>2, <1>6 DEF s2

(* A key that belongs between the keys of every node down to a leaf is in   *)
(* no node.                                                                 *)
LEMMA NotFound ==
  ASSUME NEW t, NEW r, Formed(t, r), NEW p, Way(t, r, p), NEW k \in Key,
         p # <<>>, Child(t[p[Len(p)].block], p[Len(p)].place) = 0,
         \A m \in 1..Len(p) : InGap(t[p[m].block], p[m].place, k)
  PROVE  k \notin Contents(t)
<1>1. PICK lv, up, sp : Shape(t, r, lv, up, sp)
  BY DEF Formed
<1> DEFINE n == Len(p)
           b == p[n].block
           s2 == Widened(t, sp, p, n, k)
<1>2. n \in 1..Len(p) /\ \A m \in 1..n - 1 : InGap(t[p[m].block], p[m].place, k)
  BY DEF Way
<1>3. b \in DOMAIN t /\ p[n].place \in 0..Len(t[b].items) /\ Child(t[b], p[n].place) = 0 /\ InGap(t[b], p[n].place, k)
  BY <1>2 DEF Way
<1> HIDE DEF n
<1>4. Shape(t, r, lv, up, s2) /\ \A m \in 1..n : k \in s2[p[m].block]
  BY <1>1, <1>2, Widen
<1>5. k \in s2[b] /\ lv[b] = 1
  <2>1. lv[b] = 1
    BY <1>1, <1>3, LeafIs
  <2> QED
    BY <1>2, <1>4, <2>1
<1> HIDE DEF b, s2
<1>6. ASSUME NEW x \in DOMAIN t, k \in KeysIn(t[x]) PROVE FALSE
  <2>1. k \in s2[x] /\ lv[x] \in Nat \ {0}
    BY <1>4, <1>6, BlockFacts
  <2>2. lv[x] = 1
    <3>1. ~(lv[b] < lv[x])
      BY <1>3, <1>4, <1>5, <1>6, NotAbove
    <3> QED
      BY <1>5, <2>1, <3>1
  <2>3. x = b
    BY <1>3, <1>4, <1>5, <2>1, <2>2, OneOnLevel
  <2>4. GoodNode(t[b]) /\ k \in Nat
    BY <1>1, <1>3, BlockFacts, SizeAssumption
  <2> QED
    BY <1>3, <1>6, <2>3, <2>4, OneGap
<1> QED
  BY <1>6, InContents

(* A leaf b gets other keys of its set.                                     *)
AsLeaf(t, u, b, m) ==
  /\ b \in DOMAIN t /\ DOMAIN u = DOMAIN t /\ u[b] = m
  /\ \A x \in DOMAIN t : x # b => u[x] = t[x]

LEMMA LeafShape ==
  ASSUME NEW t, NEW r, NEW lv, NEW up, NEW sp, Shape(t, r, lv, up, sp),
         NEW u, NEW b, NEW m, AsLeaf(t, u, b, m), lv[b] = 1,
         GoodNode(m), KeysIn(m) \subseteq sp[b], \A i \in 0..Len(m.items) : Child(m, i) = 0
  PROVE  /\ Shape(u, r, lv, up, sp)
         /\ \A k : k \in Contents(u) <=> (k \in Contents(t) /\ k \notin KeysIn(t[b])) \/ k \in KeysIn(m)
<1>1. /\ b \in DOMAIN t /\ DOMAIN u = DOMAIN t /\ u[b] = m
      /\ \A x \in DOMAIN t : x # b => u[x] = t[x]
  BY DEF AsLeaf
<1>2. ASSUME NEW x \in DOMAIN t
      PROVE  Leveled(u, r, lv, sp, x) /\ Linked(u, r, lv, up, sp, x)
  <2>1. Leveled(t, r, lv, sp, x) /\ Linked(t, r, lv, up, sp, x)
    BY DEF Shape
  <2>2. CASE x = b
    BY <1>1, <2>1, <2>2 DEF Leveled, Linked
  <2>3. CASE x # b
    <3>1. u[x] = t[x]
      BY <1>1, <2>3
    <3> QED
      BY <1>1, <2>1, <3>1 DEF Leveled, Linked
  <2> QED
    BY <2>2, <2>3
<1>3. ASSUME NEW x \in DOMAIN t, x # r PROVE Owned(u, up, x)
  <2>1. up[x] # b
    BY <1>3, OwnerFacts
  <2>2. Owned(t, up, x)
    BY <1>3 DEF Shape
  <2> QED
    BY <1>1, <2>1, <2>2 DEF Owned
<1>4. Shape(u, r, lv, up, sp)
  BY <1>1, <1>2, <1>3 DEF Shape
<1>5. ASSUME NEW k PROVE k \in Contents(u) <=> (k \in Contents(t) /\ k \notin KeysIn(t[b])) \/ k \in KeysIn(m)
  <2>1. \A x \in DOMAIN t : x # b => KeysIn(t[x]) \cap KeysIn(t[b]) = {}
    BY <1>1, KeysApart
  <2>2. k \in Contents(u) <=> k \in KeysIn(m) \/ \E x \in DOMAIN t : x # b /\ k \in KeysIn(t[x])
    BY <1>1, InContents
  <2>3. k \in Contents(t) <=> k \in KeysIn(t[b]) \/ \E x \in DOMAIN t : x # b /\ k \in KeysIn(t[x])
    BY <1>1, InContents
  <2> QED
    BY <2>1, <2>2, <2>3
<1> QED
  BY <1>4, <1>5

(* A root without items above the root.                                     *)
AsTopped(t, r, u, d) ==
  /\ d \in Block /\ d \notin DOMAIN t /\ DOMAIN u = DOMAIN t \cup {d}
  /\ u[d] = [next0 |-> r, items |-> <<>>]
  /\ \A x \in DOMAIN t : u[x] = t[x]

LEMMA EmptyNode ==
  ASSUME NEW r \in Block \cup {0}, NEW n, n = [next0 |-> r, items |-> <<>>]
  PROVE  GoodNode(n) /\ Len(n.items) = 0 /\ KeysIn(n) = {} /\ n.next0 = r /\ Child(n, 0) = r
<1>1. n.next0 = r /\ n.items = <<>> /\ n \in Node
  BY DEF Node
<1>2. Len(n.items) = 0
  BY <1>1
<1>3. 1..Len(n.items) = {}
  BY <1>2
<1> QED
  BY <1>1, <1>2, <1>3 DEF GoodNode, InOrder, KeysIn, Child

LEMMA TopShape ==
  ASSUME NEW t, NEW r, Formed(t, r), r # 0, NEW u, NEW d, AsTopped(t, r, u, d)
  PROVE  Formed(u, d) /\ Contents(u) = Contents(t)
<1>1. PICK lv, up, sp : Shape(t, r, lv, up, sp)
  BY DEF Formed
<1>2. /\ d \in Block /\ d \notin DOMAIN t /\ DOMAIN u = DOMAIN t \cup {d}
      /\ u[d] = [next0 |-> r, items |-> <<>>] /\ \A x \in DOMAIN t : u[x] = t[x]
  BY DEF AsTopped
<1>3. r \in DOMAIN t /\ r \in Block /\ IsFiniteSet(DOMAIN t) /\ DOMAIN t \subseteq Block
  BY <1>1 DEF Shape
<1>4. GoodNode(u[d]) /\ Len(u[d].items) = 0 /\ KeysIn(u[d]) = {} /\ Child(u[d], 0) = r
  BY <1>2, <1>3, EmptyNode
<1> DEFINE lv2 == [x \in DOMAIN u |-> IF x = d THEN lv[r] + 1 ELSE lv[x]]
           up2 == [x \in DOMAIN u |-> IF x = r THEN d ELSE up[x]]
           sp2 == [x \in DOMAIN u |-> IF x = d THEN Key ELSE sp[x]]
<1>5. /\ lv2[d] = lv[r] + 1 /\ sp2[d] = Key /\ up2[r] = d
      /\ \A x \in DOMAIN t : lv2[x] = lv[x] /\ sp2[x] = sp[x] /\ (x # r => up2[x] = up[x])
  BY <1>2, <1>3
<1> HIDE DEF lv2, up2, sp2
<1>6. lv[r] \in Nat \ {0} /\ lv2[d] \in Nat \ {0} /\ lv2[d] # 1 /\ lv2[r] = lv2[d] - 1
  <2>1. lv[r] \in Nat \ {0}
    BY <1>1, <1>3, BlockFacts
  <2> QED
    BY <1>3, <1>5, <2>1
<1>7. Leveled(u, d, lv2, sp2, d) /\ Linked(u, d, lv2, up2, sp2, d)
  <2>1. \A i \in 0..Len(u[d].items) : i = 0
    BY <1>4
  <2>2. r # d /\ \A k \in sp[r] : k \in Key
    BY <1>1, <1>2, <1>3, BlockFacts
  <2>3. \A k : InGap(u[d], 0, k)
    BY <1>4 DEF InGap
  <2>4. Leveled(u, d, lv2, sp2, d)
    BY <1>4, <1>5, <1>6 DEF Leveled
  <2> QED
    BY <1>2, <1>3, <1>4, <1>5, <1>6, <2>1, <2>2, <2>3, <2>4 DEF Linked
<1>8. ASSUME NEW x \in DOMAIN t PROVE Leveled(u, d, lv2, sp2, x) /\ Linked(u, d, lv2, up2, sp2, x)
  <2>1. Leveled(t, r, lv, sp, x) /\ Linked(t, r, lv, up, sp, x) /\ u[x] = t[x] /\ lv2[x] = lv[x] /\ sp2[x] = sp[x]
    BY <1>1, <1>2, <1>5 DEF Shape
  <2>2. Leveled(u, d, lv2, sp2, x)
    BY <1>5, <1>6, <2>1 DEF Leveled
  <2>3. ASSUME NEW i \in 0..Len(t[x].items), lv[x] # 1
        PROVE  /\ Child(t[x], i) \in DOMAIN u /\ Child(t[x], i) # d
               /\ lv2[Child(t[x], i)] = lv[x] - 1 /\ up2[Child(t[x], i)] = x
               /\ sp2[Child(t[x], i)] = sp[Child(t[x], i)]
    <3>1. /\ Child(t[x], i) \in DOMAIN t /\ Child(t[x], i) # r
          /\ lv[Child(t[x], i)] = lv[x] - 1 /\ up[Child(t[x], i)] = x
      BY <1>1, <2>3, InnerFacts
    <3> QED
      BY <1>2, <1>5, <3>1
  <2>4. Linked(u, d, lv2, up2, sp2, x)
    BY <2>1, <2>3 DEF Linked
  <2> QED
    BY <2>2, <2>4
<1>9. ASSUME NEW x \in DOMAIN u, x # d PROVE Owned(u, up2, x)
  <2>1. CASE x = r
    <3>1. 0 \in 0..Len(u[d].items) /\ up2[x] = d /\ d \in DOMAIN u /\ Child(u[d], 0) = x
      BY <1>2, <1>4, <1>5, <2>1
    <3> QED
      BY <3>1 DEF Owned
  <2>2. CASE x # r
    <3>1. x \in DOMAIN t /\ Owned(t, up, x) /\ up2[x] = up[x]
      BY <1>1, <1>2, <1>5, <1>9, <2>2 DEF Shape
    <3> QED
      BY <1>2, <3>1 DEF Owned
  <2> QED
    BY <2>1, <2>2
<1>10. Formed(u, d)
  <2>1. IsFiniteSet(DOMAIN t \cup {d})
    BY <1>3, FS_AddElement
  <2>2. \A x \in DOMAIN u : Leveled(u, d, lv2, sp2, x) /\ Linked(u, d, lv2, up2, sp2, x)
    BY <1>2, <1>7, <1>8
  <2>3. Shape(u, d, lv2, up2, sp2)
    BY <1>2, <1>3, <1>9, <2>1, <2>2 DEF Shape
  <2> QED
    BY <2>3 DEF Formed
<1>11. ASSUME NEW k PROVE k \in Contents(u) <=> k \in Contents(t)
  <2>1. k \in Contents(u) <=> \E x \in DOMAIN u : k \in KeysIn(u[x])
    BY InContents
  <2>2. k \in Contents(t) <=> \E x \in DOMAIN t : k \in KeysIn(t[x])
    BY InContents
  <2>3. k \notin KeysIn(u[d])
    BY <1>4
  <2> QED
    BY <1>2, <2>1, <2>2, <2>3
<1> QED
  BY <1>10, <1>11

(* The first node of a tree.                                                *)
LEMMA FirstShape ==
  ASSUME NEW t, NEW k \in Key, NEW d \in Block, DOMAIN t = {d},
         t[d] = [next0 |-> 0, items |-> <<[key |-> k, child |-> 0]>>]
  PROVE  Formed(t, d) /\ \A j : j \in Contents(t) <=> j = k
<1> DEFINE n == t[d]
           lv == [x \in {d} |-> 1]
           up == [x \in {d} |-> 0]
           sp == [x \in {d} |-> {k}]
           it == [key |-> k, child |-> 0]
<1>0. it \in Item /\ it.key = k /\ it.child = 0
  BY DEF Item
<1> HIDE DEF it
<1>1. n.next0 = 0 /\ n.items = <<it>> /\ Len(n.items) = 1 /\ n.items[1] = it
  BY DEF it
<1>2. n \in Node
  <2>1. <<it>> \in Seq(Item)
    BY <1>0
  <2> QED
    BY <2>1 DEF Node, it
<1>3. \A i \in 1..Len(n.items) : i = 1
  BY <1>1
<1>4. KeysIn(n) = {k} /\ GoodNode(n)
  <2>1. 1 \in 1..Len(n.items)
    BY <1>1
  <2>2. KeysIn(n) = {k}
    BY <1>0, <1>1, <1>3, <2>1 DEF KeysIn
  <2>3. GoodNode(n)
    BY <1>2, <1>3 DEF GoodNode, InOrder
  <2> QED
    BY <2>2, <2>3
<1>5. \A i \in 0..Len(n.items) : Child(n, i) = 0
  <2>1. \A i \in 0..Len(n.items) : i = 0 \/ i = 1
    BY <1>1
  <2> QED
    BY <1>0, <1>1, <2>1 DEF Child
<1> HIDE DEF n
<1>6. lv[d] = 1 /\ sp[d] = {k}
  OBVIOUS
<1> HIDE DEF lv, up, sp
<1>7. Leveled(t, d, lv, sp, d) /\ Linked(t, d, lv, up, sp, d)
  <2>1. lv[d] \in Nat \ {0} /\ lv[d] <= lv[d]
    BY <1>6
  <2>2. Leveled(t, d, lv, sp, d)
    BY <1>4, <1>6, <2>1 DEF Leveled, n
  <2>3. Linked(t, d, lv, up, sp, d)
    BY <1>5, <1>6 DEF Linked, n
  <2> QED
    BY <2>2, <2>3
<1>8. Shape(t, d, lv, up, sp)
  <2>1. IsFiniteSet({d})
    BY FS_Singleton
  <2> QED
    BY <1>7, <2>1 DEF Shape
<1>9. \A j : j \in Contents(t) <=> j = k
  BY <1>4, InContents DEF n
<1> QED
  BY <1>8, <1>9 DEF Formed

(* A root without items gives way to its child.                             *)
AsDropped(t, r, u) ==
  /\ r \in DOMAIN t /\ Len(t[r].items) = 0 /\ DOMAIN u = DOMAIN t \ {r}
  /\ \A x \in DOMAIN u : u[x] = t[x]

LEMMA RootShape ==
  ASSUME NEW t, NEW r, Formed(t, r), NEW u, AsDropped(t, r, u)
  PROVE  Formed(u, t[r].next0) /\ Contents(u) = Contents(t)
<1>1. PICK lv, up, sp : Shape(t, r, lv, up, sp)
  BY DEF Formed
<1>2. /\ r \in DOMAIN t /\ Len(t[r].items) = 0 /\ DOMAIN u = DOMAIN t \ {r}
      /\ \A x \in DOMAIN u : u[x] = t[x]
  BY DEF AsDropped
<1> DEFINE c == t[r].next0
<1>3. Child(t[r], 0) = c /\ \A i : i \in 0..Len(t[r].items) <=> i = 0
  BY <1>2 DEF Child
<1>4. lv[r] \in Nat \ {0} /\ \A x \in DOMAIN u : lv[x] \in Nat \ {0} /\ lv[x] < lv[r]
  BY <1>1, <1>2, BlockFacts
<1>5. IsFiniteSet(DOMAIN u) /\ DOMAIN u \subseteq Block
  <2>1. IsFiniteSet(DOMAIN t) /\ DOMAIN t \subseteq Block
    BY <1>1 DEF Shape
  <2>2. IsFiniteSet(DOMAIN t \ {r})
    BY <2>1, FS_RemoveElement
  <2> QED
    BY <1>2, <2>1, <2>2
<1>6. lv[r] = 1 <=> c = 0
  BY <1>1, <1>2, LeafIs
<1> HIDE DEF c
<1>7. Formed(u, c)
  <2>1. CASE c = 0
    <3>1. DOMAIN u = {}
      BY <1>4, <1>6, <2>1
    <3>2. Shape(u, c, lv, up, sp)
      BY <1>5, <2>1, <3>1 DEF Shape
    <3> QED
      BY <3>2 DEF Formed
  <2>2. CASE c # 0
    <3>1. c \in DOMAIN u /\ lv[c] = lv[r] - 1 /\ up[c] = r
      <4>1. lv[r] # 1 /\ 0 \in 0..Len(t[r].items)
        BY <1>3, <1>6, <2>2
      <4>2. Child(t[r], 0) \in DOMAIN t /\ Child(t[r], 0) # r /\ lv[Child(t[r], 0)] = lv[r] - 1 /\ up[Child(t[r], 0)] = r
        BY <1>1, <1>2, <4>1, InnerFacts
      <4> QED
        BY <1>2, <1>3, <4>2
    <3>2. ASSUME NEW x \in DOMAIN u PROVE Leveled(u, c, lv, sp, x) /\ Linked(u, c, lv, up, sp, x)
      <4>1. Leveled(t, r, lv, sp, x) /\ Linked(t, r, lv, up, sp, x) /\ u[x] = t[x] /\ x \in DOMAIN t /\ x # r
        BY <1>1, <1>2 DEF Shape
      <4>2. lv[x] <= lv[c] /\ lv[x] # 0
        BY <1>4, <3>1
      <4>3. Leveled(u, c, lv, sp, x)
        BY <4>1, <4>2 DEF Leveled
      <4>4. ASSUME NEW i \in 0..Len(t[x].items), lv[x] # 1
            PROVE  Child(t[x], i) \in DOMAIN u /\ Child(t[x], i) # c
        <5>1. Child(t[x], i) \in DOMAIN t /\ Child(t[x], i) # r /\ up[Child(t[x], i)] = x
          BY <1>1, <4>1, <4>4, InnerFacts
        <5> QED
          BY <1>2, <3>1, <4>1, <5>1
      <4>5. Linked(u, c, lv, up, sp, x)
        BY <4>1, <4>4 DEF Linked
      <4> QED
        BY <4>3, <4>5
    <3>3. ASSUME NEW x \in DOMAIN u, x # c PROVE Owned(u, up, x)
      <4>1. Owned(t, up, x) /\ x # r
        BY <1>1, <1>2 DEF Shape
      <4>2. up[x] # r
        BY <1>3, <3>3, <4>1 DEF Owned
      <4> QED
        BY <1>2, <4>1, <4>2 DEF Owned
    <3>4. Shape(u, c, lv, up, sp)
      BY <1>5, <3>1, <3>2, <3>3 DEF Shape
    <3> QED
      BY <3>4 DEF Formed
  <2> QED
    BY <2>1, <2>2
<1>8. ASSUME NEW k PROVE k \in Contents(u) <=> k \in Contents(t)
  <2>1. k \in Contents(u) <=> \E x \in DOMAIN u : k \in KeysIn(u[x])
    BY InContents
  <2>2. k \in Contents(t) <=> \E x \in DOMAIN t : k \in KeysIn(t[x])
    BY InContents
  <2>3. k \notin KeysIn(t[r])
    <3>1. 1..Len(t[r].items) = {}
      BY <1>2
    <3> QED
      BY <3>1 DEF KeysIn
  <2> QED
    BY <1>2, <2>1, <2>2, <2>3
<1> QED
  BY <1>7, <1>8 DEF c

(* The children of p before and behind its item j + 1 become one.           *)
AsMerged(t, u, p, j) ==
  /\ p \in DOMAIN t /\ j \in 0..Len(t[p].items) - 1 /\ Child(t[p], j) # 0
  /\ DOMAIN u = DOMAIN t \ {Child(t[p], j + 1)}
  /\ u[p] = Deleted(t[p], j)
  /\ u[Child(t[p], j)] = Catenated(t[Child(t[p], j)], t[p].items[j + 1], t[Child(t[p], j + 1)])
  /\ \A x \in DOMAIN u : x # p /\ x # Child(t[p], j) => u[x] = t[x]

LEMMA MergeShape ==
  ASSUME NEW t, NEW r, NEW lv, NEW up, NEW sp, Shape(t, r, lv, up, sp),
         NEW u, NEW p, NEW j, AsMerged(t, u, p, j)
  PROVE  Formed(u, r) /\ Contents(u) = Contents(t)
<1> DEFINE L == Child(t[p], j)
           R == Child(t[p], j + 1)
           P == Len(t[p].items)
           A == Len(t[L].items)
           B == Len(t[R].items)
           it == t[p].items[j + 1]
           mk == it.key
           up2 == [x \in DOMAIN u |-> IF up[x] = R THEN L ELSE up[x]]
           sp2 == [x \in DOMAIN u |-> IF x = L THEN sp[L] \cup sp[R] \cup {mk} ELSE sp[x]]
<1>1. /\ p \in DOMAIN t /\ j \in 0..P - 1 /\ L # 0
      /\ DOMAIN u = DOMAIN t \ {R}
      /\ u[p] = Deleted(t[p], j)
      /\ u[L] = Catenated(t[L], it, t[R])
      /\ \A x \in DOMAIN u : x # p /\ x # L => u[x] = t[x]
  BY DEF AsMerged
<1>2. /\ GoodNode(t[p]) /\ t[p] \in Node /\ P \in Nat /\ KeysIn(t[p]) \subseteq sp[p] /\ sp[p] \subseteq Key
      /\ lv[p] \in Nat \ {0} /\ r \in DOMAIN t /\ lv[p] <= lv[r] /\ p # 0
  BY <1>1, BlockFacts
<1>3. j \in 0..P /\ j + 1 \in 0..P /\ j + 1 \in 1..P /\ j # j + 1 /\ j \in Nat
  <2> HIDE DEF P
  <2> QED
    BY <1>1, <1>2
<1>4. lv[p] # 1
  BY <1>1, <1>3, ChildFacts
<1>5. /\ L \in DOMAIN t /\ L # r /\ lv[L] = lv[p] - 1 /\ up[L] = p
      /\ \A k \in sp[L] : k \in sp[p] /\ InGap(t[p], j, k)
      /\ \A y \in 0..P : j # y => L # Child(t[p], y)
  BY <1>1, <1>3, <1>4, InnerFacts
<1>6. /\ R \in DOMAIN t /\ R # r /\ lv[R] = lv[p] - 1 /\ up[R] = p
      /\ \A k \in sp[R] : k \in sp[p] /\ InGap(t[p], j + 1, k)
      /\ \A y \in 0..P : j + 1 # y => R # Child(t[p], y)
  BY <1>1, <1>3, <1>4, InnerFacts
<1>7. L # R
  BY <1>3, <1>5
<1>8. /\ GoodNode(t[L]) /\ t[L] \in Node /\ A \in Nat /\ KeysIn(t[L]) \subseteq sp[L] /\ sp[L] \subseteq Key
      /\ GoodNode(t[R]) /\ t[R] \in Node /\ B \in Nat /\ KeysIn(t[R]) \subseteq sp[R] /\ sp[R] \subseteq Key
      /\ lv[L] \in Nat \ {0} /\ lv[L] <= lv[r]
  BY <1>5, <1>6, BlockFacts
<1>9. p # L /\ p # R
  BY <1>2, <1>5, <1>6
<1>10. it \in Item /\ mk \in Key /\ mk \in Nat /\ mk \in KeysIn(t[p]) /\ mk \in sp[p]
  <2>1. it \in Item /\ mk \in Key /\ mk \in Nat
    BY <1>2, <1>3, ItemType
  <2>2. mk \in KeysIn(t[p])
    BY <1>3 DEF KeysIn
  <2> QED
    BY <1>2, <2>1, <2>2
<1>11. (\A k \in sp[L] : k < mk /\ k \in Nat) /\ (\A k \in sp[R] : mk < k /\ k \in Nat)
  <2>1. ASSUME NEW k \in sp[L] PROVE k < mk /\ k \in Nat
    <3>1. k \in Nat /\ InGap(t[p], j, k)
      BY <1>5, <1>8, SizeAssumption
    <3>2. Between(t[p], j, k)
      BY <1>2, <1>3, <3>1, GapIs
    <3>3. j + 1 \in j + 1..P
      BY <1>3
    <3> QED
      BY <3>1, <3>2, <3>3 DEF Between
  <2>2. ASSUME NEW k \in sp[R] PROVE mk < k /\ k \in Nat
    <3>1. k \in Nat /\ InGap(t[p], j + 1, k)
      BY <1>6, <1>8, SizeAssumption
    <3>2. Between(t[p], j + 1, k)
      BY <1>2, <1>3, <3>1, GapIs
    <3>3. j + 1 \in 1..j + 1
      BY <1>3
    <3> QED
      BY <3>1, <3>2, <3>3 DEF Between
  <2> QED
    BY <2>1, <2>2
<1>12. /\ GoodNode(u[p]) /\ KeysIn(u[p]) = KeysIn(t[p]) \ {mk} /\ Len(u[p].items) = P - 1
       /\ \A y \in 0..j : Child(u[p], y) = Child(t[p], y)
       /\ \A y \in j + 1..P - 1 : Child(u[p], y) = Child(t[p], y + 1)
  BY <1>1, <1>2, OrderDeleted, DeletedOne
<1>13. \A k \in Nat :
         /\ \A y \in 0..j : InGap(t[p], y, k) => InGap(u[p], y, k)
         /\ k = mk => InGap(u[p], j, k)
         /\ \A y \in j + 1..P : InGap(t[p], y, k) => InGap(u[p], y - 1, k)
  BY <1>1, <1>2, GapDeleted
<1> HIDE DEF it, mk
<1>14. /\ GoodNode(u[L]) /\ KeysIn(u[L]) = KeysIn(t[L]) \cup {mk} \cup KeysIn(t[R])
       /\ Len(u[L].items) = (A + 1) + B
       /\ \A y \in 0..A : Child(u[L], y) = Child(t[L], y)
       /\ \A y \in 0..B : Child(u[L], (y + A) + 1) = Child(t[R], y)
  <2>1. (\A k \in KeysIn(t[L]) : k < it.key) /\ (\A k \in KeysIn(t[R]) : it.key < k)
    BY <1>8, <1>11 DEF mk
  <2>2. GoodNode(Catenated(t[L], it, t[R]))
        /\ KeysIn(Catenated(t[L], it, t[R])) = KeysIn(t[L]) \cup {it.key} \cup KeysIn(t[R])
    BY <1>8, <1>10, <2>1, OrderCatenated
  <2>3. Len(Catenated(t[L], it, t[R]).items) = (A + 1) + B
    BY <1>8, <1>10, CatenatedIs
  <2>4. /\ \A y \in 0..A : Child(Catenated(t[L], it, t[R]), y) = Child(t[L], y)
        /\ \A y \in 0..B : Child(Catenated(t[L], it, t[R]), (y + A) + 1) = Child(t[R], y)
    BY <1>8, <1>10, CatenatedChild
  <2> HIDE DEF A, B
  <2> QED
    BY <1>1, <2>2, <2>3, <2>4 DEF mk
<1>15. \A k :
         /\ \A y \in 0..A : InGap(t[L], y, k) /\ k < mk => InGap(u[L], y, k)
         /\ \A y \in 0..B : InGap(t[R], y, k) /\ mk < k => InGap(u[L], (y + A) + 1, k)
  <2>1. ASSUME NEW k
        PROVE  /\ \A y \in 0..A :
                    InGap(t[L], y, k) /\ k < it.key => InGap(Catenated(t[L], it, t[R]), y, k)
               /\ \A y \in 0..B :
                    InGap(t[R], y, k) /\ it.key < k
                      => InGap(Catenated(t[L], it, t[R]), (y + A) + 1, k)
    BY <1>8, <1>10, GapCatenated
  <2> HIDE DEF A, B
  <2> QED
    BY <1>1, <2>1 DEF mk
<1>16. /\ sp2[L] = sp[L] \cup sp[R] \cup {mk}
       /\ \A x \in DOMAIN u : x # L => sp2[x] = sp[x]
       /\ \A x \in DOMAIN u : up2[x] = IF up[x] = R THEN L ELSE up[x]
       /\ L \in DOMAIN u /\ p \in DOMAIN u
  BY <1>1, <1>5, <1>7, <1>9
<1> HIDE DEF L, R, P, A, B, up2, sp2
<1>17. ASSUME NEW x \in DOMAIN u PROVE Leveled(u, r, lv, sp2, x)
  <2>0. Leveled(t, r, lv, sp, x)
    BY <1>1, <1>17 DEF Shape
  <2>1. CASE x = p
    BY <1>9, <1>12, <1>16, <2>0, <2>1 DEF Leveled
  <2>2. CASE x = L
    <3>1. KeysIn(u[L]) \subseteq sp2[L] /\ sp2[L] \subseteq Key
      BY <1>8, <1>10, <1>14, <1>16
    <3> QED
      BY <1>14, <2>0, <2>2, <3>1 DEF Leveled
  <2>3. CASE x # p /\ x # L
    BY <1>1, <1>16, <2>0, <2>3 DEF Leveled
  <2> QED
    BY <2>1, <2>2, <2>3
(* What stays of a child that is neither of the two.                        *)
<1>18. ASSUME NEW x \in DOMAIN t, NEW i \in 0..Len(t[x].items), lv[x] # 1,
              Child(t[x], i) # L, Child(t[x], i) # R
       PROVE  /\ Child(t[x], i) \in DOMAIN u /\ Child(t[x], i) # r
              /\ lv[Child(t[x], i)] = lv[x] - 1
              /\ up2[Child(t[x], i)] = IF x = R THEN L ELSE x
              /\ \A k \in sp2[Child(t[x], i)] : k \in sp[x] /\ k \in Nat /\ InGap(t[x], i, k)
  <2>1. /\ Child(t[x], i) \in DOMAIN t /\ Child(t[x], i) # r
        /\ lv[Child(t[x], i)] = lv[x] - 1 /\ up[Child(t[x], i)] = x
        /\ \A k \in sp[Child(t[x], i)] : k \in sp[x] /\ InGap(t[x], i, k)
    BY <1>18, InnerFacts
  <2>2. \A k \in sp[Child(t[x], i)] : k \in Nat
    BY <2>1, BlockFacts
  <2> QED
    BY <1>1, <1>16, <1>18, <2>1, <2>2
<1>19. Linked(u, r, lv, up2, sp2, p)
  <2> DEFINE Old(y) == IF y <= j THEN y ELSE y + 1
  <2>1. ASSUME NEW y \in 0..P - 1
        PROVE  /\ Old(y) \in 0..P /\ Child(u[p], y) = Child(t[p], Old(y)) /\ Old(y) # j + 1
               /\ \A k \in Nat : InGap(t[p], Old(y), k) => InGap(u[p], y, k)
    <3>1. CASE y <= j
      <4>1. y \in 0..j /\ y \in 0..P
        BY <1>2, <1>3, <3>1
      <4> QED
        BY <1>3, <1>12, <1>13, <3>1, <4>1
    <3>2. CASE ~(y <= j)
      <4>1. y \in j + 1..P - 1 /\ y + 1 \in j + 1..P /\ y + 1 \in 0..P /\ (y + 1) - 1 = y /\ y + 1 # j + 1
        BY <1>2, <1>3, <3>2
      <4>2. Child(u[p], y) = Child(t[p], y + 1)
        BY <1>12, <4>1
      <4>3. \A k \in Nat : InGap(t[p], y + 1, k) => InGap(u[p], (y + 1) - 1, k)
        BY <1>13, <4>1
      <4> QED
        BY <3>2, <4>1, <4>2, <4>3
    <3> QED
      BY <3>1, <3>2
  <2>2. ASSUME NEW y \in 0..P - 1, NEW z \in 0..P - 1, y # z PROVE Old(y) # Old(z)
    BY <1>2, <1>3, <2>2
  <2>3. \A y \in 0..P - 1 : y = j \/ Old(y) # j
    BY <1>2, <1>3
  <2>4. Old(j) = j /\ j \in 0..P - 1
    BY <1>1, <1>3
  <2> HIDE DEF Old
  <2>5. sp2[p] = sp[p]
    BY <1>9, <1>16
  <2>6. ASSUME NEW y \in 0..P - 1
        PROVE  /\ Child(u[p], y) \in DOMAIN u /\ Child(u[p], y) # r
               /\ lv[Child(u[p], y)] = lv[p] - 1 /\ up2[Child(u[p], y)] = p
               /\ \A k \in sp2[Child(u[p], y)] : k \in sp2[p] /\ InGap(u[p], y, k)
    <3>1. CASE y = j
      <4>1. Child(u[p], y) = L
        BY <2>1, <2>4, <3>1 DEF L
      <4>2. \A k \in Nat : InGap(t[p], j, k) \/ k = mk => InGap(u[p], j, k)
        BY <1>13, <2>1, <2>4, <3>1
      <4>3. \A k \in Nat : InGap(t[p], j + 1, k) => InGap(u[p], j, k)
        <5>1. j + 1 \in j + 1..P /\ (j + 1) - 1 = j
          BY <1>3
        <5>2. \A k \in Nat : InGap(t[p], j + 1, k) => InGap(u[p], (j + 1) - 1, k)
          BY <1>13, <5>1
        <5> QED
          BY <5>1, <5>2
      <4>4. ASSUME NEW k \in sp2[L] PROVE k \in sp[p] /\ InGap(u[p], j, k)
        <5>1. k \in sp[L] \/ k \in sp[R] \/ k = mk
          BY <1>16
        <5> QED
          BY <1>5, <1>6, <1>10, <1>11, <4>2, <4>3, <5>1
      <4>5. up2[L] = p
        BY <1>5, <1>9, <1>16
      <4> QED
        BY <1>5, <1>16, <2>5, <3>1, <4>1, <4>4, <4>5
    <3>2. CASE y # j
      <4>1. Old(y) \in 0..P /\ Old(y) # j /\ Old(y) # j + 1
        BY <2>1, <2>3, <3>2
      <4>2. Child(t[p], Old(y)) # L /\ Child(t[p], Old(y)) # R
        BY <1>5, <1>6, <4>1
      <4>3. /\ Child(t[p], Old(y)) \in DOMAIN u /\ Child(t[p], Old(y)) # r
            /\ lv[Child(t[p], Old(y))] = lv[p] - 1
            /\ up2[Child(t[p], Old(y))] = IF p = R THEN L ELSE p
            /\ \A k \in sp2[Child(t[p], Old(y))] : k \in sp[p] /\ k \in Nat /\ InGap(t[p], Old(y), k)
        BY <1>1, <1>4, <1>18, <4>1, <4>2 DEF P
      <4> QED
        BY <1>9, <2>1, <2>5, <4>3
    <3> QED
      BY <3>1, <3>2
  <2>7. ASSUME NEW y \in 0..P - 1, NEW z \in 0..P - 1, y # z
        PROVE  Child(u[p], y) # Child(u[p], z)
    <3>1. Old(y) \in 0..P /\ Old(z) \in 0..P /\ Old(y) # Old(z)
      BY <2>1, <2>2, <2>7
    <3>2. Child(t[p], Old(y)) # Child(t[p], Old(z))
      BY <1>1, <1>4, <3>1, InnerFacts DEF P
    <3> QED
      BY <2>1, <3>2
  <2> QED
    BY <1>4, <1>12, <2>6, <2>7 DEF Linked
<1>20. Linked(u, r, lv, up2, sp2, L)
  <2> DEFINE In(y) == IF y <= A THEN L ELSE R
             Old(y) == IF y <= A THEN y ELSE (y - A) - 1
  <2>1. ASSUME NEW y \in 0..(A + 1) + B
        PROVE  /\ In(y) \in DOMAIN t /\ In(y) \in {L, R}
               /\ Old(y) \in 0..Len(t[In(y)].items) /\ Child(u[L], y) = Child(t[In(y)], Old(y))
               /\ \A k \in sp[In(y)] : k \in sp2[L] /\ (InGap(t[In(y)], Old(y), k) => InGap(u[L], y, k))
    <3>1. CASE y <= A
      <4>1. y \in 0..A
        BY <1>8, <3>1
      <4> QED
        BY <1>5, <1>11, <1>14, <1>15, <1>16, <3>1, <4>1 DEF A
    <3>2. CASE ~(y <= A)
      <4> DEFINE z == (y - A) - 1
      <4>1. z \in 0..B /\ (z + A) + 1 = y
        BY <1>8, <3>2
      <4>a. In(y) = R /\ Old(y) = z
        BY <3>2
      <4> HIDE DEF z, In, Old
      <4>2. Child(u[L], y) = Child(t[R], z)
        BY <1>14, <4>1
      <4>3. \A k : InGap(t[R], z, k) /\ mk < k => InGap(u[L], y, k)
        BY <1>15, <4>1
      <4> QED
        BY <1>6, <1>11, <1>16, <4>a, <4>1, <4>2, <4>3 DEF B
    <3> QED
      BY <3>1, <3>2
  <2>2. ASSUME NEW y \in 0..(A + 1) + B, NEW z \in 0..(A + 1) + B, y # z
        PROVE  In(y) # In(z) \/ Old(y) # Old(z)
    BY <1>7, <1>8, <2>2
  <2> HIDE DEF In, Old
  <2>3. ASSUME lv[L] = 1, NEW y \in 0..(A + 1) + B PROVE Child(u[L], y) = 0
    <3>1. lv[In(y)] = 1
      BY <1>5, <1>6, <2>1, <2>3
    <3>2. Child(t[In(y)], Old(y)) = 0
      BY <2>1, <3>1, LeafIs
    <3> QED
      BY <2>1, <3>2
  <2>4. ASSUME lv[L] # 1, NEW y \in 0..(A + 1) + B
        PROVE  /\ Child(u[L], y) \in DOMAIN u /\ Child(u[L], y) # r
               /\ lv[Child(u[L], y)] = lv[L] - 1 /\ up2[Child(u[L], y)] = L
               /\ \A k \in sp2[Child(u[L], y)] : k \in sp2[L] /\ InGap(u[L], y, k)
    <3>1. lv[In(y)] # 1 /\ lv[In(y)] = lv[L]
      BY <1>5, <1>6, <2>1, <2>4
    <3>2. Child(t[In(y)], Old(y)) # L /\ Child(t[In(y)], Old(y)) # R
      <4>1. lv[Child(t[In(y)], Old(y))] = lv[L] - 1
        BY <2>1, <3>1, InnerFacts
      <4> QED
        BY <1>5, <1>6, <1>8, <4>1
    <3>3. /\ Child(t[In(y)], Old(y)) \in DOMAIN u /\ Child(t[In(y)], Old(y)) # r
          /\ lv[Child(t[In(y)], Old(y))] = lv[In(y)] - 1
          /\ up2[Child(t[In(y)], Old(y))] = IF In(y) = R THEN L ELSE In(y)
          /\ \A k \in sp2[Child(t[In(y)], Old(y))] :
               k \in sp[In(y)] /\ k \in Nat /\ InGap(t[In(y)], Old(y), k)
      BY <1>18, <2>1, <3>1, <3>2
    <3> QED
      BY <2>1, <3>1, <3>3
  <2>5. ASSUME lv[L] # 1, NEW y \in 0..(A + 1) + B, NEW z \in 0..(A + 1) + B, y # z
        PROVE  Child(u[L], y) # Child(u[L], z)
    <3>1. lv[In(y)] # 1 /\ lv[In(z)] # 1
      BY <1>5, <1>6, <2>1, <2>5
    <3>2. CASE In(y) = In(z)
      <4>1. Old(y) # Old(z) /\ Old(y) \in 0..Len(t[In(y)].items) /\ Old(z) \in 0..Len(t[In(y)].items)
        BY <2>1, <2>2, <2>5, <3>2
      <4>2. Child(t[In(y)], Old(y)) # Child(t[In(y)], Old(z))
        BY <2>1, <3>1, <4>1, InnerFacts
      <4> QED
        BY <2>1, <3>2, <4>2
    <3>3. CASE In(y) # In(z)
      <4>1. up[Child(t[In(y)], Old(y))] = In(y) /\ up[Child(t[In(z)], Old(z))] = In(z)
        BY <2>1, <3>1, InnerFacts
      <4> QED
        BY <2>1, <3>3, <4>1
    <3> QED
      BY <3>2, <3>3
  <2> QED
    BY <1>14, <2>3, <2>4, <2>5 DEF Linked
<1>21. ASSUME NEW x \in DOMAIN u, x # p, x # L PROVE Linked(u, r, lv, up2, sp2, x)
  <2>1. u[x] = t[x] /\ sp2[x] = sp[x] /\ x # R /\ x \in DOMAIN t
    BY <1>1, <1>16, <1>21
  <2>2. ASSUME NEW y \in 0..Len(t[x].items), lv[x] # 1
        PROVE  /\ Child(t[x], y) \in DOMAIN u /\ Child(t[x], y) # r
               /\ lv[Child(t[x], y)] = lv[x] - 1 /\ up2[Child(t[x], y)] = x
               /\ \A k \in sp2[Child(t[x], y)] : k \in sp[x] /\ InGap(t[x], y, k)
    <3>1. Child(t[x], y) # L /\ Child(t[x], y) # R
      <4>1. up[Child(t[x], y)] = x
        BY <2>1, <2>2, InnerFacts
      <4> QED
        BY <1>5, <1>6, <1>21, <4>1
    <3> QED
      BY <1>18, <2>1, <2>2, <3>1
  <2>3. Linked(t, r, lv, up, sp, x)
    BY <2>1 DEF Shape
  <2> QED
    BY <2>1, <2>2, <2>3 DEF Linked
<1>22. ASSUME NEW x \in DOMAIN u, x # r PROVE Owned(u, up2, x)
  <2>1. x \in DOMAIN t /\ x # R
    BY <1>1
  <2>2. PICK y \in 0..Len(t[up[x]].items) : up[x] \in DOMAIN t /\ Child(t[up[x]], y) = x
    <3>1. Owned(t, up, x)
      BY <1>22, <2>1 DEF Shape
    <3> QED
      BY <3>1 DEF Owned
  <2>3. CASE up[x] = p
    <3>1. up2[x] = p /\ y \in 0..P /\ Child(t[p], y) = x /\ y # j + 1
      BY <1>9, <1>16, <2>1, <2>2, <2>3 DEF P, R
    <3>2. CASE y <= j
      <4>1. y \in 0..j /\ y \in 0..P - 1
        BY <1>2, <1>3, <3>1, <3>2
      <4>2. Child(u[p], y) = x
        BY <1>12, <3>1, <4>1
      <4> QED
        BY <1>12, <1>16, <3>1, <4>1, <4>2 DEF Owned
    <3>3. CASE ~(y <= j)
      <4>1. y - 1 \in j + 1..P - 1 /\ y - 1 \in 0..P - 1 /\ (y - 1) + 1 = y
        BY <1>2, <1>3, <3>1, <3>3
      <4>2. Child(u[p], y - 1) = Child(t[p], (y - 1) + 1)
        BY <1>12, <4>1
      <4>3. Child(u[p], y - 1) = x
        BY <3>1, <4>1, <4>2
      <4> QED
        BY <1>12, <1>16, <3>1, <4>1, <4>3 DEF Owned
    <3> QED
      BY <3>2, <3>3
  <2>4. CASE up[x] = L
    <3>1. up2[x] = L /\ y \in 0..A /\ Child(t[L], y) = x
      BY <1>7, <1>16, <2>2, <2>4 DEF A
    <3>2. y \in 0..(A + 1) + B /\ Child(u[L], y) = x
      BY <1>8, <1>14, <3>1
    <3> QED
      BY <1>14, <1>16, <3>1, <3>2 DEF Owned
  <2>5. CASE up[x] = R
    <3>1. up2[x] = L /\ y \in 0..B /\ Child(t[R], y) = x
      BY <1>16, <2>2, <2>5 DEF B
    <3>2. (y + A) + 1 \in 0..(A + 1) + B
      BY <1>8, <3>1
    <3>3. Child(u[L], (y + A) + 1) = x
      BY <1>14, <3>1
    <3> QED
      BY <1>14, <1>16, <3>1, <3>2, <3>3 DEF Owned
  <2>6. CASE up[x] # p /\ up[x] # L /\ up[x] # R
    <3>1. up2[x] = up[x] /\ up[x] \in DOMAIN u /\ u[up[x]] = t[up[x]]
      BY <1>1, <1>16, <2>2, <2>6
    <3> QED
      BY <2>2, <3>1 DEF Owned
  <2> QED
    BY <2>3, <2>4, <2>5, <2>6
<1>23. Shape(u, r, lv, up2, sp2)
  <2>1. IsFiniteSet(DOMAIN u) /\ DOMAIN u \subseteq Block
    <3>1. IsFiniteSet(DOMAIN t) /\ DOMAIN t \subseteq Block
      BY DEF Shape
    <3>2. IsFiniteSet(DOMAIN t \ {R})
      BY <3>1, FS_RemoveElement
    <3> QED
      BY <1>1, <3>1, <3>2
  <2>2. r \in DOMAIN u
    BY <1>1, <1>2, <1>6
  <2>3. \A x \in DOMAIN u : Linked(u, r, lv, up2, sp2, x)
    BY <1>19, <1>20, <1>21
  <2> QED
    BY <1>17, <1>22, <2>1, <2>2, <2>3 DEF Shape
<1>24. ASSUME NEW k PROVE k \in Contents(u) <=> k \in Contents(t)
  <2>1. k \in Contents(u) <=> \E x \in DOMAIN u : k \in KeysIn(u[x])
    BY InContents
  <2>2. k \in Contents(t) <=> \E x \in DOMAIN t : k \in KeysIn(t[x])
    BY InContents
  <2>3. ASSUME NEW x \in DOMAIN u, k \in KeysIn(u[x]) PROVE \E y \in DOMAIN t : k \in KeysIn(t[y])
    <3>1. CASE x = L
      BY <1>1, <1>5, <1>6, <1>10, <1>14, <2>3, <3>1
    <3>2. CASE x = p
      BY <1>1, <1>12, <2>3, <3>2
    <3>3. CASE x # L /\ x # p
      BY <1>1, <2>3, <3>3
    <3> QED
      BY <3>1, <3>2, <3>3
  <2>4. ASSUME NEW x \in DOMAIN t, k \in KeysIn(t[x]) PROVE \E y \in DOMAIN u : k \in KeysIn(u[y])
    <3>1. CASE x = L \/ x = R \/ k = mk
      BY <1>14, <1>16, <2>4, <3>1
    <3>2. CASE x = p /\ k # mk
      BY <1>12, <1>16, <2>4, <3>2
    <3>3. CASE x # L /\ x # p /\ x # R
      BY <1>1, <2>4, <3>3
    <3> QED
      BY <3>1, <3>2, <3>3
  <2> QED
    BY <2>1, <2>2, <2>3, <2>4
<1> QED
  BY <1>23, <1>24 DEF Formed

(* The key of item i of f gives way to the one that follows it.             *)
AsRekeyed(t, u, f, i, s) ==
  /\ f \in DOMAIN t /\ DOMAIN u = DOMAIN t /\ u[f] = Rekeyed(t[f], i, s)
  /\ \A x \in DOMAIN t : x # f => u[x] = t[x]

Follows(t, j, s) == j < s /\ \A k \in Contents(t) : k <= j \/ s < k

Rekeys(t, u, f, i, s, sp) ==
  /\ f \in DOMAIN t /\ i \in 1..Len(t[f].items) /\ s \in sp[f]
  /\ AsRekeyed(t, u, f, i, s) /\ Follows(t, t[f].items[i].key, s)

LEMMA RekeyShape ==
  ASSUME NEW t, NEW r, NEW lv, NEW up, NEW sp, Shape(t, r, lv, up, sp),
         NEW u, NEW f, NEW i, NEW s, Rekeys(t, u, f, i, s, sp)
  PROVE  Formed(u, r) /\ \A k : k \in Contents(u) <=> (k \in Contents(t) /\ k # t[f].items[i].key) \/ k = s
<1>0. /\ f \in DOMAIN t /\ i \in 1..Len(t[f].items) /\ s \in sp[f]
      /\ AsRekeyed(t, u, f, i, s) /\ Follows(t, t[f].items[i].key, s)
  BY DEF Rekeys
<1> USE <1>0
<1> DEFINE F == Len(t[f].items)
           old == t[f].items[i].key
           sp2 == [x \in DOMAIN t |-> IF lv[x] < lv[f] THEN {k \in sp[x] : k < old \/ s < k} ELSE sp[x]]
<1>1. DOMAIN u = DOMAIN t /\ u[f] = Rekeyed(t[f], i, s) /\ \A x \in DOMAIN t : x # f => u[x] = t[x]
  BY DEF AsRekeyed
<1>2. /\ GoodNode(t[f]) /\ t[f] \in Node /\ F \in Nat /\ KeysIn(t[f]) \subseteq sp[f] /\ sp[f] \subseteq Key
      /\ lv[f] \in Nat \ {0} /\ s \in Key /\ s \in Nat
  BY BlockFacts
<1>3. /\ \A y \in 1..F : t[f].items[y].key \in KeysIn(t[f]) /\ t[f].items[y].key \in Nat
      /\ old \in KeysIn(t[f]) /\ old \in Nat /\ i \in Nat
  BY <1>2, NodeKeys DEF KeysIn
<1>4. /\ \A x \in DOMAIN t : KeysIn(t[x]) \subseteq Contents(t)
      /\ \A x \in DOMAIN t : \A k \in KeysIn(t[x]) : k \in Nat /\ (k <= old \/ s < k)
      /\ old < s
  <2>1. \A x \in DOMAIN t : \A k \in KeysIn(t[x]) : k \in Contents(t) /\ k \in Nat
    BY InContents, BlockFacts
  <2> QED
    BY <2>1 DEF Follows
<1>5. (\A y \in 1..i - 1 : t[f].items[y].key < s) /\ (\A y \in i + 1..F : s < t[f].items[y].key)
  <2>1. ASSUME NEW y \in 1..i - 1 PROVE t[f].items[y].key < s
    <3>1. y \in 1..F /\ y < i
      BY <1>2, <1>3
    <3>2. t[f].items[y].key < old
      BY <1>2, <3>1, NodeKeys
    <3> QED
      BY <1>2, <1>3, <1>4, <3>1, <3>2
  <2>2. ASSUME NEW y \in i + 1..F PROVE s < t[f].items[y].key
    <3>1. y \in 1..F /\ i < y
      BY <1>2, <1>3
    <3>2. old < t[f].items[y].key
      BY <1>2, <3>1, NodeKeys
    <3> QED
      BY <1>2, <1>3, <1>4, <3>1, <3>2
  <2> QED
    BY <2>1, <2>2
<1>6. /\ GoodNode(u[f]) /\ KeysIn(u[f]) = (KeysIn(t[f]) \ {old}) \cup {s}
      /\ Len(u[f].items) = F /\ \A y \in 0..F : Child(u[f], y) = Child(t[f], y)
  <2>1. GoodNode(Rekeyed(t[f], i, s)) /\ KeysIn(Rekeyed(t[f], i, s)) = (KeysIn(t[f]) \ {old}) \cup {s}
    BY <1>2, <1>5, OrderRekeyed
  <2>2. /\ Len(Rekeyed(t[f], i, s).items) = F
        /\ \A y \in 0..F : Child(Rekeyed(t[f], i, s), y) = Child(t[f], y)
    BY <1>2, RekeyedIs
  <2> QED
    BY <1>1, <2>1, <2>2
<1>7. \A k \in Nat : \A y \in 0..F : InGap(t[f], y, k) /\ (k < old \/ s < k) => InGap(u[f], y, k)
  <2>1. ASSUME NEW k \in Nat, NEW y \in 0..F, InGap(t[f], y, k), k < old \/ s < k PROVE InGap(u[f], y, k)
    <3>0. /\ y # i /\ y # i - 1 => InGap(u[f], y, k)
          /\ InGap(t[f], i, k) /\ s < k => InGap(u[f], i, k)
          /\ InGap(t[f], i - 1, k) /\ k < s => InGap(u[f], i - 1, k)
      <4>1. /\ \A z \in 0..Len(t[f].items) :
                 z # i /\ z # i - 1 /\ InGap(t[f], z, k) => InGap(Rekeyed(t[f], i, s), z, k)
            /\ InGap(t[f], i, k) /\ s < k => InGap(Rekeyed(t[f], i, s), i, k)
            /\ InGap(t[f], i - 1, k) /\ k < s => InGap(Rekeyed(t[f], i, s), i - 1, k)
        BY <1>2, GapRekeyed
      <4> QED
        BY <1>1, <2>1, <4>1
    <3>1. CASE y = i
      <4>1. old < k
        BY <1>3, <2>1, <3>1 DEF InGap
      <4> QED
        BY <1>2, <1>3, <2>1, <3>0, <3>1, <4>1
    <3>2. CASE y = i - 1
      <4>1. k < old
        <5>1. y < Len(t[f].items) /\ y + 1 = i
          BY <1>2, <1>3, <3>2
        <5>2. k < t[f].items[y + 1].key
          BY <2>1, <5>1 DEF InGap
        <5> QED
          BY <5>1, <5>2
      <4> QED
        BY <1>2, <1>3, <1>4, <2>1, <3>0, <3>2, <4>1
    <3> QED
      BY <3>0, <3>1, <3>2
  <2> QED
    BY <2>1
<1>8. /\ \A x \in DOMAIN t : ~(lv[x] < lv[f]) => sp2[x] = sp[x]
      /\ \A x \in DOMAIN t : lv[x] < lv[f] => sp2[x] = {k \in sp[x] : k < old \/ s < k}
      /\ \A x \in DOMAIN t : sp2[x] \subseteq sp[x]
      /\ sp2[f] = sp[f]
  <2>1. ~(lv[f] < lv[f])
    BY <1>2
  <2> QED
    BY <2>1
<1> HIDE DEF F, old, sp2
<1>9. ASSUME NEW x \in DOMAIN t PROVE Leveled(u, r, lv, sp2, x)
  <2>1. Leveled(t, r, lv, sp, x)
    BY DEF Shape
  <2>2. CASE x = f
    <3>1. KeysIn(u[f]) \subseteq sp2[f]
      BY <1>2, <1>6, <1>8
    <3> QED
      BY <1>2, <1>6, <1>8, <2>1, <2>2, <3>1 DEF Leveled
  <2>3. CASE x # f
    <3>1. KeysIn(t[x]) \cap KeysIn(t[f]) = {} /\ KeysIn(t[x]) \subseteq sp[x]
      BY <2>3, KeysApart, BlockFacts
    <3>2. \A k \in KeysIn(t[x]) : k < old \/ s < k
      BY <1>3, <1>4, <3>1
    <3>3. KeysIn(t[x]) \subseteq sp2[x]
      BY <1>8, <3>1, <3>2
    <3> QED
      BY <1>1, <1>8, <2>1, <2>3, <3>3 DEF Leveled
  <2> QED
    BY <2>2, <2>3
<1>10. ASSUME NEW x \in DOMAIN t PROVE Linked(u, r, lv, up, sp2, x)
  <2>1. Linked(t, r, lv, up, sp, x) /\ lv[x] \in Nat
    <3>1. lv[x] \in Nat
      BY BlockFacts
    <3> QED
      BY <3>1 DEF Shape
  <2>2. Len(u[x].items) = Len(t[x].items) /\ \A y \in 0..Len(t[x].items) : Child(u[x], y) = Child(t[x], y)
    BY <1>1, <1>6 DEF F
  <2>3. ASSUME NEW y \in 0..Len(t[x].items), lv[x] # 1, NEW k \in sp2[Child(t[x], y)]
        PROVE  k \in sp2[x] /\ InGap(u[x], y, k)
    <3>1. /\ Child(t[x], y) \in DOMAIN t /\ lv[Child(t[x], y)] = lv[x] - 1
          /\ \A j \in sp[Child(t[x], y)] : j \in sp[x] /\ InGap(t[x], y, j)
      BY <2>3, InnerFacts
    <3>2. k \in sp[Child(t[x], y)] /\ k \in sp[x] /\ InGap(t[x], y, k) /\ k \in Nat
      <4>1. k \in sp[Child(t[x], y)] /\ k \in sp[x] /\ InGap(t[x], y, k)
        BY <1>8, <2>3, <3>1
      <4> QED
        BY <4>1, BlockFacts
    <3>3. lv[Child(t[x], y)] < lv[f] => k < old \/ s < k
      BY <1>8, <2>3, <3>1
    <3>4. lv[x] < lv[f] => lv[Child(t[x], y)] < lv[f]
      BY <1>2, <2>1, <3>1
    <3>5. k \in sp2[x]
      BY <1>8, <3>2, <3>3, <3>4
    <3>6. CASE x = f
      <4>1. k < old \/ s < k
        BY <1>2, <2>1, <3>1, <3>3, <3>6
      <4> QED
        BY <1>7, <2>3, <3>2, <3>5, <3>6, <4>1 DEF F
    <3>7. CASE x # f
      BY <1>1, <3>2, <3>5, <3>7
    <3> QED
      BY <3>6, <3>7
  <2> QED
    BY <1>1, <2>1, <2>2, <2>3 DEF Linked
<1>11. ASSUME NEW x \in DOMAIN t, x # r PROVE Owned(u, up, x)
  <2>1. Owned(t, up, x)
    BY <1>11 DEF Shape
  <2>2. PICK y \in 0..Len(t[up[x]].items) : up[x] \in DOMAIN t /\ Child(t[up[x]], y) = x
    BY <2>1 DEF Owned
  <2>3. Len(u[up[x]].items) = Len(t[up[x]].items) /\ Child(u[up[x]], y) = x
    BY <1>1, <1>6, <2>2 DEF F
  <2> QED
    BY <1>1, <2>2, <2>3 DEF Owned
<1>12. Shape(u, r, lv, up, sp2)
  BY <1>1, <1>9, <1>10, <1>11 DEF Shape
<1>13. ASSUME NEW k PROVE k \in Contents(u) <=> (k \in Contents(t) /\ k # old) \/ k = s
  <2>1. k \in Contents(u) <=> \E x \in DOMAIN u : k \in KeysIn(u[x])
    BY InContents
  <2>2. k \in Contents(t) <=> \E x \in DOMAIN t : k \in KeysIn(t[x])
    BY InContents
  <2>3. \A x \in DOMAIN t : x # f => old \notin KeysIn(t[x])
    BY <1>3, KeysApart
  <2>4. k = s => k # old
    BY <1>2, <1>3, <1>4
  <2> QED
    BY <1>1, <1>6, <2>1, <2>2, <2>3, <2>4
<1> QED
  BY <1>12, <1>13 DEF Formed, old

LEMMA Rekey ==
  ASSUME NEW t, NEW r, Formed(t, r), NEW p, Way(t, r, p), NEW n \in 1..Len(p),
         NEW i \in 1..Len(t[p[n].block].items), NEW j, j = t[p[n].block].items[i].key,
         \A m \in 1..n - 1 : InGap(t[p[m].block], p[m].place, j),
         NEW s \in Key, Follows(t, j, s), NEW u, AsRekeyed(t, u, p[n].block, i, s)
  PROVE  Formed(u, r) /\ \A k : k \in Contents(u) <=> (k \in Contents(t) /\ k # j) \/ k = s
<1>1. PICK lv, up, sp : Shape(t, r, lv, up, sp)
  BY DEF Formed
<1>2. ASSUME NEW m \in 1..n - 1 PROVE InGap(t[p[m].block], p[m].place, s)
  <2>1. m \in 1..Len(p) /\ p[m].block \in DOMAIN t /\ p[m].place \in 0..Len(t[p[m].block].items)
    <3>1. Len(p) \in Nat /\ m \in 1..Len(p)
      BY <1>1, WayFacts
    <3> QED
      BY <1>1, <3>1, WayFacts
  <2> DEFINE a == t[p[m].block]
             g == p[m].place
  <2>2. GoodNode(a) /\ a \in Node /\ Len(a.items) \in Nat /\ g \in Nat
    BY <1>1, <2>1, BlockFacts
  <2>3. InGap(a, g, j)
    OBVIOUS
  <2>4. p[n].block \in DOMAIN t /\ GoodNode(t[p[n].block])
    BY <1>1, WayFacts, BlockFacts
  <2>5. s \in Nat /\ j \in Nat /\ j < s
    <3>1. j \in Nat /\ s \in Nat
      BY <2>4, NodeKeys, SizeAssumption
    <3> QED
      BY <3>1 DEF Follows
  <2>6. \A y \in 1..Len(a.items) : a.items[y].key \in Nat /\ (a.items[y].key <= j \/ s < a.items[y].key)
    <3>1. \A y \in 1..Len(a.items) : a.items[y].key \in Nat /\ a.items[y].key \in KeysIn(a)
      BY <2>2, NodeKeys DEF KeysIn
    <3>2. KeysIn(a) \subseteq Contents(t)
      BY <2>1, InContents
    <3> QED
      BY <3>1, <3>2 DEF Follows
  <2> HIDE DEF a, g
  <2>7. g \in 0..Len(a.items)
    BY <2>1 DEF a, g
  <2>8. g > 0 => a.items[g].key < s
    <3>1. ASSUME g > 0 PROVE a.items[g].key < s
      <4>1. g \in 1..Len(a.items) /\ a.items[g].key < j
        <5>1. Len(a.items) \in Nat
          BY <2>2, NodeKeys
        <5>2. g \in 1..Len(a.items)
          BY ONLY <2>7, <3>1, <5>1
        <5> QED
          BY ONLY <2>3, <3>1, <5>2 DEF InGap
      <4> QED
        BY <2>5, <2>6, <4>1
    <3> QED
      BY <3>1
  <2>9. g < Len(a.items) => s < a.items[g + 1].key
    <3>1. ASSUME g < Len(a.items) PROVE s < a.items[g + 1].key
      <4>1. g + 1 \in 1..Len(a.items) /\ j < a.items[g + 1].key
        <5>1. Len(a.items) \in Nat
          BY <2>2, NodeKeys
        <5>2. g + 1 \in 1..Len(a.items)
          BY ONLY <2>7, <3>1, <5>1
        <5> QED
          BY ONLY <2>3, <3>1, <5>2 DEF InGap
      <4> QED
        BY <2>5, <2>6, <4>1, SMTT(20)
    <3> QED
      BY <3>1
  <2> QED
    BY <2>8, <2>9 DEF InGap, a, g
<1> DEFINE s2 == Widened(t, sp, p, n, s)
<1>3. Shape(t, r, lv, up, s2) /\ \A m \in 1..n : s \in s2[p[m].block]
  BY <1>1, <1>2, Widen
<1>4. s \in s2[p[n].block] /\ p[n].block \in DOMAIN t
  <2>1. n \in 1..n
    BY <1>1, WayFacts
  <2> QED
    BY <1>1, <1>3, <2>1, WayFacts
<1> HIDE DEF s2
<1> DEFINE f == p[n].block
<1>5. /\ f \in DOMAIN t /\ i \in 1..Len(t[f].items) /\ s \in s2[f]
      /\ AsRekeyed(t, u, f, i, s) /\ Follows(t, t[f].items[i].key, s) /\ j = t[f].items[i].key
  BY <1>4
<1> HIDE DEF f
<1>6. Rekeys(t, u, f, i, s, s2)
  BY <1>5 DEF Rekeys
<1>7. Formed(u, r) /\ \A k : k \in Contents(u) <=> (k \in Contents(t) /\ k # t[f].items[i].key) \/ k = s
  BY <1>3, <1>6, RekeyShape
<1> QED
  BY <1>5, <1>7

-----------------------------------------------------------------------------
(* Blocks and what the function for a node leaves in them.                  *)
LEMMA PutIs ==
  ASSUME NEW t, NEW b, NEW n
  PROVE  /\ DOMAIN Put(t, b, n) = DOMAIN t \cup {b} /\ Put(t, b, n)[b] = n
         /\ \A x \in DOMAIN t : x # b => Put(t, b, n)[x] = t[x]
BY DEF Put

LEMMA DropIs ==
  ASSUME NEW t, NEW b
  PROVE  /\ DOMAIN Drop(t, b) = DOMAIN t \ {b}
         /\ \A x \in DOMAIN t : x # b => Drop(t, b)[x] = t[x]
BY DEF Drop

LEMMA FreshIs ==
  ASSUME NEW t, IsFiniteSet(DOMAIN t)
  PROVE  Fresh(t) \in Block /\ Fresh(t) \notin DOMAIN t
<1> DEFINE C == Cardinality(DOMAIN t)
           S == {b \in 1..C + 1 : b \notin DOMAIN t}
<1>1. C \in Nat
  BY FS_CardinalityType
<1> HIDE DEF C
<1>2. S # {}
  <2> SUFFICES ASSUME S = {} PROVE FALSE
    OBVIOUS
  <2>1. 1..C + 1 \subseteq DOMAIN t
    OBVIOUS
  <2>2. Cardinality(1..C + 1) <= C
    BY <2>1, FS_Subset DEF C
  <2>3. Cardinality(1..C + 1) = C + 1
    <3>1. 1 \in Int /\ C + 1 \in Int /\ ~(1 > C + 1) /\ ((C + 1) - 1) + 1 = C + 1
      BY <1>1
    <3>2. Cardinality(1..C + 1) = ((C + 1) - 1) + 1
      BY <3>1, FS_Interval
    <3> QED
      BY <3>1, <3>2
  <2> QED
    BY <1>1, <2>2, <2>3
<1>3. S \in SUBSET Nat
  BY <1>1
<1>4. PICK m \in S : \A x \in S : m <= x
  <2> HIDE DEF S
  <2> QED
    BY <1>2, <1>3, MinIn
<1>5. \A c \in 1..m - 1 : c \in DOMAIN t
  <2>1. ASSUME NEW c \in 1..m - 1 PROVE c \in DOMAIN t
    <3>1. c \in 1..C + 1 /\ ~(m <= c)
      BY <1>1, <1>4
    <3> QED
      BY <1>4, <3>1
  <2> QED
    BY <2>1
<1>6. \E b \in 1..C + 1 : b \notin DOMAIN t /\ \A c \in 1..b - 1 : c \in DOMAIN t
  BY <1>4, <1>5
<1>7. Fresh(t) \in 1..C + 1 /\ Fresh(t) \notin DOMAIN t
  BY <1>6 DEF Fresh, C
<1> QED
  BY <1>1, <1>7 DEF Block

LEMMA UniformIn ==
  ASSUME NEW t, NEW r, Formed(t, r), NEW b \in DOMAIN t
  PROVE  GoodNode(t[b]) /\ Uniform(t[b])
<1>1. PICK lv, up, sp : Shape(t, r, lv, up, sp)
  BY DEF Formed
<1>2. GoodNode(t[b]) /\ Len(t[b].items) \in Nat
  BY <1>1, BlockFacts
<1>3. ASSUME NEW i \in 1..Len(t[b].items) PROVE (t[b].items[i].child = 0) <=> (t[b].next0 = 0)
  <2>1. i \in 0..Len(t[b].items) /\ i # 0
    BY <1>2
  <2>2. lv[b] = 1 <=> Child(t[b], i) = 0
    BY <1>1, <2>1, LeafIs
  <2>3. lv[b] = 1 <=> t[b].next0 = 0
    BY <1>1, LeafIs
  <2> QED
    BY <2>1, <2>2, <2>3 DEF Child
<1> QED
  BY <1>2, <1>3 DEF Uniform

(* What the limits on sizes have to do with each other.                     *)
LEMMA Limits ==
  /\ Capacity \in Nat /\ Link \in Nat \ {0} /\ MaxItem \in Nat /\ SplitPoint \in Nat
  /\ 4 * MaxItem + Link <= Capacity /\ 3 * MaxItem + 4 * Link <= Capacity
  /\ SplitPoint <= Capacity /\ 2 * SplitPoint <= Capacity + Link
  /\ MaxItem + 2 * Link <= SplitPoint
<1> DEFINE H == (Capacity - Link) \div 2
<1>1. Capacity \in Nat /\ Link \in Nat \ {0} /\ MaxItem \in Nat
      /\ 4 * MaxItem <= Capacity - Link /\ 3 * (MaxItem + Link) <= Capacity - Link
  BY SizeAssumption
<1>2. H \in Nat /\ 2 * H <= Capacity - Link /\ Capacity - Link <= 2 * H + 1
  BY <1>1
<1>3. SplitPoint = Link + H
  BY DEF SplitPoint
<1> HIDE DEF H
<1> QED
  BY <1>1, <1>2, <1>3

Fit(n) == Bytes(n) <= Capacity /\ Len(n.items) # 0

LEMMA SmallFits ==
  ASSUME NEW n, GoodNode(n)
  PROVE  /\ Bytes(n) \in Nat /\ (Len(n.items) = 0 => Underflows(n))
         /\ (Underflows(n) => Bytes(n) <= Capacity /\ Bytes(n) + MaxItem <= SplitPoint)
<1>1. Bytes(n) \in Nat /\ (Len(n.items) = 0 => Bytes(n) = LinkOf(n))
  <2>1. Len(n.items) \in Nat
    BY NodeKeys
  <2>2. Bytes(n) \in Nat
    BY <2>1, Offsets DEF Bytes
  <2> QED
    BY <2>2, Offsets DEF Bytes
<1>2. LinkOf(n) \in {0, Link}
  BY DEF LinkOf
<1> QED
  BY <1>1, <1>2, Limits DEF Underflows

Result(nodes, bk, it) == [nodes |-> nodes, back |-> bk, item |-> it, errors |-> {}]

Halved(u, b, e, c) == Put(Put(u, b, LeftOf(u[b], e)), c, RightOf(u[b], e))

SplitAt(u, b, e, c) ==
  /\ e \in 1..Len(u[b].items) - 2 /\ c \in Block /\ c \notin DOMAIN u
  /\ Bytes(LeftOf(u[b], e)) <= Capacity /\ Bytes(RightOf(u[b], e)) <= Capacity

(* The function for block b returns r, and the tree is u unless it is split *)
(* in b.                                                                    *)
Outcome(r, u, b) ==
  \/ r = Result(u, "fits", NoItem) /\ Fit(u[b])
  \/ r = Result(u, "small", NoItem) /\ Underflows(u[b])
  \/ \E e, c : SplitAt(u, b, e, c)
               /\ r = Result(Halved(u, b, e, c), "split", [key |-> u[b].items[e + 1].key, child |-> c])

LEMMA KeptIs ==
  ASSUME NEW t, NEW b, NEW n
  PROVE  /\ Kept(t, b, n) = Result(Put(t, b, n), "fits", NoItem)
         /\ Small(t, b, n) = Result(Put(t, b, n), IF Underflows(n) THEN "small" ELSE "fits", NoItem)
BY DEF Kept, Small, Result

LEMMA PartedIs ==
  ASSUME NEW t, NEW b, NEW c, NEW n, GoodNode(n), Place(n) \in 1..Len(n.items) - 2, Split(n).errors = {},
         c \in Block
  PROVE  Parted(t, b, c, n) =
           Result(Put(Put(t, b, LeftOf(n, Place(n))), c, RightOf(n, Place(n))), "split",
                  [key |-> n.items[Place(n) + 1].key, child |-> c])
<1> DEFINE e == Place(n)
<1>1. e + 1 \in 1..Len(n.items) /\ n \in Node
  BY NodeKeys
<1>2. n.items[e + 1] \in Item
  BY <1>1, ItemType
<1>3. [n.items[e + 1] EXCEPT !.child = c] = [key |-> n.items[e + 1].key, child |-> c]
  BY <1>2 DEF Item
<1>4. Split(n).left = LeftOf(n, e) /\ Split(n).item = n.items[e + 1] /\ Split(n).right = RightOf(n, e)
  BY DEF Split
<1> HIDE DEF e
<1>5. Parted(t, b, c, n) =
        [nodes |-> Put(Put(t, b, Split(n).left), c, Split(n).right), back |-> "split",
         item |-> [Split(n).item EXCEPT !.child = c], errors |-> Split(n).errors]
  BY DEF Parted, PartedAs
<1> QED
  BY <1>3, <1>4, <1>5 DEF Result, e

LEMMA NoErrors ==
  ASSUME NEW u, NEW bk, NEW it
  PROVE  /\ WithErrors(Result(u, bk, it), {}) = Result(u, bk, it)
         /\ Result(u, bk, it).nodes = u /\ Result(u, bk, it).back = bk
         /\ Result(u, bk, it).item = it /\ Result(u, bk, it).errors = {}
BY DEF WithErrors, Result

LEMMA StoredOutcome ==
  ASSUME NEW t, IsFiniteSet(DOMAIN t), NEW b \in DOMAIN t, NEW n, GoodNode(n), Uniform(n),
         Len(n.items) # 0, Bytes(n) + MaxItem + 1 <= 2 * Capacity
  PROVE  Outcome(Stored(t, b, n), Put(t, b, n), b)
<1> DEFINE u == Put(t, b, n)
           c == Fresh(t)
           e == Place(n)
<1>1. DOMAIN u = DOMAIN t /\ u[b] = n /\ \A x \in DOMAIN t : x # b => u[x] = t[x]
  BY DEF Put
<1>2. CASE Bytes(n) <= Capacity
  <2>1. Stored(t, b, n) = Result(u, "fits", NoItem)
    BY <1>2, KeptIs DEF Stored
  <2> HIDE DEF u
  <2> QED
    BY <1>1, <1>2, <2>1 DEF Outcome, Fit, u
<1>3. CASE ~(Bytes(n) <= Capacity)
  <2>1. Capacity < Bytes(n)
    BY <1>3, SmallFits, Limits
  <2>2. e \in 1..Len(n.items) - 2 /\ Split(n).errors = {} /\ Bytes(LeftOf(n, e)) <= Capacity
        /\ Bytes(RightOf(n, e)) <= Capacity
    BY <2>1, SplitFits
  <2>3. c \in Block /\ c \notin DOMAIN t
    BY FreshIs
  <2>4. Stored(t, b, n) =
          Result(Put(Put(t, b, LeftOf(n, e)), c, RightOf(n, e)), "split",
                 [key |-> n.items[e + 1].key, child |-> c])
    BY <1>3, <2>2, <2>3, PartedIs DEF Stored
  <2>5. Put(u, b, LeftOf(n, e)) = Put(t, b, LeftOf(n, e))
    BY <1>1 DEF Put
  <2> HIDE DEF u, c, e
  <2>6. SplitAt(u, b, e, c)
    BY <1>1, <2>2, <2>3 DEF SplitAt
  <2>7. Stored(t, b, n) = Result(Halved(u, b, e, c), "split", [key |-> u[b].items[e + 1].key, child |-> c])
    BY <1>1, <2>4, <2>5 DEF Halved
  <2>8. Outcome(Stored(t, b, n), u, b)
    BY <2>6, <2>7 DEF Outcome
  <2> QED
    BY <2>8 DEF u
<1> QED
  BY <1>2, <1>3

LEMMA SmallOutcome ==
  ASSUME NEW t, NEW b, NEW n, GoodNode(n), Bytes(n) <= Capacity
  PROVE  Outcome(Small(t, b, n), Put(t, b, n), b)
<1> DEFINE u == Put(t, b, n)
<1>1. u[b] = n
  BY DEF Put
<1>2. Small(t, b, n) = Result(u, IF Underflows(n) THEN "small" ELSE "fits", NoItem)
  BY KeptIs
<1> HIDE DEF u
<1>3. ~Underflows(n) => Fit(n)
  BY SmallFits DEF Fit
<1>4. Outcome(Small(t, b, n), u, b)
  BY <1>1, <1>2, <1>3 DEF Outcome
<1> QED
  BY <1>4 DEF u

LEMMA RestoredOutcome ==
  ASSUME NEW t, IsFiniteSet(DOMAIN t), NEW b \in DOMAIN t, NEW n, GoodNode(n), Uniform(n),
         Bytes(n) + MaxItem + 1 <= 2 * Capacity
  PROVE  Outcome(Restored(t, b, n), Put(t, b, n), b)
<1>1. CASE Bytes(n) <= Capacity
  BY <1>1, SmallOutcome DEF Restored
<1>2. CASE ~(Bytes(n) <= Capacity)
  <2>1. Len(n.items) # 0
    BY <1>2, SmallFits
  <2> QED
    BY <1>2, <2>1, StoredOutcome DEF Restored
<1> QED
  BY <1>1, <1>2

IsFunction(u) == u = [x \in DOMAIN u |-> u[x]]

(* Fitted splits a node that was too large for Small.                       *)
LEMMA FittedOutcome ==
  ASSUME NEW r, NEW u, IsFunction(u), NEW b \in DOMAIN u, IsFiniteSet(DOMAIN u), GoodNode(u[b]), Uniform(u[b]),
         Bytes(u[b]) + MaxItem + 1 <= 2 * Capacity,
         Outcome(r, u, b) \/ (\E bk : r = Result(u, bk, NoItem) /\ ~(Bytes(u[b]) <= Capacity))
  PROVE  Outcome(Fitted(r, b), u, b)
<1>1. CASE Outcome(r, u, b)
  <2>1. Bytes(r.nodes[b]) <= Capacity
    <3>1. CASE r = Result(u, "fits", NoItem) /\ Fit(u[b])
      BY <3>1, NoErrors DEF Fit
    <3>2. CASE r = Result(u, "small", NoItem) /\ Underflows(u[b])
      BY <3>2, NoErrors, SmallFits
    <3>3. CASE \E e, c : SplitAt(u, b, e, c)
                 /\ r = Result(Halved(u, b, e, c), "split", [key |-> u[b].items[e + 1].key, child |-> c])
      <4>1. PICK e, c : SplitAt(u, b, e, c)
                 /\ r = Result(Halved(u, b, e, c), "split", [key |-> u[b].items[e + 1].key, child |-> c])
        BY <3>3
      <4>2. r.nodes = Halved(u, b, e, c)
        BY <4>1, NoErrors
      <4>3. b # c /\ b \in DOMAIN Put(u, b, LeftOf(u[b], e))
        BY <4>1 DEF SplitAt, Put
      <4>4. Halved(u, b, e, c)[b] = LeftOf(u[b], e)
        BY <4>3 DEF Halved, Put
      <4> QED
        BY <4>1, <4>2, <4>4 DEF SplitAt
    <3> QED
      BY <1>1, <3>1, <3>2, <3>3 DEF Outcome
  <2> QED
    BY <1>1, <2>1 DEF Fitted
<1>2. CASE \E bk : r = Result(u, bk, NoItem) /\ ~(Bytes(u[b]) <= Capacity)
  <2>1. r.nodes = u /\ r.errors = {} /\ ~(Bytes(u[b]) <= Capacity)
    BY <1>2, NoErrors
  <2>2. Put(u, b, u[b]) = u
    <3>1. Put(u, b, u[b]) = [x \in DOMAIN u |-> u[x]]
      BY DEF Put
    <3> QED
      BY <3>1 DEF IsFunction
  <2>3. Len(u[b].items) # 0
    BY <2>1, SmallFits
  <2>4. Outcome(Stored(u, b, u[b]), u, b)
    BY <2>2, <2>3, StoredOutcome
  <2>5. Fitted(r, b) = WithErrors(Stored(u, b, u[b]), {})
    BY <2>1 DEF Fitted
  <2>6. WithErrors(Stored(u, b, u[b]), {}) = Stored(u, b, u[b])
    <3>1. \E nodes, bk, it : Stored(u, b, u[b]) = Result(nodes, bk, it)
      BY <2>4 DEF Outcome
    <3> QED
      BY <3>1, NoErrors
  <2> QED
    BY <2>4, <2>5, <2>6
<1> QED
  BY <1>1, <1>2

-----------------------------------------------------------------------------
(* handle_underflow with the children before and behind item j + 1 of n,    *)
(* the node of block b.                                                     *)
Pair(t, r, b, n, j) ==
  /\ Formed(Put(t, b, n), r) /\ b \in DOMAIN t
  /\ j \in 0..Len(n.items) - 1 /\ Child(n, j) # 0

Merger(t, n, j) == Catenated(t[Child(n, j)], n.items[j + 1], t[Child(n, j + 1)])

LEMMA PairFacts ==
  ASSUME NEW t, NEW r, NEW b, NEW n, NEW j, Pair(t, r, b, n, j)
  PROVE  /\ IsFiniteSet(DOMAIN t) /\ b \in DOMAIN t /\ b # 0
         /\ j \in 0..Len(n.items) - 1 /\ Child(n, j) # 0
         /\ GoodNode(n) /\ n \in Node /\ Len(n.items) \in Nat /\ j \in Nat /\ n.items[j + 1] \in Item
         /\ Child(n, j) \in DOMAIN t /\ Child(n, j + 1) \in DOMAIN t
         /\ Child(n, j) # b /\ Child(n, j + 1) # b /\ Child(n, j) # Child(n, j + 1)
         /\ Child(n, j) \in Block /\ Child(n, j + 1) \in Block
         /\ Child(n, j) \in Children(n) /\ Child(n, j + 1) \in Children(n)
         /\ GoodNode(t[Child(n, j)]) /\ GoodNode(t[Child(n, j + 1)])
         /\ LinkOf(t[Child(n, j)]) = LinkOf(t[Child(n, j + 1)])
<1> DEFINE v == Put(t, b, n)
           L == Child(n, j)
           R == Child(n, j + 1)
           N == Len(n.items)
<1>1. /\ Formed(v, r) /\ b \in DOMAIN t /\ j \in 0..N - 1 /\ L # 0
  BY DEF Pair
<1>2. DOMAIN v = DOMAIN t /\ v[b] = n /\ \A x \in DOMAIN t : x # b => v[x] = t[x]
  BY <1>1 DEF Put
<1> HIDE DEF v
<1>3. PICK lv, up, sp : Shape(v, r, lv, up, sp)
  BY <1>1 DEF Formed
<1>4. GoodNode(n) /\ n \in Node /\ N \in Nat /\ lv[b] \in Nat /\ b # 0
  BY <1>1, <1>2, <1>3, BlockFacts
<1>5. j \in 0..N /\ j + 1 \in 0..N /\ j + 1 \in 1..N /\ j # j + 1 /\ j \in Nat
  <2> HIDE DEF N
  <2> QED
    BY <1>1, <1>4
<1>6. lv[b] # 1
  BY <1>1, <1>2, <1>3, <1>5, ChildFacts
<1>7. /\ L \in DOMAIN v /\ L \in Block /\ L # 0 /\ lv[L] = lv[b] - 1
      /\ \A y \in 0..N : j # y => L # Child(n, y)
  BY <1>1, <1>2, <1>3, <1>5, <1>6, InnerFacts
<1>8. R \in DOMAIN v /\ R \in Block /\ R # 0 /\ lv[R] = lv[b] - 1
  BY <1>1, <1>2, <1>3, <1>5, <1>6, InnerFacts
<1>9. L # R /\ L # b /\ R # b
  BY <1>4, <1>5, <1>7, <1>8
<1>10. L \in Children(n) /\ R \in Children(n)
  BY <1>5, <1>7, <1>8 DEF Children
<1> HIDE DEF L, R
<1>11. GoodNode(t[L]) /\ GoodNode(t[R]) /\ LinkOf(t[L]) = LinkOf(t[R])
  <2>1. v[L] = t[L] /\ v[R] = t[R]
    BY <1>2, <1>7, <1>8, <1>9
  <2>2. GoodNode(v[L]) /\ GoodNode(v[R])
    BY <1>3, <1>7, <1>8, BlockFacts
  <2>3. lv[L] = 1 <=> v[L].next0 = 0
    BY <1>3, <1>7, LeafIs, ZenonT(30)
  <2>4. lv[R] = 1 <=> v[R].next0 = 0
    BY <1>3, <1>8, LeafIs
  <2> QED
    BY <1>7, <1>8, <2>1, <2>2, <2>3, <2>4 DEF LinkOf
<1>12. n.items[j + 1] \in Item
  BY <1>4, <1>5, ItemType
<1>13. IsFiniteSet(DOMAIN t)
  BY <1>2, <1>3 DEF Shape
<1> QED
  BY <1>1, <1>2, <1>4, <1>5, <1>7, <1>8, <1>9, <1>10, <1>11, <1>12, <1>13 DEF v, L, R

MergedTree(t, b, n, j) ==
  Put(Drop(Put(t, Child(n, j), Merger(t, n, j)), Child(n, j + 1)), b, Deleted(n, j))

(* An equation that the provers leave alone.                                *)
Equal(x, y) == x = y

LEMMA MergeStep ==
  ASSUME NEW t, NEW r, NEW b, NEW n, NEW j, Pair(t, r, b, n, j),
         NEW u, Equal(u, MergedTree(t, b, n, j))
  PROVE  /\ Formed(u, r) /\ Contents(u) = Contents(Put(t, b, n)) /\ IsFunction(u)
         /\ \A x : x \in DOMAIN u <=> x \in DOMAIN t /\ x # Child(n, j + 1)
         /\ u[b] = Deleted(n, j) /\ u[Child(n, j)] = Merger(t, n, j)
         /\ \A x \in DOMAIN u : x # b /\ x # Child(n, j) => u[x] = t[x]
<1> DEFINE v == Put(t, b, n)
           L == Child(n, j)
           R == Child(n, j + 1)
           m == Merger(t, n, j)
           d == Deleted(n, j)
<1>0. /\ b \in DOMAIN t /\ L \in DOMAIN t /\ R \in DOMAIN t /\ L # b /\ R # b /\ L # R /\ L # 0
      /\ j \in 0..Len(n.items) - 1
  BY PairFacts
<1>1. /\ DOMAIN v = DOMAIN t /\ v[b] = n /\ \A x \in DOMAIN t : x # b => v[x] = t[x]
      /\ b \in DOMAIN t /\ L \in DOMAIN t /\ R \in DOMAIN t /\ L # b /\ R # b /\ L # R /\ L # 0
      /\ j \in 0..Len(n.items) - 1 /\ Formed(v, r)
  <2>1. DOMAIN v = DOMAIN t /\ v[b] = n /\ \A x \in DOMAIN t : x # b => v[x] = t[x]
    BY <1>0 DEF Put
  <2> QED
    BY <1>0, <2>1 DEF Pair
<1>2. u = Put(Drop(Put(t, L, m), R), b, d)
  BY DEF MergedTree, Equal
<1>3. m = Catenated(v[L], n.items[j + 1], v[R])
  BY <1>1 DEF Merger
<1> HIDE DEF v, L, R, m, d
<1>4. /\ DOMAIN u = DOMAIN t \ {R} /\ u[b] = d /\ u[L] = m
      /\ \A x \in DOMAIN u : x # b /\ x # L => u[x] = t[x]
  BY <1>1, <1>2 DEF Put, Drop
<1>5. IsFunction(u)
  BY <1>2 DEF IsFunction, Put
<1>6. AsMerged(v, u, b, j)
  <2>1. \A x \in DOMAIN u : x # b /\ x # L => u[x] = v[x]
    BY <1>1, <1>4
  <2>2. v[b] = n
    BY <1>1
  <2>3. Child(v[b], j) = L /\ Child(v[b], j + 1) = R /\ v[b].items[j + 1] = n.items[j + 1]
        /\ Deleted(v[b], j) = d /\ j \in 0..Len(v[b].items) - 1
    BY <1>1, <2>2 DEF L, R, d
  <2> QED
    BY <1>1, <1>3, <1>4, <2>1, <2>3 DEF AsMerged
<1>7. PICK lv, up, sp : Shape(v, r, lv, up, sp)
  BY <1>1 DEF Formed
<1>8. Formed(u, r) /\ Contents(u) = Contents(v)
  BY <1>6, <1>7, MergeShape
<1> QED
  BY <1>4, <1>5, <1>8 DEF v, L, R, m, d

Middle(t, n, j, e) == [key |-> Merger(t, n, j).items[e + 1].key, child |-> Child(n, j + 1)]

SharedTree(t, b, n, j, e) ==
  Put(Put(Put(t, Child(n, j), LeftOf(Merger(t, n, j), e)), Child(n, j + 1), RightOf(Merger(t, n, j), e)),
      b, Inserted(Deleted(n, j), j, <<Middle(t, n, j, e)>>))

LEMMA ShareStep ==
  ASSUME NEW t, NEW r, NEW b, NEW n, NEW j, Pair(t, r, b, n, j),
         NEW e \in 0..Len(Merger(t, n, j).items) - 1, NEW u, Equal(u, SharedTree(t, b, n, j, e))
  PROVE  /\ Formed(u, r) /\ Contents(u) = Contents(Put(t, b, n)) /\ IsFunction(u)
         /\ DOMAIN u = DOMAIN t
         /\ u[b] = Inserted(Deleted(n, j), j, <<Middle(t, n, j, e)>>)
         /\ u[Child(n, j)] = LeftOf(Merger(t, n, j), e)
         /\ u[Child(n, j + 1)] = RightOf(Merger(t, n, j), e)
         /\ \A x \in DOMAIN t : x # b /\ x # Child(n, j) /\ x # Child(n, j + 1) => u[x] = t[x]
<1>0. PICK v : Equal(v, MergedTree(t, b, n, j))
  BY DEF Equal
<1> DEFINE L == Child(n, j)
           R == Child(n, j + 1)
           m == Merger(t, n, j)
           d == Deleted(n, j)
           it == Middle(t, n, j, e)
<1>1. /\ b \in DOMAIN t /\ L \in DOMAIN t /\ R \in DOMAIN t /\ L # b /\ R # b /\ L # R /\ L # 0 /\ R \in Block
      /\ j \in 0..Len(n.items) - 1 /\ n \in Node
  BY PairFacts
<1>2. /\ Formed(v, r) /\ Contents(v) = Contents(Put(t, b, n))
      /\ DOMAIN v = DOMAIN t \ {R} /\ v[b] = d /\ v[L] = m
      /\ \A x \in DOMAIN v : x # b /\ x # L => v[x] = t[x]
  <2>1. /\ Formed(v, r) /\ Contents(v) = Contents(Put(t, b, n))
        /\ \A x : x \in DOMAIN v <=> x \in DOMAIN t /\ x # R
        /\ v[b] = d /\ v[L] = m /\ \A x \in DOMAIN v : x # b /\ x # L => v[x] = t[x]
    BY <1>0, MergeStep
  <2> QED
    BY <2>1
<1>3. Child(d, j) = L /\ j \in 0..Len(d.items)
  <2>1. Len(d.items) = Len(n.items) - 1 /\ \A y \in 0..j : Child(d, y) = Child(n, y)
    BY <1>1, DeletedOne
  <2>2. Len(n.items) \in Nat /\ j \in 0..j
    BY <1>1, Lens
  <2> QED
    BY <1>1, <2>1, <2>2
<1>4. u = Put(Put(Put(t, L, LeftOf(m, e)), R, RightOf(m, e)), b, Inserted(d, j, <<it>>))
  BY DEF SharedTree, Equal
<1>a. it = [key |-> m.items[e + 1].key, child |-> R] /\ e \in 0..Len(m.items) - 1
  BY DEF Middle
<1> HIDE DEF L, R, m, d, it
<1>5. /\ DOMAIN u = DOMAIN t /\ u[b] = Inserted(d, j, <<it>>) /\ u[L] = LeftOf(m, e) /\ u[R] = RightOf(m, e)
      /\ \A x \in DOMAIN t : x # b /\ x # L /\ x # R => u[x] = t[x]
  BY <1>1, <1>4 DEF Put
<1>6. IsFunction(u)
  BY <1>4 DEF IsFunction, Put
<1>7. AsSplit(v, u, b, j, L, e, R)
  <2>1. \A x \in DOMAIN v : x # b /\ x # L => u[x] = v[x]
    BY <1>2, <1>5
  <2>2. /\ b \in DOMAIN v /\ j \in 0..Len(v[b].items) /\ L = Child(v[b], j) /\ L # 0
        /\ R \in Block /\ R \notin DOMAIN v /\ e \in 0..Len(v[L].items) - 1
        /\ DOMAIN u = DOMAIN v \cup {R}
    BY <1>1, <1>2, <1>3, <1>5, <1>a
  <2>3. /\ u[b] = Inserted(v[b], j, <<[key |-> v[L].items[e + 1].key, child |-> R]>>)
        /\ u[L] = LeftOf(v[L], e) /\ u[R] = RightOf(v[L], e)
    BY <1>2, <1>5, <1>a
  <2> QED
    BY <2>1, <2>2, <2>3 DEF AsSplit
<1>8. PICK lv, up, sp : Shape(v, r, lv, up, sp)
  BY <1>2 DEF Formed
<1>9. Formed(u, r) /\ Contents(u) = Contents(v)
  BY <1>7, <1>8, SplitShape
<1> QED
  BY <1>2, <1>5, <1>6, <1>9 DEF L, R, m, d, it

(* m is what the file has for a node that is n but for the key of item i.   *)
Stands(m, n, i) ==
  /\ GoodNode(m) /\ Bytes(m) <= Capacity /\ Len(m.items) = Len(n.items) /\ LinkOf(m) = LinkOf(n)
  /\ \A y \in 1..Len(n.items) : y # i => m.items[y].key = n.items[y].key

LEMMA EditedFits ==
  ASSUME NEW m, NEW n, NEW a, NEW p, NEW q, SameKeys(m, n, a, p, q), q <= 2, Bytes(m) <= Capacity
  PROVE  Bytes(n) \in Nat /\ Bytes(n) + MaxItem + 1 <= 2 * Capacity
<1>1. Link < MaxItem \/ MaxItem <= Link
  BY Limits
<1>2. q \in Nat /\ LinkOf(m) \in {0, Link} /\ GoodNode(n) /\ GoodNode(m)
  BY DEF SameKeys, LinkOf
<1>3. CASE Link < MaxItem
  <2>1. /\ Bytes(n) \in Nat /\ Bytes(m) \in Nat
        /\ Bytes(n) + Link + 1
             <= Bytes(m) + MaxItem
                + (IF q = 0 THEN 0 ELSE IF q = 1 THEN MaxItem + LinkOf(m)
                   ELSE 2 * MaxItem + 2 * LinkOf(m))
    BY <1>3, ChangedBytes
  <2> QED
    BY <1>2, <2>1, Limits
<1>4. CASE MaxItem <= Link
  <2>1. \A k : k \notin Key
    <3>1. ASSUME NEW k \in Key PROVE FALSE
      <4>1. First[k] \in Link + 1..MaxItem
        BY SizeAssumption
      <4> QED
        BY <1>4, <4>1, Limits
    <3> QED
      BY <3>1
  <2>2. Len(n.items) = 0
    BY <1>2, <2>1, NodeKeys
  <2>3. Bytes(n) \in Nat /\ Bytes(n) + MaxItem <= SplitPoint
    BY <1>2, <2>2, SmallFits
  <2> QED
    BY <2>3, Limits
<1> QED
  BY <1>1, <1>3, <1>4

LEMMA ItemReplaced ==
  ASSUME NEW n, GoodNode(n), NEW i \in 0..Len(n.items), NEW m, Stands(m, n, i),
         NEW j \in 0..Len(n.items) - 1, j = i \/ j = i - 1, NEW x \in Item, NEW u,
         Equal(u, Inserted(Deleted(n, j), j, <<x>>)), GoodNode(u)
  PROVE  Bytes(u) \in Nat /\ Bytes(u) + MaxItem + 1 <= 2 * Capacity
<1> DEFINE N == Len(n.items)
           d == Deleted(n, j)
           a == IF i = 0 THEN 0 ELSE i - 1
           p == (j + 1) - a
<1>1. N \in Nat /\ n \in Node
  BY NodeKeys
<1>2. /\ d \in Node /\ Len(d.items) = N - 1 /\ d.next0 = n.next0
      /\ \A y \in 1..j : d.items[y].key = n.items[y].key
      /\ \A y \in j + 1..N - 1 : d.items[y].key = n.items[y + 1].key
  BY <1>1, DeletedOne
<1> HIDE DEF d
<1>3. u = Inserted(d, j, <<x>>) /\ j \in 0..Len(d.items)
  <2> HIDE DEF N
  <2>1. j \in 0..N - 1
    BY DEF N
  <2> QED
    BY <1>1, <1>2, <2>1 DEF Equal, d
<1>4. /\ Len(u.items) = N /\ u.next0 = n.next0
      /\ \A y \in 1..j : u.items[y].key = n.items[y].key
      /\ \A y \in j + 1..N - 1 : u.items[y + 1].key = n.items[y + 1].key
  <2>1. /\ Len(u.items) = Len(d.items) + 1 /\ u.next0 = d.next0
        /\ \A y \in 1..j : u.items[y].key = d.items[y].key
        /\ \A y \in j + 1..Len(d.items) : u.items[y + 1].key = d.items[y].key
    BY <1>2, <1>3, InsertedOne
  <2> HIDE DEF N
  <2>2. (N - 1) + 1 = N /\ j \in 0..N - 1
    BY <1>1 DEF N
  <2>3. Len(d.items) = N - 1 /\ d.next0 = n.next0
    BY <1>2
  <2>4. /\ Len(u.items) = (N - 1) + 1 /\ u.next0 = n.next0
        /\ \A y \in j + 1..N - 1 : u.items[y + 1].key = d.items[y].key
    BY <2>1, <2>3
  <2>5. \A y \in 1..j : u.items[y].key = n.items[y].key
    BY <1>2, <2>1
  <2>6. \A y \in j + 1..N - 1 : u.items[y + 1].key = n.items[y + 1].key
    BY <1>2, <2>4
  <2> QED
    BY <2>2, <2>4, <2>5, <2>6
<1>5. a \in Nat /\ p \in Nat /\ p <= 2 /\ a + p = j + 1 /\ a <= j /\ i <= j + 1 /\ (i = 0 \/ a = i - 1) /\ j \in 0..N - 1 /\ i \in 0..N
  <2>1. j \in 0..N - 1 /\ i \in 0..N
    OBVIOUS
  <2> HIDE DEF N
  <2> QED
    BY <1>1, <2>1
<1> HIDE DEF a, p
<1>6. SameKeys(m, u, a, p, p)
  <2>1. GoodNode(m) /\ Len(m.items) = N /\ LinkOf(m) = LinkOf(n)
        /\ \A y \in 1..N : y # i => m.items[y].key = n.items[y].key
    BY DEF Stands
  <2>2. LinkOf(u) = LinkOf(m)
    BY <1>4, <2>1 DEF LinkOf
  <2> HIDE DEF N
  <2>3. ASSUME NEW y \in 1..a PROVE u.items[y].key = m.items[y].key
    <3>1. y \in 1..j /\ y \in 1..N /\ y # i
      BY <1>1, <1>5
    <3> QED
      BY <1>4, <2>1, <3>1
  <2>4. ASSUME NEW y \in (a + p) + 1..N PROVE u.items[(y - p) + p].key = m.items[y].key
    <3>1. y - 1 \in j + 1..N - 1 /\ y \in 1..N /\ y # i /\ (y - 1) + 1 = y /\ (y - p) + p = y
      BY <1>1, <1>5
    <3>2. u.items[(y - 1) + 1].key = n.items[(y - 1) + 1].key
      BY <1>4, <3>1
    <3> QED
      BY <2>1, <3>1, <3>2
  <2>5. a + p <= N /\ (N - p) + p = N
    BY <1>1, <1>5
  <2> QED
    BY <1>4, <1>5, <2>1, <2>2, <2>3, <2>4, <2>5 DEF SameKeys
<1> QED
  BY <1>5, <1>6, EditedFits DEF Stands

LEMMA ItemRemoved ==
  ASSUME NEW n, GoodNode(n), NEW i \in 0..Len(n.items), NEW m, Stands(m, n, i),
         NEW j \in 0..Len(n.items) - 1, j = i \/ j = i - 1, NEW u, Equal(u, Deleted(n, j))
  PROVE  /\ Bytes(u) \in Nat /\ Bytes(u) + MaxItem + 1 <= 2 * Capacity
         /\ Bytes(n) \in Nat /\ Bytes(u) <= Bytes(n)
<1> DEFINE N == Len(n.items)
           a == IF i = 0 THEN 0 ELSE i - 1
           p == (j + 1) - a
<1>1. N \in Nat /\ n \in Node
  BY NodeKeys
<1>2. /\ Len(u.items) = N - 1 /\ u.next0 = n.next0 /\ GoodNode(u)
      /\ \A y \in 1..j : u.items[y].key = n.items[y].key
      /\ \A y \in j + 1..N - 1 : u.items[y].key = n.items[y + 1].key
  <2>1. u = Deleted(n, j)
    BY DEF Equal
  <2>2. /\ Len(Deleted(n, j).items) = N - 1 /\ Deleted(n, j).next0 = n.next0
        /\ \A y \in 1..j : Deleted(n, j).items[y].key = n.items[y].key
        /\ \A y \in j + 1..N - 1 : Deleted(n, j).items[y].key = n.items[y + 1].key
    BY <1>1, DeletedOne
  <2>3. GoodNode(Deleted(n, j))
    BY OrderDeleted
  <2> HIDE DEF N
  <2> QED
    BY <2>1, <2>2, <2>3
<1>5. a \in Nat /\ p \in Nat /\ p \in 1..2 /\ a + p = j + 1 /\ a <= j /\ i <= j + 1 /\ (i = 0 \/ a = i - 1) /\ j \in 0..N - 1 /\ i \in 0..N
  <2>1. j \in 0..N - 1 /\ i \in 0..N
    OBVIOUS
  <2> HIDE DEF N
  <2> QED
    BY <1>1, <2>1
<1> HIDE DEF a, p
<1>6. SameKeys(m, u, a, p, p - 1)
  <2>1. GoodNode(m) /\ Len(m.items) = N /\ LinkOf(m) = LinkOf(n)
        /\ \A y \in 1..N : y # i => m.items[y].key = n.items[y].key
    BY DEF Stands
  <2>2. LinkOf(u) = LinkOf(m)
    BY <1>2, <2>1 DEF LinkOf
  <2> HIDE DEF N
  <2>3. ASSUME NEW y \in 1..a PROVE u.items[y].key = m.items[y].key
    <3>1. y \in 1..j /\ y \in 1..N /\ y # i
      BY <1>1, <1>5
    <3> QED
      BY <1>2, <2>1, <3>1
  <2>4. ASSUME NEW y \in (a + p) + 1..N PROVE u.items[(y - p) + (p - 1)].key = m.items[y].key
    <3>1. y - 1 \in j + 1..N - 1 /\ y \in 1..N /\ y # i /\ (y - 1) + 1 = y /\ (y - p) + (p - 1) = y - 1
      BY <1>1, <1>5
    <3>2. u.items[y - 1].key = n.items[(y - 1) + 1].key
      BY <1>2, <3>1
    <3> QED
      BY <2>1, <3>1, <3>2
  <2>5. a + p <= N /\ (N - p) + (p - 1) = N - 1 /\ p - 1 \in Nat
    BY <1>1, <1>5
  <2> QED
    BY <1>2, <1>5, <2>1, <2>2, <2>3, <2>4, <2>5 DEF SameKeys
<1>7. SameKeys(n, u, j, 1, 0)
  <2>2. LinkOf(u) = LinkOf(n)
    BY <1>2 DEF LinkOf
  <2> HIDE DEF N
  <2>4. ASSUME NEW y \in (j + 1) + 1..N PROVE u.items[(y - 1) + 0].key = n.items[y].key
    <3>1. y - 1 \in j + 1..N - 1 /\ (y - 1) + 1 = y /\ (y - 1) + 0 = y - 1
      BY <1>1, <1>5
    <3>2. u.items[y - 1].key = n.items[(y - 1) + 1].key
      BY <1>2, <3>1
    <3> QED
      BY <3>1, <3>2
  <2>5. j + 1 <= N /\ (N - 1) + 0 = N - 1 /\ j \in Nat
    BY <1>1, <1>5
  <2> QED
    BY <1>2, <2>2, <2>4, <2>5 DEF SameKeys, N
<1>8. p - 1 <= 2 /\ Bytes(m) <= Capacity
  BY <1>5 DEF Stands
<1>9. Bytes(u) \in Nat /\ Bytes(n) \in Nat /\ Bytes(u) <= Bytes(n)
  BY <1>7, FewerBytes
<1> QED
  BY <1>6, <1>8, <1>9, EditedFits

LEMMA MergerFits ==
  ASSUME NEW t, NEW r, NEW b, NEW n, NEW j, Pair(t, r, b, n, j),
         GoodNode(Merger(t, n, j)),
         Bytes(t[Child(n, j)]) <= Capacity, Bytes(t[Child(n, j + 1)]) <= Capacity,
         Underflows(t[Child(n, j)]) \/ Underflows(t[Child(n, j + 1)])
  PROVE  Bytes(Merger(t, n, j)) + MaxItem + 1 <= 2 * Capacity
<1> DEFINE x == t[Child(n, j)]
           y == t[Child(n, j + 1)]
           m == Catenated(x, n.items[j + 1], y)
<1>1. GoodNode(x) /\ GoodNode(y) /\ n.items[j + 1] \in Item /\ LinkOf(y) = LinkOf(x)
  BY PairFacts
<1>2. GoodNode(m)
  BY DEF Merger
<1>3. /\ Bytes(m) \in Nat /\ Bytes(x) \in Nat /\ Bytes(y) \in Nat
      /\ Bytes(m) + Link + 1 <= Bytes(x) + Bytes(y) + 2 * MaxItem
  <2> HIDE DEF x, y
  <2> QED
    BY <1>1, <1>2, CatenatedBytes
<1>4. Bytes(x) <= Capacity /\ Bytes(y) <= Capacity
      /\ (Bytes(x) + MaxItem <= SplitPoint \/ Bytes(y) + MaxItem <= SplitPoint)
  BY <1>1, SmallFits
<1> HIDE DEF x, y, m
<1>5. Bytes(m) + MaxItem + 1 <= 2 * Capacity
  BY <1>3, <1>4, Limits
<1> QED
  BY <1>5 DEF m, x, y, Merger

(* handle_underflow makes the tree u from the tree in which block b has n.  *)
Handled(u, t, r, b, n) ==
  /\ Formed(u, r) /\ Contents(u) = Contents(Put(t, b, n)) /\ IsFunction(u) /\ b \in DOMAIN u
  /\ \A x \in DOMAIN u : x # b => Fit(u[x])
  /\ \A x \in DOMAIN t : x # b /\ x \notin Children(n) => x \in DOMAIN u /\ u[x] = t[x]
  /\ GoodNode(u[b]) /\ Uniform(u[b]) /\ Bytes(u[b]) \in Nat /\ Bytes(u[b]) + MaxItem + 1 <= 2 * Capacity

Sized(t, b, c) ==
  /\ \A x \in DOMAIN t : Bytes(t[x]) <= Capacity
  /\ \A x \in DOMAIN t : x # b /\ x # c => Len(t[x].items) # 0

(* h is what handle_underflow returns for a tree u: if the father has become*)
(* too large, Fitted has to follow.                                         *)
Handed(h, u, b, n) ==
  /\ Outcome(h, u, b) \/ (\E bk : h = Result(u, bk, NoItem) /\ ~(Bytes(u[b]) <= Capacity))
  /\ Bytes(n) <= Capacity => Outcome(h, u, b)

LEMMA MergedOutcome ==
  ASSUME NEW t, NEW r, NEW b, NEW n, NEW j, Pair(t, r, b, n, j),
         NEW i \in 0..Len(n.items), j = i \/ j = i - 1, NEW m, Stands(m, n, i),
         NEW c, c = Child(n, j) \/ c = Child(n, j + 1), Sized(t, b, c),
         Bytes(Merger(t, n, j)) <= Capacity
  PROVE  \E u : Handled(u, t, r, b, n) /\ Handed(HandledAt(t, b, n, j), u, b, n)
<1>1. PICK u : Equal(u, MergedTree(t, b, n, j))
  BY DEF Equal
<1> DEFINE h == HandledAt(t, b, n, j)
           L == Child(n, j)
           R == Child(n, j + 1)
<1>2. /\ Formed(u, r) /\ Contents(u) = Contents(Put(t, b, n)) /\ IsFunction(u)
      /\ \A x : x \in DOMAIN u <=> x \in DOMAIN t /\ x # R
      /\ u[b] = Deleted(n, j) /\ u[L] = Merger(t, n, j)
      /\ \A x \in DOMAIN u : x # b /\ x # L => u[x] = t[x]
  BY <1>1, MergeStep
<1>3. /\ b \in DOMAIN t /\ j \in 0..Len(n.items) - 1 /\ GoodNode(n) /\ L \in DOMAIN t /\ R \in DOMAIN t
      /\ L # b /\ R # b /\ L # R /\ L \in Children(n) /\ R \in Children(n)
      /\ t[L] \in Node /\ t[R] \in Node /\ n.items[j + 1] \in Item
  BY PairFacts DEF GoodNode
<1>4. Bytes(Deleted(n, j)) \in Nat /\ Bytes(Deleted(n, j)) + MaxItem + 1 <= 2 * Capacity
      /\ Bytes(n) \in Nat /\ Bytes(Deleted(n, j)) <= Bytes(n)
  <2>1. Equal(Deleted(n, j), Deleted(n, j))
    BY DEF Equal
  <2> QED
    BY <1>3, <2>1, ItemRemoved
<1>5. GoodNode(u[b]) /\ Uniform(u[b])
  BY <1>2, <1>3, UniformIn
<1>6. Len(Merger(t, n, j).items) # 0
  <2>1. Len(Merger(t, n, j).items) = (Len(t[L].items) + 1) + Len(t[R].items)
    BY <1>3, CatenatedIs DEF Merger
  <2>2. Len(t[L].items) \in Nat /\ Len(t[R].items) \in Nat
    BY <1>3, Lens
  <2> DEFINE x == Len(t[L].items)
             y == Len(t[R].items)
             z == Len(Merger(t, n, j).items)
  <2>3. x \in Nat /\ y \in Nat /\ z = (x + 1) + y
    BY <2>1, <2>2
  <2> HIDE DEF x, y, z
  <2>4. z # 0
    BY <2>3
  <2> QED
    BY <2>4 DEF z
<1>7. \A x \in DOMAIN u : x # b => Fit(u[x])
  BY <1>2, <1>6 DEF Fit, Sized
<1>8. Handled(u, t, r, b, n)
  BY <1>2, <1>3, <1>4, <1>5, <1>7 DEF Handled
<1>9. h = Small(Drop(Put(t, L, Merger(t, n, j)), R), b, Deleted(n, j))
  BY DEF HandledAt, HandledWith, Merged, Merger
<1>10. h = Result(u, IF Underflows(u[b]) THEN "small" ELSE "fits", NoItem)
  BY <1>1, <1>2, <1>9, KeptIs DEF Equal, MergedTree
<1>11. Bytes(u[b]) <= Capacity => Outcome(h, u, b)
  BY <1>2, <1>5, <1>10, SmallFits DEF Outcome, Fit
<1>12. Bytes(n) <= Capacity => Bytes(u[b]) <= Capacity
  <2>1. Capacity \in Nat
    BY Limits
  <2> QED
    BY <1>2, <1>4, <2>1
<1> QED
  BY <1>8, <1>10, <1>11, <1>12 DEF Handed

LEMMA SharedOutcome ==
  ASSUME NEW t, NEW r, NEW b, NEW n, NEW j, Pair(t, r, b, n, j),
         NEW i \in 0..Len(n.items), j = i \/ j = i - 1, NEW m, Stands(m, n, i),
         NEW c, c = Child(n, j) \/ c = Child(n, j + 1), Sized(t, b, c), Underflows(t[c]),
         ~(Bytes(Merger(t, n, j)) <= Capacity)
  PROVE  \E u : Handled(u, t, r, b, n) /\ Handed(HandledAt(t, b, n, j), u, b, n)
<1> DEFINE h == HandledAt(t, b, n, j)
           L == Child(n, j)
           R == Child(n, j + 1)
           M == Merger(t, n, j)
           e == Place(M)
           left == LeftOf(M, e)
           right == RightOf(M, e)
           it == Middle(t, n, j, e)
           d == Inserted(Deleted(n, j), j, <<it>>)
           v == Put(Put(t, L, left), R, right)
<1>1. /\ IsFiniteSet(DOMAIN t) /\ b \in DOMAIN t /\ j \in 0..Len(n.items) - 1 /\ GoodNode(n)
      /\ L \in DOMAIN t /\ R \in DOMAIN t /\ R \in Block
      /\ L # b /\ R # b /\ L # R /\ L \in Children(n) /\ R \in Children(n)
  BY PairFacts
<1>2. GoodNode(M) /\ Uniform(M)
  <2>1. PICK w : Equal(w, MergedTree(t, b, n, j))
    BY DEF Equal
  <2>2. Formed(w, r) /\ L \in DOMAIN w /\ w[L] = M
    BY <1>1, <2>1, MergeStep
  <2> QED
    BY <2>2, UniformIn
<1>3. Bytes(M) + MaxItem + 1 <= 2 * Capacity /\ Capacity < Bytes(M)
  <2>1. Bytes(t[L]) <= Capacity /\ Bytes(t[R]) <= Capacity
    BY <1>1 DEF Sized
  <2>2. Bytes(M) + MaxItem + 1 <= 2 * Capacity
    BY <1>2, <2>1, MergerFits
  <2>3. Bytes(M) \in Nat /\ Capacity \in Nat
    BY <1>2, SmallFits, Limits
  <2> QED
    BY <2>2, <2>3
<1>4. /\ e \in 1..Len(M.items) - 2 /\ Split(M).errors = {}
      /\ Bytes(left) <= Capacity /\ Bytes(right) <= Capacity
  BY <1>2, <1>3, SplitFits
<1>5. e \in 0..Len(M.items) - 1 /\ Len(left.items) # 0 /\ Len(right.items) # 0
  <2>1. M \in Node /\ Len(M.items) \in Nat
    BY <1>2, NodeKeys
  <2> HIDE DEF M, e
  <2>2. e \in 0..Len(M.items) - 1 /\ e \in 0..Len(M.items) /\ e # 0 /\ (Len(M.items) - e) - 1 # 0
    BY <1>4, <2>1
  <2>3. Len(left.items) = e /\ Len(right.items) = (Len(M.items) - e) - 1
    BY <2>1, <2>2, LeftIs, RightIs
  <2> QED
    BY <2>2, <2>3
<1>6. PICK u : Equal(u, SharedTree(t, b, n, j, e))
  BY DEF Equal
<1>7. /\ Formed(u, r) /\ Contents(u) = Contents(Put(t, b, n)) /\ IsFunction(u)
      /\ DOMAIN u = DOMAIN t /\ u[b] = d /\ u[L] = left /\ u[R] = right
      /\ \A x \in DOMAIN t : x # b /\ x # L /\ x # R => u[x] = t[x]
  BY <1>5, <1>6, ShareStep
<1>8. GoodNode(d) /\ Uniform(d)
  BY <1>1, <1>7, UniformIn
<1>9. it \in Item /\ Parted(t, L, R, M) = Result(v, "split", it)
  <2>1. it = [key |-> M.items[e + 1].key, child |-> R]
    BY DEF Middle
  <2>2. M.items[e + 1].key \in Key
    <3>1. M \in Node /\ Len(M.items) \in Nat
      BY <1>2, NodeKeys
    <3> HIDE DEF M, e
    <3>2. e + 1 \in 1..Len(M.items)
      BY <1>4, <3>1
    <3> QED
      BY <3>1, <3>2, ItemType
  <2>3. Parted(t, L, R, M) = Result(v, "split", [key |-> M.items[e + 1].key, child |-> R])
    BY <1>1, <1>2, <1>4, PartedIs
  <2> QED
    BY <1>1, <2>1, <2>2, <2>3 DEF Item
<1>10. Bytes(d) \in Nat /\ Bytes(d) + MaxItem + 1 <= 2 * Capacity
  <2> HIDE DEF it
  <2>1. Equal(d, Inserted(Deleted(n, j), j, <<it>>))
    BY DEF Equal
  <2> HIDE DEF d
  <2> QED
    BY <1>1, <1>8, <1>9, <2>1, ItemReplaced
<1>11. Handled(u, t, r, b, n)
  <2>1. \A x \in DOMAIN u : x # b => Fit(u[x])
    BY <1>1, <1>4, <1>5, <1>7 DEF Fit, Sized
  <2> HIDE DEF d
  <2> QED
    BY <1>1, <1>7, <1>8, <1>10, <2>1 DEF Handled
<1> HIDE DEF d, it, left, right, e, M
<1>12. b \in DOMAIN v /\ IsFiniteSet(DOMAIN v) /\ u = Put(v, b, d)
  <2>1. DOMAIN v = DOMAIN t
    BY <1>1 DEF Put
  <2>2. u = Put(v, b, d)
    BY <1>6 DEF Equal, SharedTree, d, it, left, right, M
  <2> QED
    BY <1>1, <2>1, <2>2
<1>13. h = WithErrors(Restored(v, b, d), {})
  <2>1. h = Rebalanced(Parted(t, L, R, M), b, n, j)
    BY DEF HandledAt, HandledWith, Merger, M
  <2>2. Result(v, "split", it).nodes = v /\ Result(v, "split", it).item = it /\ Result(v, "split", it).errors = {}
    BY NoErrors
  <2> HIDE DEF v
  <2> QED
    BY <1>9, <2>1, <2>2 DEF Rebalanced, d
<1>14. Outcome(Restored(v, b, d), u, b)
  BY <1>8, <1>10, <1>12, RestoredOutcome
<1>15. h = Restored(v, b, d)
  <2> DEFINE s == Restored(v, b, d)
  <2>1. \E x, bk, y : s = Result(x, bk, y)
    BY <1>14 DEF Outcome
  <2> QED
    BY <1>13, <2>1, NoErrors
<1> QED
  BY <1>11, <1>14, <1>15 DEF Handed

LEMMA HandleOutcome ==
  ASSUME NEW t, NEW r, NEW b, NEW n, Formed(Put(t, b, n), r), b \in DOMAIN t,
         NEW i \in 0..Len(n.items), Len(n.items) # 0, Child(n, i) # 0, Sized(t, b, Child(n, i)),
         Underflows(t[Child(n, i)]), NEW m, Stands(m, n, i)
  PROVE  \E u : Handled(u, t, r, b, n) /\ Handed(HandleUnderflow(t, b, n, i), u, b, n)
<1> DEFINE j == IF i = Len(n.items) THEN i - 1 ELSE i
           v == Put(t, b, n)
<1>1. b \in DOMAIN v /\ v[b] = n
  BY DEF Put
<1>2. GoodNode(n) /\ Len(n.items) \in Nat
  BY <1>1, UniformIn, NodeKeys
<1>3. j \in 0..Len(n.items) - 1 /\ j \in 0..Len(n.items) /\ (j = i \/ j = i - 1) /\ (i = j \/ i = j + 1)
  <2> DEFINE N == Len(n.items)
  <2>1. N \in Nat /\ N # 0 /\ i \in 0..N
    BY <1>2
  <2> HIDE DEF N
  <2>2. LET k == IF i = N THEN i - 1 ELSE i
        IN  k \in 0..N - 1 /\ k \in 0..N /\ (k = i \/ k = i - 1) /\ (i = k \/ i = k + 1)
    BY <2>1
  <2> QED
    BY <2>2 DEF N
<1>4. Child(n, j) # 0
  <2>1. PICK lv, up, sp : Shape(v, r, lv, up, sp)
    BY DEF Formed
  <2> HIDE DEF v, j
  <2>2. lv[b] # 1
    BY <1>1, <2>1, ChildFacts
  <2> QED
    BY <1>1, <1>3, <2>1, <2>2, InnerFacts
<1>5. HandleUnderflow(t, b, n, i) = HandledAt(t, b, n, j)
  BY DEF HandleUnderflow
<1> HIDE DEF j
<1>6. Pair(t, r, b, n, j)
  BY <1>3, <1>4 DEF Pair
<1>7. Child(n, i) = Child(n, j) \/ Child(n, i) = Child(n, j + 1)
  BY <1>3
<1> QED
  BY <1>3, <1>5, <1>6, <1>7, MergedOutcome, SharedOutcome

-----------------------------------------------------------------------------
(* The tree in the middle of a call.                                        *)

(* While an item is on its way up, the tree is what it makes of the node    *)
(* above: of the last of p, or of a new root.                               *)
WholeTree(t, r, p, bk, it) ==
  IF bk # "split" THEN t
  ELSE IF p = <<>> THEN Put(t, Fresh(t), [next0 |-> r, items |-> <<it>>])
  ELSE Put(t, p[Len(p)].block, Inserted(t[p[Len(p)].block], p[Len(p)].place, <<it>>))

TopBlock(t, r, p, bk) == IF bk = "split" /\ p = <<>> THEN Fresh(t) ELSE r

Below(t, r, p) == IF p = <<>> THEN r ELSE Child(t[p[Len(p)].block], p[Len(p)].place)

Shorter(p) == SubSeq(p, 1, Len(p) - 1)

(* A node without items is the one that is too small.                       *)
Standing(t, r, p, bk, it) ==
  /\ IsFunction(t) /\ r \in Block \cup {0}
  /\ \A x \in DOMAIN t : x \in Block /\ GoodNode(t[x]) /\ Bytes(t[x]) <= Capacity
  /\ Formed(WholeTree(t, r, p, bk, it), TopBlock(t, r, p, bk))
  /\ Way(WholeTree(t, r, p, bk, it), r, p)
  /\ p # <<>> => /\ p[Len(p)].block \in DOMAIN t
                 /\ p[Len(p)].place \in 0..Len(t[p[Len(p)].block].items)
  /\ \A x \in DOMAIN t : Len(t[x].items) # 0 \/ (bk = "small" /\ x = Below(t, r, p))
  /\ bk = "small" => Below(t, r, p) \in DOMAIN t /\ Underflows(t[Below(t, r, p)])
  /\ bk = "split" => it \in Item

(* Nothing changes in the nodes of p.                                       *)
Same(t, u, p) ==
  \A m \in 1..Len(p) : p[m].block \in DOMAIN t /\ p[m].block \in DOMAIN u /\ t[p[m].block] = u[p[m].block]

LEMMA SameWay ==
  ASSUME NEW t, NEW r, NEW p, Way(t, r, p), NEW u, Same(t, u, p)
  PROVE  Way(u, r, p) /\ Below(u, r, p) = Below(t, r, p)
<1>1. p \in Seq([block : Block, place : Nat]) /\ Len(p) \in Nat
  BY DEF Way
<1>2. ASSUME NEW m \in 1..Len(p)
      PROVE  /\ p[m].block \in DOMAIN u /\ p[m].place \in 0..Len(u[p[m].block].items)
             /\ m = 1 => p[m].block = r
             /\ m # 1 => p[m].block = Child(u[p[m - 1].block], p[m - 1].place)
  <2>1. m # 1 => m - 1 \in 1..Len(p)
    BY <1>1
  <2> QED
    BY <2>1 DEF Way, Same
<1>3. p # <<>> => Len(p) \in 1..Len(p)
  BY <1>1
<1> QED
  BY <1>1, <1>2, <1>3 DEF Way, Below, Same

(* The block below a way is none of its blocks, nor are the children of it. *)
LEMMA BelowFacts ==
  ASSUME NEW t, NEW r, Formed(t, r), NEW p, Way(t, r, p), NEW b \in DOMAIN t, b = Below(t, r, p)
  PROVE  \A m \in 1..Len(p) : p[m].block \in DOMAIN t /\ p[m].block # b /\ p[m].block \notin Children(t[b])
<1>1. PICK lv, up, sp : Shape(t, r, lv, up, sp)
  BY DEF Formed
<1>2. Len(p) \in Nat
  BY DEF Way
<1>3. lv[b] \in Nat \ {0} /\ lv[r] \in Nat \ {0} /\ b # 0
  BY <1>1, BlockFacts
<1>4. lv[b] = lv[r] - Len(p)
  <2>1. CASE p = <<>>
    BY <1>3, <2>1 DEF Below
  <2>2. CASE p # <<>>
    <3> DEFINE z == Len(p)
    <3>1. z \in 1..Len(p)
      BY <1>2, <2>2
    <3>2. p[z].block \in DOMAIN t /\ p[z].place \in 0..Len(t[p[z].block].items) /\ b = Child(t[p[z].block], p[z].place)
      BY <2>2, <3>1 DEF Way, Below
    <3>3. lv[p[z].block] = lv[r] - (z - 1) /\ lv[p[z].block] \in Nat
      BY <1>1, <3>1, <3>2, WayLevels, BlockFacts
    <3> HIDE DEF z
    <3>4. lv[b] = lv[p[z].block] - 1
      BY <1>1, <1>3, <3>2, ChildFacts
    <3>5. lv[b] = lv[r] - z
      BY <1>3, <1>2, <3>1, <3>3, <3>4
    <3> QED
      BY <3>5 DEF z
  <2> QED
    BY <2>1, <2>2
<1>5. ASSUME NEW m \in 1..Len(p)
      PROVE  p[m].block \in DOMAIN t /\ p[m].block # b /\ p[m].block \notin Children(t[b])
  <2>a. p[m].block \in DOMAIN t
    BY DEF Way
  <2>1. p[m].block \in DOMAIN t /\ lv[p[m].block] = lv[r] - (m - 1)
    BY <1>1, <2>a, WayLevels
  <2>2. lv[p[m].block] > lv[b]
    BY <1>2, <1>3, <1>4, <2>1
  <2>3. ASSUME p[m].block \in Children(t[b]) PROVE FALSE
    <3>1. PICK i \in 0..Len(t[b].items) : Child(t[b], i) = p[m].block /\ Child(t[b], i) # 0
      BY <2>3 DEF Children
    <3>2. lv[Child(t[b], i)] = lv[b] - 1
      BY <1>1, <3>1, ChildFacts
    <3>3. lv[p[m].block] = lv[b] - 1
      BY <3>1, <3>2
    <3> QED
      BY <1>3, <2>2, <3>3
  <2>4. p[m].block # b
    BY <1>3, <2>2
  <2> QED
    BY <2>1, <2>3, <2>4
<1> QED
  BY <1>5

LEMMA OneItem ==
  ASSUME NEW r \in Block \cup {0}, NEW x \in Item
  PROVE  Inserted([next0 |-> r, items |-> <<>>], 0, <<x>>) = [next0 |-> r, items |-> <<x>>]
<1> DEFINE n == [next0 |-> r, items |-> <<>>]
           m == Inserted(n, 0, <<x>>)
<1>1. n \in Node /\ Len(n.items) = 0 /\ n.next0 = r
  BY DEF Node
<1> HIDE DEF n
<1>2. <<x>> \in Seq(Item) /\ Len(<<x>>) = 1 /\ <<x>>[1] = x /\ 0 \in 0..Len(n.items)
  BY <1>1
<1>3. /\ m \in Node /\ m.next0 = r /\ Len(m.items) = 0 + 1
      /\ \A y \in 1..0 + 1 :
           m.items[y] = IF y <= 0 THEN n.items[y]
                        ELSE IF y <= 0 + Len(<<x>>) THEN <<x>>[y - 0] ELSE n.items[y - Len(<<x>>)]
  BY <1>1, <1>2, InsertedIs
<1>4. m.items[1] = x
  BY <1>2, <1>3
<1> HIDE DEF m
<1>5. m.items \in Seq(Item) /\ Len(m.items) = 1
  BY <1>3 DEF Node
<1>6. m.items = <<x>>
  BY <1>4, <1>5
<1>7. m = [next0 |-> m.next0, items |-> m.items]
  BY <1>3 DEF Node
<1> QED
  BY <1>3, <1>6, <1>7 DEF m, n

LEMMA HalvedIs ==
  ASSUME NEW u, NEW b \in DOMAIN u, GoodNode(u[b]), NEW e, NEW c, SplitAt(u, b, e, c),
         NEW t, Equal(t, Halved(u, b, e, c))
  PROVE  /\ IsFunction(t) /\ \A x : x \in DOMAIN t <=> x \in DOMAIN u \/ x = c
         /\ b # c /\ b \in DOMAIN t /\ c \in DOMAIN t
         /\ t[b] = LeftOf(u[b], e) /\ t[c] = RightOf(u[b], e)
         /\ \A x \in DOMAIN u : x # b => t[x] = u[x]
         /\ GoodNode(t[b]) /\ GoodNode(t[c]) /\ Fit(t[b]) /\ Fit(t[c])
         /\ e \in 0..Len(u[b].items) - 1 /\ e + 1 \in 1..Len(u[b].items)
<1>1. u[b] \in Node /\ Len(u[b].items) \in Nat
  BY NodeKeys
<1> DEFINE N == Len(u[b].items)
<1>2. e \in 1..N - 2 /\ c \in Block /\ c \notin DOMAIN u
      /\ Bytes(LeftOf(u[b], e)) <= Capacity /\ Bytes(RightOf(u[b], e)) <= Capacity
  BY DEF SplitAt
<1>a. N \in Nat
  BY <1>1
<1> HIDE DEF N
<1>3. e \in 0..N - 1 /\ e \in 0..N /\ e + 1 \in 1..N /\ e # 0 /\ (N - e) - 1 # 0
  BY <1>2, <1>a
<1>4. GoodNode(LeftOf(u[b], e)) /\ Len(LeftOf(u[b], e).items) = e
  <2>1. GoodNode(LeftOf(u[b], e))
    BY <1>3, OrderHalves DEF N
  <2> QED
    BY <1>1, <1>3, <2>1, LeftIs DEF N
<1>5. GoodNode(RightOf(u[b], e)) /\ Len(RightOf(u[b], e).items) = (N - e) - 1
  <2>1. GoodNode(RightOf(u[b], e))
    BY <1>3, OrderHalves DEF N
  <2> QED
    BY <1>1, <1>3, <2>1, RightIs DEF N
<1>6. t = Put(Put(u, b, LeftOf(u[b], e)), c, RightOf(u[b], e))
  BY DEF Equal, Halved
<1>7. IsFunction(t)
  BY <1>6 DEF IsFunction, Put
<1>8. \A x : x \in DOMAIN t <=> x \in DOMAIN u \/ x = c
  BY <1>6 DEF Put
<1>9. t[b] = LeftOf(u[b], e) /\ t[c] = RightOf(u[b], e) /\ \A x \in DOMAIN u : x # b => t[x] = u[x]
  BY <1>2, <1>6 DEF Put
<1>10. Fit(t[b]) /\ Fit(t[c]) /\ GoodNode(t[b]) /\ GoodNode(t[c])
  BY <1>2, <1>3, <1>4, <1>5, <1>9 DEF Fit
<1> QED
  BY <1>2, <1>3, <1>7, <1>8, <1>9, <1>10 DEF N

LEMMA PassedSplit ==
  ASSUME NEW u, NEW r, Formed(u, r), NEW q, Way(u, r, q), NEW b \in DOMAIN u, b = Below(u, r, q),
         IsFunction(u), r \in Block \cup {0}, \A x \in DOMAIN u : x # b => Fit(u[x]),
         NEW e, NEW c, SplitAt(u, b, e, c), NEW t, Equal(t, Halved(u, b, e, c)),
         NEW it, Equal(it, [key |-> u[b].items[e + 1].key, child |-> c])
  PROVE  /\ Standing(t, r, q, "split", it) /\ Same(u, t, q)
         /\ Contents(WholeTree(t, r, q, "split", it)) = Contents(u)
<1>1. /\ IsFiniteSet(DOMAIN u) /\ \A x \in DOMAIN u : x \in Block /\ u[x] \in Node /\ GoodNode(u[x])
  <2>1. PICK lv, up, sp : Shape(u, r, lv, up, sp)
    BY DEF Formed
  <2>2. \A x \in DOMAIN u : x \in Block /\ u[x] \in Node /\ GoodNode(u[x])
    BY <2>1, BlockFacts
  <2> QED
    BY <2>1, <2>2 DEF Shape
<1>2. /\ IsFunction(t) /\ \A x : x \in DOMAIN t <=> x \in DOMAIN u \/ x = c
      /\ b # c /\ b \in DOMAIN t /\ c \in DOMAIN t
      /\ t[b] = LeftOf(u[b], e) /\ t[c] = RightOf(u[b], e)
      /\ \A x \in DOMAIN u : x # b => t[x] = u[x]
      /\ GoodNode(t[b]) /\ GoodNode(t[c]) /\ Fit(t[b]) /\ Fit(t[c])
      /\ e \in 0..Len(u[b].items) - 1 /\ e + 1 \in 1..Len(u[b].items)
  BY <1>1, HalvedIs
<1>3. c \in Block /\ c \notin DOMAIN u
  BY DEF SplitAt
<1>4. it = [key |-> u[b].items[e + 1].key, child |-> c] /\ it \in Item
  <2>1. u[b].items[e + 1].key \in Key
    BY <1>1, <1>2, ItemType
  <2> QED
    BY <1>3, <2>1 DEF Equal, Item
<1>5. \A m \in 1..Len(q) : q[m].block \in DOMAIN u /\ q[m].block # b
  BY BelowFacts
<1>6. Same(u, t, q)
  BY <1>2, <1>5 DEF Same
<1>7. \A x \in DOMAIN t : x \in Block /\ GoodNode(t[x]) /\ Fit(t[x])
  BY <1>1, <1>2, <1>3
<1> DEFINE w == WholeTree(t, r, q, "split", it)
           d == TopBlock(t, r, q, "split")
<1>8. Formed(w, d) /\ Contents(w) = Contents(u) /\ Way(w, r, q)
  <2>1. CASE q = <<>>
    <3>1. w = Put(t, d, [next0 |-> r, items |-> <<it>>]) /\ d = Fresh(t) /\ b = r
      BY <2>1 DEF WholeTree, TopBlock, Below
    <3>2. IsFiniteSet(DOMAIN t)
      <4>1. DOMAIN t = DOMAIN u \cup {c}
        BY <1>2
      <4> QED
        BY <1>1, <4>1, FS_AddElement
    <3>3. d \in Block /\ d \notin DOMAIN t
      BY <3>1, <3>2, FreshIs
    <3> DEFINE v == Put(u, d, [next0 |-> r, items |-> <<>>])
    <3>4. AsTopped(u, r, v, d)
      BY <1>2, <3>3 DEF AsTopped, Put
    <3>5. r # 0
      BY <1>1, <3>1 DEF Block
    <3> HIDE DEF w, d
    <3>6. Formed(v, d) /\ Contents(v) = Contents(u)
      BY <3>4, <3>5, TopShape
    <3>7. d # b /\ d # c /\ v[d] = [next0 |-> r, items |-> <<>>] /\ v[b] = u[b]
          /\ DOMAIN v = DOMAIN u \cup {d} /\ \A x \in DOMAIN u : v[x] = u[x]
      BY <1>2, <3>3 DEF Put
    <3>8. /\ w[d] = [next0 |-> r, items |-> <<it>>] /\ DOMAIN w = DOMAIN t \cup {d}
          /\ \A x \in DOMAIN t : w[x] = t[x]
      BY <3>1, <3>3 DEF Put
    <3> HIDE DEF v
    <3>9. AsSplit(v, w, d, 0, b, e, c)
      <4>1. d \in DOMAIN v /\ Len(v[d].items) = 0 /\ Child(v[d], 0) = b /\ b # 0
        BY <3>1, <3>5, <3>7 DEF Child
      <4>2. c \notin DOMAIN v /\ e \in 0..Len(v[b].items) - 1
        BY <1>2, <1>3, <3>7
      <4>3. DOMAIN w = DOMAIN v \cup {c}
        BY <1>2, <3>7, <3>8
      <4>4. w[d] = Inserted(v[d], 0, <<[key |-> v[b].items[e + 1].key, child |-> c]>>)
        BY <1>4, <3>7, <3>8, OneItem
      <4>5. w[b] = LeftOf(v[b], e) /\ w[c] = RightOf(v[b], e)
        BY <1>2, <3>7, <3>8
      <4>6. \A x \in DOMAIN v : x # d /\ x # b => w[x] = v[x]
        BY <1>2, <3>7, <3>8
      <4> QED
        BY <1>3, <4>1, <4>2, <4>3, <4>4, <4>5, <4>6 DEF AsSplit
    <3>10. Formed(w, d) /\ Contents(w) = Contents(v)
      <4>1. PICK lv, up, sp : Shape(v, d, lv, up, sp)
        BY <3>6 DEF Formed
      <4> QED
        BY <3>9, <4>1, SplitShape
    <3>11. Way(w, r, q)
      BY <2>1 DEF Way
    <3> QED
      BY <3>6, <3>10, <3>11
  <2>2. CASE q # <<>>
    <3> DEFINE z == Len(q)
               P == q[z].block
               i == q[z].place
    <3>0. z \in Nat /\ z \in 1..Len(q)
      BY <2>2 DEF Way
    <3>1. w = Put(t, P, Inserted(t[P], i, <<it>>)) /\ d = r /\ b = Child(u[P], i)
      BY <2>2 DEF WholeTree, TopBlock, Below
    <3>2. P \in DOMAIN u /\ i \in 0..Len(u[P].items) /\ P # b /\ P # c /\ t[P] = u[P] /\ P \in DOMAIN t /\ b # 0
      BY <1>1, <1>2, <1>3, <1>5, <3>0 DEF Way, Block
    <3>3. /\ DOMAIN w = DOMAIN t /\ w[P] = Inserted(u[P], i, <<it>>)
          /\ \A x \in DOMAIN t : x # P => w[x] = t[x]
      BY <3>1, <3>2 DEF Put
    <3> HIDE DEF w, d, P, i, z
    <3>4. AsSplit(u, w, P, i, b, e, c)
      <4>1. DOMAIN w = DOMAIN u \cup {c}
        BY <1>2, <3>3
      <4>2. w[P] = Inserted(u[P], i, <<[key |-> u[b].items[e + 1].key, child |-> c]>>)
        BY <1>4, <3>3
      <4>3. w[b] = LeftOf(u[b], e) /\ w[c] = RightOf(u[b], e)
        BY <1>2, <3>2, <3>3
      <4>4. \A x \in DOMAIN u : x # P /\ x # b => w[x] = u[x]
        BY <1>2, <3>2, <3>3
      <4> QED
        BY <1>2, <1>3, <3>1, <3>2, <4>1, <4>2, <4>3, <4>4 DEF AsSplit
    <3>5. Formed(w, r) /\ Contents(w) = Contents(u)
      <4>1. PICK lv, up, sp : Shape(u, r, lv, up, sp)
        BY DEF Formed
      <4> QED
        BY <3>4, <4>1, SplitShape
    <3>6. Way(w, r, q)
      <4>1. Len(w[P].items) = Len(u[P].items) + 1 /\ \A y \in 0..i : Child(w[P], y) = Child(u[P], y)
        BY <1>1, <1>4, <3>2, <3>3, InsertedOne
      <4>a. Len(u[P].items) \in Nat
        BY <1>1, <3>2, NodeKeys
      <4>2. i \in 0..Len(w[P].items) /\ i \in 0..i
        BY <3>2, <4>1, <4>a
      <4>3. ASSUME NEW m \in 1..Len(q)
            PROVE  /\ q[m].block \in DOMAIN w /\ q[m].place \in 0..Len(w[q[m].block].items)
                   /\ Child(w[q[m].block], q[m].place) = Child(u[q[m].block], q[m].place)
        <5>1. CASE q[m].block = P
          <6>1. m = z
            <7>1. PICK lv, up, sp : Shape(u, r, lv, up, sp)
              BY DEF Formed
            <7>2. lv[q[m].block] = lv[r] - (m - 1) /\ lv[q[z].block] = lv[r] - (z - 1)
              BY <3>0, <7>1, WayLevels
            <7>3. lv[r] \in Nat
              BY <1>1, <3>2, <7>1, BlockFacts
            <7>4. m \in Nat /\ z \in Nat
              BY <3>0
            <7> QED
              BY <5>1, <7>2, <7>3, <7>4 DEF P
          <6> QED
            BY <3>2, <3>3, <4>1, <4>2, <6>1 DEF P, i
        <5>2. CASE q[m].block # P
          <6>1. q[m].block \in DOMAIN u /\ q[m].block # b /\ q[m].place \in 0..Len(u[q[m].block].items)
            BY <1>5 DEF Way
          <6> QED
            BY <1>2, <3>3, <5>2, <6>1
        <5> QED
          BY <5>1, <5>2
      <4>4. ASSUME NEW m \in 1..Len(q)
            PROVE  /\ m = 1 => q[m].block = r
                   /\ m # 1 => q[m].block = Child(w[q[m - 1].block], q[m - 1].place)
        <5>1. m # 1 => m - 1 \in 1..Len(q)
          OBVIOUS
        <5> QED
          BY <4>3, <5>1 DEF Way
      <4> QED
        BY <4>3, <4>4 DEF Way
    <3> QED
      BY <3>1, <3>5, <3>6 DEF d
  <2> QED
    BY <2>1, <2>2
<1>9. q # <<>> => q[Len(q)].block \in DOMAIN t /\ q[Len(q)].place \in 0..Len(t[q[Len(q)].block].items)
  <2>1. q # <<>> => Len(q) \in 1..Len(q)
    BY DEF Way
  <2> QED
    BY <1>6, <2>1 DEF Way, Same
<1> HIDE DEF w, d
<1> QED
  BY <1>2, <1>4, <1>6, <1>7, <1>8, <1>9 DEF Standing, Fit, w, d

(* The function for the block below q returns h, its tree is u unless it is *)
(* split there.                                                             *)
Passes(h, u, r, q) ==
  /\ h.errors = {} /\ h.back \in {"fits", "small", "split"} /\ (h.back # "split" => h.item = NoItem)
  /\ Standing(h.nodes, r, q, h.back, h.item) /\ Same(u, h.nodes, q)
  /\ Contents(WholeTree(h.nodes, r, q, h.back, h.item)) = Contents(u)

LEMMA Passed ==
  ASSUME NEW u, NEW r, Formed(u, r), NEW q, Way(u, r, q), NEW b \in DOMAIN u, b = Below(u, r, q),
         IsFunction(u), r \in Block \cup {0}, \A x \in DOMAIN u : x # b => Fit(u[x]),
         NEW h, Outcome(h, u, b)
  PROVE  Passes(h, u, r, q)
<1>1. \A x \in DOMAIN u : x \in Block /\ u[x] \in Node /\ GoodNode(u[x])
  <2>1. PICK lv, up, sp : Shape(u, r, lv, up, sp)
    BY DEF Formed
  <2> QED
    BY <2>1, BlockFacts
<1>2. \A m \in 1..Len(q) : q[m].block \in DOMAIN u
  BY DEF Way
<1>3. q # <<>> => q[Len(q)].block \in DOMAIN u /\ q[Len(q)].place \in 0..Len(u[q[Len(q)].block].items)
  <2>1. q # <<>> => Len(q) \in 1..Len(q)
    BY DEF Way
  <2> QED
    BY <2>1 DEF Way
<1>4. CASE \E bk \in {"fits", "small"} : h = Result(u, bk, NoItem) /\ (bk = "fits" => Fit(u[b])) /\ (bk = "small" => Underflows(u[b]))
  <2>1. PICK bk \in {"fits", "small"} :
          h = Result(u, bk, NoItem) /\ (bk = "fits" => Fit(u[b])) /\ (bk = "small" => Underflows(u[b]))
    BY <1>4
  <2>2. h.nodes = u /\ h.back = bk /\ h.item = NoItem /\ h.errors = {}
    BY <2>1, NoErrors
  <2>3. WholeTree(u, r, q, bk, NoItem) = u /\ TopBlock(u, r, q, bk) = r
    BY <2>1 DEF WholeTree, TopBlock
  <2>4. Bytes(u[b]) <= Capacity
    BY <1>1, <2>1, SmallFits DEF Fit
  <2>5. Standing(u, r, q, bk, NoItem)
    <3>1. \A x \in DOMAIN u : x \in Block /\ GoodNode(u[x]) /\ Bytes(u[x]) <= Capacity
      BY <1>1, <2>4 DEF Fit
    <3>2. \A x \in DOMAIN u : Len(u[x].items) # 0 \/ (bk = "small" /\ x = Below(u, r, q))
      BY <2>1 DEF Fit
    <3>3. bk # "split" /\ (bk = "small" => Below(u, r, q) \in DOMAIN u /\ Underflows(u[Below(u, r, q)]))
      BY <2>1
    <3> QED
      BY <1>3, <2>3, <3>1, <3>2, <3>3 DEF Standing
  <2> QED
    BY <1>2, <2>1, <2>2, <2>3, <2>5 DEF Passes, Same
<1>5. CASE \E e, c : SplitAt(u, b, e, c)
                     /\ h = Result(Halved(u, b, e, c), "split", [key |-> u[b].items[e + 1].key, child |-> c])
  <2>1. PICK e, c : SplitAt(u, b, e, c)
                     /\ h = Result(Halved(u, b, e, c), "split", [key |-> u[b].items[e + 1].key, child |-> c])
    BY <1>5
  <2>2. PICK t : Equal(t, Halved(u, b, e, c))
    BY DEF Equal
  <2>3. PICK it : Equal(it, [key |-> u[b].items[e + 1].key, child |-> c])
    BY DEF Equal
  <2>4. h = Result(t, "split", it)
    BY <2>1, <2>2, <2>3 DEF Equal
  <2>5. h.nodes = t /\ h.back = "split" /\ h.item = it /\ h.errors = {}
    BY <2>4, NoErrors
  <2>6. /\ Standing(t, r, q, "split", it) /\ Same(u, t, q)
        /\ Contents(WholeTree(t, r, q, "split", it)) = Contents(u)
    BY <2>1, <2>2, <2>3, PassedSplit
  <2> QED
    BY <2>5, <2>6 DEF Passes
<1> QED
  BY <1>4, <1>5 DEF Outcome

(* q is p without its last element.                                         *)
Shortens(p, q) ==
  /\ Len(q) = Len(p) - 1 /\ Len(p) \in Nat /\ Len(p) # 0
  /\ \A m \in 1..Len(p) - 1 : m \in 1..Len(p) /\ q[m] = p[m]

LEMMA ShorterFacts ==
  ASSUME NEW t, NEW r, NEW p, Way(t, r, p), p # <<>>
  PROVE  /\ Way(t, r, Shorter(p)) /\ Shortens(p, Shorter(p))
         /\ Below(t, r, Shorter(p)) = p[Len(p)].block
<1> DEFINE S == [block : Block, place : Nat]
           z == Len(p)
           q == Shorter(p)
<1>1. p \in Seq(S) /\ z \in Nat /\ z # 0
  BY DEF Way
<1>2. q \in Seq(S) /\ Len(q) = z - 1 /\ \A m \in 1..z - 1 : q[m] = p[m]
  <2>1. q = SubSeq(p, 1, z - 1)
    BY DEF Shorter
  <2>a. Len(p) = z
    OBVIOUS
  <2> HIDE DEF S, q, z
  <2>2. z - 1 \in 0..z /\ z - 1 \in 0..Len(p)
    BY <1>1, <2>a
  <2>3. q \in Seq(S)
    BY <1>1, <2>1, <2>2, <2>a
  <2>4. Len(q) = z - 1
    BY <1>1, <2>1, <2>2, <2>a
  <2>5. \A m \in 1..z - 1 : q[m] = p[m]
    BY <1>1, <2>1, <2>2, <2>a
  <2> QED
    BY <2>3, <2>4, <2>5
<1> HIDE DEF q
<1>3. ASSUME NEW m \in 1..z - 1
      PROVE  m \in 1..Len(p) /\ q[m] = p[m]
  BY <1>1, <1>2
<1>4. Way(t, r, q)
  <2>1. ASSUME NEW m \in 1..Len(q)
        PROVE  /\ q[m].block \in DOMAIN t /\ q[m].place \in 0..Len(t[q[m].block].items)
               /\ m = 1 => q[m].block = r
               /\ m # 1 => q[m].block = Child(t[q[m - 1].block], q[m - 1].place)
    <3>1. m \in 1..Len(p) /\ q[m] = p[m] /\ (m # 1 => m - 1 \in 1..z - 1)
      BY <1>1, <1>2, <1>3
    <3>2. m # 1 => q[m - 1] = p[m - 1]
      BY <1>3, <3>1
    <3> QED
      BY <3>1, <3>2 DEF Way
  <2> QED
    BY <1>2, <2>1 DEF Way
<1>5. Below(t, r, q) = p[z].block
  <2>1. z \in 1..Len(p)
    BY <1>1
  <2>2. CASE z = 1
    <3>1. q = <<>>
      BY <1>2, <2>2
    <3> QED
      BY <2>1, <2>2, <3>1 DEF Below, Way
  <2>3. CASE z # 1
    <3>1. q # <<>> /\ Len(q) = z - 1 /\ z - 1 \in 1..z - 1
      BY <1>1, <1>2, <2>3
    <3>2. q[z - 1] = p[z - 1]
      BY <1>3, <3>1
    <3>3. p[z].block = Child(t[p[z - 1].block], p[z - 1].place)
      BY <2>1, <2>3 DEF Way
    <3> QED
      BY <3>1, <3>2, <3>3 DEF Below
  <2> QED
    BY <2>2, <2>3
<1> QED
  BY <1>1, <1>2, <1>3, <1>4, <1>5 DEF q, Shortens

LEMMA PassedItem ==
  ASSUME NEW t, NEW r, NEW p, NEW it, Standing(t, r, p, "split", it), p # <<>>,
         NEW b, b = p[Len(p)].block, NEW n, Equal(n, Inserted(t[b], p[Len(p)].place, <<it>>))
  PROVE  \E u : /\ Same(t, u, Shorter(p)) /\ Contents(u) = Contents(WholeTree(t, r, p, "split", it))
                /\ Passes(Stored(t, b, n), u, r, Shorter(p))
<1> DEFINE i == p[Len(p)].place
           u == WholeTree(t, r, p, "split", it)
           q == Shorter(p)
<1>1. u = Put(t, b, n) /\ TopBlock(t, r, p, "split") = r
  BY DEF WholeTree, TopBlock, Equal
<1>2. b \in DOMAIN t /\ i \in 0..Len(t[b].items) /\ GoodNode(t[b]) /\ Bytes(t[b]) <= Capacity /\ it \in Item
      /\ \A x \in DOMAIN t : Fit(t[x])
  BY DEF Standing, Fit
<1>3. DOMAIN u = DOMAIN t /\ u[b] = n /\ \A x \in DOMAIN t : x # b => u[x] = t[x]
  BY <1>1, <1>2 DEF Put
<1>4. IsFunction(u)
  BY <1>1 DEF IsFunction, Put
<1>5. Formed(u, r) /\ Way(u, r, p) /\ r \in Block \cup {0}
  BY <1>1 DEF Standing
<1> HIDE DEF u
<1>6. IsFiniteSet(DOMAIN t) /\ GoodNode(n) /\ Uniform(n)
  <2>1. GoodNode(n) /\ Uniform(n)
    BY <1>2, <1>3, <1>5, UniformIn
  <2> QED
    BY <1>3, <1>5, <2>1 DEF Formed, Shape
<1>7. Way(u, r, q) /\ b = Below(u, r, q)
  BY <1>5, ShorterFacts
<1>8. Len(n.items) # 0 /\ Bytes(n) + MaxItem + 1 <= 2 * Capacity
  <2> DEFINE m == t[b]
             N == Len(m.items)
  <2>1. n = Inserted(m, i, <<it>>)
    BY DEF Equal
  <2>2. m \in Node /\ N \in Nat /\ i \in 0..N /\ GoodNode(m)
    BY <1>2, NodeKeys
  <2> HIDE DEF m, i
  <2>3. /\ Len(n.items) = N + 1 /\ n.next0 = m.next0
        /\ \A y \in 1..i : n.items[y].key = m.items[y].key
        /\ \A y \in i + 1..N : n.items[y + 1].key = m.items[y].key
    BY <1>2, <2>1, <2>2, InsertedOne
  <2>4. LinkOf(n) = LinkOf(m)
    BY <2>3 DEF LinkOf
  <2>5. SameKeys(m, n, i, 0, 1)
    <3>1. i + 0 <= N /\ (N - 0) + 1 = N + 1 /\ i + 0 = i /\ i \in Nat
      BY <2>2
    <3>2. \A y \in (i + 0) + 1..N : n.items[(y - 0) + 1].key = m.items[y].key
      BY <2>2, <2>3
    <3> QED
      BY <1>6, <2>2, <2>3, <2>4, <3>1, <3>2 DEF SameKeys
  <2>6. Bytes(m) <= Capacity
    BY <1>2 DEF m
  <2>7. Bytes(n) + MaxItem + 1 <= 2 * Capacity
    BY <2>5, <2>6, EditedFits
  <2> QED
    BY <2>2, <2>3, <2>7
<1>9. Outcome(Stored(t, b, n), u, b)
  BY <1>1, <1>2, <1>6, <1>8, StoredOutcome
<1>10. \A x \in DOMAIN u : x # b => Fit(u[x])
  BY <1>2, <1>3
<1>11. Passes(Stored(t, b, n), u, r, q)
  BY <1>2, <1>3, <1>4, <1>5, <1>7, <1>9, <1>10, Passed
<1>12. Same(t, u, q)
  <2>1. \A m \in 1..Len(q) : q[m].block \in DOMAIN u /\ q[m].block # b
    BY <1>2, <1>3, <1>5, <1>7, BelowFacts
  <2> QED
    BY <1>3, <2>1 DEF Same
<1>13. Contents(u) = Contents(WholeTree(t, r, p, "split", it))
  BY DEF u
<1> QED
  BY <1>11, <1>12, <1>13

(* n is what block b gets before handle_underflow, or Fitted, sees it.      *)
LEMMA PassedHandled ==
  ASSUME NEW t, NEW r, r \in Block \cup {0}, NEW q, NEW b \in DOMAIN t, NEW n, NEW v, Equal(v, Put(t, b, n)),
         Formed(v, r), Way(v, r, q), b = Below(v, r, q), NEW u, Handled(u, t, r, b, n)
  PROVE  /\ Same(t, u, q) /\ Way(u, r, q) /\ b = Below(u, r, q) /\ Formed(u, r) /\ Contents(u) = Contents(v)
         /\ \A h : Outcome(h, u, b) => Passes(h, u, r, q)
<1>1. /\ Formed(u, r) /\ Contents(u) = Contents(v) /\ IsFunction(u) /\ b \in DOMAIN u
      /\ \A x \in DOMAIN u : x # b => Fit(u[x])
      /\ \A x \in DOMAIN t : x # b /\ x \notin Children(n) => x \in DOMAIN u /\ u[x] = t[x]
  BY DEF Handled, Equal
<1>2. DOMAIN v = DOMAIN t /\ v[b] = n /\ \A x \in DOMAIN t : x # b => v[x] = t[x]
  BY DEF Put, Equal
<1>3. \A m \in 1..Len(q) : q[m].block \in DOMAIN v /\ q[m].block # b /\ q[m].block \notin Children(n)
  BY <1>2, BelowFacts
<1>4. Same(v, u, q) /\ Same(t, u, q)
  BY <1>1, <1>2, <1>3 DEF Same
<1>5. Way(u, r, q) /\ b = Below(u, r, q)
  BY <1>4, SameWay
<1>6. ASSUME NEW h, Outcome(h, u, b) PROVE Passes(h, u, r, q)
  BY <1>1, <1>5, <1>6, Passed
<1> QED
  BY <1>1, <1>4, <1>5, <1>6

LEMMA PassedSmall ==
  ASSUME NEW t, NEW r, NEW p, NEW it, Standing(t, r, p, "small", it), p # <<>>,
         NEW b, b = p[Len(p)].block, NEW n, n = t[b]
  PROVE  \E u : /\ Same(t, u, Shorter(p)) /\ Contents(u) = Contents(t)
                /\ Passes(HandleUnderflow(t, b, n, p[Len(p)].place), u, r, Shorter(p))
<1> DEFINE i == p[Len(p)].place
           q == Shorter(p)
           c == Child(n, i)
<1>1. WholeTree(t, r, p, "small", it) = t /\ TopBlock(t, r, p, "small") = r /\ Below(t, r, p) = c
  BY DEF WholeTree, TopBlock, Below
<1>2. /\ Formed(t, r) /\ Way(t, r, p) /\ r \in Block \cup {0} /\ IsFunction(t)
      /\ b \in DOMAIN t /\ i \in 0..Len(n.items) /\ GoodNode(n) /\ Bytes(n) <= Capacity
      /\ c \in DOMAIN t /\ c \in Block /\ Underflows(t[c])
      /\ \A x \in DOMAIN t : Bytes(t[x]) <= Capacity /\ (Len(t[x].items) # 0 \/ x = c)
  BY <1>1 DEF Standing
<1>3. Way(t, r, q) /\ b = Below(t, r, q)
  BY <1>2, ShorterFacts
<1>4. c # b /\ c # 0
  <2>1. PICK lv, up, sp : Shape(t, r, lv, up, sp)
    BY <1>2 DEF Formed
  <2>2. c # 0
    BY <1>2 DEF Block
  <2>3. lv[b] \in Nat /\ lv[c] = lv[b] - 1
    BY <1>2, <2>1, <2>2, ChildFacts, BlockFacts
  <2> QED
    BY <2>2, <2>3
<1>5. PICK v : Equal(v, Put(t, b, n))
  BY DEF Equal
<1>6. v = t
  BY <1>2, <1>5 DEF Equal, Put, IsFunction
<1>7. Formed(Put(t, b, n), r) /\ Sized(t, b, c) /\ Len(n.items) # 0 /\ Stands(n, n, i)
  BY <1>2, <1>4, <1>5, <1>6 DEF Equal, Sized, Stands
<1> HIDE DEF i, q
<1>8. PICK u : Handled(u, t, r, b, n) /\ Handed(HandleUnderflow(t, b, n, i), u, b, n)
  BY <1>2, <1>4, <1>7, HandleOutcome
<1>9. /\ Same(t, u, q) /\ Contents(u) = Contents(v)
      /\ \A h : Outcome(h, u, b) => Passes(h, u, r, q)
  <2>1. Formed(v, r) /\ Way(v, r, q) /\ b = Below(v, r, q)
    BY <1>2, <1>3, <1>6
  <2>2. r \in Block \cup {0} /\ b \in DOMAIN t /\ Equal(v, Put(t, b, n)) /\ Handled(u, t, r, b, n)
    BY <1>2, <1>5, <1>8
  <2> QED
    BY ONLY <2>1, <2>2, PassedHandled
<1>10. Passes(HandleUnderflow(t, b, n, i), u, r, q)
  BY <1>2, <1>8, <1>9 DEF Handed
<1> QED
  BY <1>6, <1>9, <1>10 DEF i, q

LEMMA SameItems ==
  ASSUME NEW n \in Node, NEW m \in Node, n.next0 = m.next0, Len(n.items) = Len(m.items),
         \A y \in 1..Len(n.items) : n.items[y] = m.items[y]
  PROVE  n = m
<1>1. n.items \in Seq(Item) /\ m.items \in Seq(Item)
  BY DEF Node
<1>2. n.items = m.items
  BY <1>1
<1>3. n = [next0 |-> n.next0, items |-> n.items] /\ m = [next0 |-> m.next0, items |-> m.items]
  BY DEF Node
<1> QED
  BY <1>2, <1>3

LEMMA ReplacedOne ==
  ASSUME NEW n, NEW i, NEW k
  PROVE  Replaced(n, i, k, <<>>) = Rekeyed(n, i, k)
<1> DEFINE x == [key |-> k, child |-> n.items[i].child]
<1>1. <<x>> \o <<>> = <<x>>
  OBVIOUS
<1> QED
  BY <1>1 DEF Replaced, Rekeyed

LEMMA ReplacedTwo ==
  ASSUME NEW n \in Node, NEW i \in 1..Len(n.items), NEW k \in Key, NEW x \in Item
  PROVE  Replaced(n, i, k, <<x>>) = Rekeyed(Inserted(n, i, <<x>>), i, k)
<1> DEFINE N == Len(n.items)
           m == Inserted(n, i, <<x>>)
           d == Deleted(m, i - 1)
           c == Deleted(n, i - 1)
           y1 == [key |-> k, child |-> n.items[i].child]
           y2 == [key |-> k, child |-> m.items[i].child]
           two == <<y1>> \o <<x>>
           one == <<y2>>
           X1 == Len(<<x>>)
           X2 == Len(one)
           X3 == Len(two)
<1>0. N \in Nat /\ i \in 1..N /\ i \in Nat /\ n.items[i] \in Item /\ n.items[i].child \in Block \cup {0}
  BY ItemType, Lens
<1>n. (i + 1) - i = 1 /\ i + 1 \in 1..N + 1
  <2>1. N \in Nat /\ i \in 1..N
    BY <1>0
  <2> HIDE DEF N
  <2> QED
    BY ONLY <2>1
<1>1. /\ y1 \in Item /\ <<x>> \in Seq(Item) /\ <<x>>[1] = x /\ X1 = 1
      /\ two \in Seq(Item) /\ X3 = 2 /\ two[1] = y1 /\ two[2] = x
  BY <1>0 DEF Item
<1> HIDE DEF two, X1
<1>2. /\ m \in Node /\ m.next0 = n.next0 /\ Len(m.items) = N + X1
      /\ \A y \in 1..N + X1 : m.items[y] = IF y <= i THEN n.items[y]
                                ELSE IF y <= i + X1 THEN <<x>>[y - i] ELSE n.items[y - X1]
  <2>1. i \in 0..Len(n.items)
    BY <1>0
  <2> QED
    BY <1>1, <2>1, InsertedIs DEF X1
<1>3. /\ Len(m.items) = N + 1
      /\ \A y \in 1..i : m.items[y] = n.items[y]
      /\ m.items[i + 1] = x
      /\ \A y \in i + 2..N + 1 : m.items[y] = n.items[y - 1]
  <2> HIDE DEF m, N
  <2>1. (i + 1) - i = 1 /\ i + 1 \in 1..N + 1
    BY <1>n
  <2>2. m.items[i + 1] = x
    BY <1>0, <1>1, <1>2, <2>1
  <2>3. \A y \in 1..i : m.items[y] = n.items[y]
    BY <1>0, <1>1, <1>2
  <2>4. \A y \in i + 2..N + 1 : m.items[y] = n.items[y - 1]
    BY <1>0, <1>1, <1>2
  <2> QED
    BY <1>1, <1>2, <2>2, <2>3, <2>4
<1> HIDE DEF m
<1>4. y2 = y1 /\ one \in Seq(Item) /\ one[1] = y1 /\ X2 = 1
  BY <1>0, <1>1, <1>3
<1> HIDE DEF one, X2, y1, y2
<1>5. /\ d \in Node /\ d.next0 = m.next0 /\ Len(d.items) = N
      /\ \A y \in 1..N : d.items[y] = IF y <= i - 1 THEN m.items[y] ELSE m.items[y + 1]
  <2>1. i - 1 \in 0..Len(m.items) - 1 /\ Len(m.items) - 1 = N
    BY <1>0, <1>3
  <2>2. /\ d \in Node /\ d.next0 = m.next0 /\ Len(d.items) = Len(m.items) - 1
        /\ \A y \in 1..Len(m.items) - 1 : d.items[y] = IF y <= i - 1 THEN m.items[y] ELSE m.items[y + 1]
    BY <1>2, <2>1, DeletedIs
  <2> QED
    BY <2>1, <2>2
<1>6. /\ c \in Node /\ c.next0 = n.next0 /\ Len(c.items) = N - 1
      /\ \A y \in 1..N - 1 : c.items[y] = IF y <= i - 1 THEN n.items[y] ELSE n.items[y + 1]
  <2>1. i - 1 \in 0..N - 1
    BY <1>0
  <2> QED
    BY <2>1, DeletedIs
<1> DEFINE a == Inserted(d, i - 1, one)
           b == Inserted(c, i - 1, two)
<1> HIDE DEF N, d, c
<1>7. /\ a \in Node /\ a.next0 = n.next0 /\ Len(a.items) = N + 1
      /\ \A y \in 1..N + 1 : a.items[y] = IF y <= i - 1 THEN d.items[y]
                                ELSE IF y <= i THEN one[y - (i - 1)] ELSE d.items[y - 1]
  <2>1. i - 1 \in 0..Len(d.items) /\ (i - 1) + 1 = i
    BY <1>0, <1>5
  <2>2. /\ a \in Node /\ a.next0 = d.next0 /\ Len(a.items) = Len(d.items) + X2
        /\ \A y \in 1..Len(d.items) + X2 : a.items[y] = IF y <= i - 1 THEN d.items[y]
                                ELSE IF y <= (i - 1) + X2 THEN one[y - (i - 1)] ELSE d.items[y - X2]
    BY <1>4, <1>5, <2>1, InsertedIs DEF X2
  <2> QED
    BY <1>2, <1>4, <1>5, <2>1, <2>2
<1>8. /\ b \in Node /\ b.next0 = n.next0 /\ Len(b.items) = N + 1
      /\ \A y \in 1..N + 1 : b.items[y] = IF y <= i - 1 THEN c.items[y]
                                ELSE IF y <= i + 1 THEN two[y - (i - 1)] ELSE c.items[y - 2]
  <2>1. i - 1 \in 0..Len(c.items) /\ (i - 1) + 2 = i + 1 /\ (N - 1) + 2 = N + 1
    BY <1>0, <1>6
  <2>2. /\ b \in Node /\ b.next0 = c.next0 /\ Len(b.items) = Len(c.items) + X3
        /\ \A y \in 1..Len(c.items) + X3 : b.items[y] = IF y <= i - 1 THEN c.items[y]
                                ELSE IF y <= (i - 1) + X3 THEN two[y - (i - 1)] ELSE c.items[y - X3]
    BY <1>1, <1>6, <2>1, InsertedIs DEF X3
  <2> HIDE DEF b
  <2>3. X3 = 2 /\ Len(c.items) = N - 1 /\ c.next0 = n.next0
    BY <1>1, <1>6
  <2>4. \A y \in 1..N + 1 : b.items[y] = IF y <= i - 1 THEN c.items[y]
                                ELSE IF y <= i + 1 THEN two[y - (i - 1)] ELSE c.items[y - 2]
    BY <2>1, <2>2, <2>3
  <2> QED
    BY <2>1, <2>2, <2>3, <2>4
<1> HIDE DEF a, b
<1>9. ASSUME NEW y \in 1..N + 1 PROVE a.items[y] = b.items[y]
  <2>1. CASE y <= i - 1
    <3>1. y \in 1..N - 1 /\ y \in 1..N /\ y \in 1..i
      BY <1>0, <2>1
    <3>2. a.items[y] = d.items[y] /\ d.items[y] = m.items[y] /\ m.items[y] = n.items[y]
      BY <1>3, <1>5, <1>7, <2>1, <3>1
    <3>3. b.items[y] = c.items[y] /\ c.items[y] = n.items[y]
      BY <1>6, <1>8, <2>1, <3>1
    <3> QED
      BY <3>2, <3>3
  <2>2. CASE y = i
    <3>1. y - (i - 1) = 1 /\ ~(y <= i - 1) /\ y <= i /\ y <= i + 1
      BY <1>0, <2>2
    <3>2. a.items[y] = one[y - (i - 1)] /\ b.items[y] = two[y - (i - 1)]
      BY <1>7, <1>8, <3>1
    <3> QED
      BY <1>1, <1>4, <3>1, <3>2
  <2>3. CASE y = i + 1
    <3>1. y - (i - 1) = 2 /\ ~(y <= i - 1) /\ ~(y <= i) /\ y <= i + 1 /\ y - 1 = i /\ ~(i <= i - 1)
      BY <1>0, <2>3
    <3>2. a.items[y] = d.items[y - 1] /\ b.items[y] = two[y - (i - 1)]
      BY <1>7, <1>8, <3>1
    <3>3. d.items[i] = m.items[i + 1]
      BY <1>0, <1>5, <3>1
    <3> QED
      BY <1>1, <1>3, <3>1, <3>2, <3>3
  <2>4. CASE y > i + 1
    <3>1. /\ ~(y <= i - 1) /\ ~(y <= i) /\ ~(y <= i + 1) /\ y - 1 \in 1..N /\ y - 2 \in 1..N - 1
          /\ ~(y - 1 <= i - 1) /\ ~(y - 2 <= i - 1) /\ (y - 1) + 1 = y /\ (y - 2) + 1 = y - 1
          /\ y \in i + 2..N + 1
      BY <1>0, <2>4
    <3>2. a.items[y] = d.items[y - 1] /\ b.items[y] = c.items[y - 2]
      BY <1>7, <1>8, <3>1
    <3>3. d.items[y - 1] = m.items[y] /\ m.items[y] = n.items[y - 1]
      BY <1>3, <1>5, <3>1
    <3>4. c.items[y - 2] = n.items[y - 1]
      BY <1>6, <3>1
    <3> QED
      BY <3>2, <3>3, <3>4
  <2> QED
    BY <1>0, <2>1, <2>2, <2>3, <2>4
<1>10. a = b
  BY <1>7, <1>8, <1>9, SameItems
<1> QED
  BY <1>10 DEF a, b, c, d, m, one, two, y1, y2, Replaced, Rekeyed

(* What ReplaceBySmallest does for the variables' values bk, it and s.      *)
ReplacedBy(t, b, n, i, bk, it, s) ==
  Fitted(IF bk = "small" THEN HandleUnderflow(t, b, Replaced(n, i, s, <<>>), i)
         ELSE Small(t, b, Replaced(n, i, s, IF bk = "split" THEN <<it>> ELSE <<>>)),
         b)

(* n is the node with its new key, w the tree with the old one.             *)
Rekeying(t, r, p, bk, it, b, i, s, w, n) ==
  /\ Standing(t, r, p, bk, it) /\ p # <<>> /\ b = p[Len(p)].block /\ i = p[Len(p)].place /\ i # 0
  /\ s \in Key /\ w = WholeTree(t, r, p, bk, it)
  /\ n = Replaced(t[b], i, s, IF bk = "split" THEN <<it>> ELSE <<>>)

LEMMA RekeyedNode ==
  ASSUME NEW t, NEW r, NEW p, NEW bk, NEW it, NEW b, NEW i, NEW s, NEW w, NEW n,
         Rekeying(t, r, p, bk, it, b, i, s, w, n)
  PROVE  /\ b \in DOMAIN t /\ DOMAIN w = DOMAIN t /\ \A x \in DOMAIN t : x # b => w[x] = t[x]
         /\ i \in 1..Len(w[b].items) /\ w[b].items[i].key = t[b].items[i].key
         /\ i \in 1..Len(t[b].items) /\ GoodNode(w[b]) /\ Formed(w, r) /\ Way(w, r, p)
         /\ n = Rekeyed(w[b], i, s) /\ (bk # "split" => w = t)
<1>0. /\ Standing(t, r, p, bk, it) /\ p # <<>> /\ b = p[Len(p)].block /\ i = p[Len(p)].place /\ i # 0
      /\ s \in Key /\ w = WholeTree(t, r, p, bk, it)
      /\ n = Replaced(t[b], i, s, IF bk = "split" THEN <<it>> ELSE <<>>)
  BY DEF Rekeying
<1>1. b \in DOMAIN t /\ i \in 1..Len(t[b].items) /\ i \in 0..Len(t[b].items) /\ GoodNode(t[b]) /\ Len(t[b].items) \in Nat /\ t[b] \in Node
  <2>1. b \in DOMAIN t /\ i \in 0..Len(t[b].items) /\ GoodNode(t[b])
    BY <1>0 DEF Standing
  <2>2. Len(t[b].items) \in Nat /\ t[b] \in Node
    BY <2>1, NodeKeys
  <2>3. i \in 1..Len(t[b].items)
    BY <1>0, <2>1, <2>2
  <2> QED
    BY ONLY <2>1, <2>2, <2>3
<1>2. TopBlock(t, r, p, bk) = r /\ Formed(w, r) /\ Way(w, r, p)
  BY <1>0 DEF TopBlock, Standing
<1>3. CASE bk # "split"
  <2>1. w = t /\ n = Rekeyed(t[b], i, s)
    BY <1>0, <1>3, ReplacedOne DEF WholeTree
  <2> QED
    BY <1>1, <1>2, <2>1
<1>4. CASE bk = "split"
  <2>1. w = Put(t, b, Inserted(t[b], i, <<it>>)) /\ it \in Item
    BY <1>0, <1>4 DEF WholeTree, Standing
  <2>2. w[b] = Inserted(t[b], i, <<it>>) /\ DOMAIN w = DOMAIN t /\ \A x \in DOMAIN t : x # b => w[x] = t[x]
    BY <1>1, <2>1 DEF Put
  <2>3. n = Rekeyed(w[b], i, s)
    BY <1>0, <1>1, <1>4, <2>1, <2>2, ReplacedTwo
  <2>a. LET m == Inserted(t[b], i, <<it>>)
        IN  Len(m.items) = Len(t[b].items) + 1 /\ \A y \in 1..i : m.items[y].key = t[b].items[y].key
    BY ONLY <1>1, <2>1, InsertedOne
  <2>4. Len(w[b].items) = Len(t[b].items) + 1 /\ \A y \in 1..i : w[b].items[y].key = t[b].items[y].key
    BY <2>2, <2>a
  <2>5. i \in 1..i /\ i \in 1..Len(t[b].items) + 1
    BY <1>1
  <2>6. GoodNode(w[b])
    BY <1>1, <1>2, <2>2, UniformIn
  <2> QED
    BY <1>1, <1>2, <1>4, <2>2, <2>3, <2>4, <2>5, <2>6
<1> QED
  BY <1>3, <1>4

(* At most one item more and another key.                                   *)
LEMMA RekeyedFits ==
  ASSUME NEW m, GoodNode(m), Bytes(m) <= Capacity, NEW i \in 1..Len(m.items), NEW s \in Key, NEW v,
         v = m \/ (\E x \in Item : v = Inserted(m, i, <<x>>)),
         NEW n, Equal(n, Rekeyed(v, i, s)), GoodNode(n)
  PROVE  Bytes(n) \in Nat /\ Bytes(n) + MaxItem + 1 <= 2 * Capacity
<1> DEFINE N == Len(m.items)
<1>1. m \in Node /\ N \in Nat /\ i \in 1..N /\ i \in 0..N /\ i \in Nat
  BY NodeKeys
<1>2. CASE v = m
  <2>1. /\ Len(n.items) = N /\ n.next0 = m.next0
        /\ \A y \in 1..N : y # i => n.items[y].key = m.items[y].key
    BY <1>1, <1>2, RekeyedIs DEF Equal
  <2>2. LinkOf(n) = LinkOf(m)
    BY <2>1 DEF LinkOf
  <2>3. SameKeys(m, n, i - 1, 1, 1)
    <3> HIDE DEF N
    <3>1. \A y \in 1..i - 1 : n.items[y].key = m.items[y].key
      BY <1>1, <2>1
    <3>2. \A y \in ((i - 1) + 1) + 1..N : n.items[(y - 1) + 1].key = m.items[y].key
      <4>1. ASSUME NEW y \in ((i - 1) + 1) + 1..N PROVE n.items[(y - 1) + 1].key = m.items[y].key
        <5>1. y \in 1..N /\ y # i /\ (y - 1) + 1 = y
          BY <1>1
        <5> QED
          BY <2>1, <5>1
      <4> QED
        BY <4>1
    <3>3. i - 1 \in Nat /\ (i - 1) + 1 <= N /\ (N - 1) + 1 = N
      BY <1>1
    <3> QED
      BY <2>1, <2>2, <3>1, <3>2, <3>3 DEF SameKeys, N
  <2> QED
    BY <2>3, EditedFits
<1>3. CASE \E x \in Item : v = Inserted(m, i, <<x>>)
  <2>1. PICK x \in Item : v = Inserted(m, i, <<x>>)
    BY <1>3
  <2>2. /\ v \in Node /\ Len(v.items) = N + 1 /\ v.next0 = m.next0
        /\ \A y \in 1..i : v.items[y].key = m.items[y].key
        /\ \A y \in i + 1..N : v.items[y + 1].key = m.items[y].key
    BY <1>1, <2>1, InsertedOne
  <2> HIDE DEF N
  <2>a. i \in 1..Len(v.items)
    BY <1>1, <2>2
  <2>b. /\ Len(n.items) = Len(v.items) /\ n.next0 = v.next0
        /\ \A y \in 1..Len(v.items) : y # i => n.items[y].key = v.items[y].key
    BY <2>2, <2>a, RekeyedIs DEF Equal
  <2>3. /\ Len(n.items) = N + 1 /\ n.next0 = m.next0
        /\ \A y \in 1..N + 1 : y # i => n.items[y].key = v.items[y].key
    BY <2>2, <2>b
  <2>4. LinkOf(n) = LinkOf(m)
    BY <2>3 DEF LinkOf
  <2>5. SameKeys(m, n, i - 1, 1, 2)
    <3>1. \A y \in 1..i - 1 : n.items[y].key = m.items[y].key
      BY <1>1, <2>2, <2>3
    <3>2. \A y \in ((i - 1) + 1) + 1..N : n.items[(y - 1) + 2].key = m.items[y].key
      <4>1. ASSUME NEW y \in ((i - 1) + 1) + 1..N PROVE n.items[(y - 1) + 2].key = m.items[y].key
        <5>1. y \in i + 1..N /\ y + 1 # i /\ y + 1 \in 1..N + 1 /\ (y - 1) + 2 = y + 1
          BY <1>1
        <5>2. n.items[y + 1].key = v.items[y + 1].key /\ v.items[y + 1].key = m.items[y].key
          BY <2>2, <2>3, <5>1
        <5> QED
          BY <5>1, <5>2
      <4> QED
        BY <4>1
    <3>3. i - 1 \in Nat /\ (i - 1) + 1 <= N /\ (N - 1) + 2 = N + 1
      BY <1>1
    <3> QED
      BY <2>3, <2>4, <3>1, <3>2, <3>3 DEF SameKeys, N
  <2> QED
    BY <2>5, EditedFits
<1> QED
  BY <1>2, <1>3

Replacing(t, r, p, bk, it, b, i, k, s, w) ==
  /\ bk \in {"fits", "small", "split"} /\ Standing(t, r, p, bk, it) /\ p # <<>>
  /\ b = p[Len(p)].block /\ i = p[Len(p)].place /\ i # 0
  /\ k = t[b].items[i].key /\ (\A m \in 1..Len(p) - 1 : InGap(t[p[m].block], p[m].place, k))
  /\ s \in Key /\ w = WholeTree(t, r, p, bk, it) /\ Follows(w, k, s)

LEMMA PassedReplace ==
  ASSUME NEW t, NEW r, NEW p, NEW bk, NEW it, NEW b, NEW i, NEW k, NEW s, NEW w,
         Replacing(t, r, p, bk, it, b, i, k, s, w)
  PROVE  \E u : /\ Same(t, u, Shorter(p))
                /\ \A x : x \in Contents(u) <=> (x \in Contents(w) /\ x # k) \/ x = s
                /\ Passes(ReplacedBy(t, b, t[b], i, bk, it, s), u, r, Shorter(p))
<1> DEFINE q == Shorter(p)
           h == ReplacedBy(t, b, t[b], i, bk, it, s)
<1>0. /\ bk \in {"fits", "small", "split"} /\ Standing(t, r, p, bk, it) /\ p # <<>>
      /\ b = p[Len(p)].block /\ i = p[Len(p)].place /\ i # 0
      /\ k = t[b].items[i].key /\ (\A m \in 1..Len(p) - 1 : InGap(t[p[m].block], p[m].place, k))
      /\ s \in Key /\ w = WholeTree(t, r, p, bk, it) /\ Follows(w, k, s)
  BY DEF Replacing
<1>1. PICK n : Equal(n, Replaced(t[b], i, s, IF bk = "split" THEN <<it>> ELSE <<>>))
  BY DEF Equal
<1>2. /\ b \in DOMAIN t /\ DOMAIN w = DOMAIN t /\ \A x \in DOMAIN t : x # b => w[x] = t[x]
      /\ i \in 1..Len(w[b].items) /\ w[b].items[i].key = t[b].items[i].key
      /\ i \in 1..Len(t[b].items) /\ GoodNode(w[b]) /\ Formed(w, r) /\ Way(w, r, p)
      /\ n = Rekeyed(w[b], i, s) /\ (bk # "split" => w = t)
  <2>1. Rekeying(t, r, p, bk, it, b, i, s, w, n)
    BY <1>0, <1>1 DEF Rekeying, Equal
  <2> QED
    BY ONLY <2>1, RekeyedNode
<1>3. PICK v : Equal(v, Put(t, b, n))
  BY DEF Equal
<1>4. /\ DOMAIN v = DOMAIN t /\ v[b] = n /\ IsFunction(v)
      /\ \A x \in DOMAIN t : x # b => v[x] = t[x]
  BY <1>2, <1>3 DEF Equal, Put, IsFunction
<1>5. /\ Way(w, r, q) /\ Len(q) = Len(p) - 1 /\ Len(p) \in Nat /\ Len(p) # 0
      /\ \A m \in 1..Len(p) - 1 : m \in 1..Len(p) /\ q[m] = p[m]
      /\ b = Below(w, r, q)
  <2>a. p # <<>> /\ Way(w, r, p)
    BY <1>0, <1>2
  <2>b. Way(w, r, q) /\ Shortens(p, q) /\ Below(w, r, q) = p[Len(p)].block
    BY ONLY <2>a, ShorterFacts
  <2>1. Way(w, r, q) /\ Shortens(p, q) /\ b = Below(w, r, q)
    BY <1>0, <2>b
  <2> HIDE DEF q
  <2> QED
    BY <2>1 DEF Shortens
<1>6. \A m \in 1..Len(q) : q[m].block \in DOMAIN w /\ q[m].block # b
  BY <1>2, <1>5, BelowFacts
<1>7. Same(w, v, q) /\ Same(t, v, q)
  BY <1>2, <1>4, <1>6 DEF Same
<1>8. Way(v, r, q) /\ b = Below(v, r, q)
  BY <1>5, <1>7, SameWay
<1>9. /\ r \in Block \cup {0} /\ IsFunction(t)
      /\ \A x \in DOMAIN t : x \in Block /\ GoodNode(t[x]) /\ Bytes(t[x]) <= Capacity
      /\ \A x \in DOMAIN t : Len(t[x].items) # 0 \/ (bk = "small" /\ x = Below(t, r, p))
      /\ bk = "small" => Below(t, r, p) \in DOMAIN t /\ Underflows(t[Below(t, r, p)])
      /\ bk = "split" => it \in Item
  BY <1>0 DEF Standing
<1>10. Formed(v, r) /\ \A x : x \in Contents(v) <=> (x \in Contents(w) /\ x # k) \/ x = s
  <2> DEFINE z == Len(p)
  <2>1. z \in 1..Len(p)
    BY <1>5
  <2>2. \A m \in 1..z - 1 : InGap(w[p[m].block], p[m].place, k)
    <3>1. ASSUME NEW m \in 1..z - 1 PROVE InGap(w[p[m].block], p[m].place, k)
      <4>1. q[m] = p[m] /\ m \in 1..Len(q)
        BY <1>5
      <4>2. w[p[m].block] = t[p[m].block]
        BY <1>2, <1>6, <4>1
      <4> QED
        BY <1>0, <4>2
    <3> QED
      BY <3>1
  <2>3. AsRekeyed(w, v, p[z].block, i, s)
    BY <1>0, <1>2, <1>4 DEF AsRekeyed
  <2>4. k = w[p[z].block].items[i].key /\ i \in 1..Len(w[p[z].block].items)
    BY <1>0, <1>2
  <2>5. Follows(w, k, s) /\ s \in Key /\ Formed(w, r) /\ Way(w, r, p)
    BY <1>0, <1>2
  <2> HIDE DEF z
  <2> QED
    BY ONLY <2>1, <2>2, <2>3, <2>4, <2>5, Rekey
<1> HIDE DEF q
<1>11. GoodNode(n) /\ Uniform(n) /\ IsFiniteSet(DOMAIN v)
  <2>1. GoodNode(n) /\ Uniform(n)
    BY <1>2, <1>4, <1>10, UniformIn
  <2> QED
    BY <1>10, <2>1 DEF Formed, Shape
<1>12. Bytes(n) \in Nat /\ Bytes(n) + MaxItem + 1 <= 2 * Capacity
  <2>1. w[b] = t[b] \/ \E x \in Item : w[b] = Inserted(t[b], i, <<x>>)
    <3>1. CASE bk # "split"
      BY <1>2, <3>1
    <3>2. CASE bk = "split"
      <4>1. w = Put(t, b, Inserted(t[b], i, <<it>>))
        BY <1>0, <3>2 DEF WholeTree
      <4>2. w[b] = Inserted(t[b], i, <<it>>)
        BY <1>2, <4>1 DEF Put
      <4> QED
        BY <1>9, <3>2, <4>2
    <3> QED
      BY <3>1, <3>2
  <2>2. Equal(n, Rekeyed(w[b], i, s))
    BY <1>2 DEF Equal
  <2>3. GoodNode(t[b]) /\ Bytes(t[b]) <= Capacity /\ i \in 1..Len(t[b].items)
    BY <1>2, <1>9
  <2> QED
    BY <1>0, <1>11, <2>1, <2>2, <2>3, RekeyedFits
<1>13. CASE bk = "small"
  <2> DEFINE c == Child(n, i)
             g == HandleUnderflow(t, b, n, i)
  <2>1. w = t /\ n = Rekeyed(t[b], i, s) /\ h = Fitted(g, b)
    BY <1>0, <1>1, <1>2, <1>13 DEF ReplacedBy, Equal
  <2>2. /\ Len(n.items) = Len(t[b].items) /\ n.next0 = t[b].next0 /\ c = Child(t[b], i)
        /\ \A y \in 1..Len(t[b].items) : y # i => n.items[y].key = t[b].items[y].key
        /\ i \in 0..Len(t[b].items) /\ Len(t[b].items) # 0 /\ i \in 0..Len(n.items)
    <3>1. t[b] \in Node /\ i \in 1..Len(t[b].items) /\ Len(t[b].items) \in Nat
      BY <1>2, <1>9, NodeKeys
    <3>2. i \in 0..Len(t[b].items) /\ Len(t[b].items) # 0
      BY <3>1
    <3>3. /\ Len(n.items) = Len(t[b].items) /\ n.next0 = t[b].next0
          /\ \A y \in 1..Len(t[b].items) : y # i => n.items[y].key = t[b].items[y].key
          /\ \A y \in 0..Len(t[b].items) : Child(n, y) = Child(t[b], y)
      <4>1. LET m == Rekeyed(t[b], i, s)
            IN  /\ Len(m.items) = Len(t[b].items) /\ m.next0 = t[b].next0
                /\ \A y \in 1..Len(t[b].items) : y # i => m.items[y].key = t[b].items[y].key
                /\ \A y \in 0..Len(t[b].items) : Child(m, y) = Child(t[b], y)
        <5>1. s \in Key
          BY <1>0
        <5> QED
          BY ONLY <3>1, <5>1, RekeyedIs
      <4> QED
        BY <2>1, <4>1
    <3> QED
      BY <3>2, <3>3
  <2>3. Below(t, r, p) = c
    BY <1>0, <2>2 DEF Below
  <2>4. c # b /\ c # 0 /\ c \in DOMAIN t
    <3>1. PICK lv, up, sp : Shape(t, r, lv, up, sp)
      BY <1>2, <2>1 DEF Formed
    <3>2. c \in DOMAIN t /\ c # 0
      BY <1>9, <1>13, <2>3 DEF Block
    <3>3. i \in 0..Len(t[b].items) /\ Child(t[b], i) # 0 /\ c = Child(t[b], i)
      BY <2>2, <3>2
    <3>4. lv[Child(t[b], i)] = lv[b] - 1
      BY <1>2, <3>1, <3>3, ChildFacts
    <3>5. lv[b] \in Nat
      BY <1>2, <3>1, BlockFacts
    <3> QED
      BY <3>2, <3>3, <3>4, <3>5
  <2>5. Stands(t[b], n, i)
    <3>1. LinkOf(t[b]) = LinkOf(n)
      BY <2>2 DEF LinkOf
    <3> QED
      BY <1>2, <1>9, <2>2, <3>1 DEF Stands
  <2>6. Formed(Put(t, b, n), r) /\ Sized(t, b, c) /\ Underflows(t[c])
    BY <1>3, <1>9, <1>10, <1>13, <2>3 DEF Equal, Sized
  <2>7. PICK u : Handled(u, t, r, b, n) /\ Handed(g, u, b, n)
    <3> HIDE DEF h
    <3> QED
      BY <1>2, <2>2, <2>4, <2>5, <2>6, HandleOutcome
  <2>8. /\ Same(t, u, q) /\ Formed(u, r) /\ Contents(u) = Contents(v)
        /\ \A x : Outcome(x, u, b) => Passes(x, u, r, q)
    <3>1. r \in Block \cup {0} /\ b \in DOMAIN t /\ Equal(v, Put(t, b, n)) /\ Formed(v, r) /\ Way(v, r, q)
          /\ b = Below(v, r, q) /\ Handled(u, t, r, b, n)
      BY <1>2, <1>3, <1>8, <1>9, <1>10, <2>7
    <3> QED
      BY ONLY <3>1, PassedHandled
  <2>9. Outcome(Fitted(g, b), u, b)
    <3>1. /\ IsFunction(u) /\ b \in DOMAIN u /\ GoodNode(u[b]) /\ Uniform(u[b])
          /\ Bytes(u[b]) + MaxItem + 1 <= 2 * Capacity
      BY <2>7 DEF Handled
    <3>2. IsFiniteSet(DOMAIN u)
      BY <2>8 DEF Formed, Shape
    <3>3. Outcome(g, u, b) \/ (\E x : g = Result(u, x, NoItem) /\ ~(Bytes(u[b]) <= Capacity))
      BY <2>7 DEF Handed
    <3> QED
      BY ONLY <3>1, <3>2, <3>3, FittedOutcome
  <2> HIDE DEF h, g, c
  <2>10. Passes(h, u, r, q)
    BY <2>1, <2>8, <2>9
  <2> QED
    BY <1>10, <2>8, <2>10 DEF h, q
<1>14. CASE bk # "small"
  <2> DEFINE g == Small(t, b, n)
  <2>1. h = Fitted(g, b)
    BY <1>0, <1>1, <1>14 DEF ReplacedBy, Equal
  <2>2. \E x : g = Result(v, x, NoItem)
    BY <1>3, KeptIs DEF Equal
  <2>3. Bytes(n) <= Capacity => Outcome(g, v, b)
    BY <1>3, <1>11, SmallOutcome DEF Equal
  <2>4. Outcome(Fitted(g, b), v, b)
    <3>1. /\ IsFunction(v) /\ b \in DOMAIN v /\ GoodNode(v[b]) /\ Uniform(v[b]) /\ IsFiniteSet(DOMAIN v)
          /\ Bytes(v[b]) + MaxItem + 1 <= 2 * Capacity
      BY <1>2, <1>4, <1>11, <1>12
    <3>2. Outcome(g, v, b) \/ (\E x : g = Result(v, x, NoItem) /\ ~(Bytes(v[b]) <= Capacity))
      BY <1>4, <2>2, <2>3
    <3> HIDE DEF g
    <3> QED
      BY ONLY <3>1, <3>2, FittedOutcome
  <2>5. \A x \in DOMAIN v : x # b => Fit(v[x])
    BY <1>4, <1>9, <1>14 DEF Fit
  <2> HIDE DEF g, h
  <2>6. Passes(h, v, r, q)
    <3>1. b \in DOMAIN v /\ r \in Block \cup {0}
      BY <1>2, <1>4, <1>9
    <3> QED
      BY ONLY <1>4, <1>8, <1>10, <2>1, <2>4, <2>5, <3>1, Passed
  <2> QED
    BY <1>7, <1>10, <2>6 DEF h, q
<1> QED
  BY <1>13, <1>14

-----------------------------------------------------------------------------
(* A call in the middle: the way goes to key k, and from the node that has  *)
(* it, the f-th, to the smallest key behind it.                             *)
Aimed(t, p, f, k) == \A m \in 1..Len(p) : f = 0 \/ m < f => InGap(t[p[m].block], p[m].place, k)

Holds(t, p, f, k) ==
  f # 0 => f \in 1..Len(p) /\ p[f].place # 0 /\ t[p[f].block].items[p[f].place].key = k

Straight(p, f) == f # 0 => \A m \in 1..Len(p) : m > f => p[m].place = 0

(* The keys of tree w are those of c after the call, or, until the key      *)
(* found is replaced, those of c without the smallest behind it.            *)
Made(w, c, o, k) ==
  IF o = "add" THEN k \notin c /\ \A x : x \in Contents(w) <=> x \in c \/ x = k
  ELSE k \in c /\ \A x : x \in Contents(w) <=> x \in c /\ x # k

Taken(w, c, k, s) ==
  /\ k \in c /\ s \in Key /\ s \in c /\ Follows(w, k, s)
  /\ \A x : x \in Contents(w) <=> x \in c /\ x # s

Calling(t, r, p, bk, it, f, s, o, k, c) ==
  /\ Standing(t, r, p, bk, it) /\ p \in Seq([block : Block, place : Nat])
  /\ bk \in {"none", "fits", "small", "split"} /\ (bk # "split" => it = NoItem)
  /\ o \in {"add", "delete"} /\ k \in Key /\ f \in 0..Len(p) /\ (f # 0 => o = "delete")
  /\ bk = "none" \/ f # 0 => Aimed(t, p, f, k) /\ Holds(t, p, f, k)
  /\ bk = "none" => /\ \A x : x \in Contents(t) <=> x \in c
                    /\ Straight(p, f) /\ s = 0 /\ (f # 0 => Below(t, r, p) # 0)
  /\ bk # "none" /\ f = 0 => s = 0 /\ Made(WholeTree(t, r, p, bk, it), c, o, k)
  /\ bk # "none" /\ f # 0 => Taken(WholeTree(t, r, p, bk, it), c, k, s)

LEMMA StillAimed ==
  ASSUME NEW t, NEW v, NEW p, NEW q, NEW f \in 0..Len(q), NEW k, Same(t, v, q), Len(p) \in Nat, Len(q) \in Nat,
         Len(q) <= Len(p), \A m \in 1..Len(q) : q[m] = p[m], Aimed(t, p, f, k), Holds(t, p, f, k)
  PROVE  Aimed(v, q, f, k) /\ Holds(v, q, f, k)
<1>1. \A m \in 1..Len(q) : m \in 1..Len(p) /\ t[q[m].block] = v[q[m].block] /\ q[m] = p[m]
  BY DEF Same
<1>2. f # 0 => f \in 1..Len(q)
  OBVIOUS
<1> QED
  BY <1>1, <1>2 DEF Aimed, Holds

LEMMA SameTwice ==
  ASSUME NEW t, NEW u, NEW v, NEW q, Same(t, u, q), Same(u, v, q)
  PROVE  Same(t, v, q)
BY DEF Same

LEMMA PassOn ==
  ASSUME NEW t, NEW r, NEW p, NEW bk, NEW it, NEW f, NEW s, NEW o, NEW k, NEW c,
         Calling(t, r, p, bk, it, f, s, o, k, c), bk # "none", p # <<>>, f # Len(p),
         NEW q, Equal(q, Shorter(p)), NEW u, Same(t, u, q),
         Equal(Contents(u), Contents(WholeTree(t, r, p, bk, it))), NEW h, Passes(h, u, r, q)
  PROVE  Calling(h.nodes, r, q, h.back, h.item, f, s, o, k, c) /\ h.errors = {}
<1> DEFINE w == WholeTree(t, r, p, bk, it)
           v == WholeTree(h.nodes, r, q, h.back, h.item)
<1>1. /\ h.errors = {} /\ h.back \in {"fits", "small", "split"} /\ (h.back # "split" => h.item = NoItem)
      /\ Standing(h.nodes, r, q, h.back, h.item) /\ Same(u, h.nodes, q) /\ Contents(v) = Contents(w)
  BY DEF Passes, Equal
<1>2. /\ Way(w, r, p) /\ p \in Seq([block : Block, place : Nat])
      /\ o \in {"add", "delete"} /\ k \in Key /\ f \in 0..Len(p) /\ (f # 0 => o = "delete")
      /\ (f # 0 => Aimed(t, p, f, k) /\ Holds(t, p, f, k))
      /\ (f = 0 => s = 0 /\ Made(w, c, o, k)) /\ (f # 0 => Taken(w, c, k, s))
  BY DEF Calling, Standing
<1>3. /\ Way(w, r, Shorter(p)) /\ Len(Shorter(p)) = Len(p) - 1 /\ Len(p) \in Nat /\ Len(p) # 0
      /\ \A m \in 1..Len(p) - 1 : m \in 1..Len(p) /\ Shorter(p)[m] = p[m]
  <2>1. p # <<>> /\ Way(w, r, p)
    BY <1>2
  <2> HIDE DEF w
  <2>2. Way(w, r, Shorter(p)) /\ Shortens(p, Shorter(p))
    BY ONLY <2>1, ShorterFacts
  <2> QED
    BY <2>2 DEF Shortens
<1>4. Len(q) = Len(p) - 1 /\ \A m \in 1..Len(q) : q[m] = p[m]
  BY <1>3 DEF Equal
<1>a. q \in Seq([block : Block, place : Nat])
  BY <1>3 DEF Way, Equal
<1>5. f \in 0..Len(q) /\ Len(q) \in Nat /\ Len(q) <= Len(p)
  BY <1>2, <1>3, <1>4
<1>6. Same(t, h.nodes, q)
  BY <1>1, SameTwice
<1>7. f # 0 => Aimed(h.nodes, q, f, k) /\ Holds(h.nodes, q, f, k)
  BY <1>2, <1>3, <1>4, <1>5, <1>6, StillAimed
<1> HIDE DEF w, v
<1>8. (f = 0 => Made(v, c, o, k)) /\ (f # 0 => Taken(v, c, k, s))
  <2>1. f = 0 => Made(v, c, o, k)
    BY <1>1, <1>2 DEF Made
  <2>2. f # 0 => Taken(v, c, k, s)
    BY <1>1, <1>2 DEF Taken, Follows
  <2> QED
    BY <2>1, <2>2
<1>9. h.back # "none" /\ h.back \in {"none", "fits", "small", "split"}
  BY <1>1
<1> QED
  BY <1>1, <1>2, <1>5, <1>7, <1>8, <1>9, <1>a DEF Calling, v

LEMMA PassOnUp ==
  ASSUME NEW t, NEW r, NEW p, NEW it, NEW f, NEW s, NEW o, NEW k, NEW c,
         Calling(t, r, p, "fits", it, f, s, o, k, c), p # <<>>, f # Len(p)
  PROVE  Calling(t, r, Shorter(p), "fits", it, f, s, o, k, c)
<1> DEFINE q == Shorter(p)
           h == Result(t, "fits", it)
<1>1. Standing(t, r, p, "fits", it) /\ it = NoItem
  BY DEF Calling
<1>2. \A x : WholeTree(t, r, x, "fits", it) = t /\ TopBlock(t, r, x, "fits") = r
  BY DEF WholeTree, TopBlock
<1>3. Way(t, r, q)
  BY <1>1, <1>2, ShorterFacts DEF Standing
<1>4. Same(t, t, q)
  BY <1>3 DEF Way, Same
<1>5. q # <<>> => q[Len(q)].block \in DOMAIN t /\ q[Len(q)].place \in 0..Len(t[q[Len(q)].block].items)
  <2>1. q # <<>> => Len(q) \in 1..Len(q)
    BY <1>3 DEF Way
  <2> QED
    BY <1>3, <2>1 DEF Way
<1> HIDE DEF q
<1>6. Standing(t, r, q, "fits", it)
  BY <1>1, <1>2, <1>3, <1>5 DEF Standing
<1>7. h.nodes = t /\ h.back = "fits" /\ h.item = it /\ h.errors = {}
  BY NoErrors
<1> HIDE DEF h
<1>8. Passes(h, t, r, q)
  BY <1>1, <1>2, <1>4, <1>6, <1>7 DEF Passes
<1>9. Equal(q, Shorter(p)) /\ Equal(Contents(t), Contents(WholeTree(t, r, p, "fits", it)))
  BY <1>2 DEF Equal, q
<1>10. Calling(h.nodes, r, q, h.back, h.item, f, s, o, k, c)
  BY <1>4, <1>8, <1>9, PassOn
<1> QED
  BY <1>7, <1>10 DEF q

LEMMA ReplaceOn ==
  ASSUME NEW t, NEW r, NEW p, NEW bk, NEW it, NEW f, NEW s, NEW o, NEW k, NEW c,
         Calling(t, r, p, bk, it, f, s, o, k, c), bk # "none", f # 0, f = Len(p),
         NEW b, b = p[Len(p)].block, NEW i, i = p[Len(p)].place,
         NEW h, Equal(h, ReplacedBy(t, b, t[b], i, bk, it, s))
  PROVE  Calling(h.nodes, r, Shorter(p), h.back, h.item, 0, 0, o, k, c) /\ h.errors = {}
<1> DEFINE q == Shorter(p)
<1>1. /\ Standing(t, r, p, bk, it) /\ bk \in {"fits", "small", "split"} /\ o = "delete" /\ k \in Key
      /\ Aimed(t, p, f, k) /\ Holds(t, p, f, k) /\ Taken(WholeTree(t, r, p, bk, it), c, k, s)
      /\ p \in Seq([block : Block, place : Nat])
  BY DEF Calling
<1>2. PICK w : Equal(w, WholeTree(t, r, p, bk, it))
  BY DEF Equal
<1>3. /\ Follows(w, k, s) /\ s \in Key /\ k \in c /\ s \in c
      /\ \A x : x \in Contents(w) <=> x \in c /\ x # s
  BY <1>1, <1>2 DEF Taken, Equal
<1>4. p # <<>> /\ i # 0 /\ t[b].items[i].key = k
  BY <1>1 DEF Holds
<1>5. \A m \in 1..Len(p) - 1 : InGap(t[p[m].block], p[m].place, k)
  <2>1. ASSUME NEW m \in 1..Len(p) - 1 PROVE m \in 1..Len(p) /\ m < f
    BY <1>1
  <2> QED
    BY <1>1, <2>1 DEF Aimed
<1>6. PICK u : /\ Same(t, u, q)
               /\ \A x : x \in Contents(u) <=> (x \in Contents(w) /\ x # k) \/ x = s
               /\ Passes(h, u, r, q)
  <2>1. h = ReplacedBy(t, b, t[b], i, bk, it, s)
    BY DEF Equal
  <2>2. Replacing(t, r, p, bk, it, b, i, k, s, w)
    BY <1>1, <1>2, <1>3, <1>4, <1>5 DEF Replacing, Equal
  <2>3. \E u : /\ Same(t, u, Shorter(p))
               /\ \A x : x \in Contents(u) <=> (x \in Contents(w) /\ x # k) \/ x = s
               /\ Passes(ReplacedBy(t, b, t[b], i, bk, it, s), u, r, Shorter(p))
    BY ONLY <2>2, PassedReplace
  <2> QED
    BY <2>1, <2>3
<1>7. /\ h.errors = {} /\ h.back \in {"fits", "small", "split"} /\ (h.back # "split" => h.item = NoItem)
      /\ Standing(h.nodes, r, q, h.back, h.item)
      /\ Contents(WholeTree(h.nodes, r, q, h.back, h.item)) = Contents(u)
  BY <1>6 DEF Passes
<1>8. k # s
  <2>1. k \in Nat /\ s \in Nat /\ k < s
    BY <1>1, <1>3, SizeAssumption DEF Follows
  <2> QED
    BY <2>1
<1>9. Made(WholeTree(h.nodes, r, q, h.back, h.item), c, o, k)
  <2>1. \A x : x \in Contents(u) <=> x \in c /\ x # k
    BY <1>3, <1>6, <1>8
  <2> QED
    BY <1>1, <1>3, <1>7, <2>1 DEF Made
<1>10. q \in Seq([block : Block, place : Nat]) /\ 0 \in 0..Len(q)
  <2>1. Way(w, r, q)
    BY <1>1, <1>2, <1>4, ShorterFacts DEF Standing, Equal
  <2> HIDE DEF q
  <2> QED
    BY <2>1 DEF Way
<1> HIDE DEF q
<1>11. h.back # "none" /\ h.back \in {"none", "fits", "small", "split"}
  BY <1>7
<1>12. Calling(h.nodes, r, q, h.back, h.item, 0, 0, o, k, c)
  BY <1>1, <1>7, <1>9, <1>10, <1>11 DEF Calling
<1> QED
  BY <1>7, <1>12 DEF q

LEMMA BelowIn ==
  ASSUME NEW t, NEW r, Formed(t, r), NEW p, Way(t, r, p)
  PROVE  /\ Below(t, r, p) # 0 => Below(t, r, p) \in DOMAIN t
         /\ Below(t, r, p) = 0 /\ p = <<>> => \A x : x \notin DOMAIN t
<1>1. PICK lv, up, sp : Shape(t, r, lv, up, sp)
  BY DEF Formed
<1>2. CASE p = <<>>
  <2>1. Below(t, r, p) = r
    BY <1>2 DEF Below
  <2>2. r \in DOMAIN t \/ (r = 0 /\ DOMAIN t = {})
    BY <1>1 DEF Shape
  <2>3. 0 \notin DOMAIN t
    BY <1>1 DEF Shape, Block
  <2> QED
    BY <1>2, <2>1, <2>2, <2>3
<1>3. CASE p # <<>>
  <2> DEFINE z == Len(p)
             b == p[z].block
             i == p[z].place
  <2>1. z \in 1..Len(p)
    BY <1>3 DEF Way
  <2>2. b \in DOMAIN t /\ i \in 0..Len(t[b].items)
    BY <2>1 DEF Way
  <2>3. Below(t, r, p) = Child(t[b], i)
    BY <1>3 DEF Below
  <2> HIDE DEF b, i
  <2>4. Child(t[b], i) # 0 => Child(t[b], i) \in DOMAIN t
    BY <1>1, <2>2, ChildFacts
  <2> QED
    BY <1>3, <2>3, <2>4
<1> QED
  BY <1>2, <1>3

LEMMA Longer ==
  ASSUME NEW p \in Seq([block : Block, place : Nat]), NEW b \in Block, NEW i \in Nat,
         NEW q, Equal(q, Append(p, [block |-> b, place |-> i]))
  PROVE  /\ q \in Seq([block : Block, place : Nat]) /\ q # <<>> /\ Len(p) \in Nat /\ Len(q) = Len(p) + 1
         /\ q[Len(p) + 1].block = b /\ q[Len(p) + 1].place = i
         /\ \A m \in 1..Len(p) : q[m] = p[m]
<1> DEFINE S == [block : Block, place : Nat]
           x == [block |-> b, place |-> i]
<1>1. x \in S /\ x.block = b /\ x.place = i
  OBVIOUS
<1>2. q = Append(p, x) /\ p \in Seq(S)
  BY DEF Equal
<1> HIDE DEF S, x
<1>3. q \in Seq(S) /\ Len(p) \in Nat /\ Len(q) = Len(p) + 1 /\ q[Len(p) + 1] = x
      /\ \A m \in 1..Len(p) : q[m] = p[m]
  BY <1>1, <1>2
<1>4. q # <<>>
  BY <1>3
<1> QED
  BY <1>1, <1>3, <1>4 DEF S

LEMMA LongerWay ==
  ASSUME NEW t, NEW r, Formed(t, r), NEW p, Way(t, r, p), NEW b, b = Below(t, r, p), b # 0,
         NEW i \in 0..Len(t[b].items), NEW q, Equal(q, Append(p, [block |-> b, place |-> i]))
  PROVE  /\ Way(t, r, q) /\ b \in DOMAIN t /\ b \in Block /\ i \in Nat
         /\ q # <<>> /\ Len(p) \in Nat /\ Len(q) = Len(p) + 1
         /\ q[Len(p) + 1].block = b /\ q[Len(p) + 1].place = i
         /\ \A m \in 1..Len(p) : q[m] = p[m]
<1>4. b \in DOMAIN t /\ b \in Block /\ i \in Nat /\ p \in Seq([block : Block, place : Nat])
  <2>1. b \in DOMAIN t
    BY BelowIn
  <2>2. PICK lv, up, sp : Shape(t, r, lv, up, sp)
    BY DEF Formed
  <2>3. b \in Block
    BY <2>1, <2>2, BlockFacts
  <2> QED
    BY <2>1, <2>3 DEF Way
<1>5. PICK z : Equal(z, Len(p) + 1)
  BY DEF Equal
<1>6. /\ q \in Seq([block : Block, place : Nat]) /\ q # <<>> /\ Len(p) \in Nat /\ Len(q) = z /\ z = Len(p) + 1
      /\ q[z].block = b /\ q[z].place = i
      /\ \A m \in 1..Len(p) : q[m] = p[m]
  BY <1>4, <1>5, Longer DEF Equal
<1>7. \A m \in 1..Len(q) : (m = z \/ m \in 1..Len(p)) /\ (m # 1 => m - 1 \in 1..Len(p))
  BY <1>6
<1>8. Way(t, r, q)
  <2>1. ASSUME NEW m \in 1..Len(q)
        PROVE  /\ q[m].block \in DOMAIN t /\ q[m].place \in 0..Len(t[q[m].block].items)
               /\ m = 1 => q[m].block = r
               /\ m # 1 => q[m].block = Child(t[q[m - 1].block], q[m - 1].place)
    <3>1. CASE m \in 1..Len(p)
      <4>1. q[m] = p[m] /\ (m # 1 => q[m - 1] = p[m - 1])
        BY <1>6, <1>7, <3>1
      <4> QED
        BY <3>1, <4>1 DEF Way
    <3>2. CASE m = z
      <4>1. m = 1 => p = <<>>
        BY <1>4, <1>6, <3>2
      <4>2. m # 1 => p # <<>> /\ m - 1 = Len(p) /\ q[m - 1] = p[Len(p)]
        BY <1>6, <1>7, <3>2
      <4>3. q[m].block = b /\ q[m].place = i
        BY <1>6, <3>2
      <4>4. m = 1 => q[m].block = r
        BY <4>1, <4>3 DEF Below
      <4>5. m # 1 => q[m].block = Child(t[q[m - 1].block], q[m - 1].place)
        BY <4>2, <4>3 DEF Below
      <4> QED
        BY <1>4, <4>3, <4>4, <4>5
    <3> QED
      BY <1>7, <3>1, <3>2
  <2> QED
    BY <1>6, <2>1 DEF Way
<1> QED
  BY <1>4, <1>6, <1>8

(* The function for block b calls itself for the i-th child of the node, g  *)
(* is the node of the way q that has the key.                               *)
Downward(t, r, p, f, o, k, b, i, q, g) ==
  /\ b = Below(t, r, p) /\ b # 0 /\ i \in 0..Len(t[b].items)
  /\ q = Append(p, [block |-> b, place |-> i])
  /\ \/ g = 0 /\ f = 0 /\ InGap(t[b], i, k)
     \/ /\ g = Len(p) + 1 /\ f = 0 /\ o = "delete" /\ i # 0
        /\ t[b].items[i].key = k /\ t[b].next0 # 0
     \/ g = f /\ f # 0 /\ i = 0 /\ t[b].next0 # 0

LEMMA StepDown ==
  ASSUME NEW t, NEW r, NEW p, NEW it, NEW f, NEW s, NEW o, NEW k, NEW c,
         Calling(t, r, p, "none", it, f, s, o, k, c),
         NEW b, NEW i, NEW q, NEW g, Downward(t, r, p, f, o, k, b, i, q, g)
  PROVE  Calling(t, r, q, "none", it, g, s, o, k, c)
<1>0. /\ b = Below(t, r, p) /\ b # 0 /\ i \in 0..Len(t[b].items)
      /\ q = Append(p, [block |-> b, place |-> i])
      /\ \/ g = 0 /\ f = 0 /\ InGap(t[b], i, k)
         \/ /\ g = Len(p) + 1 /\ f = 0 /\ o = "delete" /\ i # 0
            /\ t[b].items[i].key = k /\ t[b].next0 # 0
         \/ g = f /\ f # 0 /\ i = 0 /\ t[b].next0 # 0
  BY DEF Downward
<1>1. /\ Standing(t, r, p, "none", it) /\ p \in Seq([block : Block, place : Nat])
      /\ it = NoItem /\ o \in {"add", "delete"} /\ k \in Key /\ f \in 0..Len(p)
      /\ (f # 0 => o = "delete") /\ Aimed(t, p, f, k) /\ Holds(t, p, f, k)
      /\ \A x : x \in Contents(t) <=> x \in c
      /\ Straight(p, f) /\ s = 0
  BY DEF Calling
<1>2. \A y : WholeTree(t, r, y, "none", it) = t /\ TopBlock(t, r, y, "none") = r
  BY DEF WholeTree, TopBlock
<1>3. /\ Formed(t, r) /\ Way(t, r, p) /\ r \in Block \cup {0} /\ IsFunction(t)
      /\ \A x \in DOMAIN t : x \in Block /\ GoodNode(t[x]) /\ Bytes(t[x]) <= Capacity /\ Len(t[x].items) # 0
  BY <1>1, <1>2 DEF Standing
<1>5. PICK z : Equal(z, Len(p) + 1)
  BY DEF Equal
<1>4. /\ Way(t, r, q) /\ b \in DOMAIN t /\ b \in Block /\ i \in Nat
      /\ q # <<>> /\ Len(p) \in Nat /\ Len(q) = Len(p) + 1
      /\ q[Len(p) + 1].block = b /\ q[Len(p) + 1].place = i
      /\ \A m \in 1..Len(p) : q[m] = p[m]
  <2>1. Equal(q, Append(p, [block |-> b, place |-> i])) /\ b = Below(t, r, p) /\ b # 0 /\ i \in 0..Len(t[b].items)
    BY <1>0 DEF Equal
  <2>2. Formed(t, r) /\ Way(t, r, p)
    BY <1>3
  <2> QED
    BY ONLY <2>1, <2>2, LongerWay
<1>6. /\ q \in Seq([block : Block, place : Nat]) /\ q # <<>> /\ Len(p) \in Nat /\ Len(q) = z /\ z = Len(p) + 1
      /\ q[z].block = b /\ q[z].place = i
      /\ \A m \in 1..Len(p) : q[m] = p[m]
  BY <1>4, <1>5 DEF Equal, Way
<1>7. \A m \in 1..Len(q) : (m = z \/ m \in 1..Len(p)) /\ (m # 1 => m - 1 \in 1..Len(p))
  BY <1>6
<1>9. Standing(t, r, q, "none", it)
  BY <1>0, <1>2, <1>3, <1>4, <1>6 DEF Standing
<1>10. g \in 0..Len(q) /\ (g # 0 => o = "delete")
  BY <1>0, <1>1, <1>6
<1>11. Aimed(t, q, g, k) /\ Holds(t, q, g, k) /\ Straight(q, g)
  <2>1. ASSUME NEW m \in 1..Len(q), g = 0 \/ m < g PROVE InGap(t[q[m].block], q[m].place, k)
    <3>1. CASE m \in 1..Len(p)
      <4>1. f = 0 \/ m < f
        BY <1>0, <2>1
      <4> QED
        BY <1>1, <1>6, <3>1, <4>1 DEF Aimed
    <3>2. CASE m = z
      <4>1. g = 0
        BY <1>0, <1>1, <1>6, <2>1, <3>2
      <4>2. InGap(t[b], i, k)
        BY <1>0, <1>6, <4>1
      <4> QED
        BY <1>6, <3>2, <4>2
    <3> QED
      BY <1>7, <3>1, <3>2
  <2>2. g # 0 => g \in 1..Len(q) /\ q[g].place # 0 /\ t[q[g].block].items[q[g].place].key = k
    <3>1. CASE g = z
      <4>1. f = 0 /\ i # 0 /\ t[b].items[i].key = k
        BY <1>0, <1>1, <1>6, <3>1
      <4> QED
        BY <1>6, <3>1, <4>1
    <3>2. CASE g = f /\ f # 0
      <4>1. f \in 1..Len(p) /\ f \in 1..Len(q) /\ q[f] = p[f]
        BY <1>1, <1>6, <3>2
      <4> QED
        BY <1>1, <3>2, <4>1 DEF Holds
    <3> QED
      BY <1>0, <1>6, <3>1, <3>2
  <2>3. ASSUME g # 0, NEW m \in 1..Len(q), m > g PROVE q[m].place = 0
    <3>1. g = f /\ f # 0 /\ i = 0
      BY <1>0, <1>6, <2>3
    <3>2. CASE m \in 1..Len(p)
      BY <1>1, <1>6, <2>3, <3>1, <3>2 DEF Straight
    <3> QED
      BY <1>6, <1>7, <3>1, <3>2
  <2> QED
    BY <2>1, <2>2, <2>3 DEF Aimed, Holds, Straight
<1>12. g # 0 => Below(t, r, q) # 0
  <2>1. ASSUME g # 0 PROVE Below(t, r, q) # 0
    <3>1. t[b].next0 # 0
      BY <1>0, <2>1
    <3>2. PICK lv, up, sp : Shape(t, r, lv, up, sp)
      BY <1>3 DEF Formed
    <3>3. lv[b] # 1
      BY <1>4, <3>1, <3>2, LeafIs
    <3>4. Child(t[b], i) # 0
      BY <1>0, <1>4, <3>2, <3>3, InnerFacts
    <3>5. Below(t, r, q) = Child(t[b], i)
      BY <1>6 DEF Below
    <3> QED
      BY <3>4, <3>5
  <2> QED
    BY <2>1
<1> QED
  BY <1>1, <1>6, <1>9, <1>10, <1>11, <1>12 DEF Calling

(* The leaf below p loses its item j + 1.                                   *)
Shortening(t, r, p, it, b, j, h) ==
  /\ Standing(t, r, p, "none", it) /\ b = Below(t, r, p) /\ b # 0 /\ t[b].next0 = 0
  /\ j \in 0..Len(t[b].items) - 1 /\ h = Small(t, b, Deleted(t[b], j))

LEMMA Shorten ==
  ASSUME NEW t, NEW r, NEW p, NEW it, NEW b, NEW j, NEW h, Shortening(t, r, p, it, b, j, h)
  PROVE  \E u : /\ Same(t, u, p) /\ Passes(h, u, r, p)
                /\ \A x : x \in Contents(u) <=> x \in Contents(t) /\ x # t[b].items[j + 1].key
<1> DEFINE n == t[b]
           d == Deleted(n, j)
           k == n.items[j + 1].key
<1>0. /\ Standing(t, r, p, "none", it) /\ b = Below(t, r, p) /\ b # 0 /\ n.next0 = 0
      /\ j \in 0..Len(n.items) - 1 /\ h = Small(t, b, d)
  BY DEF Shortening
<1>1. WholeTree(t, r, p, "none", it) = t /\ TopBlock(t, r, p, "none") = r
  BY DEF WholeTree, TopBlock
<1>2. /\ Formed(t, r) /\ Way(t, r, p) /\ r \in Block \cup {0} /\ IsFunction(t)
      /\ \A x \in DOMAIN t : x \in Block /\ GoodNode(t[x]) /\ Bytes(t[x]) <= Capacity /\ Len(t[x].items) # 0
  BY <1>0, <1>1 DEF Standing
<1>3. b \in DOMAIN t
  BY <1>0, <1>2, BelowIn
<1>4. GoodNode(n) /\ n \in Node /\ Len(n.items) \in Nat /\ Bytes(n) <= Capacity
  BY <1>2, <1>3, NodeKeys
<1>5. GoodNode(d) /\ KeysIn(d) = KeysIn(n) \ {k}
  <2> HIDE DEF n
  <2> QED
    BY <1>0, <1>4, OrderDeleted
<1>6. Bytes(d) <= Capacity
  <2>1. Stands(n, n, j) /\ j \in 0..Len(n.items)
    BY <1>0, <1>4 DEF Stands
  <2>2. Equal(d, Deleted(n, j))
    BY DEF Equal
  <2> HIDE DEF d, n
  <2>3. Bytes(d) \in Nat /\ Bytes(n) \in Nat /\ Bytes(d) <= Bytes(n)
    BY <1>0, <1>4, <2>1, <2>2, ItemRemoved
  <2>4. Capacity \in Nat
    BY Limits
  <2> QED
    BY <1>4, <2>3, <2>4
<1>7. PICK u : Equal(u, Put(t, b, d))
  BY DEF Equal
<1>8. /\ DOMAIN u = DOMAIN t /\ u[b] = d /\ IsFunction(u) /\ b \in DOMAIN u
      /\ \A x \in DOMAIN t : x # b => u[x] = t[x]
  BY <1>3, <1>7 DEF Equal, Put, IsFunction
<1>9. PICK lv, up, sp : Shape(t, r, lv, up, sp)
  BY <1>2 DEF Formed
<1>10. lv[b] = 1
  BY <1>0, <1>3, <1>9, LeafIs
<1>11. \A y \in 0..Len(d.items) : Child(d, y) = 0
  <2> DEFINE N == Len(n.items)
  <2>1. \A y \in 0..N : Child(n, y) = 0
    BY <1>3, <1>9, <1>10, LeafIs
  <2>2. /\ Len(d.items) = N - 1 /\ \A y \in 0..j : Child(d, y) = Child(n, y)
        /\ \A y \in j + 1..N - 1 : Child(d, y) = Child(n, y + 1)
    <3> HIDE DEF n
    <3> QED
      BY <1>0, <1>4, DeletedOne
  <2>3. N \in Nat /\ j \in 0..N - 1
    BY <1>0, <1>4
  <2> HIDE DEF d, n, N
  <2> QED
    BY <2>1, <2>2, <2>3
<1>12. KeysIn(n) \subseteq sp[b] /\ k \in KeysIn(n)
  <2>1. KeysIn(n) \subseteq sp[b]
    BY <1>3, <1>9, BlockFacts
  <2>2. j + 1 \in 1..Len(n.items)
    BY <1>0, <1>4
  <2> HIDE DEF n
  <2>3. k \in KeysIn(n)
    BY <2>2 DEF KeysIn
  <2> QED
    BY <2>1, <2>3
<1>13. AsLeaf(t, u, b, d)
  BY <1>3, <1>8 DEF AsLeaf
<1>14. /\ Shape(u, r, lv, up, sp)
       /\ \A x : x \in Contents(u) <=> (x \in Contents(t) /\ x \notin KeysIn(n)) \/ x \in KeysIn(d)
  <2>1. KeysIn(d) \subseteq sp[b]
    BY <1>5, <1>12
  <2> HIDE DEF d
  <2> QED
    BY <1>5, <1>9, <1>10, <1>11, <1>13, <2>1, LeafShape
<1>15. \A x : x \in Contents(u) <=> x \in Contents(t) /\ x # k
  <2>1. \A x \in KeysIn(n) : x \in Contents(t)
    BY <1>3, InContents
  <2> HIDE DEF n, d, k
  <2> QED
    BY <1>5, <1>12, <1>14, <2>1
<1>16. Same(t, u, p)
  <2>1. \A m \in 1..Len(p) : p[m].block \in DOMAIN t /\ p[m].block # b
    BY <1>0, <1>2, <1>3, BelowFacts
  <2> QED
    BY <1>8, <2>1 DEF Same
<1>17. Way(u, r, p) /\ b = Below(u, r, p) /\ Formed(u, r)
  BY <1>0, <1>2, <1>14, <1>16, SameWay DEF Formed
<1>18. Outcome(h, u, b)
  <2> HIDE DEF d
  <2> QED
    BY <1>0, <1>5, <1>6, <1>7, SmallOutcome DEF Equal
<1>19. \A x \in DOMAIN u : x # b => Fit(u[x])
  BY <1>2, <1>8 DEF Fit
<1> HIDE DEF d, n, k
<1>20. Passes(h, u, r, p)
  BY <1>2, <1>8, <1>17, <1>18, <1>19, Passed
<1> QED
  BY <1>15, <1>16, <1>20 DEF k, n

LEMMA DeleteOn ==
  ASSUME NEW t, NEW r, NEW p, NEW it, NEW s, NEW k, NEW c,
         Calling(t, r, p, "none", it, 0, s, "delete", k, c),
         NEW b, NEW j, NEW h, Shortening(t, r, p, it, b, j, h), t[b].items[j + 1].key = k
  PROVE  Calling(h.nodes, r, p, h.back, h.item, 0, 0, "delete", k, c) /\ h.errors = {}
<1>1. PICK u : /\ Same(t, u, p) /\ Passes(h, u, r, p)
               /\ \A x : x \in Contents(u) <=> x \in Contents(t) /\ x # t[b].items[j + 1].key
  BY Shorten
<1>2. /\ h.errors = {} /\ h.back \in {"fits", "small", "split"} /\ (h.back # "split" => h.item = NoItem)
      /\ Standing(h.nodes, r, p, h.back, h.item)
      /\ Contents(WholeTree(h.nodes, r, p, h.back, h.item)) = Contents(u)
  BY <1>1 DEF Passes
<1>3. /\ p \in Seq([block : Block, place : Nat]) /\ k \in Key /\ 0 \in 0..Len(p)
      /\ \A x : x \in Contents(t) <=> x \in c
      /\ Standing(t, r, p, "none", it)
  BY DEF Calling
<1>4. k \in c
  <2>1. b \in DOMAIN t /\ j + 1 \in 1..Len(t[b].items)
    <3>1. b = Below(t, r, p) /\ b # 0 /\ j \in 0..Len(t[b].items) - 1
      BY DEF Shortening
    <3>2. Formed(t, r) /\ Way(t, r, p) /\ \A x \in DOMAIN t : GoodNode(t[x])
      BY <1>3 DEF Standing, WholeTree, TopBlock
    <3>3. b \in DOMAIN t
      BY <3>1, <3>2, BelowIn
    <3>4. Len(t[b].items) \in Nat
      BY <3>2, <3>3, NodeKeys
    <3> QED
      BY <3>1, <3>3, <3>4
  <2>2. k \in KeysIn(t[b])
    BY <2>1 DEF KeysIn
  <2> QED
    BY <1>3, <2>1, <2>2, InContents
<1>5. Made(WholeTree(h.nodes, r, p, h.back, h.item), c, "delete", k)
  BY <1>1, <1>2, <1>3, <1>4 DEF Made
<1>6. h.back # "none" /\ h.back \in {"none", "fits", "small", "split"}
  BY <1>2
<1> QED
  BY <1>2, <1>3, <1>5, <1>6 DEF Calling

LEMMA SpanUp ==
  ASSUME NEW t, NEW r, NEW lv, NEW up, NEW sp, Shape(t, r, lv, up, sp),
         NEW p, Way(t, r, p), p # <<>>, NEW x \in sp[p[Len(p)].block]
  PROVE  /\ \A m \in 1..Len(p) : x \in sp[p[m].block]
         /\ \A m \in 1..Len(p) - 1 : InGap(t[p[m].block], p[m].place, x)
<1> DEFINE z == Len(p)
           D == {y \in Nat : y < z /\ x \notin sp[p[z - y].block]}
<1>1. z \in Nat /\ z # 0
  BY DEF Way
<1>2. ASSUME NEW m \in 1..z - 1, x \in sp[p[m + 1].block]
      PROVE  x \in sp[p[m].block] /\ InGap(t[p[m].block], p[m].place, x)
  <2> DEFINE b == p[m].block
             i == p[m].place
  <2>1. m \in 1..Len(p) /\ m + 1 \in 1..Len(p) /\ m + 1 # 1 /\ (m + 1) - 1 = m
    BY <1>1
  <2>2. b \in DOMAIN t /\ i \in 0..Len(t[b].items)
    BY <2>1 DEF Way
  <2>3. p[m + 1].block = Child(t[b], i) /\ p[m + 1].block \in DOMAIN t
    <3> DEFINE y == m + 1
    <3>1. y \in 1..Len(p) /\ y # 1 /\ y - 1 = m
      BY <2>1
    <3> HIDE DEF y
    <3>2. p[y].block = Child(t[p[y - 1].block], p[y - 1].place) /\ p[y].block \in DOMAIN t
      BY <3>1 DEF Way
    <3> QED
      BY <3>1, <3>2 DEF y
  <2>4. p[m + 1].block # 0
    BY <2>3 DEF Shape, Block
  <2> HIDE DEF b, i
  <2>5. \A k \in sp[Child(t[b], i)] : k \in sp[b] /\ InGap(t[b], i, k)
    BY <2>2, <2>3, <2>4, ChildFacts
  <2>6. x \in sp[Child(t[b], i)]
    BY <1>2, <2>3
  <2> QED
    BY <2>5, <2>6 DEF b, i
<1>3. D = {}
  <2>1. ASSUME D # {} PROVE FALSE
    <3>1. PICK y \in D : \A w \in D : y <= w
      BY <2>1, MinIn
    <3>2. y \in Nat /\ y < z /\ x \notin sp[p[z - y].block]
      BY <3>1
    <3>3. y # 0
      <4>1. y = 0 => z - y = z
        BY <1>1, <3>2
      <4> QED
        BY <3>2, <4>1
    <3>4. y - 1 \in Nat /\ y - 1 < z /\ ~(y <= y - 1)
      BY <1>1, <3>2, <3>3
    <3>5. x \in sp[p[z - (y - 1)].block]
      BY <3>1, <3>4
    <3>6. z - y \in 1..z - 1 /\ (z - y) + 1 = z - (y - 1)
      BY <1>1, <3>2, <3>3
    <3> HIDE DEF z
    <3> QED
      BY <1>2, <3>2, <3>5, <3>6
  <2> QED
    BY <2>1
<1>4. \A m \in 1..z : x \in sp[p[m].block]
  <2>1. ASSUME NEW m \in 1..z PROVE x \in sp[p[m].block]
    <3>1. z - m \in Nat /\ z - m < z /\ z - (z - m) = m
      BY <1>1
    <3> QED
      BY <1>3, <3>1
  <2> QED
    BY <2>1
<1>5. \A m \in 1..z - 1 : InGap(t[p[m].block], p[m].place, x)
  <2>1. ASSUME NEW m \in 1..z - 1 PROVE m + 1 \in 1..z
    BY <1>1
  <2> HIDE DEF z
  <2> QED
    BY <1>2, <1>4, <2>1
<1> QED
  BY <1>4, <1>5

(* The smallest key behind key k, which the f-th node has: the first of the *)
(* leaf below p.                                                            *)
LEMMA NextKey ==
  ASSUME NEW t, NEW r, Formed(t, r), NEW p, Way(t, r, p), NEW f \in 1..Len(p), NEW k \in Key,
         Aimed(t, p, f, k), Holds(t, p, f, k), Straight(p, f),
         NEW b, b = Below(t, r, p), b # 0, t[b].next0 = 0, Len(t[b].items) # 0,
         NEW s, s = t[b].items[1].key
  PROVE  /\ k \in Contents(t) /\ s \in Contents(t) /\ s \in Key /\ k < s
         /\ \A x \in Contents(t) : x <= k \/ s <= x
<1>1. PICK lv, up, sp : Shape(t, r, lv, up, sp)
  BY DEF Formed
<1>2. PICK q : Equal(q, Append(p, [block |-> b, place |-> 0]))
  BY DEF Equal
<1>3. b \in DOMAIN t
  BY BelowIn
<1>4. \A x \in DOMAIN t : GoodNode(t[x]) /\ t[x] \in Node /\ Len(t[x].items) \in Nat /\ KeysIn(t[x]) \subseteq sp[x]
  BY <1>1, BlockFacts
<1>5. PICK z : Equal(z, Len(p) + 1)
  BY DEF Equal
<1>6. /\ Way(t, r, q) /\ q # <<>> /\ Len(p) \in Nat /\ Len(q) = z /\ z = Len(p) + 1
      /\ q[z].block = b /\ q[z].place = 0
      /\ \A m \in 1..Len(p) : q[m] = p[m]
  <2>1. 0 \in 0..Len(t[b].items)
    BY <1>3, <1>4
  <2>2. Formed(t, r) /\ Way(t, r, p) /\ b = Below(t, r, p) /\ b # 0
    OBVIOUS
  <2>3. /\ Way(t, r, q) /\ b \in DOMAIN t /\ b \in Block /\ 0 \in Nat
        /\ q # <<>> /\ Len(p) \in Nat /\ Len(q) = Len(p) + 1
        /\ q[Len(p) + 1].block = b /\ q[Len(p) + 1].place = 0
        /\ \A m \in 1..Len(p) : q[m] = p[m]
    BY ONLY <1>2, <2>1, <2>2, LongerWay
  <2> QED
    BY <1>5, <2>3 DEF Equal
<1>7. s \in KeysIn(t[b]) /\ s \in sp[b]
  <2>1. 1 \in 1..Len(t[b].items)
    BY <1>3, <1>4
  <2>2. s \in KeysIn(t[b])
    BY <2>1 DEF KeysIn
  <2> QED
    BY <1>3, <1>4, <2>2
<1>8. \A m \in 1..Len(p) : InGap(t[p[m].block], p[m].place, s)
  <2>1. s \in sp[q[Len(q)].block] /\ \A m \in 1..Len(p) : m \in 1..Len(q) - 1
    BY <1>6, <1>7
  <2>2. \A m \in 1..Len(q) - 1 : InGap(t[q[m].block], q[m].place, s)
    BY <1>1, <1>6, <2>1, SpanUp
  <2> QED
    BY <1>6, <2>1, <2>2
<1>9. /\ s \in Key /\ s \in Nat /\ k \in Nat /\ s \in Contents(t)
  <2>1. KeysIn(t[b]) \subseteq Key
    BY <1>3, <1>4, NodeKeys
  <2>2. s \in Contents(t)
    BY <1>3, <1>7, InContents
  <2> QED
    BY <1>7, <2>1, <2>2, SizeAssumption
<1> DEFINE n == t[p[f].block]
           i == p[f].place
<1>10. p[f].block \in DOMAIN t /\ i \in 0..Len(n.items) /\ i # 0 /\ i \in 1..Len(n.items) /\ n.items[i].key = k
  <2>1. p[f].block \in DOMAIN t /\ i \in 0..Len(n.items)
    BY DEF Way
  <2>2. i # 0 /\ n.items[i].key = k
    BY DEF Holds
  <2>3. Len(n.items) \in Nat
    BY <1>4, <2>1
  <2> HIDE DEF n, i
  <2> QED
    BY <2>1, <2>2, <2>3
<1>11. k \in Contents(t)
  <2>1. k \in KeysIn(n)
    BY <1>10 DEF KeysIn
  <2> QED
    BY <1>10, <2>1, InContents
<1>12. k < s
  <2>1. InGap(n, i, s)
    BY <1>8
  <2> HIDE DEF n, i
  <2>2. i > 0
    BY <1>10
  <2> QED
    BY <1>10, <2>1, <2>2 DEF InGap
<1>13. ASSUME NEW x \in Contents(t), ~(x <= k \/ s <= x) PROVE FALSE
  <2>1. PICK d \in DOMAIN t : x \in KeysIn(t[d])
    BY <1>13, InContents
  <2>2. x \in Key /\ x \in Nat
    <3>1. KeysIn(t[d]) \subseteq Key
      BY <1>4, <2>1, NodeKeys
    <3> QED
      BY <2>1, <3>1, SizeAssumption
  <2>3. k < x /\ x < s
    BY <1>9, <1>13, <2>2
  <2>4. ASSUME NEW m \in 1..Len(p) PROVE InGap(t[p[m].block], p[m].place, x)
    <3> DEFINE e == t[p[m].block]
               j == p[m].place
    <3>1. e.items = e.items /\ p[m].block \in DOMAIN t /\ j \in 0..Len(e.items)
      BY DEF Way
    <3>2. Len(e.items) \in Nat /\ \A y \in 1..Len(e.items) : e.items[y].key \in Nat
      BY <1>4, <3>1, NodeKeys
    <3>3. InGap(e, j, s)
      BY <1>8
    <3>4. j > 0 => e.items[j].key <= k
      <4>1. CASE m < f
        <5>1. InGap(e, j, k)
          BY <4>1 DEF Aimed
        <5> HIDE DEF e, j
        <5> QED
          BY <1>9, <3>1, <3>2, <5>1 DEF InGap
      <4>2. CASE m = f
        BY <1>9, <1>10, <4>2
      <4>3. CASE m > f
        BY <4>3 DEF Straight
      <4> QED
        BY <1>6, <4>1, <4>2, <4>3
    <3> HIDE DEF e, j
    <3>5. j > 0 => e.items[j].key < x
      BY <1>9, <2>2, <2>3, <3>1, <3>2, <3>4
    <3>6. j < Len(e.items) => x < e.items[j + 1].key
      <4>1. ASSUME j < Len(e.items) PROVE x < e.items[j + 1].key
        <5>1. j + 1 \in 1..Len(e.items)
          BY <3>1, <3>2, <4>1
        <5>2. s < e.items[j + 1].key /\ e.items[j + 1].key \in Nat
          BY <3>2, <3>3, <4>1, <5>1 DEF InGap
        <5> QED
          BY <1>9, <2>2, <2>3, <5>2
      <4> QED
        BY <4>1
    <3>7. InGap(e, j, x)
      BY <3>5, <3>6 DEF InGap
    <3> QED
      BY <3>7 DEF e, j
  <2>5. InGap(t[b], 0, x)
    BY <2>3 DEF InGap
  <2>6. \A m \in 1..Len(q) : InGap(t[q[m].block], q[m].place, x)
    <3>1. \A m \in 1..Len(q) : m = z \/ m \in 1..Len(p)
      BY <1>6
    <3> QED
      BY <1>6, <2>4, <2>5, <3>1
  <2>7. Child(t[q[Len(q)].block], q[Len(q)].place) = 0
    BY <1>6 DEF Child
  <2>8. x \notin Contents(t)
    BY <1>6, <2>2, <2>6, <2>7, NotFound
  <2> QED
    BY <1>13, <2>8
<1> HIDE DEF n, i
<1> QED
  BY <1>9, <1>11, <1>12, <1>13

LEMMA ExtractOn ==
  ASSUME NEW t, NEW r, NEW p, NEW it, NEW f, NEW s, NEW o, NEW k, NEW c,
         Calling(t, r, p, "none", it, f, s, o, k, c), f # 0,
         NEW b, NEW h, Shortening(t, r, p, it, b, 0, h), NEW v, Equal(v, t[b].items[1].key)
  PROVE  Calling(h.nodes, r, p, h.back, h.item, f, v, o, k, c) /\ h.errors = {}
<1>1. PICK u : /\ Same(t, u, p) /\ Passes(h, u, r, p)
               /\ \A x : x \in Contents(u) <=> x \in Contents(t) /\ x # t[b].items[0 + 1].key
  BY Shorten
<1>2. /\ h.errors = {} /\ h.back \in {"fits", "small", "split"} /\ (h.back # "split" => h.item = NoItem)
      /\ Standing(h.nodes, r, p, h.back, h.item) /\ Same(u, h.nodes, p)
      /\ Contents(WholeTree(h.nodes, r, p, h.back, h.item)) = Contents(u)
  BY <1>1 DEF Passes
<1>3. /\ p \in Seq([block : Block, place : Nat]) /\ k \in Key /\ f \in 0..Len(p) /\ o = "delete"
      /\ \A x : x \in Contents(t) <=> x \in c
      /\ Standing(t, r, p, "none", it) /\ Aimed(t, p, f, k) /\ Holds(t, p, f, k) /\ Straight(p, f)
  BY DEF Calling
<1>4. f \in 1..Len(p) /\ Len(p) \in Nat
  BY <1>3
<1>5. Formed(t, r) /\ Way(t, r, p) /\ \A x \in DOMAIN t : GoodNode(t[x])
  BY <1>3 DEF Standing, WholeTree, TopBlock
<1>6. b = Below(t, r, p) /\ b # 0 /\ t[b].next0 = 0 /\ Len(t[b].items) # 0 /\ b \in DOMAIN t
  <2>1. b = Below(t, r, p) /\ b # 0 /\ t[b].next0 = 0 /\ 0 \in 0..Len(t[b].items) - 1
    BY DEF Shortening
  <2> QED
    BY <1>5, <2>1, BelowIn
<1>7. /\ k \in Contents(t) /\ v \in Contents(t) /\ v \in Key /\ k < v
      /\ \A x \in Contents(t) : x <= k \/ v <= x
  BY <1>3, <1>4, <1>5, <1>6, NextKey DEF Equal
<1>8. \A x : x \in Contents(u) <=> x \in Contents(t) /\ x # v
  BY <1>1 DEF Equal
<1>9. Follows(u, k, v)
  <2>1. ASSUME NEW x \in Contents(u) PROVE x <= k \/ v < x
    <3>1. x \in Contents(t) /\ x # v
      BY <1>8, <2>1
    <3>2. PICK d \in DOMAIN t : x \in KeysIn(t[d])
      BY <3>1, InContents
    <3>3. x \in Key
      BY <1>5, <3>2, NodeKeys
    <3>4. x \in Nat /\ v \in Nat
      BY <1>7, <3>3, SizeAssumption
    <3> QED
      BY <1>7, <3>1, <3>4
  <2> QED
    BY <1>7, <2>1 DEF Follows
<1>10. Taken(WholeTree(h.nodes, r, p, h.back, h.item), c, k, v)
  BY <1>2, <1>3, <1>7, <1>8, <1>9 DEF Taken, Follows
<1>11. Same(t, h.nodes, p)
  BY <1>1, <1>2, SameTwice
<1>12. Aimed(h.nodes, p, f, k) /\ Holds(h.nodes, p, f, k)
  <2>1. /\ Aimed(t, p, f, k) /\ Holds(t, p, f, k) /\ f \in 0..Len(p) /\ Len(p) \in Nat
        /\ Len(p) <= Len(p) /\ \A m \in 1..Len(p) : p[m] = p[m]
    BY <1>3, <1>4
  <2> QED
    BY ONLY <1>11, <2>1, StillAimed
<1>13. h.back # "none" /\ h.back \in {"none", "fits", "small", "split"}
  BY <1>2
<1> QED
  BY <1>2, <1>3, <1>4, <1>10, <1>12, <1>13 DEF Calling

(* Where the way ends at no node the key is missing.                        *)
LEMMA MissingKey ==
  ASSUME NEW t, NEW r, Formed(t, r), NEW p, Way(t, r, p), NEW k \in Key,
         Below(t, r, p) = 0, Aimed(t, p, 0, k)
  PROVE  k \notin Contents(t)
<1>1. CASE p = <<>>
  <2>1. \A x : x \notin DOMAIN t
    BY <1>1, BelowIn
  <2> QED
    BY <2>1, InContents
<1>2. CASE p # <<>>
  <2>1. Child(t[p[Len(p)].block], p[Len(p)].place) = 0
    BY <1>2 DEF Below
  <2>2. \A m \in 1..Len(p) : InGap(t[p[m].block], p[m].place, k)
    BY DEF Aimed
  <2> QED
    BY <1>2, <2>1, <2>2, NotFound
<1> QED
  BY <1>1, <1>2

(* The key becomes the first one of a tree.                                 *)
LEMMA FirstKey ==
  ASSUME NEW t, NEW r, NEW p, NEW it, Standing(t, r, p, "none", it), p = <<>>, NEW k \in Key,
         Below(t, r, p) = 0, NEW x, Equal(x, [key |-> k, child |-> 0])
  PROVE  /\ Standing(t, r, p, "split", x)
         /\ \A y : y \in Contents(WholeTree(t, r, p, "split", x)) <=> y \in Contents(t) \/ y = k
<1> DEFINE d == Fresh(t)
           w == Put(t, d, [next0 |-> r, items |-> <<x>>])
<1>1. /\ Formed(t, r) /\ Way(t, r, p) /\ r \in Block \cup {0} /\ IsFunction(t)
  BY DEF Standing, WholeTree, TopBlock
<1>2. r = 0 /\ \A y : y \notin DOMAIN t
  BY <1>1, BelowIn DEF Below
<1>3. d \in Block
  <2>1. IsFiniteSet(DOMAIN t)
    BY <1>1 DEF Formed, Shape
  <2> QED
    BY <2>1, FreshIs
<1> HIDE DEF d
<1>4. DOMAIN w = {d} /\ w[d] = [next0 |-> 0, items |-> <<x>>]
  BY <1>2 DEF Put
<1>5. x = [key |-> k, child |-> 0] /\ x \in Item
  BY DEF Equal, Item
<1>6. WholeTree(t, r, p, "split", x) = w /\ TopBlock(t, r, p, "split") = d
  BY DEF WholeTree, TopBlock, d
<1>7. PICK v : Equal(v, w)
  BY DEF Equal
<1>8. DOMAIN v = {d} /\ v[d] = [next0 |-> 0, items |-> <<[key |-> k, child |-> 0]>>]
  BY <1>4, <1>5, <1>7 DEF Equal
<1>9. Formed(v, d) /\ \A j : j \in Contents(v) <=> j = k
  BY <1>3, <1>8, FirstShape
<1>10. WholeTree(t, r, p, "split", x) = v
  BY <1>6, <1>7 DEF Equal
<1> HIDE DEF w
<1>11. Way(v, r, p)
  BY <1>1 DEF Way
<1>12. Standing(t, r, p, "split", x)
  BY <1>1, <1>2, <1>5, <1>6, <1>9, <1>10, <1>11 DEF Standing
<1>13. \A y : y \notin Contents(t)
  BY <1>2, InContents
<1> QED
  BY <1>9, <1>10, <1>12, <1>13

(* The key is put into a leaf, which may become too large.                  *)
LEMMA LeafKey ==
  ASSUME NEW t, NEW r, NEW p, NEW it, Standing(t, r, p, "none", it), p # <<>>, NEW k \in Key,
         Below(t, r, p) = 0, Aimed(t, p, 0, k), NEW x, Equal(x, [key |-> k, child |-> 0])
  PROVE  /\ Standing(t, r, p, "split", x)
         /\ \A y : y \in Contents(WholeTree(t, r, p, "split", x)) <=> y \in Contents(t) \/ y = k
<1> DEFINE z == Len(p)
           b == p[z].block
           i == p[z].place
           n == t[b]
           m == Inserted(n, i, <<x>>)
<1>1. /\ Formed(t, r) /\ Way(t, r, p) /\ r \in Block \cup {0} /\ IsFunction(t)
      /\ \A y \in DOMAIN t : y \in Block /\ GoodNode(t[y]) /\ Bytes(t[y]) <= Capacity /\ Len(t[y].items) # 0
      /\ b \in DOMAIN t /\ i \in 0..Len(n.items)
  BY DEF Standing, WholeTree, TopBlock
<1>2. GoodNode(n) /\ n \in Node /\ Len(n.items) \in Nat
  BY <1>1, NodeKeys
<1>3. z \in Nat /\ z \in 1..Len(p)
  BY <1>1 DEF Way
<1>4. Child(n, i) = 0
  BY DEF Below
<1>5. \A y \in 1..Len(p) : InGap(t[p[y].block], p[y].place, k)
  BY DEF Aimed
<1>6. InGap(n, i, k)
  BY <1>3, <1>5
<1>7. x \in Item /\ x.key = k /\ x.child = 0
  BY DEF Equal, Item
<1>8. PICK lv, up, sp : Shape(t, r, lv, up, sp)
  BY <1>1 DEF Formed
<1>9. lv[b] = 1
  BY <1>1, <1>4, <1>8, LeafIs
<1>10. PICK sq : Equal(sq, Widened(t, sp, p, z, k))
  BY DEF Equal
<1>11. Shape(t, r, lv, up, sq) /\ k \in sq[b]
  <2>1. \A y \in 1..z - 1 : InGap(t[p[y].block], p[y].place, k)
    BY <1>3, <1>5
  <2>2. /\ Shape(t, r, lv, up, Widened(t, sp, p, z, k))
        /\ \A y \in 1..z : k \in Widened(t, sp, p, z, k)[p[y].block]
    <3> HIDE DEF z
    <3> QED
      BY <1>1, <1>3, <1>8, <2>1, Widen
  <2> QED
    BY <1>3, <1>10, <2>2 DEF Equal
<1>12. GoodNode(m) /\ KeysIn(m) = KeysIn(n) \cup {k}
  <2> HIDE DEF n, i
  <2> QED
    BY <1>1, <1>2, <1>6, <1>7, OrderInserted
<1>13. /\ \A y \in 0..Len(m.items) : Child(m, y) = 0
       /\ i \in 0..Len(m.items)
  <2> DEFINE N == Len(n.items)
  <2>1. \A y \in 0..N : Child(n, y) = 0
    BY <1>1, <1>8, <1>9, LeafIs
  <2>2. /\ Len(m.items) = N + 1 /\ Child(m, i + 1) = 0
        /\ \A y \in 0..i : Child(m, y) = Child(n, y)
        /\ \A y \in i + 1..N : Child(m, y + 1) = Child(n, y)
    <3> HIDE DEF n, i
    <3> QED
      BY <1>1, <1>2, <1>7, InsertedOne
  <2>3. N \in Nat /\ i \in 0..N
    BY <1>1, <1>2
  <2> HIDE DEF m, n, i, N
  <2>4. ASSUME NEW y \in 0..N + 1 PROVE Child(m, y) = 0
    <3>1. CASE y <= i
      BY <2>1, <2>2, <2>3, <3>1
    <3>2. CASE y = i + 1
      BY <2>2, <3>2
    <3>3. CASE y > i + 1
      <4>1. y - 1 \in i + 1..N /\ (y - 1) + 1 = y /\ y - 1 \in 0..N
        BY <2>3, <3>3
      <4> QED
        BY <2>1, <2>2, <4>1
    <3> QED
      BY <2>3, <3>1, <3>2, <3>3
  <2> QED
    BY <2>2, <2>3, <2>4
<1>14. PICK v : Equal(v, Put(t, b, m))
  BY DEF Equal
<1>15. /\ DOMAIN v = DOMAIN t /\ v[b] = m
       /\ \A y \in DOMAIN t : y # b => v[y] = t[y]
  BY <1>1, <1>14 DEF Equal, Put
<1>16. AsLeaf(t, v, b, m)
  BY <1>1, <1>15 DEF AsLeaf
<1>17. KeysIn(n) \subseteq sq[b] /\ \A y \in KeysIn(n) : y \in Contents(t)
  BY <1>1, <1>11, BlockFacts, InContents
<1>18. /\ Shape(v, r, lv, up, sq)
       /\ \A y : y \in Contents(v) <=> (y \in Contents(t) /\ y \notin KeysIn(n)) \/ y \in KeysIn(m)
  <2>1. KeysIn(m) \subseteq sq[b]
    BY <1>11, <1>12, <1>17
  <2> HIDE DEF m, b
  <2> QED
    BY <1>9, <1>11, <1>12, <1>13, <1>16, <2>1, LeafShape
<1>19. \A y : y \in Contents(v) <=> y \in Contents(t) \/ y = k
  <2> HIDE DEF n, m
  <2> QED
    BY <1>12, <1>17, <1>18
<1>20. \A y \in 1..z - 1 : p[y].block \in DOMAIN t /\ p[y].block # b
  <2>1. Way(t, r, Shorter(p)) /\ Shortens(p, Shorter(p)) /\ Below(t, r, Shorter(p)) = b
    BY <1>1, ShorterFacts
  <2>2. PICK q : Equal(q, Shorter(p))
    BY DEF Equal
  <2>3. Way(t, r, q) /\ Shortens(p, q) /\ Below(t, r, q) = b
    BY <2>1, <2>2 DEF Equal
  <2>4. \A y \in 1..Len(q) : q[y].block \in DOMAIN t /\ q[y].block # b
    <3> HIDE DEF b
    <3> QED
      BY <1>1, <2>3, BelowFacts
  <2>5. Len(q) = z - 1 /\ \A y \in 1..z - 1 : q[y] = p[y]
    BY <2>3 DEF Shortens
  <2> QED
    BY <2>4, <2>5
<1>21. Way(v, r, p)
  <2>1. ASSUME NEW y \in 1..z
        PROVE  /\ p[y].block \in DOMAIN v /\ p[y].place \in 0..Len(v[p[y].block].items)
               /\ y = 1 => p[y].block = r
               /\ y # 1 => p[y].block = Child(v[p[y - 1].block], p[y - 1].place)
    <3>1. /\ p[y].block \in DOMAIN t /\ p[y].place \in 0..Len(t[p[y].block].items)
          /\ y = 1 => p[y].block = r
          /\ y # 1 => p[y].block = Child(t[p[y - 1].block], p[y - 1].place)
      BY <1>1 DEF Way
    <3>2. y = z \/ y \in 1..z - 1
      BY <1>3
    <3>3. p[y].place \in 0..Len(v[p[y].block].items)
      <4>1. CASE y = z
        BY <1>13, <1>15, <4>1
      <4>2. CASE y \in 1..z - 1
        BY <1>15, <1>20, <3>1, <4>2
      <4> QED
        BY <3>2, <4>1, <4>2
    <3>4. y # 1 => v[p[y - 1].block] = t[p[y - 1].block]
      <4>1. y # 1 => y - 1 \in 1..z - 1
        BY <1>3
      <4> HIDE DEF z
      <4> QED
        BY <1>15, <1>20, <4>1
    <3> QED
      BY <1>15, <3>1, <3>3, <3>4
  <2>2. p \in Seq([block : Block, place : Nat])
    BY <1>1 DEF Way
  <2> QED
    BY <2>1, <2>2 DEF Way
<1>22. WholeTree(t, r, p, "split", x) = v /\ TopBlock(t, r, p, "split") = r
  BY <1>14 DEF WholeTree, TopBlock, Equal
<1>23. Formed(v, r)
  BY <1>18 DEF Formed
<1> HIDE DEF m, n
<1>24. Standing(t, r, p, "split", x)
  BY <1>1, <1>7, <1>21, <1>22, <1>23 DEF Standing, n
<1> QED
  BY <1>19, <1>22, <1>24

LEMMA AddOn ==
  ASSUME NEW t, NEW r, NEW p, NEW it, NEW s, NEW k, NEW c,
         Calling(t, r, p, "none", it, 0, s, "add", k, c), Below(t, r, p) = 0,
         NEW x, Equal(x, [key |-> k, child |-> 0])
  PROVE  Calling(t, r, p, "split", x, 0, s, "add", k, c)
<1>1. /\ Standing(t, r, p, "none", it) /\ p \in Seq([block : Block, place : Nat])
      /\ k \in Key /\ Aimed(t, p, 0, k) /\ s = 0 /\ 0 \in 0..Len(p)
      /\ \A y : y \in Contents(t) <=> y \in c
  BY DEF Calling
<1>2. k \notin c
  <2>1. Formed(t, r) /\ Way(t, r, p)
    BY <1>1 DEF Standing, WholeTree, TopBlock
  <2> QED
    BY <1>1, <2>1, MissingKey
<1>3. /\ Standing(t, r, p, "split", x)
      /\ \A y : y \in Contents(WholeTree(t, r, p, "split", x)) <=> y \in Contents(t) \/ y = k
  BY <1>1, FirstKey, LeafKey
<1>4. Made(WholeTree(t, r, p, "split", x), c, "add", k)
  BY <1>1, <1>2, <1>3 DEF Made
<1> QED
  BY <1>1, <1>3, <1>4 DEF Calling

(* The tree between two calls.                                              *)
Resting(t, r) ==
  /\ IsFunction(t) /\ r \in Block \cup {0} /\ Formed(t, r)
  /\ \A x \in DOMAIN t : x \in Block /\ GoodNode(t[x]) /\ Fit(t[x])

LEMMA CallBegins ==
  ASSUME NEW t, NEW r, Resting(t, r), NEW o \in {"add", "delete"}, NEW k \in Key,
         NEW c, Equal(c, Contents(t))
  PROVE  Calling(t, r, <<>>, "none", NoItem, 0, 0, o, k, c)
<1>1. PICK p : p = <<>>
  OBVIOUS
<1>2. p \in Seq([block : Block, place : Nat]) /\ Len(p) = 0 /\ \A m \in 1..Len(p) : FALSE
  BY <1>1
<1>3. Way(t, r, p)
  BY <1>2 DEF Way
<1>4. Standing(t, r, p, "none", NoItem)
  BY <1>1, <1>3 DEF Standing, Resting, Fit, WholeTree, TopBlock
<1>5. Aimed(t, p, 0, k) /\ Holds(t, p, 0, k) /\ Straight(p, 0)
  BY <1>2 DEF Aimed, Holds, Straight
<1>6. \A x : x \in Contents(t) <=> x \in c
  BY DEF Equal
<1>7. 0 \in 0..Len(p)
  BY <1>2
<1>8. Calling(t, r, p, "none", NoItem, 0, 0, o, k, c)
  BY <1>2, <1>4, <1>5, <1>6, <1>7 DEF Calling
<1> QED
  BY <1>1, <1>8

(* Nothing is left to do, or nothing has been done.                         *)
LEMMA CallSettled ==
  ASSUME NEW t, NEW r, NEW p, NEW bk, NEW it, NEW f, NEW s, NEW o, NEW k, NEW c,
         Calling(t, r, p, bk, it, f, s, o, k, c), bk \in {"none", "fits"}
  PROVE  /\ Resting(t, r)
         /\ bk = "none" => \A x : x \in Contents(t) <=> x \in c
         /\ bk = "fits" /\ f = 0 => Made(t, c, o, k)
<1>1. Standing(t, r, p, bk, it) /\ WholeTree(t, r, p, bk, it) = t /\ TopBlock(t, r, p, bk) = r
  BY DEF Calling, WholeTree, TopBlock
<1>2. Resting(t, r)
  BY <1>1 DEF Standing, Resting, Fit
<1> QED
  BY <1>1, <1>2 DEF Calling

(* The root was split, or the tree was empty.                               *)
LEMMA CallTops ==
  ASSUME NEW t, NEW r, NEW p, NEW it, NEW s, NEW o, NEW k, NEW c,
         Calling(t, r, p, "split", it, 0, s, o, k, c), p = <<>>,
         NEW d, d = Fresh(t), NEW u, Equal(u, Put(t, d, [next0 |-> r, items |-> <<it>>]))
  PROVE  Resting(u, d) /\ Made(u, c, o, k)
<1> DEFINE n == u[d]
<1>1. WholeTree(t, r, p, "split", it) = u /\ TopBlock(t, r, p, "split") = d
  BY DEF WholeTree, TopBlock, Equal
<1>2. Standing(t, r, p, "split", it) /\ Made(u, c, o, k) /\ k \in Key
  BY <1>1 DEF Calling
<1>3. /\ Formed(u, d) /\ IsFunction(t) /\ it \in Item
      /\ \A x \in DOMAIN t : x \in Block /\ GoodNode(t[x]) /\ Bytes(t[x]) <= Capacity /\ Len(t[x].items) # 0
  BY <1>1, <1>2 DEF Standing
<1>4. /\ DOMAIN u = DOMAIN t \cup {d} /\ IsFunction(u) /\ d \in DOMAIN u
      /\ u[d] = [next0 |-> r, items |-> <<it>>]
      /\ \A x \in DOMAIN t : x # d => u[x] = t[x]
  BY DEF Equal, Put, IsFunction
<1>5. d \in Block /\ \A x \in DOMAIN u : GoodNode(u[x])
  <2>1. PICK lv, up, sp : Shape(u, d, lv, up, sp)
    BY <1>3 DEF Formed
  <2> QED
    BY <1>4, <2>1, BlockFacts
<1>6. Len(n.items) = 1
  BY <1>4
<1>7. GoodNode(n)
  BY <1>4, <1>5
<1> HIDE DEF n
<1>8. Bytes(n) \in Nat /\ Bytes(n) <= MaxItem + 2 * Link
  BY <1>2, <1>6, <1>7, FewItems
<1>9. Fit(n)
  <2>1. /\ Capacity \in Nat /\ Link \in Nat \ {0} /\ MaxItem \in Nat
        /\ 3 * MaxItem + 4 * Link <= Capacity
    BY Limits
  <2>2. Bytes(n) <= Capacity
    BY <1>8, <2>1
  <2> QED
    BY <1>6, <2>2 DEF Fit
<1>10. \A x \in DOMAIN u : x \in Block /\ GoodNode(u[x]) /\ Fit(u[x])
  <2>1. ASSUME NEW x \in DOMAIN u PROVE x \in Block /\ Fit(u[x])
    <3>1. CASE x = d
      BY <1>5, <1>9, <3>1 DEF n
    <3>2. CASE x # d
      BY <1>3, <1>4, <3>2 DEF Fit
    <3> QED
      BY <3>1, <3>2
  <2> QED
    BY <1>5, <2>1
<1> QED
  BY <1>2, <1>3, <1>4, <1>5, <1>10 DEF Resting

(* The root has become too small: it stays as it is.                        *)
LEMMA CallStays ==
  ASSUME NEW t, NEW r, NEW p, NEW it, NEW s, NEW o, NEW k, NEW c,
         Calling(t, r, p, "small", it, 0, s, o, k, c), p = <<>>, ~(Bytes(t[r]) <= Link)
  PROVE  Resting(t, r) /\ Made(t, c, o, k)
<1>1. WholeTree(t, r, p, "small", it) = t /\ TopBlock(t, r, p, "small") = r /\ Below(t, r, p) = r
  BY DEF WholeTree, TopBlock, Below
<1>2. Standing(t, r, p, "small", it) /\ Made(t, c, o, k) /\ k \in Key
  BY <1>1 DEF Calling
<1>3. /\ Formed(t, r) /\ IsFunction(t) /\ r \in DOMAIN t /\ r \in Block \cup {0}
      /\ \A x \in DOMAIN t : x \in Block /\ GoodNode(t[x]) /\ Bytes(t[x]) <= Capacity
      /\ \A x \in DOMAIN t : Len(t[x].items) # 0 \/ x = r
  BY <1>1, <1>2 DEF Standing
<1>4. Len(t[r].items) # 0
  BY <1>2, <1>3, FewItems
<1> QED
  BY <1>2, <1>3, <1>4 DEF Resting, Fit

(* Or it gives way to its only child.                                       *)
LEMMA CallDrops ==
  ASSUME NEW t, NEW r, NEW p, NEW it, NEW s, NEW o, NEW k, NEW c,
         Calling(t, r, p, "small", it, 0, s, o, k, c), p = <<>>, Bytes(t[r]) <= Link,
         NEW u, Equal(u, Drop(t, r)), NEW d, d = t[r].next0
  PROVE  Resting(u, d) /\ Made(u, c, o, k)
<1>1. WholeTree(t, r, p, "small", it) = t /\ TopBlock(t, r, p, "small") = r /\ Below(t, r, p) = r
  BY DEF WholeTree, TopBlock, Below
<1>2. Standing(t, r, p, "small", it) /\ Made(t, c, o, k) /\ k \in Key
  BY <1>1 DEF Calling
<1>3. /\ Formed(t, r) /\ IsFunction(t) /\ r \in DOMAIN t /\ r \in Block \cup {0}
      /\ \A x \in DOMAIN t : x \in Block /\ GoodNode(t[x]) /\ Bytes(t[x]) <= Capacity
      /\ \A x \in DOMAIN t : Len(t[x].items) # 0 \/ x = r
  BY <1>1, <1>2 DEF Standing
<1>4. Len(t[r].items) = 0
  BY <1>2, <1>3, FewItems
<1>5. DOMAIN u = DOMAIN t \ {r} /\ IsFunction(u) /\ \A x \in DOMAIN u : u[x] = t[x]
  BY DEF Equal, Drop, IsFunction
<1>6. AsDropped(t, r, u)
  BY <1>3, <1>4, <1>5 DEF AsDropped
<1>7. Formed(u, d) /\ Contents(u) = Contents(t)
  BY <1>3, <1>6, RootShape
<1>8. d \in Block \cup {0}
  <2>1. t[r] \in Node
    BY <1>3, NodeKeys
  <2> QED
    BY <2>1, Lens
<1>9. Resting(u, d)
  BY <1>3, <1>5, <1>7, <1>8 DEF Resting, Fit
<1>10. Made(u, c, o, k)
  BY <1>2, <1>7 DEF Made
<1> QED
  BY <1>9, <1>10

(* What PassItem and PassSmall leave.                                       *)
LEMMA ItemOn ==
  ASSUME NEW t, NEW r, NEW p, NEW it, NEW f, NEW s, NEW o, NEW k, NEW c,
         Calling(t, r, p, "split", it, f, s, o, k, c), p # <<>>, f # Len(p),
         NEW b, b = p[Len(p)].block,
         NEW h, Equal(h, Stored(t, b, Inserted(t[b], p[Len(p)].place, <<it>>)))
  PROVE  Calling(h.nodes, r, Shorter(p), h.back, h.item, f, s, o, k, c) /\ h.errors = {}
<1>1. PICK n : Equal(n, Inserted(t[b], p[Len(p)].place, <<it>>))
  BY DEF Equal
<1>2. Standing(t, r, p, "split", it)
  BY DEF Calling
<1>3. PICK u : /\ Same(t, u, Shorter(p)) /\ Contents(u) = Contents(WholeTree(t, r, p, "split", it))
               /\ Passes(Stored(t, b, n), u, r, Shorter(p))
  BY <1>1, <1>2, PassedItem
<1>4. h = Stored(t, b, n)
  BY <1>1 DEF Equal
<1>5. PICK q : Equal(q, Shorter(p))
  BY DEF Equal
<1>6. Same(t, u, q) /\ Passes(h, u, r, q) /\ Equal(Contents(u), Contents(WholeTree(t, r, p, "split", it)))
  BY <1>3, <1>4, <1>5 DEF Equal
<1>7. Calling(h.nodes, r, q, h.back, h.item, f, s, o, k, c) /\ h.errors = {}
  BY <1>5, <1>6, PassOn
<1> QED
  BY <1>5, <1>7 DEF Equal

LEMMA SmallOn ==
  ASSUME NEW t, NEW r, NEW p, NEW it, NEW f, NEW s, NEW o, NEW k, NEW c,
         Calling(t, r, p, "small", it, f, s, o, k, c), p # <<>>, f # Len(p),
         NEW b, b = p[Len(p)].block,
         NEW h, Equal(h, HandleUnderflow(t, b, t[b], p[Len(p)].place))
  PROVE  Calling(h.nodes, r, Shorter(p), h.back, h.item, f, s, o, k, c) /\ h.errors = {}
<1>1. PICK n : n = t[b]
  OBVIOUS
<1>2. Standing(t, r, p, "small", it) /\ WholeTree(t, r, p, "small", it) = t
  BY DEF Calling, WholeTree
<1>3. PICK u : /\ Same(t, u, Shorter(p)) /\ Contents(u) = Contents(t)
               /\ Passes(HandleUnderflow(t, b, n, p[Len(p)].place), u, r, Shorter(p))
  BY <1>1, <1>2, PassedSmall
<1>4. h = HandleUnderflow(t, b, n, p[Len(p)].place)
  BY <1>1 DEF Equal
<1>5. PICK q : Equal(q, Shorter(p))
  BY DEF Equal
<1>6. Same(t, u, q) /\ Passes(h, u, r, q) /\ Equal(Contents(u), Contents(WholeTree(t, r, p, "small", it)))
  BY <1>2, <1>3, <1>4, <1>5 DEF Equal
<1>7. Calling(h.nodes, r, q, h.back, h.item, f, s, o, k, c) /\ h.errors = {}
  BY <1>5, <1>6, PassOn
<1> QED
  BY <1>5, <1>7 DEF Equal

-----------------------------------------------------------------------------
(* The inductive invariant: between the calls the tree is formed, and a call*)
(* stands where Calling says.                                               *)
AtRest ==
  /\ Resting(node, root)
  /\ key = 0 /\ path = <<>> /\ back = "none" /\ item = NoItem /\ found = 0 /\ smallest = 0
  /\ before = Nothing

InCall ==
  Calling(node, root, path, back, item, found, smallest, op, key, Contents(before.node))

IInv ==
  /\ todo \in Seq(Key) /\ pool \subseteq Key
  /\ status \in {"ok", "record_exists", "record_not_found"}
  /\ op = "none" => AtRest
  /\ op # "none" => InCall

(* A step keeps it, and is one of the index or none.                        *)
Rightly == IInv' /\ [Index!Next]_(Index!vars)

LEMMA Moves ==
  ASSUME IInv, op # "none", UNCHANGED <<root, todo, pool, status, op, key, before>>,
         Calling(node', root, path', back', item', found', smallest', op, key, Contents(before.node))
  PROVE  Rightly
<1>1. IInv'
  BY DEF IInv, InCall
<1>2. UNCHANGED Contents(IF Idle THEN node ELSE before.node)
  BY DEF Idle
<1> QED
  BY <1>1, <1>2 DEF Rightly, Index!vars

LEMMA Returns ==
  ASSUME IInv, op # "none", NEW STATE h, NEW STATE q, NEW STATE f, NEW STATE s, Return(h, q, f, s),
         Calling(h.nodes, root, q, h.back, h.item, f, s, op, key, Contents(before.node)),
         h.errors = {}
  PROVE  Rightly
<1>1. /\ UNCHANGED <<root, todo, pool, status, op, key, before>>
      /\ node' = h.nodes /\ back' = h.back /\ item' = h.item /\ path' = q /\ found' = f /\ smallest' = s
  BY DEF Return
<1>2. Calling(node', root, path', back', item', found', smallest', op, key, Contents(before.node))
  BY <1>1
<1> QED
  BY <1>1, <1>2, Moves

Settled(s, t, c, o, k) ==
  \/ s = "ok" /\ Made(t, c, o, k)
  \/ /\ s = (IF o = "add" THEN "record_exists" ELSE "record_not_found")
     /\ o = "add" <=> k \in c
     /\ \A x : x \in Contents(t) <=> x \in c

LEMMA Ends ==
  ASSUME IInv, op # "none", NEW STATE s, End(s), Resting(node', root'),
         Settled(s, node', Contents(before.node), op, key)
  PROVE  Rightly
<1> DEFINE c == Contents(before.node)
           d == Contents(node')
<1>1. /\ status' = s /\ op' = "none" /\ key' = 0 /\ path' = <<>> /\ back' = "none" /\ item' = NoItem
      /\ found' = 0 /\ smallest' = 0 /\ before' = Nothing /\ UNCHANGED <<todo, pool>>
  BY DEF End
<1>2. key \in Key /\ op \in {"add", "delete"}
  BY DEF IInv, InCall, Calling
<1>3. s \in {"ok", "record_exists", "record_not_found"}
  BY DEF Settled
<1>4. IInv'
  BY <1>1, <1>3 DEF IInv, AtRest, NoItem, Nothing
<1>5. /\ Contents(IF Idle THEN node ELSE before.node) = c
      /\ Contents(IF Idle THEN node ELSE before.node)' = d
  BY <1>1 DEF Idle
<1> HIDE DEF c, d
<1>6. Index!Insert(key) \/ Index!Remove(key)
  <2>1. CASE s = "ok" /\ op = "add"
    <3>1. key \notin c /\ d = c \cup {key}
      BY <2>1 DEF Settled, Made, c, d
    <3> QED
      BY <1>1, <1>5, <2>1, <3>1 DEF Index!Insert
  <2>2. CASE s = "ok" /\ op = "delete"
    <3>1. key \in c /\ d = c \ {key}
      BY <2>2 DEF Settled, Made, c, d
    <3> QED
      BY <1>1, <1>5, <2>2, <3>1 DEF Index!Remove
  <2>3. CASE s # "ok"
    <3>1. /\ d = c /\ (op = "add" <=> key \in c)
          /\ s = (IF op = "add" THEN "record_exists" ELSE "record_not_found")
      BY <2>3 DEF Settled, c, d
    <3> QED
      BY <1>1, <1>2, <1>5, <3>1 DEF Index!Insert, Index!Remove
  <2> QED
    BY <1>2, <2>1, <2>2, <2>3
<1> QED
  BY <1>2, <1>4, <1>6 DEF Rightly, Index!Next

(* The node below the path, and the place of the key in it.                 *)
LEMMA BelowThePath ==
  ASSUME IInv, op # "none", back = "none", Fils # 0
  PROVE  /\ InCall /\ Fils = Below(node, root, path) /\ Fils \in DOMAIN node
         /\ Standing(node, root, path, "none", item) /\ op \in {"add", "delete"} /\ key \in Key
         /\ GoodNode(node[Fils]) /\ Len(node[Fils].items) \in Nat /\ Len(node[Fils].items) # 0
         /\ \A x : x \in Contents(node) <=> x \in Contents(before.node)
         /\ Place0 \in 0..Len(node[Fils].items)
         /\ HasKey => Place0 + 1 \in 1..Len(node[Fils].items) /\ node[Fils].items[Place0 + 1].key = key
         /\ ~HasKey => InGap(node[Fils], Place0, key)
<1>1. InCall /\ Fils = Below(node, root, path)
  BY DEF IInv, Fils, Below, Open
<1>2. /\ Standing(node, root, path, "none", item) /\ op \in {"add", "delete"} /\ key \in Key
      /\ \A x : x \in Contents(node) <=> x \in Contents(before.node)
  BY <1>1 DEF InCall, Calling
<1>3. /\ Formed(node, root) /\ Way(node, root, path)
      /\ \A x \in DOMAIN node : GoodNode(node[x]) /\ Len(node[x].items) # 0
  BY <1>2 DEF Standing, WholeTree, TopBlock
<1>4. Fils \in DOMAIN node
  BY <1>1, <1>3, BelowIn
<1>5. PICK n : n = node[Fils]
  OBVIOUS
<1>6. GoodNode(n) /\ Len(n.items) \in Nat /\ Len(n.items) # 0
  BY <1>3, <1>4, <1>5, NodeKeys
<1>7. key \in Nat
  BY <1>2, SizeAssumption
<1>8. /\ Before(n, key) \in 0..Len(n.items)
      /\ Found(n, key) => Before(n, key) < Len(n.items) /\ n.items[Before(n, key) + 1].key = key
      /\ ~Found(n, key) => InGap(n, Before(n, key), key)
  BY <1>6, <1>7, BeforeIs
<1>9. HasKey <=> Found(n, key)
  BY <1>5 DEF HasKey
<1>10. Place0 = Before(n, key)
  BY <1>5 DEF Place0
<1>11. Before(n, key) < Len(n.items) => Before(n, key) + 1 \in 1..Len(n.items)
  BY <1>6, <1>8
<1> QED
  BY <1>1, <1>2, <1>4, <1>5, <1>6, <1>8, <1>9, <1>10, <1>11

LEMMA GoesDown ==
  ASSUME IInv, op # "none", back = "none", NEW STATE i, NEW STATE g,
         Downward(node, root, path, found, op, key, Fils, i, Into(i), g), GoOn(Into(i), g)
  PROVE  Rightly
<1>1. Calling(node, root, path, "none", item, found, smallest, op, key, Contents(before.node))
  BY DEF IInv, InCall
<1>2. Calling(node, root, Into(i), "none", item, g, smallest, op, key, Contents(before.node))
  BY <1>1, StepDown
<1>3. /\ UNCHANGED <<root, todo, pool, status, op, key, before, node, back, item, smallest>>
      /\ path' = Into(i) /\ found' = g
  BY DEF GoOn, tree
<1>4. Calling(node', root, path', back', item', found', smallest', op, key, Contents(before.node))
  BY <1>2, <1>3
<1> QED
  BY <1>3, <1>4, Moves

LEMMA DescendKeeps ==
  ASSUME IInv, Descend PROVE Rightly
<1>1. /\ op # "none" /\ back = "none" /\ found = 0 /\ Fils # 0 /\ ~HasKey /\ GoOn(Into(Place0), 0)
  BY DEF Descend, Going
<1>2. /\ Fils = Below(node, root, path) /\ Place0 \in 0..Len(node[Fils].items)
      /\ InGap(node[Fils], Place0, key)
  BY <1>1, BelowThePath
<1>3. Downward(node, root, path, found, op, key, Fils, Place0, Into(Place0), 0)
  BY <1>1, <1>2 DEF Downward, Into
<1> QED
  BY <1>1, <1>3, GoesDown

LEMMA DeleteInnerKeeps ==
  ASSUME IInv, DeleteInner PROVE Rightly
<1>1. /\ op = "delete" /\ op # "none" /\ back = "none" /\ found = 0 /\ Fils # 0 /\ HasKey
      /\ node[Fils].next0 # 0 /\ GoOn(Into(Place0 + 1), Len(path) + 1)
  BY DEF DeleteInner, Going, HasKey
<1>2. /\ Fils = Below(node, root, path) /\ Len(node[Fils].items) \in Nat
      /\ Place0 + 1 \in 1..Len(node[Fils].items) /\ node[Fils].items[Place0 + 1].key = key
  BY <1>1, BelowThePath
<1>3. Place0 + 1 \in 0..Len(node[Fils].items) /\ Place0 + 1 # 0
  BY <1>2
<1>4. Downward(node, root, path, found, op, key, Fils, Place0 + 1, Into(Place0 + 1), Len(path) + 1)
  BY <1>1, <1>2, <1>3 DEF Downward, Into
<1> QED
  BY <1>1, <1>4, GoesDown

(* A call that looks for the smallest key has a node to look in.            *)
LEMMA ExtractingIn ==
  ASSUME IInv, Extracting
  PROVE  op # "none" /\ op = "delete" /\ back = "none" /\ found # 0 /\ Fils # 0
<1>1. op = "delete" /\ op # "none" /\ back = "none" /\ found # 0
  BY DEF Extracting
<1>2. Below(node, root, path) # 0
  BY <1>1 DEF IInv, InCall, Calling
<1> QED
  BY <1>1, <1>2 DEF Fils, Below, Open

LEMMA ExtractDeeperKeeps ==
  ASSUME IInv, ExtractDeeper PROVE Rightly
<1>1. /\ op # "none" /\ back = "none" /\ found # 0 /\ Fils # 0
      /\ node[Fils].next0 # 0 /\ GoOn(Into(0), found)
  BY ExtractingIn DEF ExtractDeeper
<1>2. Fils = Below(node, root, path) /\ Len(node[Fils].items) \in Nat
  BY <1>1, BelowThePath
<1>3. 0 \in 0..Len(node[Fils].items)
  BY <1>2
<1>4. Downward(node, root, path, found, op, key, Fils, 0, Into(0), found)
  BY <1>1, <1>2, <1>3 DEF Downward, Into
<1> QED
  BY <1>1, <1>4, GoesDown

LEMMA ExtractHereKeeps ==
  ASSUME IInv, ExtractHere PROVE Rightly
<1>1. /\ op # "none" /\ back = "none" /\ found # 0 /\ Fils # 0 /\ node[Fils].next0 = 0
      /\ Return(Shortened(0), path, found, node[Fils].items[1].key)
  BY ExtractingIn DEF ExtractHere
<1>2. /\ InCall /\ Fils = Below(node, root, path) /\ Len(node[Fils].items) \in Nat
      /\ Len(node[Fils].items) # 0 /\ Standing(node, root, path, "none", item)
  BY <1>1, BelowThePath
<1>3. 0 \in 0..Len(node[Fils].items) - 1
  BY <1>2
<1>4. PICK h : h = Shortened(0)
  OBVIOUS
<1>5. PICK v : Equal(v, node[Fils].items[1].key)
  BY DEF Equal
<1>6. Shortening(node, root, path, item, Fils, 0, h)
  BY <1>1, <1>2, <1>3, <1>4 DEF Shortening, Shortened
<1>7. Calling(node, root, path, "none", item, found, smallest, op, key, Contents(before.node))
  BY <1>1, <1>2 DEF InCall
<1>8. /\ Calling(h.nodes, root, path, h.back, h.item, found, v, op, key, Contents(before.node))
      /\ h.errors = {}
  BY <1>1, <1>5, <1>6, <1>7, ExtractOn
<1>9. Return(h, path, found, v)
  BY <1>1, <1>4, <1>5 DEF Equal
<1> QED
  BY <1>1, <1>8, <1>9, Returns

LEMMA DeleteHereKeeps ==
  ASSUME IInv, DeleteHere PROVE Rightly
<1>1. /\ op = "delete" /\ op # "none" /\ back = "none" /\ found = 0 /\ Fils # 0 /\ HasKey
      /\ node[Fils].next0 = 0 /\ Return(Shortened(Place0), path, 0, 0)
  BY DEF DeleteHere, Going, HasKey
<1>2. /\ InCall /\ Fils = Below(node, root, path) /\ Len(node[Fils].items) \in Nat
      /\ Standing(node, root, path, "none", item) /\ Place0 \in 0..Len(node[Fils].items)
      /\ Place0 + 1 \in 1..Len(node[Fils].items) /\ node[Fils].items[Place0 + 1].key = key
  BY <1>1, BelowThePath
<1>3. Place0 \in 0..Len(node[Fils].items) - 1
  BY <1>2
<1>4. PICK h : h = Shortened(Place0)
  OBVIOUS
<1>5. Shortening(node, root, path, item, Fils, Place0, h)
  BY <1>1, <1>2, <1>3, <1>4 DEF Shortening, Shortened
<1>6. Calling(node, root, path, "none", item, 0, smallest, "delete", key, Contents(before.node))
  BY <1>1, <1>2 DEF InCall
<1>7. /\ Calling(h.nodes, root, path, h.back, h.item, 0, 0, "delete", key, Contents(before.node))
      /\ h.errors = {}
  BY <1>2, <1>5, <1>6, DeleteOn
<1>8. Return(h, path, 0, 0) /\ Calling(h.nodes, root, path, h.back, h.item, 0, 0, op, key, Contents(before.node))
  BY <1>1, <1>4, <1>7
<1> QED
  BY <1>1, <1>7, <1>8, Returns

LEMMA AddHereKeeps ==
  ASSUME IInv, AddHere PROVE Rightly
<1>1. /\ op = "add" /\ op # "none" /\ back = "none" /\ found = 0 /\ Fils = 0
      /\ back' = "split" /\ item' = [key |-> key, child |-> 0]
      /\ UNCHANGED <<tree, todo, pool, status, op, key, path, found, smallest, before>>
  BY DEF AddHere, Going
<1>2. Fils = Below(node, root, path)
  BY DEF Fils, Below, Open
<1>3. Calling(node, root, path, "none", item, 0, smallest, "add", key, Contents(before.node))
  BY <1>1 DEF IInv, InCall
<1>4. PICK x : Equal(x, [key |-> key, child |-> 0])
  BY DEF Equal
<1>5. Calling(node, root, path, "split", x, 0, smallest, "add", key, Contents(before.node))
  BY <1>1, <1>2, <1>3, <1>4, AddOn
<1>6. item' = x
  BY <1>1, <1>4 DEF Equal
<1>7. /\ UNCHANGED <<root, todo, pool, status, op, key, before>> /\ node' = node
      /\ path' = path /\ found' = found /\ smallest' = smallest
  BY <1>1 DEF tree
<1>8. Calling(node', root, path', back', item', found', smallest', op, key, Contents(before.node))
  BY <1>1, <1>5, <1>6, <1>7
<1> QED
  BY <1>1, <1>7, <1>8, Moves

(* A call that changes nothing ends.                                        *)
LEMMA EndsSame ==
  ASSUME IInv, op # "none", back = "none", NEW STATE s, End(s), UNCHANGED tree,
         s = (IF op = "add" THEN "record_exists" ELSE "record_not_found"),
         op = "add" <=> key \in Contents(node)
  PROVE  Rightly
<1>1. Calling(node, root, path, "none", item, found, smallest, op, key, Contents(before.node))
  BY DEF IInv, InCall
<1>2. Resting(node, root) /\ \A x : x \in Contents(node) <=> x \in Contents(before.node)
  BY <1>1, CallSettled
<1>3. Resting(node', root')
  BY <1>2 DEF tree
<1>4. node' = node
  BY DEF tree
<1>5. Settled(s, node', Contents(before.node), op, key)
  BY <1>2, <1>4 DEF Settled
<1> QED
  BY <1>3, <1>5, Ends

LEMMA AddExistsKeeps ==
  ASSUME IInv, AddExists PROVE Rightly
<1>1. /\ op = "add" /\ op # "none" /\ back = "none" /\ Fils # 0 /\ HasKey
      /\ End("record_exists") /\ UNCHANGED tree
  BY DEF AddExists, Going, HasKey
<1>2. Fils \in DOMAIN node
  BY <1>1, BelowThePath
<1>3. key \in Contents(node)
  BY <1>1, <1>2, InContents DEF HasKey, Found
<1> QED
  BY <1>1, <1>3, EndsSame

LEMMA DeleteMissingKeeps ==
  ASSUME IInv, DeleteMissing PROVE Rightly
<1>1. /\ op = "delete" /\ op # "none" /\ op # "add" /\ back = "none" /\ found = 0 /\ Fils = 0
      /\ End("record_not_found") /\ UNCHANGED tree
  BY DEF DeleteMissing, Going
<1>2. Calling(node, root, path, "none", item, 0, smallest, "delete", key, Contents(before.node))
  BY <1>1 DEF IInv, InCall
<1>3. Below(node, root, path) = 0
  BY <1>1 DEF Fils, Below, Open
<1>4. Formed(node, root) /\ Way(node, root, path) /\ Aimed(node, path, 0, key) /\ key \in Key
  BY <1>2 DEF Calling, Standing, WholeTree, TopBlock
<1>5. key \notin Contents(node)
  BY <1>3, <1>4, MissingKey
<1> QED
  BY <1>1, <1>5, EndsSame

LEMMA PassItemKeeps ==
  ASSUME IInv, PassItem PROVE Rightly
<1> DEFINE b == path[Len(path)].block
<1>1. /\ back = "split" /\ path # <<>> /\ found # Len(path)
      /\ Return(Stored(node, b, Inserted(node[b], path[Len(path)].place, <<item>>)), Shorter(path),
                found, smallest)
  BY DEF PassItem, AtFound, Open, Upper, Shorter
<1>2. op # "none"
  BY <1>1 DEF IInv, AtRest
<1>3. Calling(node, root, path, "split", item, found, smallest, op, key, Contents(before.node))
  BY <1>1, <1>2 DEF IInv, InCall
<1>4. PICK h : Equal(h, Stored(node, b, Inserted(node[b], path[Len(path)].place, <<item>>)))
  BY DEF Equal
<1>5. Return(h, Shorter(path), found, smallest)
  BY <1>1, <1>4 DEF Equal
<1>6. /\ Calling(h.nodes, root, Shorter(path), h.back, h.item, found, smallest, op, key,
                 Contents(before.node))
      /\ h.errors = {}
  BY <1>1, <1>3, <1>4, ItemOn
<1> QED
  BY <1>2, <1>5, <1>6, Returns

LEMMA PassSmallKeeps ==
  ASSUME IInv, PassSmall PROVE Rightly
<1> DEFINE b == path[Len(path)].block
<1>1. /\ back = "small" /\ path # <<>> /\ found # Len(path)
      /\ Return(HandleUnderflow(node, b, node[b], path[Len(path)].place), Shorter(path), found, smallest)
  BY DEF PassSmall, AtFound, Open, Upper, Shorter
<1>2. op # "none"
  BY <1>1 DEF IInv, AtRest
<1>3. Calling(node, root, path, "small", item, found, smallest, op, key, Contents(before.node))
  BY <1>1, <1>2 DEF IInv, InCall
<1>4. PICK h : Equal(h, HandleUnderflow(node, b, node[b], path[Len(path)].place))
  BY DEF Equal
<1>5. Return(h, Shorter(path), found, smallest)
  BY <1>1, <1>4 DEF Equal
<1>6. /\ Calling(h.nodes, root, Shorter(path), h.back, h.item, found, smallest, op, key,
                 Contents(before.node))
      /\ h.errors = {}
  BY <1>1, <1>3, <1>4, SmallOn
<1> QED
  BY <1>2, <1>5, <1>6, Returns

LEMMA PassUpKeeps ==
  ASSUME IInv, PassUp PROVE Rightly
<1>1. back = "fits" /\ found # 0 /\ (path # <<>> => found # Len(path)) /\ GoOn(Shorter(path), found)
  BY DEF PassUp, AtFound, Upper, Shorter
<1>2. op # "none"
  BY <1>1 DEF IInv, AtRest
<1>3. Calling(node, root, path, "fits", item, found, smallest, op, key, Contents(before.node))
  BY <1>1, <1>2 DEF IInv, InCall
<1>4. path # <<>>
  <2>1. found \in 0..Len(path)
    BY <1>3 DEF Calling
  <2>2. path = <<>> => Len(path) = 0
    OBVIOUS
  <2> QED
    BY <1>1, <2>1, <2>2
<1>5. Calling(node, root, Shorter(path), "fits", item, found, smallest, op, key, Contents(before.node))
  BY <1>1, <1>3, <1>4, PassOnUp
<1>6. /\ UNCHANGED <<root, todo, pool, status, op, key, before, node, back, item, smallest>>
      /\ path' = Shorter(path) /\ found' = found
  BY <1>1 DEF GoOn, tree
<1>7. Calling(node', root, path', back', item', found', smallest', op, key, Contents(before.node))
  BY <1>1, <1>5, <1>6
<1> QED
  BY <1>2, <1>6, <1>7, Moves

LEMMA ReplaceKeeps ==
  ASSUME IInv, Replace PROVE Rightly
<1> DEFINE b == path[Len(path)].block
           i == path[Len(path)].place
<1>1. /\ back # "none" /\ path # <<>> /\ found = Len(path)
      /\ Return(ReplacedBy(node, b, node[b], i, back, item, smallest), Shorter(path), 0, 0)
  BY DEF Replace, AtFound, Open, Upper, Shorter, ReplaceBySmallest, ReplacedBy
<1>2. op # "none"
  BY <1>1 DEF IInv, AtRest
<1>3. Calling(node, root, path, back, item, found, smallest, op, key, Contents(before.node))
  BY <1>2 DEF IInv, InCall
<1>4. found # 0
  <2>1. path \in Seq([block : Block, place : Nat])
    BY <1>3 DEF Calling
  <2> QED
    BY <1>1, <2>1
<1>5. PICK h : Equal(h, ReplacedBy(node, b, node[b], i, back, item, smallest))
  BY DEF Equal
<1>6. Return(h, Shorter(path), 0, 0)
  BY <1>1, <1>5 DEF Equal
<1>7. /\ Calling(h.nodes, root, Shorter(path), h.back, h.item, 0, 0, op, key, Contents(before.node))
      /\ h.errors = {}
  BY <1>1, <1>3, <1>4, <1>5, ReplaceOn
<1> QED
  BY <1>2, <1>6, <1>7, Returns

LEMMA DoneKeeps ==
  ASSUME IInv, Done PROVE Rightly
<1>1. back = "fits" /\ found = 0 /\ End("ok") /\ root' = root /\ node' = node
  BY DEF Done, tree
<1>2. op # "none"
  BY <1>1 DEF IInv, AtRest
<1>3. Calling(node, root, path, "fits", item, 0, smallest, op, key, Contents(before.node))
  BY <1>1, <1>2 DEF IInv, InCall
<1>4. Resting(node, root) /\ Made(node, Contents(before.node), op, key)
  BY <1>3, CallSettled
<1>5. Resting(node', root') /\ Settled("ok", node', Contents(before.node), op, key)
  BY <1>1, <1>4 DEF Settled
<1> QED
  BY <1>1, <1>2, <1>5, Ends

(* At the end of the way up no key is left to replace.                      *)
LEMMA AtTheRoot ==
  ASSUME IInv, op # "none", path = <<>>
  PROVE  Calling(node, root, path, back, item, 0, smallest, op, key, Contents(before.node))
<1>1. Calling(node, root, path, back, item, found, smallest, op, key, Contents(before.node))
  BY DEF IInv, InCall
<1>2. found \in 0..Len(path) /\ Len(path) = 0
  BY <1>1 DEF Calling
<1>3. found = 0
  BY <1>2
<1> QED
  BY <1>1, <1>3

LEMMA NewRootKeeps ==
  ASSUME IInv, NewRoot PROVE Rightly
<1>1. /\ back = "split" /\ path = <<>> /\ End("ok") /\ root' = Fresh(node)
      /\ node' = Put(node, Fresh(node), [next0 |-> root, items |-> <<item>>])
  BY DEF NewRoot
<1>2. op # "none"
  BY <1>1 DEF IInv, AtRest
<1>3. Calling(node, root, path, "split", item, 0, smallest, op, key, Contents(before.node))
  BY <1>1, <1>2, AtTheRoot
<1>4. PICK d : d = Fresh(node)
  OBVIOUS
<1>5. PICK u : Equal(u, Put(node, d, [next0 |-> root, items |-> <<item>>]))
  BY DEF Equal
<1>6. Resting(u, d) /\ Made(u, Contents(before.node), op, key)
  BY <1>1, <1>3, <1>4, <1>5, CallTops
<1>7. node' = u /\ root' = d
  BY <1>1, <1>4, <1>5 DEF Equal
<1>8. Resting(node', root') /\ Settled("ok", node', Contents(before.node), op, key)
  BY <1>6, <1>7 DEF Settled
<1> QED
  BY <1>1, <1>2, <1>8, Ends

LEMMA SmallRootKeeps ==
  ASSUME IInv, SmallRoot PROVE Rightly
<1>1. back = "small" /\ path = <<>> /\ End("ok")
  BY DEF SmallRoot
<1>2. op # "none"
  BY <1>1 DEF IInv, AtRest
<1>3. Calling(node, root, path, "small", item, 0, smallest, op, key, Contents(before.node))
  BY <1>1, <1>2, AtTheRoot
<1>4. CASE Bytes(node[root]) <= Link
  <2>1. root' = node[root].next0 /\ node' = Drop(node, root)
    BY <1>4 DEF SmallRoot
  <2>2. PICK u : Equal(u, Drop(node, root))
    BY DEF Equal
  <2>3. Resting(u, node[root].next0) /\ Made(u, Contents(before.node), op, key)
    BY <1>1, <1>3, <1>4, <2>2, CallDrops
  <2>4. node' = u
    BY <2>1, <2>2 DEF Equal
  <2>5. Resting(node', root') /\ Settled("ok", node', Contents(before.node), op, key)
    BY <2>1, <2>3, <2>4 DEF Settled
  <2> QED
    BY <1>1, <1>2, <2>5, Ends
<1>5. CASE ~(Bytes(node[root]) <= Link)
  <2>1. root' = root /\ node' = node
    BY <1>5 DEF SmallRoot, tree
  <2>2. Resting(node, root) /\ Made(node, Contents(before.node), op, key)
    BY <1>1, <1>3, <1>5, CallStays
  <2>3. Resting(node', root') /\ Settled("ok", node', Contents(before.node), op, key)
    BY <2>1, <2>2 DEF Settled
  <2> QED
    BY <1>1, <1>2, <2>3, Ends
<1> QED
  BY <1>4, <1>5

LEMMA BeginKeeps ==
  ASSUME IInv, NEW k \in Key, Add(k) \/ Delete(k) PROVE Rightly
<1>1. PICK o \in {"add", "delete"} : Begin(o, k)
  BY DEF Add, Delete
<1>2. /\ op = "none" /\ op' = o /\ key' = k /\ before' = [root |-> root, node |-> node]
      /\ UNCHANGED <<root, node, pool, status, path, back, item, found, smallest>>
  BY <1>1 DEF Begin, Idle, tree
<1>3. /\ Resting(node, root) /\ path = <<>> /\ back = "none" /\ item = NoItem /\ found = 0
      /\ smallest = 0
  BY <1>2 DEF IInv, AtRest
<1>4. PICK c : Equal(c, Contents(node))
  BY DEF Equal
<1>5. Calling(node, root, <<>>, "none", NoItem, 0, 0, o, k, c)
  BY <1>3, <1>4, CallBegins
<1>6. Contents(before.node)' = c
  BY <1>2, <1>4 DEF Equal
<1>7. InCall'
  BY <1>2, <1>3, <1>5, <1>6 DEF InCall, NoItem
<1>8. todo' \in Seq(Key)
  BY DEF Add, Delete, IInv
<1>9. IInv'
  BY <1>2, <1>7, <1>8 DEF IInv
<1>10. UNCHANGED Contents(IF Idle THEN node ELSE before.node)
  BY <1>2, <1>4, <1>6 DEF Idle, Equal
<1> QED
  BY <1>2, <1>9, <1>10 DEF Rightly, Index!vars

(* Until a call ends nothing changes.                                       *)
LEMMA StutterKeeps ==
  ASSUME IInv, UNCHANGED vars PROVE Rightly
<1>1. UNCHANGED <<root, node, todo, pool, status, op, key, path, back, item, found, smallest, before>>
  BY DEF vars, call
<1>2. IInv'
  BY <1>1 DEF IInv, AtRest, InCall
<1>3. UNCHANGED Contents(IF Idle THEN node ELSE before.node)
  BY <1>1 DEF Idle
<1> QED
  BY <1>1, <1>2, <1>3 DEF Rightly, Index!vars

LEMMA EveryStep ==
  IInv /\ [Next]_vars => Rightly
<1> SUFFICES ASSUME IInv, [Next]_vars PROVE Rightly
  OBVIOUS
<1>1. ASSUME NEW k \in Key, Add(k) \/ Delete(k) PROVE Rightly
  BY <1>1, BeginKeeps
<1>2. CASE Down
  BY <1>2, DescendKeeps, AddExistsKeeps, AddHereKeeps, DeleteMissingKeeps, DeleteHereKeeps,
     DeleteInnerKeeps, ExtractDeeperKeeps, ExtractHereKeeps DEF Down
<1>3. CASE Up
  BY <1>3, PassItemKeeps, PassSmallKeeps, PassUpKeeps, ReplaceKeeps, DoneKeeps, NewRootKeeps,
     SmallRootKeeps DEF Up
<1>4. CASE UNCHANGED vars
  BY <1>4, StutterKeeps
<1> QED
  BY <1>1, <1>2, <1>3, <1>4 DEF Next

LEMMA AtFirst ==
  Init => IInv /\ Index!Init
<1> SUFFICES ASSUME Init PROVE IInv /\ Index!Init
  OBVIOUS
<1>1. PICK r, t : r = 0 /\ t = [b \in {} |-> 0]
  OBVIOUS
<1>2. DOMAIN t = {} /\ IsFunction(t)
  BY <1>1 DEF IsFunction
<1>3. Shape(t, r, <<>>, <<>>, <<>>)
  BY <1>1, <1>2, FS_EmptySet DEF Shape
<1>4. Resting(t, r)
  BY <1>1, <1>2, <1>3 DEF Resting, Formed
<1>5. root = r /\ node = t
  BY <1>1 DEF Init, Nothing
<1>6. AtRest /\ op = "none" /\ status = "ok"
  BY <1>4, <1>5 DEF AtRest, Init
<1>7. todo \in Seq(Key) /\ pool \subseteq Key
  BY StartAssumption DEF Init
<1>8. IInv
  BY <1>6, <1>7 DEF IInv
<1>9. Contents(IF Idle THEN node ELSE before.node) = {}
  BY <1>2, <1>5, <1>6, InContents DEF Idle
<1> QED
  BY <1>6, <1>8, <1>9 DEF Index!Init

-----------------------------------------------------------------------------
(* The invariant holds in every reachable state.                            *)
THEOREM AlwaysFormed ==
  Spec => []IInv
<1>1. Init => IInv
  BY AtFirst
<1>2. IInv /\ [Next]_vars => IInv'
  BY EveryStep DEF Rightly
<1> QED
  BY <1>1, <1>2, PTL DEF Spec

(* No insertion or deletion ever ends with an internal error: a node that   *)
(* badd.c splits has three items and a place to be split, and every node    *)
(* that bdelete.c builds, however the item it is built from came about,     *)
(* fits into the buffer of 2 * MAX_INDEX_DATA_SIZE bytes.                   *)
THEOREM NeverInternalError ==
  Spec => []NoInternalError
<1>1. IInv => NoInternalError
  BY DEF IInv, NoInternalError
<1> QED
  BY <1>1, AlwaysFormed, PTL

(* The tree is the ordered set of keys that OrderedIndex promises: what an  *)
(* insertion or deletion does in its many steps, with its splits, mergers   *)
(* and new roots, is one insertion or removal of a key, and it answers as   *)
(* the set would.                                                           *)
THEOREM IndexImplemented ==
  Spec => ImplementsIndex
<1>1. Init => Index!Init
  BY AtFirst
<1>2. IInv /\ [Next]_vars => [Index!Next]_(Index!vars)
  BY EveryStep DEF Rightly
<1> QED
  BY <1>1, <1>2, AlwaysFormed, PTL DEF Spec, ImplementsIndex, Index!Spec

(* Every variable has its type, and a node that is in the file fits there.  *)
THEOREM TreeTypes ==
  Spec => []TypeOK
<1>1. ASSUME IInv PROVE TypeOK
  <2>1. CASE op = "none"
    <3>1. /\ Resting(node, root) /\ key = 0 /\ path = <<>> /\ back = "none" /\ item = NoItem
          /\ found = 0 /\ smallest = 0
      BY <1>1, <2>1 DEF IInv, AtRest
    <3>2. root \in Block \cup {0} /\ \A x \in DOMAIN node : x \in Block /\ GoodNode(node[x]) /\ Fit(node[x])
      BY <3>1 DEF Resting
    <3>3. DOMAIN node \subseteq Block /\ \A x \in DOMAIN node : node[x] \in Node /\ Bytes(node[x]) <= Capacity
      BY <3>2 DEF GoodNode, Fit
    <3>4. PICK p : Equal(p, path)
      BY DEF Equal
    <3>5. p \in Seq([block : Block, place : Nat]) /\ Len(p) = 0
      BY <3>1, <3>4 DEF Equal
    <3>6. path \in Seq([block : Block, place : Nat]) /\ found \in 0..Len(path)
      BY <3>1, <3>4, <3>5 DEF Equal
    <3> QED
      BY <1>1, <2>1, <3>1, <3>2, <3>3, <3>6 DEF IInv, TypeOK
  <2>2. CASE op # "none"
    <3>1. Calling(node, root, path, back, item, found, smallest, op, key, Contents(before.node))
      BY <1>1, <2>2 DEF IInv, InCall
    <3>2. /\ path \in Seq([block : Block, place : Nat]) /\ back \in {"none", "fits", "small", "split"}
          /\ op \in {"add", "delete"} /\ key \in Key /\ found \in 0..Len(path)
          /\ Standing(node, root, path, back, item) /\ (back # "split" => item = NoItem)
      BY <3>1 DEF Calling
    <3>3. /\ root \in Block \cup {0} /\ (back = "split" => item \in Item)
          /\ \A x \in DOMAIN node : x \in Block /\ GoodNode(node[x]) /\ Bytes(node[x]) <= Capacity
      BY <3>2 DEF Standing
    <3>4. DOMAIN node \subseteq Block /\ \A x \in DOMAIN node : node[x] \in Node
      BY <3>3 DEF GoodNode
    <3>5. smallest \in Key \cup {0}
      BY <3>1 DEF Calling, Taken
    <3> QED
      BY <1>1, <3>2, <3>3, <3>4, <3>5 DEF IInv, TypeOK
  <2> QED
    BY <2>1, <2>2
<1> QED
  BY <1>1, AlwaysFormed, PTL

-----------------------------------------------------------------------------
(* What recursive definitions over the levels of the tree give.             *)
Iterable(N, S, base, g) == N \in Nat /\ base \in S /\ g \in [S -> S]

Iterated(f, N, S, base, g) ==
  f \in [0..N -> S] /\ f[0] = base /\ \A j \in 1..N : f[j] = g[f[j - 1]]

LEMMA Iterates ==
  ASSUME NEW N, NEW S, NEW base, NEW g, Iterable(N, S, base, g)
  PROVE  \E f : Iterated(f, N, S, base, g)
<1>h. N \in Nat /\ base \in S /\ g \in [S -> S]
  BY DEF Iterable
<1> DEFINE Steps(m, f) == f \in [0..m -> S] /\ f[0] = base /\ \A j \in 1..m : f[j] = g[f[j - 1]]
           None == {m \in 0..N : \A f : ~Steps(m, f)}
<1>0. None \in SUBSET Nat /\ None \subseteq 0..N
  BY <1>h
<1>a. \A m \in 0..N : m \notin None => \E f : Steps(m, f)
  OBVIOUS
<1>b. \A m \in None : \A f : ~Steps(m, f)
  OBVIOUS
<1> HIDE DEF None
<1>1. CASE None = {}
  <2>1. N \in 0..N /\ N \notin None
    BY <1>h, <1>1
  <2>2. PICK f : Steps(N, f)
    BY <2>1, <1>a
  <2> QED
    BY <2>2 DEF Iterated
<1>2. CASE None # {}
  <2>1. PICK m \in None : \A y \in None : m <= y
    BY <1>0, <1>2, MinIn
  <2>2. m # 0
    <3>1. Steps(0, [j \in 0..0 |-> base])
      BY <1>h
    <3>2. Steps(m, [j \in 0..0 |-> base]) => FALSE
      <4> HIDE DEF Steps
      <4> QED
        BY <1>b, <2>1
    <3> HIDE DEF Steps
    <3> QED
      BY ONLY <3>1, <3>2
  <2>3. m - 1 \in 0..N /\ m - 1 \notin None
    BY <1>h, <1>0, <2>1, <2>2
  <2>4. PICK f : Steps(m - 1, f)
    BY <1>a, <2>3
  <2>5. Steps(m, [j \in 0..m |-> IF j = m THEN g[f[m - 1]] ELSE f[j]])
    <3> DEFINE h == [j \in 0..m |-> IF j = m THEN g[f[m - 1]] ELSE f[j]]
    <3>1. m \in 1..N /\ f[m - 1] \in S /\ g[f[m - 1]] \in S
      BY <1>h, <1>0, <2>1, <2>2, <2>4
    <3>2. h \in [0..m -> S] /\ h[0] = base
      BY <2>4, <3>1
    <3>3. ASSUME NEW j \in 1..m PROVE h[j] = g[h[j - 1]]
      BY <2>4, <3>1
    <3> QED
      BY <3>2, <3>3
  <2> HIDE DEF Steps
  <2> QED
    BY <1>b, <2>1, <2>5
<1> QED
  BY <1>1, <1>2

(* The nodes below those of set s.                                          *)
NextLevel(t, s) == UNION {Children(t[c]) : c \in s \cap DOMAIN t}

LEMMA LevelIs ==
  ASSUME IsFiniteSet(DOMAIN node), NEW b
  PROVE  /\ Cardinality(DOMAIN node) \in Nat
         /\ Level(b, 0) = {b} \ {0}
         /\ \A l \in 1..Cardinality(DOMAIN node) : Level(b, l) = NextLevel(node, Level(b, l - 1))
<1> DEFINE N == Cardinality(DOMAIN node)
           U == {b} \cup NextLevel(node, DOMAIN node)
           S == SUBSET U
           g == [s \in S |-> NextLevel(node, s)]
           base == {b} \ {0}
<1>1. N \in Nat
  BY FS_CardinalityType
<1>2. base \in S /\ g \in [S -> S]
  BY DEF NextLevel
<1>3. PICK f \in [0..N -> S] : f[0] = base /\ \A j \in 1..N : f[j] = g[f[j - 1]]
  <2>1. Iterable(N, S, base, g)
    BY <1>1, <1>2 DEF Iterable
  <2> HIDE DEF g, S, base, N
  <2>2. PICK f : Iterated(f, N, S, base, g)
    BY <2>1, Iterates
  <2> QED
    BY <2>2 DEF Iterated
<1>4. \A j \in 1..N : f[j] = NextLevel(node, f[j - 1])
  <2>1. ASSUME NEW j \in 1..N PROVE f[j] = NextLevel(node, f[j - 1])
    <3>1. j - 1 \in 0..N
      BY <1>1
    <3>2. f[j - 1] \in S
      BY <1>3, <3>1
    <3> QED
      BY <1>3, <3>2
  <2> QED
    BY <2>1
<1> DEFINE Rec(h) == [i \in 0..N |-> IF i = 0 THEN {b} \ {0}
                        ELSE UNION {Children(node[c]) : c \in h[i - 1] \cap DOMAIN node}]
           a == CHOOSE h : h = Rec(h)
<1>5. f = Rec(f)
  <2>1. ASSUME NEW j \in 0..N
        PROVE  f[j] = IF j = 0 THEN {b} \ {0}
                      ELSE UNION {Children(node[c]) : c \in f[j - 1] \cap DOMAIN node}
    <3>1. CASE j = 0
      BY <1>3, <3>1
    <3>2. CASE j # 0
      <4>1. j \in 1..N
        BY <1>1, <3>2
      <4> QED
        BY <1>4, <3>2, <4>1 DEF NextLevel
    <3> QED
      BY <3>1, <3>2
  <2>2. f = [i \in 0..N |-> f[i]]
    BY <1>3
  <2> QED
    BY <2>1, <2>2
<1>6. a = Rec(a)
  <2>1. \E h : h = Rec(h)
    BY <1>5
  <2> QED
    BY <2>1
<1>7. \A l : Level(b, l) = a[l]
  BY DEF Level, Levels
<1>8. a[0] = base /\ \A j \in 1..N : a[j] = NextLevel(node, a[j - 1])
  <2> HIDE DEF a
  <2>1. \A j \in 0..N : a[j] = IF j = 0 THEN {b} \ {0}
                               ELSE UNION {Children(node[c]) : c \in a[j - 1] \cap DOMAIN node}
    BY <1>6
  <2>2. 0 \in 0..N /\ \A j \in 1..N : j \in 0..N /\ j # 0
    BY <1>1
  <2> QED
    BY <2>1, <2>2 DEF NextLevel
<1> QED
  BY <1>1, <1>7, <1>8

LEMMA LevelFacts ==
  ASSUME NEW lv, NEW up, NEW sp, Shape(node, root, lv, up, sp), NEW b \in DOMAIN node,
         NEW l \in Levels, NEW c \in Level(b, l)
  PROVE  c \in DOMAIN node /\ lv[c] = lv[b] - l /\ \A k \in sp[c] : k \in sp[b]
<1> DEFINE N == Cardinality(DOMAIN node)
           Fine(x, i) == x \in DOMAIN node /\ lv[x] = lv[b] - i /\ \A k \in sp[x] : k \in sp[b]
           Bad == {i \in 0..N : \E x \in Level(b, i) : ~Fine(x, i)}
<1>1. /\ N \in Nat /\ Level(b, 0) = {b} \ {0}
      /\ \A i \in 1..N : Level(b, i) = NextLevel(node, Level(b, i - 1))
  BY LevelIs DEF Shape
<1>2. lv[b] \in Nat
  BY BlockFacts
<1>3. l \in 0..N
  BY DEF Levels
<1>4. Bad = {}
  <2>1. ASSUME Bad # {} PROVE FALSE
    <3>1. PICK i \in Bad : \A j \in Bad : i <= j
      <4>1. Bad \in SUBSET Nat
        BY <1>1
      <4> HIDE DEF Bad
      <4> QED
        BY <2>1, <4>1, MinIn
    <3>2. i \in 0..N
      BY <3>1
    <3>3. PICK x \in Level(b, i) : ~Fine(x, i)
      BY <3>1
    <3>4. i # 0
      BY <1>1, <1>2, <3>3
    <3>5. i - 1 \in 0..N /\ ~(i <= i - 1) /\ i \in 1..N
      BY <1>1, <3>2, <3>4
    <3>6. \A y \in Level(b, i - 1) : Fine(y, i - 1)
      <4>1. i - 1 \notin Bad
        BY <3>1, <3>5
      <4> QED
        BY <3>5, <4>1
    <3> HIDE DEF N
    <3>7. PICK y \in Level(b, i - 1) : y \in DOMAIN node /\ x \in Children(node[y])
      BY <1>1, <3>3, <3>5 DEF NextLevel
    <3>8. PICK j \in 0..Len(node[y].items) : x = Child(node[y], j)
      BY <3>7 DEF Children
    <3>9. x # 0
      BY <3>7 DEF Children
    <3>10. Fine(y, i - 1)
      BY <3>6, <3>7
    <3>11. /\ x \in DOMAIN node /\ lv[x] = lv[y] - 1 /\ \A k \in sp[x] : k \in sp[y]
      BY <3>7, <3>8, <3>9, ChildFacts
    <3>12. lv[x] = lv[b] - i
      <4>1. i \in Nat
        BY <1>1, <3>2 DEF N
      <4> QED
        BY <1>2, <3>10, <3>11, <4>1
    <3> QED
      BY <3>3, <3>10, <3>11, <3>12
  <2> QED
    BY <2>1
<1> QED
  BY <1>3, <1>4

LEMMA NoLevels ==
  ASSUME IsFiniteSet(DOMAIN node), NEW l \in Levels
  PROVE  Level(0, l) = {}
<1> DEFINE N == Cardinality(DOMAIN node)
           Bad == {i \in 0..N : Level(0, i) # {}}
<1>1. /\ N \in Nat /\ Level(0, 0) = {}
      /\ \A i \in 1..N : Level(0, i) = NextLevel(node, Level(0, i - 1))
  BY LevelIs
<1>2. l \in 0..N
  BY DEF Levels
<1>3. ASSUME Bad # {} PROVE FALSE
  <2>1. PICK i \in Bad : \A j \in Bad : i <= j
    <3>1. Bad \in SUBSET Nat
      BY <1>1
    <3> HIDE DEF Bad
    <3> QED
      BY <1>3, <3>1, MinIn
  <2>2. i \in 0..N /\ i # 0 /\ Level(0, i) # {}
    BY <1>1, <2>1
  <2>3. i - 1 \in 0..N /\ ~(i <= i - 1) /\ i \in 1..N
    BY <1>1, <2>2
  <2>4. Level(0, i - 1) = {}
    BY <2>1, <2>3
  <2> HIDE DEF N
  <2> QED
    BY <1>1, <2>2, <2>3, <2>4 DEF NextLevel
<1> QED
  BY <1>2, <1>3

(* Above a block there is one on every level, with its keys.                *)
LEMMA Ancestor ==
  ASSUME NEW t, NEW r, NEW lv, NEW up, NEW sp, Shape(t, r, lv, up, sp),
         NEW c \in DOMAIN t, NEW y \in lv[c]..lv[r]
  PROVE  \E a \in DOMAIN t : lv[a] = y /\ \A k \in sp[c] : k \in sp[a]
<1> DEFINE Over(a, z) == lv[a] = z /\ \A k \in sp[c] : k \in sp[a]
           Bad == {z \in lv[c]..lv[r] : ~\E a \in DOMAIN t : Over(a, z)}
<1>1. lv[c] \in Nat /\ lv[r] \in Nat
  BY BlockFacts
<1>2. ASSUME Bad # {} PROVE FALSE
  <2>1. PICK z \in Bad : \A x \in Bad : z <= x
    <3>1. Bad \in SUBSET Nat
      BY <1>1
    <3> HIDE DEF Bad
    <3> QED
      BY <1>2, <3>1, MinIn
  <2>2. z \in lv[c]..lv[r] /\ ~\E a \in DOMAIN t : Over(a, z)
    BY <2>1
  <2>3. z # lv[c]
    BY <2>2
  <2>4. z - 1 \in lv[c]..lv[r] /\ ~(z <= z - 1) /\ z \in Nat
    BY <1>1, <2>2, <2>3
  <2>5. PICK a \in DOMAIN t : Over(a, z - 1)
    BY <2>1, <2>4
  <2>6. a # r
    BY <1>1, <2>2, <2>4, <2>5
  <2>7. /\ up[a] \in DOMAIN t /\ lv[up[a]] = lv[a] + 1
        /\ \A k \in sp[a] : k \in sp[up[a]]
    BY <2>6, OwnerFacts
  <2>8. Over(up[a], z)
    BY <2>4, <2>5, <2>7
  <2> QED
    BY <2>2, <2>7, <2>8
<1> QED
  BY <1>2

(* So there are at least as many blocks as levels.                          *)
LEMMA Depth ==
  ASSUME NEW t, NEW r, NEW lv, NEW up, NEW sp, Shape(t, r, lv, up, sp), NEW c \in DOMAIN t
  PROVE  /\ Cardinality(DOMAIN t) \in Nat /\ lv[c] \in Nat /\ lv[r] \in Nat /\ lv[c] <= lv[r]
         /\ (lv[r] - lv[c]) + 1 <= Cardinality(DOMAIN t)
<1> DEFINE D == DOMAIN t
           T == lv[c]..lv[r]
           f == [y \in T |-> CHOOSE a : a \in D /\ lv[a] = y]
<1>1. IsFiniteSet(D) /\ Cardinality(D) \in Nat
  BY FS_CardinalityType DEF Shape
<1>2. lv[c] \in Nat /\ lv[r] \in Nat /\ lv[c] <= lv[r]
  BY BlockFacts
<1>3. ASSUME NEW y \in T PROVE f[y] \in D /\ lv[f[y]] = y
  <2>1. \E a : a \in D /\ lv[a] = y
    BY Ancestor
  <2> QED
    BY <2>1
<1>4. f \in [T -> D]
  BY <1>3
<1>5. f \in Injection(T, D)
  <2> HIDE DEF f, T, D
  <2> QED
    BY <1>3, <1>4 DEF Injection, IsInjective
<1>6. Cardinality(T) <= Cardinality(D)
  <2> HIDE DEF f, T, D
  <2> QED
    BY <1>1, <1>5, FS_Injection
<1>7. Cardinality(T) = (lv[r] - lv[c]) + 1
  <2>1. PICK a, b : a = lv[c] /\ b = lv[r]
    OBVIOUS
  <2>2. a \in Int /\ b \in Int /\ ~(a > b)
    BY <1>2, <2>1
  <2>3. Cardinality(a..b) = IF a > b THEN 0 ELSE b - a + 1
    BY ONLY <2>2, FS_Interval
  <2>4. Cardinality(a..b) = (b - a) + 1
    BY <2>2, <2>3
  <2> QED
    BY <2>1, <2>4
<1> QED
  BY <1>1, <1>2, <1>6, <1>7

LEMMA InLevel ==
  ASSUME NEW lv, NEW up, NEW sp, Shape(node, root, lv, up, sp), NEW c \in DOMAIN node
  PROVE  \E l \in Levels : c \in Level(root, l)
<1> DEFINE N == Cardinality(DOMAIN node)
           Lost == {d \in Nat : \E x \in DOMAIN node : d = lv[root] - lv[x] /\ x \notin Level(root, d)}
<1>1. /\ N \in Nat /\ Level(root, 0) = {root} \ {0}
      /\ \A i \in 1..N : Level(root, i) = NextLevel(node, Level(root, i - 1))
  BY LevelIs DEF Shape
<1>2. \A x \in DOMAIN node : /\ lv[x] \in Nat /\ lv[root] \in Nat /\ lv[x] <= lv[root]
                             /\ (lv[root] - lv[x]) + 1 <= N
  BY Depth
<1>3. ASSUME Lost # {} PROVE FALSE
  <2>1. PICK d \in Lost : \A e \in Lost : d <= e
    <3>1. Lost \in SUBSET Nat
      OBVIOUS
    <3> HIDE DEF Lost
    <3> QED
      BY <1>3, <3>1, MinIn
  <2>2. PICK x \in DOMAIN node : d = lv[root] - lv[x] /\ x \notin Level(root, d)
    BY <2>1
  <2>3. x # root
    <3>1. x = root => d = 0
      BY <1>2, <2>2
    <3>2. x # 0
      BY BlockFacts
    <3> QED
      BY <1>1, <2>2, <3>1, <3>2
  <2>4. /\ up[x] \in DOMAIN node /\ lv[up[x]] = lv[x] + 1 /\ lv[x] < lv[root]
        /\ \E i \in 0..Len(node[up[x]].items) : Child(node[up[x]], i) = x
    BY <2>3, OwnerFacts
  <2>5. x \in Children(node[up[x]])
    <3>1. x # 0
      BY BlockFacts
    <3> QED
      BY <2>4, <3>1 DEF Children
  <2>6. d - 1 = lv[root] - lv[up[x]] /\ d - 1 \in Nat /\ ~(d <= d - 1) /\ d \in 1..N
    <3>1. lv[root] \in Nat /\ lv[x] \in Nat /\ d = lv[root] - lv[x]
      BY <1>1, <1>2, <2>2
    <3>2. lv[up[x]] = lv[x] + 1 /\ lv[x] < lv[root]
      BY <2>4
    <3>3. d - 1 = lv[root] - lv[up[x]] /\ d - 1 \in Nat /\ ~(d <= d - 1) /\ d \in Nat \ {0}
      BY ONLY <3>1, <3>2
    <3> QED
      BY <1>1, <1>2, <2>2, <3>3
  <2>7. up[x] \in Level(root, d - 1)
    <3>1. d - 1 \notin Lost
      BY <2>1, <2>6
    <3> QED
      BY <2>4, <2>6, <3>1
  <2> HIDE DEF N
  <2> QED
    BY <1>1, <2>2, <2>4, <2>5, <2>6, <2>7 DEF NextLevel
<1>4. lv[root] - lv[c] \in 0..N
  BY <1>1, <1>2
<1>5. c \in Level(root, lv[root] - lv[c])
  BY <1>3, <1>4
<1> QED
  BY <1>4, <1>5 DEF Levels

(* The nodes below a child have keys between its neighbours.                *)
LEMMA SubtreeKeys ==
  ASSUME NEW lv, NEW up, NEW sp, Shape(node, root, lv, up, sp), NEW b \in DOMAIN node,
         NEW i \in 0..Len(node[b].items), NEW c \in Subtree(Child(node[b], i)), NEW k \in KeysIn(node[c])
  PROVE  InGap(node[b], i, k)
<1> DEFINE d == Child(node[b], i)
<1>1. PICK l \in Levels : c \in Level(d, l)
  BY DEF Subtree
<1>2. d # 0
  <2>1. IsFiniteSet(DOMAIN node)
    BY DEF Shape
  <2> HIDE DEF d
  <2> QED
    BY <1>1, <2>1, NoLevels
<1>3. d \in DOMAIN node /\ \A x \in sp[d] : InGap(node[b], i, x)
  BY <1>2, ChildFacts
<1> HIDE DEF d
<1>4. c \in DOMAIN node /\ \A x \in sp[c] : x \in sp[d]
  BY <1>1, <1>3, LevelFacts
<1>5. k \in sp[c]
  BY <1>4, BlockFacts
<1> QED
  BY <1>3, <1>4, <1>5

(* Between the calls every node has an item, the keys of a node are in their*)
(* order and those below a child between its neighbours, and all leaves are *)
(* on one level: what compute_fils and handle_underflow rely on when they   *)
(* read an item, or a node beside the one that is too small.                *)
THEOREM AlwaysWellFormed ==
  Spec => []WellFormed
<1>1. ASSUME IInv, Idle PROVE WellFormed
  <2>1. Resting(node, root)
    BY <1>1 DEF IInv, AtRest, Idle
  <2>2. PICK lv, up, sp : Shape(node, root, lv, up, sp)
    BY <2>1 DEF Resting, Formed
  <2>3. ASSUME NEW b \in DOMAIN node
        PROVE  /\ node[b].items # <<>>
               /\ \A i \in 1..Len(node[b].items) :
                    (node[b].items[i].child = 0) = (node[b].next0 = 0)
               /\ \A i \in 2..Len(node[b].items) : node[b].items[i - 1].key < node[b].items[i].key
               /\ \A i \in 0..Len(node[b].items) : \A c \in Subtree(Child(node[b], i)) :
                    \A k \in KeysIn(node[c]) : InGap(node[b], i, k)
    <3>1. GoodNode(node[b]) /\ Len(node[b].items) # 0 /\ Len(node[b].items) \in Nat
      BY <2>1, NodeKeys DEF Resting, Fit
    <3>2. node[b].items # <<>>
      BY <3>1
    <3>3. Uniform(node[b])
      BY <2>1, UniformIn DEF Resting
    <3>4. \A i \in 2..Len(node[b].items) : node[b].items[i - 1].key < node[b].items[i].key
      <4>1. ASSUME NEW i \in 2..Len(node[b].items)
            PROVE  node[b].items[i - 1].key < node[b].items[i].key
        <5>1. i - 1 \in 1..Len(node[b].items) /\ i \in 1..Len(node[b].items) /\ i - 1 < i
          BY <3>1
        <5> QED
          BY <3>1, <5>1, NodeKeys
      <4> QED
        BY <4>1
    <3> QED
      BY <2>2, <3>2, <3>3, <3>4, SubtreeKeys DEF Uniform
  <2>4. ASSUME NEW l \in Levels, NEW b \in Level(root, l), NEW c \in Level(root, l)
        PROVE  (node[b].next0 = 0) = (node[c].next0 = 0)
    <3>1. root \in DOMAIN node
      <4>1. root # 0
        <5>1. IsFiniteSet(DOMAIN node)
          BY <2>2 DEF Shape
        <5> QED
          BY <5>1, NoLevels
      <4> QED
        BY <2>2, <4>1 DEF Shape
    <3>2. b \in DOMAIN node /\ c \in DOMAIN node /\ lv[b] = lv[c]
      BY <2>2, <3>1, LevelFacts
    <3>3. (lv[b] = 1 <=> node[b].next0 = 0) /\ (lv[c] = 1 <=> node[c].next0 = 0)
      BY <2>2, <3>2, LeafIs
    <3> QED
      BY <3>2, <3>3
  <2> QED
    BY <2>3, <2>4 DEF WellFormed
<1>2. IInv => WellFormed
  BY <1>1 DEF WellFormed
<1> QED
  BY <1>2, AlwaysFormed, PTL

(* Between the calls the blocks of the index are those that the root leads  *)
(* to, and each of them has one place in one node: no split, merger or new  *)
(* root loses a block, and none is used twice.                              *)
THEOREM NeverNodeLost ==
  Spec => []NoNodeLost
<1>1. ASSUME IInv, Idle PROVE NoNodeLost
  <2>1. Resting(node, root)
    BY <1>1 DEF IInv, AtRest, Idle
  <2>2. PICK lv, up, sp : Shape(node, root, lv, up, sp)
    BY <2>1 DEF Resting, Formed
  <2>3. ASSUME NEW c \in DOMAIN node PROVE c \in Subtree(root)
    BY <2>2, InLevel DEF Subtree
  <2>4. ASSUME NEW c \in Subtree(root) PROVE c \in DOMAIN node
    <3>1. PICK l \in Levels : c \in Level(root, l)
      BY DEF Subtree
    <3>2. root # 0
      <4>1. IsFiniteSet(DOMAIN node)
        BY <2>2 DEF Shape
      <4> QED
        BY <3>1, <4>1, NoLevels
    <3>3. root \in DOMAIN node
      BY <2>2, <3>2 DEF Shape
    <3> QED
      BY <2>2, <3>1, <3>3, LevelFacts
  <2>5. ASSUME NEW b \in DOMAIN node, NEW c \in DOMAIN node, NEW x \in Children(node[b]), x \in Children(node[c])
        PROVE  b = c
    <3>1. PICK i \in 0..Len(node[b].items) : x = Child(node[b], i)
      BY DEF Children
    <3>2. PICK j \in 0..Len(node[c].items) : x = Child(node[c], j)
      BY <2>5 DEF Children
    <3>3. x # 0
      BY DEF Children
    <3>4. up[x] = b
      BY <2>2, <3>1, <3>3, ChildFacts
    <3>5. up[x] = c
      BY <2>2, <3>2, <3>3, ChildFacts
    <3> QED
      BY <3>4, <3>5
  <2>6. ASSUME NEW b \in DOMAIN node, node[b].next0 # 0, NEW i \in 0..Len(node[b].items),
               NEW j \in 0..Len(node[b].items), i # j
        PROVE  Child(node[b], i) # Child(node[b], j)
    <3>1. lv[b] # 1
      BY <2>2, <2>6, LeafIs
    <3> QED
      BY <2>2, <2>6, <3>1, InnerFacts
  <2>7. DOMAIN node = Subtree(root)
    BY <2>3, <2>4
  <2> QED
    BY <2>5, <2>6, <2>7 DEF NoNodeLost
<1>2. IInv => NoNodeLost
  BY <1>1 DEF NoNodeLost
<1> QED
  BY <1>2, AlwaysFormed, PTL

-----------------------------------------------------------------------------
(* search_btree.  Whether a key is one that the search may return, whether  *)
(* m is at least as good as key x, and whether x would be better than m.    *)
Ok(mode, k, x) ==
  CASE mode = "equal"            -> x = k
    [] mode = "smaller"          -> x < k
    [] mode = "equal_or_smaller" -> x <= k
    [] mode = "larger"           -> x > k
    [] mode = "equal_or_larger"  -> x >= k

Reaches(mode, m, x) == m # 0 /\ IF Rightwards(mode) THEN m <= x ELSE x <= m
Beyond(mode, m, x)  == m = 0 \/ IF Rightwards(mode) THEN x < m ELSE m < x

(* The keys in block b and below it.                                        *)
Under(t, lv, sp, b) ==
  {x \in Key : b # 0 /\ x \in sp[b] /\ \E c \in DOMAIN t : x \in KeysIn(t[c]) /\ lv[c] <= lv[b]}

LEMMA UnderFacts ==
  ASSUME NEW t, NEW r, NEW lv, NEW up, NEW sp, Shape(t, r, lv, up, sp), NEW b \in DOMAIN t
  PROVE  /\ \A x \in Under(t, lv, sp, b) :
              \/ \E y \in 1..Len(t[b].items) : x = t[b].items[y].key
              \/ \E y \in 0..Len(t[b].items) : x \in Under(t, lv, sp, Child(t[b], y)) /\ InGap(t[b], y, x)
         /\ \A y \in 1..Len(t[b].items) :
              t[b].items[y].key \in Under(t, lv, sp, b) /\ t[b].items[y].key \in Contents(t)
         /\ \A y \in 0..Len(t[b].items) : \A x \in Under(t, lv, sp, Child(t[b], y)) :
              x \in Under(t, lv, sp, b) /\ InGap(t[b], y, x)
<1>1. /\ lv[b] \in Nat \ {0} /\ lv[r] \in Nat /\ lv[b] <= lv[r] /\ b # 0 /\ GoodNode(t[b])
      /\ KeysIn(t[b]) \subseteq sp[b] /\ sp[b] \subseteq Key
  BY BlockFacts
<1>2. ASSUME NEW x \in Under(t, lv, sp, b), x \notin KeysIn(t[b])
      PROVE  \E y \in 0..Len(t[b].items) : x \in Under(t, lv, sp, Child(t[b], y)) /\ InGap(t[b], y, x)
  <2>1. x \in Key /\ x \in sp[b]
    BY DEF Under
  <2>2. PICK c \in DOMAIN t : x \in KeysIn(t[c]) /\ lv[c] <= lv[b]
    BY DEF Under
  <2>3. x \in sp[c] /\ lv[c] \in Nat \ {0}
    BY <2>2, BlockFacts
  <2>4. lv[c] # lv[b]
    BY <1>2, <2>1, <2>2, <2>3, OneOnLevel
  <2>5. lv[b] - 1 \in lv[c]..lv[r]
    BY <1>1, <2>2, <2>3, <2>4
  <2>6. PICK a \in DOMAIN t : lv[a] = lv[b] - 1 /\ \A k \in sp[c] : k \in sp[a]
    BY <2>5, Ancestor
  <2>7. x \in sp[a] /\ a # r
    BY <1>1, <2>3, <2>6
  <2>8. /\ up[a] \in DOMAIN t /\ lv[up[a]] = lv[a] + 1
        /\ \E y \in 0..Len(t[up[a]].items) :
             Child(t[up[a]], y) = a /\ \A k \in sp[a] : k \in sp[up[a]] /\ InGap(t[up[a]], y, k)
    BY <2>7, OwnerFacts
  <2>9. lv[up[a]] = lv[b] /\ x \in sp[up[a]]
    BY <1>1, <2>6, <2>7, <2>8
  <2>10. up[a] = b
    BY <2>1, <2>8, <2>9, OneOnLevel
  <2>11. PICK y \in 0..Len(t[b].items) : Child(t[b], y) = a /\ InGap(t[b], y, x)
    BY <2>7, <2>8, <2>10
  <2>12. a # 0 /\ lv[c] <= lv[a]
    BY <1>1, <2>2, <2>3, <2>4, <2>6, BlockFacts
  <2>13. x \in Under(t, lv, sp, a)
    BY <2>1, <2>2, <2>7, <2>12 DEF Under
  <2> QED
    BY <2>11, <2>13
<1>3. ASSUME NEW y \in 1..Len(t[b].items)
      PROVE  t[b].items[y].key \in Under(t, lv, sp, b) /\ t[b].items[y].key \in Contents(t)
  <2>1. t[b].items[y].key \in KeysIn(t[b])
    BY DEF KeysIn
  <2>2. lv[b] <= lv[b]
    BY <1>1
  <2> QED
    BY <1>1, <2>1, <2>2, InContents DEF Under
<1>4. ASSUME NEW y \in 0..Len(t[b].items), NEW x \in Under(t, lv, sp, Child(t[b], y))
      PROVE  x \in Under(t, lv, sp, b) /\ InGap(t[b], y, x)
  <2> DEFINE d == Child(t[b], y)
  <2>1. d # 0 /\ x \in Key /\ x \in sp[d]
    BY DEF Under
  <2>2. PICK c \in DOMAIN t : x \in KeysIn(t[c]) /\ lv[c] <= lv[d]
    BY DEF Under
  <2>3. lv[d] = lv[b] - 1 /\ x \in sp[b] /\ InGap(t[b], y, x)
    BY <2>1, ChildFacts
  <2> HIDE DEF d
  <2>4. lv[c] \in Nat
    BY BlockFacts
  <2>5. lv[c] <= lv[b]
    BY <1>1, <2>2, <2>3, <2>4
  <2> QED
    BY <1>1, <2>1, <2>2, <2>3, <2>5 DEF Under
<1>5. \A x \in KeysIn(t[b]) : \E y \in 1..Len(t[b].items) : x = t[b].items[y].key
  BY DEF KeysIn
<1> QED
  BY <1>2, <1>3, <1>4, <1>5

(* The search is at block b with m: nothing but what is below b may be      *)
(* better.                                                                  *)
Searching(t, lv, sp, b, m, k, mode) ==
  /\ m = 0 \/ (m \in Contents(t) /\ Ok(mode, k, m))
  /\ \A x \in Under(t, lv, sp, b) : Beyond(mode, m, x)
  /\ \A x \in Contents(t) : x \in Under(t, lv, sp, b) \/ (Ok(mode, k, x) => Reaches(mode, m, x))

(* In a node the search goes on behind the first j items: of these, or of   *)
(* the others, the key next to that place is the best so far.               *)
LEMMA SearchLeft ==
  ASSUME NEW t, NEW r, NEW lv, NEW up, NEW sp, Shape(t, r, lv, up, sp), NEW b \in DOMAIN t,
         NEW m, NEW k \in Nat, NEW mode, ~Rightwards(mode), Searching(t, lv, sp, b, m, k, mode),
         NEW j \in 0..Len(t[b].items), \A y \in 1..j : Ok(mode, k, t[b].items[y].key),
         \A y \in j + 1..Len(t[b].items) : \A x \in Key : t[b].items[y].key <= x => ~Ok(mode, k, x),
         NEW v, v = IF j = 0 THEN m ELSE t[b].items[j].key
  PROVE  Searching(t, lv, sp, Child(t[b], j), v, k, mode)
<1> DEFINE n == t[b]
           d == Child(n, j)
           U(x) == x \in Under(t, lv, sp, b)
           D(x) == x \in Under(t, lv, sp, d)
           z(y) == n.items[y].key
           N == Len(n.items)
<1>1. /\ N \in Nat /\ \A y \in 1..N : z(y) \in Nat \ {0} /\ z(y) \in Key
      /\ \A y, w \in 1..N : y < w => z(y) < z(w)
  BY BlockFacts, NodeKeys
<1>2. /\ \A x : U(x) => \/ \E y \in 1..N : x = z(y)
                        \/ \E y \in 0..N : x \in Under(t, lv, sp, Child(n, y)) /\ InGap(n, y, x)
      /\ \A y \in 1..N : U(z(y)) /\ z(y) \in Contents(t)
      /\ \A x : D(x) => U(x) /\ InGap(n, j, x)
  BY UnderFacts
<1>3. \A x : U(x) => x \in Key /\ x \in Nat \ {0}
  BY SizeAssumption DEF Under
<1>4. /\ m = 0 \/ (m \in Contents(t) /\ Ok(mode, k, m))
      /\ \A x : U(x) => m = 0 \/ m < x
      /\ \A x \in Contents(t) : U(x) \/ (Ok(mode, k, x) => m # 0 /\ x <= m)
  BY DEF Searching, Beyond, Reaches
<1>5. Contents(t) \subseteq Nat \ {0}
  <2>1. \A c \in DOMAIN t : KeysIn(t[c]) \subseteq Nat \ {0}
    BY BlockFacts
  <2> QED
    BY <2>1, InContents
<1>6. \A y \in 1..N : \A x : InGap(n, y, x) => z(y) < x
  BY <1>1 DEF InGap
<1>7. \A y \in 0..N : \A x : InGap(n, y, x) /\ y < N => x < z(y + 1)
  BY DEF InGap
<1>8. j # 0 => j \in 1..N /\ v = z(j)
  BY <1>1
<1>9. j = 0 => v = m
  OBVIOUS
<1> HIDE DEF U, D, z, N
<1>10. v = 0 \/ (v \in Contents(t) /\ Ok(mode, k, v))
  <2>1. CASE j = 0
    BY <1>4, <1>9, <2>1
  <2>2. CASE j # 0
    <3>1. j \in 1..j
      BY <1>8, <2>2
    <3> QED
      BY <1>2, <1>8, <2>2, <3>1 DEF z
  <2> QED
    BY <2>1, <2>2
<1>11. ASSUME NEW x, D(x) PROVE v = 0 \/ v < x
  BY <1>2, <1>4, <1>6, <1>8, <1>9, <1>11
<1>12. ASSUME NEW x \in Contents(t), ~D(x), Ok(mode, k, x) PROVE v # 0 /\ x <= v
  <2>1. CASE ~U(x)
    <3>1. m # 0 /\ x <= m /\ m \in Nat /\ x \in Nat
      BY <1>4, <1>5, <1>12, <2>1
    <3>2. CASE j = 0
      BY <1>9, <3>1, <3>2
    <3>3. CASE j # 0
      <4>1. m < z(j) /\ z(j) \in Nat \ {0}
        BY <1>1, <1>2, <1>4, <1>8, <3>1, <3>3
      <4> QED
        BY <1>8, <3>1, <3>3, <4>1
    <3> QED
      BY <3>2, <3>3
  <2>2. CASE U(x)
    <3>0. x \in Key /\ x \in Nat
      BY <1>3, <2>2
    <3>1. ASSUME NEW y \in j + 1..N PROVE ~(z(y) <= x)
      BY <1>12, <3>0 DEF z, N
    <3>2. CASE \E y \in 1..N : x = z(y)
      <4>1. PICK y \in 1..N : x = z(y)
        BY <3>2
      <4>2. y <= j /\ j # 0 /\ j \in Nat
        <5>1. ~(y \in j + 1..N)
          BY <3>0, <3>1, <4>1
        <5> QED
          BY <1>1, <5>1
      <4>3. z(y) <= z(j) /\ z(j) # 0
        BY <1>1, <1>8, <4>2
      <4> QED
        BY <1>8, <4>1, <4>2, <4>3
    <3>3. CASE \E y \in 0..N : x \in Under(t, lv, sp, Child(n, y)) /\ InGap(n, y, x)
      <4>1. PICK y \in 0..N : x \in Under(t, lv, sp, Child(n, y)) /\ InGap(n, y, x)
        BY <3>3
      <4>2. y # j
        BY <1>12, <4>1 DEF D
      <4>3. ~(y > j)
        <5>1. ASSUME y > j PROVE FALSE
          <6>1. y \in j + 1..N /\ y \in 1..N
            BY <1>1, <5>1
          <6>2. z(y) < x /\ z(y) \in Nat
            BY <1>1, <1>6, <4>1, <6>1
          <6> QED
            BY <3>0, <3>1, <6>1, <6>2
        <5> QED
          BY <5>1
      <4>4. y < j /\ j # 0 /\ y + 1 \in 1..N /\ y < N /\ y + 1 <= j
        BY <1>1, <4>2, <4>3 DEF N
      <4>5. x < z(y + 1) /\ z(y + 1) \in Nat
        BY <1>1, <1>7, <4>1, <4>4
      <4>6. z(y + 1) <= z(j) /\ z(j) \in Nat \ {0}
        BY <1>1, <1>8, <4>4
      <4> QED
        BY <1>8, <3>0, <4>4, <4>5, <4>6
    <3> QED
      BY <1>2, <2>2, <3>2, <3>3
  <2> QED
    BY <2>1, <2>2
<1> QED
  BY <1>10, <1>11, <1>12 DEF Searching, Beyond, Reaches, D

LEMMA SearchRight ==
  ASSUME NEW t, NEW r, NEW lv, NEW up, NEW sp, Shape(t, r, lv, up, sp), NEW b \in DOMAIN t,
         NEW m, NEW k \in Nat, NEW mode, Rightwards(mode), Searching(t, lv, sp, b, m, k, mode),
         NEW j \in 0..Len(t[b].items), \A y \in j + 1..Len(t[b].items) : Ok(mode, k, t[b].items[y].key),
         \A y \in 1..j : \A x \in Key : x <= t[b].items[y].key => ~Ok(mode, k, x),
         NEW v, v = IF j = Len(t[b].items) THEN m ELSE t[b].items[j + 1].key
  PROVE  Searching(t, lv, sp, Child(t[b], j), v, k, mode)
<1> DEFINE n == t[b]
           d == Child(n, j)
           U(x) == x \in Under(t, lv, sp, b)
           D(x) == x \in Under(t, lv, sp, d)
           z(y) == n.items[y].key
           N == Len(n.items)
<1>1. /\ N \in Nat /\ \A y \in 1..N : z(y) \in Nat \ {0} /\ z(y) \in Key
      /\ \A y, w \in 1..N : y < w => z(y) < z(w)
  BY BlockFacts, NodeKeys
<1>2. /\ \A x : U(x) => \/ \E y \in 1..N : x = z(y)
                        \/ \E y \in 0..N : x \in Under(t, lv, sp, Child(n, y)) /\ InGap(n, y, x)
      /\ \A y \in 1..N : U(z(y)) /\ z(y) \in Contents(t)
      /\ \A x : D(x) => U(x) /\ InGap(n, j, x)
  BY UnderFacts
<1>3. \A x : U(x) => x \in Key /\ x \in Nat \ {0}
  BY SizeAssumption DEF Under
<1>4. /\ m = 0 \/ (m \in Contents(t) /\ Ok(mode, k, m))
      /\ \A x : U(x) => m = 0 \/ x < m
      /\ \A x \in Contents(t) : U(x) \/ (Ok(mode, k, x) => m # 0 /\ m <= x)
  BY DEF Searching, Beyond, Reaches
<1>5. Contents(t) \subseteq Nat \ {0}
  <2>1. \A c \in DOMAIN t : KeysIn(t[c]) \subseteq Nat \ {0}
    BY BlockFacts
  <2> QED
    BY <2>1, InContents
<1>6. \A y \in 1..N : \A x : InGap(n, y, x) => z(y) < x
  BY <1>1 DEF InGap
<1>7. \A y \in 0..N : \A x : InGap(n, y, x) /\ y < N => x < z(y + 1)
  BY DEF InGap
<1>8. j # N => j + 1 \in 1..N /\ j < N /\ v = z(j + 1)
  BY <1>1
<1>9. j = N => v = m
  OBVIOUS
<1> HIDE DEF U, D, z
<1>10. v = 0 \/ (v \in Contents(t) /\ Ok(mode, k, v))
  <2>1. CASE j = N
    BY <1>4, <1>9, <2>1
  <2>2. CASE j # N
    <3>1. j + 1 \in j + 1..N
      BY <1>1, <1>8, <2>2
    <3>2. Ok(mode, k, z(j + 1))
      BY <3>1 DEF z
    <3> QED
      BY <1>2, <1>8, <2>2, <3>2
  <2> QED
    BY <2>1, <2>2
<1>o. \A y \in 1..j : \A x \in Key : x <= z(y) => ~Ok(mode, k, x)
  BY DEF z
<1>j. j \in 0..N
  OBVIOUS
<1> HIDE DEF N
<1>11. ASSUME NEW x, D(x) PROVE v = 0 \/ x < v
  BY <1>2, <1>4, <1>7, <1>8, <1>9, <1>11, <1>j
<1>12. ASSUME NEW x \in Contents(t), ~D(x), Ok(mode, k, x) PROVE v # 0 /\ v <= x
  <2>1. CASE ~U(x)
    <3>1. m # 0 /\ m <= x /\ m \in Nat /\ x \in Nat
      BY <1>4, <1>5, <1>12, <2>1
    <3>2. CASE j = N
      BY <1>9, <3>1, <3>2
    <3>3. CASE j # N
      <4>1. z(j + 1) < m /\ z(j + 1) \in Nat \ {0}
        BY <1>1, <1>2, <1>4, <1>8, <3>1, <3>3
      <4> QED
        BY <1>8, <3>1, <3>3, <4>1
    <3> QED
      BY <3>2, <3>3
  <2>2. CASE U(x)
    <3>0. x \in Key /\ x \in Nat
      BY <1>3, <2>2
    <3>1. ASSUME NEW y \in 1..j PROVE ~(x <= z(y))
      BY <1>12, <1>o, <3>0
    <3>2. CASE \E y \in 1..N : x = z(y)
      <4>1. PICK y \in 1..N : x = z(y)
        BY <3>2
      <4>2. j + 1 <= y /\ j # N /\ j \in Nat
        <5>1. ~(y \in 1..j)
          BY <3>0, <3>1, <4>1
        <5> QED
          BY <1>1, <1>j, <5>1
      <4>3. z(j + 1) <= z(y) /\ z(j + 1) # 0
        BY <1>1, <1>8, <4>2
      <4> QED
        BY <1>8, <4>1, <4>2, <4>3
    <3>3. CASE \E y \in 0..N : x \in Under(t, lv, sp, Child(n, y)) /\ InGap(n, y, x)
      <4>1. PICK y \in 0..N : x \in Under(t, lv, sp, Child(n, y)) /\ InGap(n, y, x)
        BY <3>3
      <4>2. y # j
        BY <1>12, <4>1 DEF D
      <4>3. ~(y < j)
        <5>1. ASSUME y < j PROVE FALSE
          <6>1. y + 1 \in 1..j /\ y + 1 \in 1..N /\ y < N
            BY <1>1, <1>j, <5>1
          <6>2. x < z(y + 1) /\ z(y + 1) \in Nat
            BY <1>1, <1>7, <4>1, <6>1
          <6> QED
            BY <3>0, <3>1, <6>1, <6>2
        <5> QED
          BY <5>1
      <4>4. y > j /\ j # N /\ y \in 1..N /\ j + 1 <= y
        BY <1>1, <1>j, <4>2, <4>3
      <4>5. z(y) < x /\ z(y) \in Nat
        BY <1>1, <1>6, <4>1, <4>4
      <4>6. z(j + 1) <= z(y) /\ z(j + 1) \in Nat \ {0}
        BY <1>1, <1>8, <4>4
      <4> QED
        BY <1>8, <3>0, <4>4, <4>5, <4>6
    <3> QED
      BY <1>2, <2>2, <3>2, <3>3
  <2> QED
    BY <2>1, <2>2
<1> QED
  BY <1>10, <1>11, <1>12 DEF Searching, Beyond, Reaches, D

(* A search for the key itself has nothing to keep.                         *)
LEMMA SearchEqual ==
  ASSUME NEW t, NEW r, NEW lv, NEW up, NEW sp, Shape(t, r, lv, up, sp), NEW b \in DOMAIN t,
         NEW m, NEW k \in Nat, Searching(t, lv, sp, b, m, k, "equal"),
         NEW j \in 0..Len(t[b].items), InGap(t[b], j, k)
  PROVE  Searching(t, lv, sp, Child(t[b], j), m, k, "equal")
<1> DEFINE n == t[b]
           d == Child(n, j)
<1>1. GoodNode(n)
  BY BlockFacts
<1>2. k \notin KeysIn(n) /\ \A y \in 0..Len(n.items) : InGap(n, y, k) => y = j
  <2> HIDE DEF n
  <2> QED
    BY <1>1, OneGap DEF n
<1>3. /\ \A x \in Under(t, lv, sp, b) :
           \/ \E y \in 1..Len(n.items) : x = n.items[y].key
           \/ \E y \in 0..Len(n.items) : x \in Under(t, lv, sp, Child(n, y)) /\ InGap(n, y, x)
      /\ \A x \in Under(t, lv, sp, d) : x \in Under(t, lv, sp, b)
  BY UnderFacts
<1>4. k \in Under(t, lv, sp, b) => k \in Under(t, lv, sp, d)
  BY <1>2, <1>3 DEF KeysIn
<1>5. \A x \in Contents(t) : x \in Under(t, lv, sp, d) \/ (Ok("equal", k, x) => Reaches("equal", m, x))
  BY <1>4 DEF Searching, Ok
<1> QED
  BY <1>3, <1>5 DEF Searching

(* Or the search ends with the key.                                         *)
LEMMA SearchEnds ==
  ASSUME NEW t, NEW r, NEW lv, NEW up, NEW sp, Shape(t, r, lv, up, sp), NEW b \in DOMAIN t,
         NEW k \in Nat, k \in KeysIn(t[b]), NEW mode \in {"equal", "equal_or_smaller", "equal_or_larger"}
  PROVE  Searching(t, lv, sp, 0, k, k, mode)
<1>1. k \in Contents(t) /\ k # 0
  BY BlockFacts, InContents
<1>2. Ok(mode, k, k)
  <2>1. k = k /\ k <= k /\ k >= k
    OBVIOUS
  <2>2. Ok("equal", k, k) /\ Ok("equal_or_smaller", k, k) /\ Ok("equal_or_larger", k, k)
    BY <2>1 DEF Ok
  <2> QED
    BY <2>2
<1>3. \A x : x \notin Under(t, lv, sp, 0)
  BY DEF Under
<1>4. ASSUME NEW x \in Contents(t), Ok(mode, k, x) PROVE Reaches(mode, k, x)
  <2>1. CASE mode = "equal"
    <3>1. x = k /\ ~Rightwards(mode)
      BY <1>4, <2>1 DEF Ok, Rightwards
    <3> QED
      BY <1>1, <3>1 DEF Reaches
  <2>2. CASE mode = "equal_or_smaller"
    <3>1. x <= k /\ ~Rightwards(mode)
      BY <1>4, <2>2 DEF Ok, Rightwards
    <3> QED
      BY <1>1, <3>1 DEF Reaches
  <2>3. CASE mode = "equal_or_larger"
    <3>1. x >= k /\ Rightwards(mode) /\ x \in Nat
      <4>1. x \in Nat
        BY BlockFacts, InContents
      <4> QED
        BY <1>4, <2>3, <4>1 DEF Ok, Rightwards
    <3> QED
      BY <1>1, <3>1 DEF Reaches
  <2> QED
    BY <2>1, <2>2, <2>3
<1> QED
  BY <1>1, <1>2, <1>3, <1>4 DEF Searching

(* Where a search for k goes on in node n.                                  *)
LEMMA Sides ==
  ASSUME NEW n, GoodNode(n), NEW k \in Nat, NEW i, i = Before(n, k)
  PROVE  /\ i \in 0..Len(n.items) /\ Len(n.items) \in Nat
         /\ \A y \in 1..Len(n.items) : n.items[y].key \in Nat \ {0}
         /\ \A y \in 1..i : n.items[y].key < k
         /\ Found(n, k) => /\ i + 1 \in 1..Len(n.items) /\ n.items[i + 1].key = k
                           /\ \A y \in i + 2..Len(n.items) : k < n.items[y].key
         /\ ~Found(n, k) => InGap(n, i, k) /\ \A y \in i + 1..Len(n.items) : k < n.items[y].key
<1> DEFINE N == Len(n.items)
           z(y) == n.items[y].key
<1>1. /\ N \in Nat /\ \A y \in 1..N : z(y) \in Nat \ {0}
      /\ \A y, w \in 1..N : y < w => z(y) < z(w)
  BY NodeKeys
<1>2. /\ i \in 0..N /\ \A y \in 1..i : z(y) < k
      /\ Found(n, k) => i < N /\ z(i + 1) = k
      /\ ~Found(n, k) => InGap(n, i, k)
  BY BeforeIs
<1>3. Found(n, k) => i + 1 \in 1..N /\ \A y \in i + 2..N : k < z(y)
  <2>1. ASSUME Found(n, k), NEW y \in i + 2..N PROVE k < z(y)
    <3>1. i + 1 \in 1..N /\ y \in 1..N /\ i + 1 < y
      BY <1>1, <1>2, <2>1
    <3>2. z(i + 1) < z(y)
      BY <1>1, <3>1
    <3> QED
      BY <1>2, <2>1, <3>2
  <2> QED
    BY <1>1, <1>2, <2>1
<1>4. ASSUME ~Found(n, k), NEW y \in i + 1..N PROVE k < z(y)
  <2>1. InGap(n, i, k)
    BY <1>2, <1>4
  <2>2. Between(n, i, k)
    BY <1>2, <2>1, GapIs
  <2> QED
    BY <2>2 DEF Between
<1> QED
  BY <1>1, <1>2, <1>3, <1>4

Round(v, n, i, m, k, mode) ==
  \/ /\ Leftwards(mode) /\ (Found(n, k) => mode = "smaller")
     /\ v.fils = Child(n, i) /\ v.best = Best(n, i, m)
  \/ Rightwards(mode) /\ ~Found(n, k) /\ v.fils = Child(n, i) /\ v.best = Best(n, i + 1, m)
  \/ /\ mode = "larger" /\ Found(n, k)
     /\ v.fils = Child(n, i + 1) /\ v.best = Best(n, i + 2, m)
  \/ mode = "equal" /\ ~Found(n, k) /\ v.fils = Child(n, i) /\ v.best = m
  \/ /\ mode \in {"equal", "equal_or_smaller", "equal_or_larger"} /\ Found(n, k)
     /\ v.fils = 0 /\ v.best = k

LEMMA RoundIs ==
  ASSUME NEW n, NEW i, NEW k, NEW mode \in Mode, NEW m, NEW v, Equal(v, SearchNode(n, i, k, mode, m))
  PROVE  Round(v, n, i, m, k, mode) /\ v = [fils |-> v.fils, best |-> v.best]
<1>1. CASE Found(n, k)
  <2>1. CASE mode = "smaller"
    <3>1. v = [fils |-> Child(n, i), best |-> Best(n, i, m)]
      BY <1>1, <2>1 DEF Equal, SearchNode
    <3> QED
      BY <1>1, <2>1, <3>1 DEF Round, Leftwards
  <2>2. CASE mode = "larger"
    <3>1. v = [fils |-> Child(n, i + 1), best |-> Best(n, i + 2, m)]
      BY <1>1, <2>2 DEF Equal, SearchNode
    <3> QED
      BY <1>1, <2>2, <3>1 DEF Round
  <2>3. CASE mode # "smaller" /\ mode # "larger"
    <3>1. v = [fils |-> 0, best |-> k]
      BY <1>1, <2>3 DEF Equal, SearchNode
    <3> QED
      BY <1>1, <2>3, <3>1 DEF Round, Mode
  <2> QED
    BY <2>1, <2>2, <2>3
<1>2. CASE ~Found(n, k)
  <2>1. CASE Leftwards(mode)
    <3>1. v = [fils |-> Child(n, i), best |-> Best(n, i, m)]
      BY <1>2, <2>1 DEF Equal, SearchNode, Leftwards, Rightwards
    <3> QED
      BY <1>2, <2>1, <3>1 DEF Round
  <2>2. CASE Rightwards(mode)
    <3>1. v = [fils |-> Child(n, i), best |-> Best(n, i + 1, m)]
      BY <1>2, <2>2 DEF Equal, SearchNode, Leftwards, Rightwards
    <3> QED
      BY <1>2, <2>2, <3>1 DEF Round
  <2>3. CASE ~Leftwards(mode) /\ ~Rightwards(mode)
    <3>1. v = [fils |-> Child(n, i), best |-> m] /\ mode = "equal"
      BY <1>2, <2>3 DEF Equal, SearchNode, Leftwards, Rightwards, Mode
    <3> QED
      BY <1>2, <3>1 DEF Round
  <2> QED
    BY <2>1, <2>2, <2>3
<1> QED
  BY <1>1, <1>2

(* One round brings the search to a child, or to its end.                   *)
LEMMA RoundGoes ==
  ASSUME NEW t, NEW r, NEW lv, NEW up, NEW sp, Shape(t, r, lv, up, sp), NEW b \in DOMAIN t,
         NEW k \in Nat, NEW mode, NEW m \in Nat, NEW i, i = Before(t[b], k),
         NEW v, Round(v, t[b], i, m, k, mode)
  PROVE  /\ v.fils \in DOMAIN t \cup {0} /\ v.best \in Nat
         /\ v.fils # 0 => lv[v.fils] = lv[b] - 1
<1> DEFINE n == t[b]
<1>1. GoodNode(n)
  BY BlockFacts
<1>2. /\ i \in 0..Len(n.items) /\ Len(n.items) \in Nat
      /\ \A y \in 1..Len(n.items) : n.items[y].key \in Nat \ {0}
      /\ Found(n, k) => i + 1 \in 1..Len(n.items)
  <2> HIDE DEF n
  <2> QED
    BY <1>1, Sides DEF n
<1>3. \A j \in 0..Len(n.items) :
        Child(n, j) \in DOMAIN t \cup {0} /\ (Child(n, j) # 0 => lv[Child(n, j)] = lv[b] - 1)
  BY ChildFacts
<1>4. \A j : Best(n, j, m) \in Nat
  BY <1>2 DEF Best
<1>5. Found(n, k) => i + 1 \in 0..Len(n.items)
  BY <1>2
<1> HIDE DEF n
<1> QED
  BY <1>2, <1>3, <1>4, <1>5 DEF Round, n

LEMMA RoundKeeps ==
  ASSUME NEW t, NEW r, NEW lv, NEW up, NEW sp, Shape(t, r, lv, up, sp), NEW b \in DOMAIN t,
         NEW k \in Nat, NEW mode, NEW m, NEW i, i = Before(t[b], k),
         NEW v, Round(v, t[b], i, m, k, mode), Searching(t, lv, sp, b, m, k, mode)
  PROVE  Searching(t, lv, sp, v.fils, v.best, k, mode)
<1> DEFINE n == t[b]
           N == Len(n.items)
           z(y) == n.items[y].key
<1>1. GoodNode(n)
  BY BlockFacts
<1>2. /\ i \in 0..N /\ N \in Nat /\ \A y \in 1..N : z(y) \in Nat \ {0}
      /\ \A y \in 1..i : z(y) < k
      /\ Found(n, k) => i + 1 \in 1..N /\ z(i + 1) = k /\ \A y \in i + 2..N : k < z(y)
      /\ ~Found(n, k) => InGap(n, i, k) /\ \A y \in i + 1..N : k < z(y)
  <2>1. PICK l : l = n
    OBVIOUS
  <2> HIDE DEF n
  <2>2. GoodNode(l) /\ i = Before(l, k)
    BY <1>1, <2>1 DEF n
  <2> QED
    BY <2>1, <2>2, Sides
<1>3. Key \subseteq Nat
  BY SizeAssumption
<1>4. i + 1 \in Nat /\ i + 2 = (i + 1) + 1 /\ (i + 1 \in 1..N => i + 1 \in 0..N)
  BY <1>2
<1>5. CASE Leftwards(mode) /\ (Found(n, k) => mode = "smaller") /\ v.fils = Child(n, i) /\ v.best = Best(n, i, m)
  <2>1. ~Rightwards(mode) /\ mode \in {"smaller", "equal_or_smaller"}
    BY <1>5 DEF Leftwards, Rightwards
  <2>2. \A y \in 1..i : Ok(mode, k, z(y))
    <3>1. ASSUME NEW y \in 1..i PROVE Ok(mode, k, z(y))
      <4>1. z(y) < k /\ z(y) \in Nat
        BY <1>2
      <4>2. z(y) <= k
        BY <4>1
      <4> HIDE DEF z
      <4> QED
        BY <2>1, <4>1, <4>2 DEF Ok
    <3> QED
      BY <3>1
  <2>3. ASSUME NEW y \in i + 1..N, NEW x \in Key, z(y) <= x PROVE ~Ok(mode, k, x)
    <3>1. x \in Nat /\ z(y) \in Nat /\ y \in 1..N
      BY <1>2, <1>3
    <3>2. CASE Found(n, k)
      <4>1. k <= z(y)
        <5>1. y = i + 1 \/ y \in i + 2..N
          BY <1>2
        <5> HIDE DEF z, N
        <5> QED
          BY <1>2, <3>1, <3>2, <5>1
      <4>2. ~(x < k)
        BY <2>3, <3>1, <4>1
      <4> QED
        BY <1>5, <3>2, <4>2 DEF Ok
    <3>3. CASE ~Found(n, k)
      <4>1. k < z(y)
        BY <1>2, <3>3
      <4>2. ~(x < k) /\ ~(x <= k)
        BY <2>3, <3>1, <4>1
      <4> QED
        BY <2>1, <4>2 DEF Ok
    <3> QED
      BY <3>2, <3>3
  <2>4. v.best = IF i = 0 THEN m ELSE t[b].items[i].key
    BY <1>2, <1>5 DEF Best
  <2>5. /\ \A y \in 1..i : Ok(mode, k, t[b].items[y].key) /\ i \in 0..Len(t[b].items)
        /\ \A y \in i + 1..Len(t[b].items) : \A x \in Key : t[b].items[y].key <= x => ~Ok(mode, k, x)
    BY <1>2, <2>2, <2>3
  <2> HIDE DEF n
  <2>6. Searching(t, lv, sp, Child(t[b], i), v.best, k, mode)
    BY <2>1, <2>4, <2>5, <1>2, SearchLeft DEF n
  <2> QED
    BY <1>5, <2>6 DEF n
<1>6. ASSUME Rightwards(mode), NEW j \in 0..N, v.fils = Child(n, j), v.best = Best(n, j + 1, m),
             (j = i /\ ~Found(n, k)) \/ (j = i + 1 /\ Found(n, k) /\ mode = "larger")
      PROVE  Searching(t, lv, sp, v.fils, v.best, k, mode)
  <2>1. mode \in {"larger", "equal_or_larger"}
    BY <1>6 DEF Rightwards
  <2>2. \A y \in j + 1..N : Ok(mode, k, z(y))
    <3>1. ASSUME NEW y \in j + 1..N PROVE Ok(mode, k, z(y))
      <4>1. k < z(y) /\ z(y) \in Nat
        <5>1. y \in 1..N
          BY <1>2
        <5>2. CASE ~Found(n, k)
          BY <1>2, <1>6, <5>1, <5>2
        <5>3. CASE Found(n, k)
          <6>1. y \in i + 2..N
            BY <1>4, <1>6, <5>3
          <6> QED
            BY <1>2, <5>1, <5>3, <6>1
        <5> QED
          BY <5>2, <5>3
      <4>2. z(y) > k /\ z(y) >= k
        BY <4>1
      <4> HIDE DEF z
      <4> QED
        BY <2>1, <4>2 DEF Ok
    <3> QED
      BY <3>1
  <2>3. ASSUME NEW y \in 1..j, NEW x \in Key, x <= z(y) PROVE ~Ok(mode, k, x)
    <3>1. x \in Nat /\ z(y) \in Nat /\ y \in 1..N
      BY <1>2, <1>3
    <3>2. CASE y \in 1..i
      <4>1. z(y) < k
        BY <1>2, <3>2
      <4>2. ~(x > k) /\ ~(x >= k)
        BY <2>3, <3>1, <4>1
      <4> QED
        BY <2>1, <4>2 DEF Ok
    <3>3. CASE y \notin 1..i
      <4>1. y = i + 1 /\ Found(n, k) /\ mode = "larger"
        BY <1>2, <1>6, <3>3
      <4>2. z(y) = k
        BY <1>2, <4>1
      <4>3. ~(x > k)
        BY <2>3, <3>1, <4>2
      <4> QED
        BY <4>1, <4>3 DEF Ok
    <3> QED
      BY <3>2, <3>3
  <2>4. v.best = IF j = Len(t[b].items) THEN m ELSE t[b].items[j + 1].key
    <3>1. j + 1 \in 1..N <=> j # N
      BY <1>2
    <3> QED
      BY <1>6, <3>1 DEF Best
  <2>5. /\ \A y \in j + 1..Len(t[b].items) : Ok(mode, k, t[b].items[y].key)
        /\ \A y \in 1..j : \A x \in Key : x <= t[b].items[y].key => ~Ok(mode, k, x)
        /\ j \in 0..Len(t[b].items)
    BY <1>6, <2>2, <2>3
  <2> HIDE DEF n
  <2>6. Searching(t, lv, sp, Child(t[b], j), v.best, k, mode)
    BY <1>6, <2>4, <2>5, SearchRight
  <2> QED
    BY <1>6, <2>6 DEF n
<1>7. CASE Rightwards(mode) /\ ~Found(n, k) /\ v.fils = Child(n, i) /\ v.best = Best(n, i + 1, m)
  BY <1>2, <1>6, <1>7
<1>8. CASE mode = "larger" /\ Found(n, k) /\ v.fils = Child(n, i + 1) /\ v.best = Best(n, i + 2, m)
  <2>1. i + 1 \in 0..N /\ Rightwards(mode)
    BY <1>2, <1>4, <1>8 DEF Rightwards
  <2> HIDE DEF n, N
  <2>2. v.best = Best(n, (i + 1) + 1, m)
    BY <1>4, <1>8
  <2> QED
    BY <1>6, <1>8, <2>1, <2>2
<1>9. CASE mode = "equal" /\ ~Found(n, k) /\ v.fils = Child(n, i) /\ v.best = m
  <2>1. i \in 0..Len(t[b].items) /\ InGap(t[b], i, k)
    BY <1>2, <1>9
  <2> HIDE DEF n
  <2>2. Searching(t, lv, sp, Child(t[b], i), m, k, "equal")
    BY <1>9, <2>1, SearchEqual
  <2> QED
    BY <1>9, <2>2 DEF n
<1>10. CASE mode \in {"equal", "equal_or_smaller", "equal_or_larger"} /\ Found(n, k) /\ v.fils = 0 /\ v.best = k
  BY <1>10, SearchEnds DEF Found
<1> QED
  BY <1>5, <1>7, <1>8, <1>9, <1>10 DEF Round

(* At the end nothing may be better than the best so far.                   *)
LEMMA LargestIs ==
  ASSUME NEW S \in SUBSET Nat, NEW m, IF m = 0 THEN S = {} ELSE m \in S /\ \A x \in S : x <= m
  PROVE  Largest(S) = m
<1>1. CASE m = 0
  BY <1>1 DEF Largest
<1>2. CASE m # 0
  <2>1. m \in S /\ (\A x \in S : x <= m) /\ m \in Nat /\ S # {}
    BY <1>2
  <2>2. \A w \in S : (\A x \in S : x <= w) => w = m
    BY <2>1
  <2> QED
    BY <2>1, <2>2 DEF Largest
<1> QED
  BY <1>1, <1>2

LEMMA SmallestIs ==
  ASSUME NEW S \in SUBSET Nat, NEW m, IF m = 0 THEN S = {} ELSE m \in S /\ \A x \in S : m <= x
  PROVE  Smallest(S) = m
<1>1. CASE m = 0
  BY <1>1 DEF Smallest
<1>2. CASE m # 0
  <2>1. m \in S /\ (\A x \in S : m <= x) /\ m \in Nat /\ S # {}
    BY <1>2
  <2>2. \A w \in S : (\A x \in S : w <= x) => w = m
    BY <2>1
  <2> QED
    BY <2>1, <2>2 DEF Smallest
<1> QED
  BY <1>1, <1>2

LEMMA WantedIs ==
  ASSUME NEW t, NEW lv, NEW sp, NEW m, NEW k \in Nat, NEW mode \in Mode,
         Searching(t, lv, sp, 0, m, k, mode), Contents(t) \subseteq Nat \ {0}
  PROVE  m = Wanted(Contents(t), k, mode)
<1> DEFINE C == Contents(t)
<1>1. \A x : x \notin Under(t, lv, sp, 0)
  BY DEF Under
<1>2. /\ m = 0 \/ (m \in C /\ Ok(mode, k, m))
      /\ \A x \in C : Ok(mode, k, x) => Reaches(mode, m, x)
  BY <1>1 DEF Searching
<1> HIDE DEF C
<1>3. C \subseteq Nat \ {0}
  BY DEF C
<1>4. CASE mode = "equal"
  <2>1. /\ m = 0 \/ (m \in C /\ m = k)
        /\ \A x \in C : x = k => m # 0
    BY <1>2, <1>4 DEF Ok, Reaches
  <2>2. Wanted(C, k, mode) = IF k \in C THEN k ELSE 0
    BY <1>4 DEF Wanted
  <2> QED
    BY <2>1, <2>2 DEF C
<1>5. CASE mode = "smaller"
  <2> DEFINE S == {c \in C : c < k}
  <2>1. /\ m = 0 \/ (m \in C /\ m < k)
        /\ \A x \in C : x < k => m # 0 /\ x <= m
    BY <1>2, <1>5 DEF Ok, Reaches, Rightwards
  <2>2. S \in SUBSET Nat /\ IF m = 0 THEN S = {} ELSE m \in S /\ \A x \in S : x <= m
    BY <1>3, <2>1
  <2>3. Wanted(C, k, mode) = Largest(S)
    BY <1>5 DEF Wanted
  <2> HIDE DEF S
  <2> QED
    BY <2>2, <2>3, LargestIs DEF C
<1>6. CASE mode = "equal_or_smaller"
  <2> DEFINE S == {c \in C : c <= k}
  <2>1. /\ m = 0 \/ (m \in C /\ m <= k)
        /\ \A x \in C : x <= k => m # 0 /\ x <= m
    BY <1>2, <1>6 DEF Ok, Reaches, Rightwards
  <2>2. S \in SUBSET Nat /\ IF m = 0 THEN S = {} ELSE m \in S /\ \A x \in S : x <= m
    BY <1>3, <2>1
  <2>3. Wanted(C, k, mode) = Largest(S)
    BY <1>6 DEF Wanted
  <2> HIDE DEF S
  <2> QED
    BY <2>2, <2>3, LargestIs DEF C
<1>7. CASE mode = "larger"
  <2> DEFINE S == {c \in C : c > k}
  <2>1. /\ m = 0 \/ (m \in C /\ m > k)
        /\ \A x \in C : x > k => m # 0 /\ m <= x
    BY <1>2, <1>7 DEF Ok, Reaches, Rightwards
  <2>2. S \in SUBSET Nat /\ IF m = 0 THEN S = {} ELSE m \in S /\ \A x \in S : m <= x
    BY <1>3, <2>1
  <2>3. Wanted(C, k, mode) = Smallest(S)
    BY <1>7 DEF Wanted
  <2> HIDE DEF S
  <2> QED
    BY <2>2, <2>3, SmallestIs DEF C
<1>8. CASE mode = "equal_or_larger"
  <2> DEFINE S == {c \in C : c >= k}
  <2>1. /\ m = 0 \/ (m \in C /\ m >= k)
        /\ \A x \in C : x >= k => m # 0 /\ m <= x
    BY <1>2, <1>8 DEF Ok, Reaches, Rightwards
  <2>2. S \in SUBSET Nat /\ IF m = 0 THEN S = {} ELSE m \in S /\ \A x \in S : m <= x
    BY <1>3, <2>1
  <2>3. Wanted(C, k, mode) = Smallest(S)
    BY <1>8 DEF Wanted
  <2> HIDE DEF S
  <2> QED
    BY <2>2, <2>3, SmallestIs DEF C
<1> QED
  BY <1>4, <1>5, <1>6, <1>7, <1>8 DEF Mode

(* Every key is below the root.                                             *)
LEMMA SearchBegins ==
  ASSUME NEW t, NEW r, NEW lv, NEW up, NEW sp, Shape(t, r, lv, up, sp), NEW k, NEW mode
  PROVE  Searching(t, lv, sp, r, 0, k, mode)
<1>1. ASSUME NEW x \in Contents(t) PROVE x \in Under(t, lv, sp, r)
  <2>1. PICK c \in DOMAIN t : x \in KeysIn(t[c])
    BY InContents
  <2>2. /\ x \in sp[c] /\ x \in Key /\ lv[c] \in Nat /\ lv[r] \in Nat /\ lv[c] <= lv[r]
        /\ r \in DOMAIN t /\ r # 0
    BY <2>1, BlockFacts
  <2>3. lv[r] \in lv[c]..lv[r]
    BY <2>2
  <2>4. PICK a \in DOMAIN t : lv[a] = lv[r] /\ \A j \in sp[c] : j \in sp[a]
    BY <2>3, Ancestor
  <2>5. a = r
    BY <2>2, <2>4, BlockFacts
  <2> QED
    BY <2>1, <2>2, <2>4, <2>5 DEF Under
<1> QED
  BY <1>1 DEF Searching, Beyond

Places(t) == [fils : DOMAIN t \cup {0}, best : Nat]

LEMMA RoundInPlaces ==
  ASSUME NEW lv, NEW up, NEW sp, Shape(node, root, lv, up, sp), NEW k \in Nat, NEW mode \in Mode,
         NEW s \in Places(node), NEW v, Equal(v, SearchRound(s, k, mode))
  PROVE  /\ v \in Places(node) /\ (s.fils = 0 => v = s)
         /\ s.fils # 0 => s.fils \in DOMAIN node
                          /\ Round(v, node[s.fils], Before(node[s.fils], k), s.best, k, mode)
<1>1. s.fils \in DOMAIN node \cup {0} /\ s.best \in Nat
  BY DEF Places
<1>2. CASE s.fils = 0
  BY <1>2 DEF Equal, SearchRound
<1>3. CASE s.fils # 0
  <2>1. s.fils \in DOMAIN node
    BY <1>1, <1>3
  <2>2. Equal(v, SearchNode(node[s.fils], Before(node[s.fils], k), k, mode, s.best))
    BY <1>3 DEF Equal, SearchRound
  <2>3. /\ Round(v, node[s.fils], Before(node[s.fils], k), s.best, k, mode)
        /\ v = [fils |-> v.fils, best |-> v.best]
    BY <2>2, RoundIs
  <2>4. v.fils \in DOMAIN node \cup {0} /\ v.best \in Nat
    BY <1>1, <2>1, <2>3, RoundGoes
  <2>5. v \in Places(node)
    BY <2>3, <2>4 DEF Places
  <2> QED
    BY <1>3, <2>1, <2>3, <2>5
<1> QED
  BY <1>2, <1>3

LEMMA SearchIs ==
  ASSUME NEW lv, NEW up, NEW sp, Shape(node, root, lv, up, sp), NEW k \in Nat, NEW mode \in Mode
  PROVE  \E a : /\ Cardinality(DOMAIN node) \in Nat
                /\ a[0] = [fils |-> root, best |-> 0]
                /\ \A l \in 1..Cardinality(DOMAIN node) : a[l] = SearchRound(a[l - 1], k, mode)
                /\ Search(k, mode) = a[Cardinality(DOMAIN node)].best
<1> DEFINE N == Cardinality(DOMAIN node)
           S == Places(node)
           g == [s \in S |-> SearchRound(s, k, mode)]
           base == [fils |-> root, best |-> 0]
<1>1. N \in Nat
  BY FS_CardinalityType DEF Shape
<1>2. base \in S
  BY DEF Shape, Places
<1>3. g \in [S -> S]
  <2>1. ASSUME NEW s \in S PROVE SearchRound(s, k, mode) \in S
    <3>1. PICK v : Equal(v, SearchRound(s, k, mode))
      BY DEF Equal
    <3>2. v \in Places(node)
      BY <3>1, RoundInPlaces
    <3> QED
      BY <3>1, <3>2 DEF Equal
  <2> QED
    BY <2>1
<1>4. PICK f : f \in [0..N -> S] /\ f[0] = base /\ \A j \in 1..N : f[j] = g[f[j - 1]]
  <2>1. Iterable(N, S, base, g)
    BY <1>1, <1>2, <1>3 DEF Iterable
  <2> HIDE DEF g, S, base, N
  <2>2. PICK f : Iterated(f, N, S, base, g)
    BY <2>1, Iterates
  <2> QED
    BY <2>2 DEF Iterated
<1>5. \A j \in 1..N : f[j] = SearchRound(f[j - 1], k, mode)
  <2>1. ASSUME NEW j \in 1..N PROVE f[j] = SearchRound(f[j - 1], k, mode)
    <3>1. j - 1 \in 0..N
      BY <1>1
    <3>2. f[j - 1] \in S
      BY <1>4, <3>1
    <3> QED
      BY <1>4, <3>2
  <2> QED
    BY <2>1
<1> DEFINE Rec(h) == [l \in 0..N |-> IF l = 0 THEN [fils |-> root, best |-> 0]
                                     ELSE SearchRound(h[l - 1], k, mode)]
           a == CHOOSE h : h = Rec(h)
<1>6. f = Rec(f)
  <2>1. ASSUME NEW j \in 0..N
        PROVE  f[j] = IF j = 0 THEN [fils |-> root, best |-> 0] ELSE SearchRound(f[j - 1], k, mode)
    <3>1. CASE j = 0
      BY <1>4, <3>1
    <3>2. CASE j # 0
      <4>1. j \in 1..N
        BY <1>1, <3>2
      <4> QED
        BY <1>5, <3>2, <4>1
    <3> QED
      BY <3>1, <3>2
  <2>2. f = [l \in 0..N |-> f[l]]
    BY <1>4
  <2> QED
    BY <2>1, <2>2
<1>7. a = Rec(a)
  <2>1. \E h : h = Rec(h)
    BY <1>6
  <2> QED
    BY <2>1
<1>8. Search(k, mode) = a[N].best
  BY DEF Search
<1>9. a[0] = base /\ \A j \in 1..N : a[j] = SearchRound(a[j - 1], k, mode)
  <2> HIDE DEF a
  <2>1. \A j \in 0..N : a[j] = IF j = 0 THEN [fils |-> root, best |-> 0]
                               ELSE SearchRound(a[j - 1], k, mode)
    BY <1>7
  <2>2. 0 \in 0..N /\ \A j \in 1..N : j \in 0..N /\ j # 0
    BY <1>1
  <2> QED
    BY <2>1, <2>2
<1> HIDE DEF a, N
<1> QED
  BY <1>1, <1>8, <1>9 DEF N

LEMMA SearchFinds ==
  ASSUME NEW lv, NEW up, NEW sp, Shape(node, root, lv, up, sp), NEW k \in Nat, NEW mode \in Mode
  PROVE  Search(k, mode) = Wanted(Contents(node), k, mode)
<1> DEFINE N == Cardinality(DOMAIN node)
<1>1. PICK a : /\ N \in Nat /\ a[0] = [fils |-> root, best |-> 0]
               /\ \A l \in 1..N : a[l] = SearchRound(a[l - 1], k, mode)
               /\ Search(k, mode) = a[N].best
  BY SearchIs
<1> DEFINE At(l) == /\ a[l] \in Places(node) /\ Searching(node, lv, sp, a[l].fils, a[l].best, k, mode)
                    /\ a[l].fils # 0 => lv[a[l].fils] = lv[root] - l
           Bad == {l \in 0..N : ~At(l)}
<1>2. At(0)
  <2>1. a[0].fils = root /\ a[0].best = 0 /\ a[0] \in Places(node)
    BY <1>1 DEF Shape, Places
  <2>2. Searching(node, lv, sp, root, 0, k, mode)
    BY SearchBegins
  <2>3. root # 0 => lv[root] = lv[root] - 0
    <3>1. root # 0 => root \in DOMAIN node
      BY DEF Shape
    <3>2. root # 0 => lv[root] \in Nat
      BY <3>1, BlockFacts
    <3> QED
      BY <3>2
  <2> QED
    BY <2>1, <2>2, <2>3
<1>3. ASSUME NEW l \in 1..N, At(l - 1) PROVE At(l)
  <2>1. PICK s, v : s = a[l - 1] /\ v = a[l]
    OBVIOUS
  <2>2. Equal(v, SearchRound(s, k, mode))
    BY <1>1, <2>1 DEF Equal
  <2>3. /\ s \in Places(node) /\ Searching(node, lv, sp, s.fils, s.best, k, mode)
        /\ s.fils # 0 => lv[s.fils] = lv[root] - (l - 1)
    BY <1>3, <2>1
  <2>4. /\ v \in Places(node) /\ (s.fils = 0 => v = s)
        /\ s.fils # 0 => s.fils \in DOMAIN node
                         /\ Round(v, node[s.fils], Before(node[s.fils], k), s.best, k, mode)
    BY <2>2, <2>3, RoundInPlaces
  <2>5. CASE s.fils = 0
    BY <2>1, <2>3, <2>4, <2>5
  <2>6. CASE s.fils # 0
    <3>1. s.best \in Nat
      BY <2>3 DEF Places
    <3>2. v.fils # 0 => lv[v.fils] = lv[s.fils] - 1
      BY <2>4, <2>6, <3>1, RoundGoes
    <3>3. Searching(node, lv, sp, v.fils, v.best, k, mode)
      BY <2>3, <2>4, <2>6, RoundKeeps
    <3>4. lv[s.fils] = lv[root] - (l - 1) /\ lv[root] \in Nat /\ l \in Nat
      BY <1>1, <2>3, <2>4, <2>6, BlockFacts
    <3>5. v.fils # 0 => lv[v.fils] = lv[root] - l
      BY <3>2, <3>4
    <3> QED
      BY <2>1, <2>4, <3>3, <3>5
  <2> QED
    BY <2>5, <2>6
<1> HIDE DEF At
<1>4. ASSUME Bad # {} PROVE FALSE
  <2>1. PICK l \in Bad : \A j \in Bad : l <= j
    <3>1. Bad \in SUBSET Nat
      BY <1>1
    <3> HIDE DEF Bad
    <3> QED
      BY <1>4, <3>1, MinIn
  <2>2. l \in 0..N /\ ~At(l) /\ l # 0
    BY <1>2, <2>1
  <2>3. l \in 1..N /\ l - 1 \in 0..N /\ ~(l <= l - 1)
    BY <1>1, <2>2
  <2>4. At(l - 1)
    BY <2>1, <2>3
  <2> QED
    BY <1>3, <2>2, <2>3, <2>4
<1>5. At(N)
  BY <1>1, <1>4
<1>6. a[N] \in Places(node) /\ Searching(node, lv, sp, a[N].fils, a[N].best, k, mode)
      /\ (a[N].fils # 0 => lv[a[N].fils] = lv[root] - N)
  BY <1>5 DEF At
<1>7. a[N].fils = 0
  <2>1. ASSUME a[N].fils # 0 PROVE FALSE
    <3>1. a[N].fils \in DOMAIN node
      BY <1>6, <2>1 DEF Places
    <3>2. PICK c \in DOMAIN node : c = a[N].fils
      BY <3>1
    <3>3. /\ N \in Nat /\ lv[c] \in Nat /\ lv[root] \in Nat /\ (lv[root] - lv[c]) + 1 <= N
      BY <3>2, Depth
    <3>4. lv[c] = lv[root] - N
      BY <1>6, <2>1, <3>2
    <3> HIDE DEF N
    <3> QED
      BY <3>3, <3>4
  <2> QED
    BY <2>1
<1>8. Contents(node) \subseteq Nat \ {0}
  <2>1. \A c \in DOMAIN node : KeysIn(node[c]) \subseteq Nat \ {0}
    BY BlockFacts
  <2> QED
    BY <2>1, InContents
<1>9. a[N].best = Wanted(Contents(node), k, mode)
  <2>1. PICK m : m = a[N].best
    OBVIOUS
  <2>2. Searching(node, lv, sp, 0, m, k, mode)
    BY <1>6, <1>7, <2>1
  <2> QED
    BY <1>8, <2>1, <2>2, WantedIs
<1> QED
  BY <1>1, <1>9

(* A search between the calls, in any of the five modes and for a key that  *)
(* is there or not, finds the key that a walk through all of them would.    *)
THEOREM SearchesFind ==
  Spec => []SearchesAgree
<1>1. ASSUME IInv, Idle PROVE SearchesAgree
  <2>1. Formed(node, root)
    BY <1>1 DEF IInv, AtRest, Idle, Resting
  <2>2. PICK lv, up, sp : Shape(node, root, lv, up, sp)
    BY <2>1 DEF Formed
  <2>3. Key \cup {0} \subseteq Nat
    BY SizeAssumption
  <2> QED
    BY <2>2, <2>3, SearchFinds DEF SearchesAgree
<1>2. IInv => SearchesAgree
  BY <1>1 DEF SearchesAgree
<1> QED
  BY <1>2, AlwaysFormed, PTL
=============================================================================
