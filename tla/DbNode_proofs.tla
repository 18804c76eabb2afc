---------------------------- MODULE DbNode_proofs ----------------------------
(***************************************************************************)
(* What the operators of DbNode do to the order, the children and the bytes *)
(* of nodes, for every size of keys and nodes that SizeAssumption allows.   *)
(***************************************************************************)
EXTENDS DbNode, WellFoundedInduction, TLAPS

LEMMA MinIn ==
  ASSUME NEW S \in SUBSET Nat, S # {}
  PROVE  \E x \in S : \A y \in S : x <= y
<1> DEFINE R == OpToRel(<, Nat)
<1>1. IsWellFoundedOn(R, Nat)
  BY NatLessThanWellFounded
<1>2. \A x, y \in Nat : <<x, y>> \in R <=> x < y
  BY DEF OpToRel
<1> HIDE DEF R
<1>3. PICK x \in S : \A y \in S : ~ (<<y, x>> \in R)
  <2>1. S \subseteq Nat
    OBVIOUS
  <2> QED
    BY <1>1, <2>1, WFMin, Zenon
<1>4. ASSUME NEW y \in S PROVE x <= y
  <2>1. x \in Nat /\ y \in Nat
    OBVIOUS
  <2>2. ~(y < x)
    BY <1>2, <1>3, <2>1, Zenon
  <2> QED
    BY <2>1, <2>2
<1> QED
  BY <1>3, <1>4

(* Numbers up to N that begin with a base and grow by w.                    *)
LEMMA SumExists ==
  ASSUME NEW N \in Nat, NEW base \in Nat, NEW w \in [1..N -> Nat]
  PROVE  \E f \in [0..N -> Nat] :
           /\ f[0] = base
           /\ \A j \in 1..N : f[j] = f[j - 1] + w[j]
<1> DEFINE Sums(m, f) == f \in [0..m -> Nat] /\ f[0] = base
                           /\ \A j \in 1..m : f[j] = f[j - 1] + w[j]
           None == {m \in 0..N : \A f : ~Sums(m, f)}
<1>0. None \in SUBSET Nat /\ None \subseteq 0..N
  OBVIOUS
<1>a. \A m \in 0..N : m \notin None => \E f : Sums(m, f)
  OBVIOUS
<1>b. \A m \in None : \A f : ~Sums(m, f)
  OBVIOUS
<1> HIDE DEF None
<1>1. CASE None = {}
  <2>1. N \in 0..N /\ N \notin None
    BY <1>1
  <2>2. PICK f : Sums(N, f)
    BY <2>1, <1>a
  <2> QED
    BY <2>2
<1>2. CASE None # {}
  <2>1. PICK m \in None : \A y \in None : m <= y
    BY <1>0, <1>2, MinIn
  <2>2. m # 0
    <3>1. Sums(0, [j \in 0..0 |-> base])
      OBVIOUS
    <3> QED
      BY <1>b, <2>1, <3>1
  <2>3. m - 1 \in 0..N /\ m - 1 \notin None
    BY <1>0, <2>1, <2>2
  <2>4. PICK f : Sums(m - 1, f)
    BY <1>a, <2>3
  <2>5. Sums(m, [j \in 0..m |-> IF j = m THEN f[m - 1] + w[m] ELSE f[j]])
    <3> DEFINE g == [j \in 0..m |-> IF j = m THEN f[m - 1] + w[m] ELSE f[j]]
    <3>1. m \in 1..N /\ w[m] \in Nat /\ f[m - 1] \in Nat
      BY <1>0, <2>1, <2>2, <2>4
    <3>2. g \in [0..m -> Nat] /\ g[0] = base
      BY <2>4, <3>1
    <3>3. ASSUME NEW j \in 1..m PROVE g[j] = g[j - 1] + w[j]
      BY <2>4, <3>1
    <3> QED
      BY <3>2, <3>3
  <2> HIDE DEF Sums
  <2> QED
    BY <1>b, <2>1, <2>5
<1> QED
  BY <1>1, <1>2

-----------------------------------------------------------------------------
(* Nodes in order.                                                          *)
InOrder(n) == \A i, j \in 1..Len(n.items) : i < j => n.items[i].key < n.items[j].key

GoodNode(n) == n \in Node /\ InOrder(n)

LEMMA ItemType ==
  ASSUME NEW n \in Node, NEW i \in 1..Len(n.items)
  PROVE  /\ n.items[i] \in Item /\ n.items[i].key \in Key /\ n.items[i].key \in Nat \ {0}
         /\ n.items[i].child \in Block \cup {0}
<1>1. n.items[i] \in Item
  BY DEF Node
<1> QED
  BY <1>1, SizeAssumption DEF Item

LEMMA ItemSizes ==
  ASSUME NEW n, GoodNode(n), NEW i \in 1..Len(n.items)
  PROVE  /\ ItemSize(n, i) \in Nat /\ LinkOf(n) \in {0, Link}
         /\ Link + 1 + LinkOf(n) <= ItemSize(n, i) /\ ItemSize(n, i) <= MaxItem + LinkOf(n)
<1>1. LinkOf(n) \in {0, Link} /\ Link \in Nat /\ MaxItem \in Nat
  BY SizeAssumption DEF LinkOf
<1>2. CASE i = 1
  <2>1. First[n.items[1].key] \in Link + 1..MaxItem
    BY <1>2, ItemType, SizeAssumption DEF GoodNode
  <2> QED
    BY <1>1, <1>2, <2>1 DEF ItemSize
<1>3. CASE i # 1
  <2>1. i - 1 \in 1..Len(n.items) /\ i - 1 < i /\ Len(n.items) \in Nat
    BY <1>3 DEF GoodNode, Node
  <2>2. n.items[i - 1].key \in Key /\ n.items[i].key \in Key
           /\ n.items[i - 1].key < n.items[i].key
    BY <2>1, ItemType DEF GoodNode, InOrder
  <2>3. Behind[<<n.items[i - 1].key, n.items[i].key>>] \in Link + 1..MaxItem
    BY <2>2, SizeAssumption
  <2> QED
    BY <1>1, <1>3, <2>3 DEF ItemSize
<1> QED
  BY <1>2, <1>3

LEMMA Offsets ==
  ASSUME NEW n, GoodNode(n)
  PROVE  /\ Offset(n, 0) = LinkOf(n)
         /\ \A i \in 0..Len(n.items) : Offset(n, i) \in Nat
         /\ \A i \in 1..Len(n.items) : Offset(n, i) = Offset(n, i - 1) + ItemSize(n, i)
<1> DEFINE N == Len(n.items)
           w == [j \in 1..N |-> ItemSize(n, j)]
<1>1. N \in Nat
  BY DEF GoodNode, Node
<1>2. w \in [1..N -> Nat]
  BY ItemSizes
<1>3. LinkOf(n) \in Nat
  BY SizeAssumption DEF LinkOf
<1>4. PICK f \in [0..N -> Nat] : f[0] = LinkOf(n) /\ \A j \in 1..N : f[j] = f[j - 1] + w[j]
  BY <1>1, <1>2, <1>3, SumExists
<1> DEFINE Rec(h) == [j \in 0..N |-> IF j = 0 THEN LinkOf(n) ELSE h[j - 1] + ItemSize(n, j)]
           g == CHOOSE h : h = Rec(h)
<1>5. f = Rec(f)
  <2>1. ASSUME NEW j \in 0..N
        PROVE  f[j] = IF j = 0 THEN LinkOf(n) ELSE f[j - 1] + ItemSize(n, j)
    <3>1. CASE j = 0
      BY <1>4, <3>1
    <3>2. CASE j # 0
      <4>1. j \in 1..N
        BY <1>1, <3>2
      <4> QED
        BY <1>4, <3>2, <4>1
    <3> QED
      BY <3>1, <3>2
  <2> QED
    BY <1>4, <2>1
<1>6. g = Rec(g)
  <2>1. \E h : h = Rec(h)
    BY <1>5
  <2> QED
    BY <2>1
<1>7. \A i : Offset(n, i) = g[i]
  BY DEF Offset
<1>8. g[0] = LinkOf(n) /\ \A j \in 1..N : g[j] = g[j - 1] + ItemSize(n, j)
  <2> HIDE DEF g
  <2>1. \A j \in 0..N : g[j] = IF j = 0 THEN LinkOf(n) ELSE g[j - 1] + ItemSize(n, j)
    BY <1>6
  <2>2. 0 \in 0..N /\ \A j \in 1..N : j \in 0..N /\ j # 0
    BY <1>1
  <2> QED
    BY <2>1, <2>2
<1>9. \A j \in 0..N : g[j] \in Nat
  <2> HIDE DEF g
  <2> DEFINE Bad == {j \in 0..N : g[j] \notin Nat}
  <2>0. Bad \in SUBSET Nat
    OBVIOUS
  <2>1. CASE Bad # {}
    <3>1. PICK m \in Bad : \A y \in Bad : m <= y
      BY <2>0, <2>1, MinIn
    <3>2. m # 0
      BY <1>3, <1>8
    <3>3. m - 1 \in 0..N /\ m - 1 \notin Bad /\ m \in 1..N
      BY <3>1, <3>2
    <3>4. g[m] \in Nat
      BY <1>8, <3>3, ItemSizes
    <3> QED
      BY <3>1, <3>4
  <2> QED
    BY <2>1
<1> HIDE DEF g
<1> QED
  BY <1>7, <1>8, <1>9

(* Where two nodes have the same sizes, their offsets grow by the same.     *)
LEMMA OffsetsShift ==
  ASSUME NEW n, NEW m, GoodNode(n), GoodNode(m),
         NEW a \in 0..Len(n.items), NEW b \in a..Len(n.items), NEW d \in Int,
         a + d >= 0, b + d <= Len(m.items),
         \A j \in a + 1..b : ItemSize(m, j + d) = ItemSize(n, j)
  PROVE  Offset(m, b + d) - Offset(m, a + d) = Offset(n, b) - Offset(n, a)
<1>1. Len(n.items) \in Nat /\ Len(m.items) \in Nat
  BY DEF GoodNode, Node
<1> DEFINE N == Len(n.items)
           M == Len(m.items)
           Same(j) == Offset(m, j + d) - Offset(m, a + d) = Offset(n, j) - Offset(n, a)
           Bad == {j \in a..b : ~Same(j)}
<1>2. /\ \A i \in 0..N : Offset(n, i) \in Int
      /\ \A i \in 1..N : Offset(n, i) = Offset(n, i - 1) + ItemSize(n, i)
      /\ \A i \in 0..M : Offset(m, i) \in Int
      /\ \A i \in 1..M : Offset(m, i) = Offset(m, i - 1) + ItemSize(m, i)
  BY Offsets
<1>3. \A i \in 1..N : ItemSize(n, i) \in Int
  BY ItemSizes
<1>4. Bad \in SUBSET Nat
  BY <1>1
<1>5. CASE Bad # {}
  <2>1. PICK j \in Bad : \A y \in Bad : j <= y
    BY <1>4, <1>5, MinIn
  <2>2. j # a
    <3>1. a \in 0..N /\ a + d \in 0..M
      BY <1>1
    <3>2. Offset(m, a + d) \in Int /\ Offset(n, a) \in Int
      BY <1>2, <3>1
    <3>3. Same(a)
      BY <3>2
    <3> QED
      BY <3>3
  <2>3. j \in a + 1..b /\ j - 1 \in a..b /\ j - 1 \notin Bad
    BY <1>1, <2>1, <2>2
  <2>4. Same(j - 1) /\ (j - 1) + d = (j + d) - 1
    BY <2>3, <1>1
  <2>5. j \in 1..N /\ j + d \in 1..M /\ (j + d) - 1 \in 0..M /\ j - 1 \in 0..N
           /\ a + d \in 0..M /\ a \in 0..N
    BY <1>1, <2>3
  <2>6. /\ Offset(n, j) = Offset(n, j - 1) + ItemSize(n, j)
        /\ Offset(m, j + d) = Offset(m, (j + d) - 1) + ItemSize(n, j)
    BY <1>2, <2>3, <2>5
  <2>7. Offset(n, j - 1) \in Int /\ Offset(n, a) \in Int /\ ItemSize(n, j) \in Int
    BY <1>2, <1>3, <2>5
  <2>8. Offset(m, (j + d) - 1) \in Int /\ Offset(m, a + d) \in Int
    BY <1>2, <2>5
  <2>9. Offset(m, (j + d) - 1) - Offset(m, a + d) = Offset(n, j - 1) - Offset(n, a)
    BY <2>4
  <2>11. (Offset(m, (j + d) - 1) + ItemSize(n, j)) - Offset(m, a + d)
            = (Offset(n, j - 1) + ItemSize(n, j)) - Offset(n, a)
    <3> DEFINE P == Offset(m, (j + d) - 1)
               Q == Offset(m, a + d)
               R == Offset(n, j - 1)
               S == Offset(n, a)
               Z == ItemSize(n, j)
    <3>1. P \in Int /\ Q \in Int /\ R \in Int /\ S \in Int /\ Z \in Int /\ P - Q = R - S
      BY <2>7, <2>8, <2>9, Zenon
    <3> HIDE DEF P, Q, R, S, Z
    <3>2. (P + Z) - Q = (R + Z) - S
      BY <3>1
    <3> QED
      BY <3>2, Zenon DEF P, Q, R, S, Z
  <2>12. Same(j)
    BY <2>6, <2>11
  <2> QED
    BY <2>1, <2>12
<1>6. CASE Bad = {}
  <2>1. b \in a..b
    BY <1>1
  <2> QED
    BY <1>6, <2>1
<1> QED
  BY <1>5, <1>6

LEMMA OffsetsGrow ==
  ASSUME NEW n, GoodNode(n), NEW a \in 0..Len(n.items), NEW b \in a..Len(n.items)
  PROVE  Offset(n, a) <= Offset(n, b) /\ (a < b => Offset(n, a) + Link + 1 + LinkOf(n) <= Offset(n, b))
<1>1. Len(n.items) \in Nat /\ Link \in Nat /\ LinkOf(n) \in Nat
  BY SizeAssumption DEF GoodNode, Node, LinkOf
<1> DEFINE N == Len(n.items)
           Grows(j) == Offset(n, a) <= Offset(n, j) /\ (a < j => Offset(n, a) + Link + 1 + LinkOf(n) <= Offset(n, j))
           Bad == {j \in a..b : ~Grows(j)}
<1>2. /\ \A i \in 0..N : Offset(n, i) \in Nat
      /\ \A i \in 1..N : Offset(n, i) = Offset(n, i - 1) + ItemSize(n, i)
  BY Offsets
<1>3. \A i \in 1..N : ItemSize(n, i) \in Nat /\ Link + 1 + LinkOf(n) <= ItemSize(n, i)
  BY ItemSizes
<1>4. Bad \in SUBSET Nat
  BY <1>1
<1>5. CASE Bad # {}
  <2>1. PICK j \in Bad : \A y \in Bad : j <= y
    BY <1>4, <1>5, MinIn
  <2>2. j # a
    <3>1. Grows(a)
      BY <1>1, <1>2
    <3> QED
      BY <3>1
  <2>3. j \in a + 1..b /\ j - 1 \in a..b /\ j - 1 \notin Bad /\ j \in 1..N /\ j - 1 \in 0..N
    BY <1>1, <2>1, <2>2
  <2>4. Grows(j - 1)
    BY <2>3
  <2>5. /\ Offset(n, j) = Offset(n, j - 1) + ItemSize(n, j) /\ Offset(n, j - 1) \in Nat
        /\ Offset(n, a) \in Nat /\ ItemSize(n, j) \in Nat
        /\ Link + 1 + LinkOf(n) <= ItemSize(n, j)
    BY <1>1, <1>2, <1>3, <2>3
  <2>6. Grows(j)
    BY <1>1, <2>4, <2>5
  <2> QED
    BY <2>1, <2>6
<1>6. CASE Bad = {}
  <2>1. b \in a..b
    BY <1>1
  <2> QED
    BY <1>6, <2>1
<1> QED
  BY <1>5, <1>6

-----------------------------------------------------------------------------
(* What the nodes hold that are built from others.                          *)
LEMMA Lens ==
  ASSUME NEW n \in Node
  PROVE  Len(n.items) \in Nat /\ n.items \in Seq(Item) /\ n.next0 \in Block \cup {0}
BY DEF Node

LEMMA Joined ==
  ASSUME NEW S, NEW s \in Seq(S), NEW t \in Seq(S)
  PROVE  /\ s \o t \in Seq(S) /\ Len(s \o t) = Len(s) + Len(t)
         /\ \A y \in 1..Len(s) + Len(t) : (s \o t)[y] = IF y <= Len(s) THEN s[y] ELSE t[y - Len(s)]
OBVIOUS

(* The items i + 1 to j of s are replaced by x.                             *)
Spliced(s, i, x, j) == SubSeq(s, 1, i) \o x \o SubSeq(s, j + 1, Len(s))

LEMMA Splice ==
  ASSUME NEW S, NEW s \in Seq(S), NEW x \in Seq(S),
         NEW i \in 0..Len(s), NEW j \in i..Len(s), NEW m, m = Spliced(s, i, x, j)
  PROVE  /\ m \in Seq(S)
         /\ Len(m) = ((Len(s) + i) - j) + Len(x)
         /\ \A y \in 1..Len(m) :
              m[y] = IF y <= i THEN s[y]
                     ELSE IF y <= i + Len(x) THEN x[y - i]
                     ELSE s[((y - Len(x)) - i) + j]
<1>1. Len(s) \in Nat /\ Len(x) \in Nat
  OBVIOUS
<1> DEFINE a == SubSeq(s, 1, i)
           c == SubSeq(s, j + 1, Len(s))
<1>2. a \in Seq(S) /\ Len(a) = i /\ \A y \in 1..i : a[y] = s[y]
  BY <1>1
<1>3. c \in Seq(S) /\ Len(c) = Len(s) - j /\ \A y \in 1..(Len(s) - j) : c[y] = s[j + y]
  BY <1>1
<1> HIDE DEF a, c
<1>4. a \o x \in Seq(S) /\ Len(a \o x) = i + Len(x)
         /\ \A y \in 1..i + Len(x) : (a \o x)[y] = IF y <= i THEN a[y] ELSE x[y - i]
  <2>1. a \in Seq(S) /\ x \in Seq(S) /\ Len(a) = i
    BY <1>2
  <2> QED
    BY ONLY <2>1, Joined
<1> DEFINE ax == a \o x
<1> HIDE DEF ax
<1>5. ax \in Seq(S) /\ Len(ax) = i + Len(x)
         /\ \A y \in 1..i + Len(x) : ax[y] = IF y <= i THEN a[y] ELSE x[y - i]
  BY <1>4 DEF ax
<1>6. ax \o c \in Seq(S) /\ Len(ax \o c) = (i + Len(x)) + (Len(s) - j)
         /\ \A y \in 1..Len(ax \o c) :
              (ax \o c)[y] = IF y <= i + Len(x) THEN ax[y] ELSE c[y - (i + Len(x))]
  BY <1>1, <1>3, <1>5, Joined, SMTT(30)
<1>7. ASSUME NEW y \in 1..Len(ax \o c)
      PROVE  (ax \o c)[y] = IF y <= i THEN s[y]
                            ELSE IF y <= i + Len(x) THEN x[y - i]
                            ELSE s[((y - Len(x)) - i) + j]
  <2>1. CASE y <= i
    BY <1>1, <1>2, <1>5, <1>6, <2>1
  <2>2. CASE i < y /\ y <= i + Len(x)
    BY <1>1, <1>2, <1>5, <1>6, <2>2
  <2>3. CASE i + Len(x) < y
    <3>1. y - (i + Len(x)) \in 1..(Len(s) - j) /\ (ax \o c)[y] = c[y - (i + Len(x))]
      BY <1>1, <1>6, <2>3
    <3>2. c[y - (i + Len(x))] = s[j + (y - (i + Len(x)))]
      BY <1>3, <3>1
    <3>3. j + (y - (i + Len(x))) = ((y - Len(x)) - i) + j /\ ~(y <= i) /\ ~(y <= i + Len(x))
      BY <1>1, <2>3
    <3> QED
      BY <3>1, <3>2, <3>3
  <2> QED
    BY <1>1, <2>1, <2>2, <2>3
<1>8. (i + Len(x)) + (Len(s) - j) = ((Len(s) + i) - j) + Len(x)
  BY <1>1
<1> QED
  BY <1>6, <1>7, <1>8 DEF ax, a, c, Spliced

LEMMA InsertedIs ==
  ASSUME NEW n \in Node, NEW i \in 0..Len(n.items), NEW x \in Seq(Item)
  PROVE  /\ Inserted(n, i, x) \in Node /\ Inserted(n, i, x).next0 = n.next0
         /\ Len(Inserted(n, i, x).items) = Len(n.items) + Len(x)
         /\ \A y \in 1..Len(n.items) + Len(x) :
              Inserted(n, i, x).items[y] =
                IF y <= i THEN n.items[y]
                ELSE IF y <= i + Len(x) THEN x[y - i] ELSE n.items[y - Len(x)]
<1>1. Len(n.items) \in Nat /\ n.items \in Seq(Item) /\ n.next0 \in Block \cup {0}
         /\ Len(x) \in Nat
  BY Lens
<1> DEFINE s == SubSeq(n.items, 1, i) \o x \o SubSeq(n.items, i + 1, Len(n.items))
<1>2. /\ s \in Seq(Item) /\ Len(s) = ((Len(n.items) + i) - i) + Len(x)
      /\ \A y \in 1..Len(s) :
           s[y] = IF y <= i THEN n.items[y]
                  ELSE IF y <= i + Len(x) THEN x[y - i] ELSE n.items[((y - Len(x)) - i) + i]
  <2>1. i \in i..Len(n.items)
    BY <1>1
  <2>2. s = Spliced(n.items, i, x, i)
    BY DEF Spliced
  <2>3. n.items \in Seq(Item) /\ x \in Seq(Item) /\ i \in 0..Len(n.items)
    BY <1>1
  <2> HIDE DEF s
  <2> QED
    BY ONLY <2>1, <2>2, <2>3, Splice, SMTT(20)
<1>3. Inserted(n, i, x) \in Node /\ Inserted(n, i, x).next0 = n.next0
         /\ Inserted(n, i, x).items = s
  <2> HIDE DEF s
  <2>1. [n EXCEPT !.items = s] \in Node /\ [n EXCEPT !.items = s].next0 = n.next0
           /\ [n EXCEPT !.items = s].items = s
    BY <1>2 DEF Node
  <2> QED
    BY <2>1 DEF Inserted, s
<1>4. ((Len(n.items) + i) - i) + Len(x) = Len(n.items) + Len(x)
         /\ \A y \in 1..Len(n.items) + Len(x) : ((y - Len(x)) - i) + i = y - Len(x)
  BY <1>1
<1> HIDE DEF s
<1> QED
  BY <1>2, <1>3, <1>4

LEMMA DeletedIs ==
  ASSUME NEW n \in Node, NEW i \in 0..Len(n.items) - 1
  PROVE  /\ Deleted(n, i) \in Node /\ Deleted(n, i).next0 = n.next0
         /\ Len(Deleted(n, i).items) = Len(n.items) - 1
         /\ \A y \in 1..Len(n.items) - 1 :
              Deleted(n, i).items[y] = IF y <= i THEN n.items[y] ELSE n.items[y + 1]
<1>1. Len(n.items) \in Nat /\ n.items \in Seq(Item) /\ n.next0 \in Block \cup {0}
  BY Lens
<1> DEFINE a == SubSeq(n.items, 1, i)
           c == SubSeq(n.items, i + 2, Len(n.items))
           s == a \o c
<1>2. a \in Seq(Item) /\ Len(a) = i /\ \A y \in 1..i : a[y] = n.items[y]
  BY <1>1
<1>3. c \in Seq(Item) /\ Len(c) = (Len(n.items) - i) - 1
         /\ \A y \in 1..(Len(n.items) - i) - 1 : c[y] = n.items[(i + 1) + y]
  BY <1>1
<1> HIDE DEF a, c
<1>4. s \in Seq(Item) /\ Len(s) = Len(n.items) - 1
         /\ \A y \in 1..Len(n.items) - 1 : s[y] = IF y <= i THEN a[y] ELSE c[y - i]
  <2>1. s \in Seq(Item) /\ Len(s) = Len(a) + Len(c)
           /\ \A y \in 1..Len(a) + Len(c) : s[y] = IF y <= Len(a) THEN a[y] ELSE c[y - Len(a)]
    BY <1>2, <1>3, Joined
  <2>2. Len(a) + Len(c) = Len(n.items) - 1
    BY <1>1, <1>2, <1>3
  <2> QED
    BY <1>2, <2>1, <2>2
<1> HIDE DEF s
<1>5. ASSUME NEW y \in 1..Len(n.items) - 1
      PROVE  s[y] = IF y <= i THEN n.items[y] ELSE n.items[y + 1]
  <2>1. CASE y <= i
    BY <1>1, <1>2, <1>4, <2>1
  <2>2. CASE ~(y <= i)
    <3>1. y - i \in 1..(Len(n.items) - i) - 1 /\ (i + 1) + (y - i) = y + 1
      BY <1>1, <2>2
    <3> QED
      BY <1>3, <1>4, <2>2, <3>1
  <2> QED
    BY <2>1, <2>2
<1>6. Deleted(n, i) \in Node /\ Deleted(n, i).next0 = n.next0 /\ Deleted(n, i).items = s
  <2>1. [n EXCEPT !.items = s] \in Node /\ [n EXCEPT !.items = s].next0 = n.next0
           /\ [n EXCEPT !.items = s].items = s
    BY <1>4 DEF Node
  <2> QED
    BY <2>1 DEF Deleted, s, a, c
<1> QED
  BY <1>4, <1>5, <1>6

LEMMA CatenatedIs ==
  ASSUME NEW n \in Node, NEW x \in Item, NEW r \in Node
  PROVE  /\ Catenated(n, x, r) \in Node /\ Catenated(n, x, r).next0 = n.next0
         /\ Len(Catenated(n, x, r).items) = (Len(n.items) + 1) + Len(r.items)
         /\ \A y \in 1..Len(n.items) : Catenated(n, x, r).items[y] = n.items[y]
         /\ Catenated(n, x, r).items[Len(n.items) + 1].key = x.key
         /\ Catenated(n, x, r).items[Len(n.items) + 1].child = r.next0
         /\ \A y \in Len(n.items) + 2..(Len(n.items) + 1) + Len(r.items) :
              Catenated(n, x, r).items[y] = r.items[y - (Len(n.items) + 1)]
<1> DEFINE z == [x EXCEPT !.child = r.next0]
           a == n.items \o <<z>>
           s == a \o r.items
<1>1. /\ Len(n.items) \in Nat /\ n.items \in Seq(Item)
      /\ Len(r.items) \in Nat /\ r.items \in Seq(Item) /\ r.next0 \in Block \cup {0}
  BY Lens
<1>2. z \in Item /\ z.key = x.key /\ z.child = r.next0
  BY <1>1 DEF Item
<1> HIDE DEF z
<1>3. <<z>> \in Seq(Item) /\ Len(<<z>>) = 1 /\ <<z>>[1] = z
  BY <1>2
<1>4. a \in Seq(Item) /\ Len(a) = Len(n.items) + 1
         /\ \A y \in 1..Len(n.items) + 1 : a[y] = IF y <= Len(n.items) THEN n.items[y] ELSE z
  <2>1. a \in Seq(Item) /\ Len(a) = Len(n.items) + Len(<<z>>)
           /\ \A y \in 1..Len(n.items) + Len(<<z>>) :
                a[y] = IF y <= Len(n.items) THEN n.items[y] ELSE <<z>>[y - Len(n.items)]
    BY <1>1, <1>3, Joined
  <2>2. \A y \in 1..Len(n.items) + 1 : ~(y <= Len(n.items)) => y - Len(n.items) = 1
    BY <1>1
  <2> QED
    BY <1>3, <2>1, <2>2
<1> HIDE DEF a
<1>5. s \in Seq(Item) /\ Len(s) = Len(a) + Len(r.items)
         /\ \A y \in 1..Len(a) + Len(r.items) : s[y] = IF y <= Len(a) THEN a[y] ELSE r.items[y - Len(a)]
  BY <1>1, <1>4, Joined
<1> HIDE DEF s
<1>6. Catenated(n, x, r) \in Node /\ Catenated(n, x, r).next0 = n.next0
         /\ Catenated(n, x, r).items = s
  <2>1. [n EXCEPT !.items = s] \in Node /\ [n EXCEPT !.items = s].next0 = n.next0
           /\ [n EXCEPT !.items = s].items = s
    BY <1>5 DEF Node
  <2> QED
    BY <2>1 DEF Catenated, s, a, z
<1> DEFINE N == Len(n.items)
           R == Len(r.items)
<1>a. N \in Nat /\ R \in Nat /\ Len(a) = N + 1 /\ Len(s) = (N + 1) + R
  BY <1>1, <1>4, <1>5
<1>b. \A y \in 1..(N + 1) + R : s[y] = IF y <= N + 1 THEN a[y] ELSE r.items[y - (N + 1)]
  BY <1>4, <1>5
<1>c. \A y \in 1..N + 1 : a[y] = IF y <= N THEN n.items[y] ELSE z
  BY <1>4
<1> HIDE DEF N, R
<1>8. ASSUME NEW y \in 1..N PROVE s[y] = n.items[y]
  BY <1>a, <1>b, <1>c
<1>9. s[N + 1] = z
  BY <1>a, <1>b, <1>c
<1>10. ASSUME NEW y \in N + 2..(N + 1) + R PROVE s[y] = r.items[y - (N + 1)]
  BY <1>a, <1>b
<1> QED
  BY <1>2, <1>a, <1>5, <1>6, <1>8, <1>9, <1>10 DEF N, R

LEMMA LeftIs ==
  ASSUME NEW n \in Node, NEW e \in 0..Len(n.items)
  PROVE  /\ LeftOf(n, e) \in Node /\ LeftOf(n, e).next0 = n.next0
         /\ Len(LeftOf(n, e).items) = e
         /\ \A y \in 1..e : LeftOf(n, e).items[y] = n.items[y]
<1>1. Len(n.items) \in Nat /\ n.items \in Seq(Item) /\ n.next0 \in Block \cup {0}
  BY Lens
<1> DEFINE s == SubSeq(n.items, 1, e)
<1>2. s \in Seq(Item) /\ Len(s) = e /\ \A y \in 1..e : s[y] = n.items[y]
  BY <1>1
<1> HIDE DEF s
<1>3. [n EXCEPT !.items = s] \in Node /\ [n EXCEPT !.items = s].next0 = n.next0
         /\ [n EXCEPT !.items = s].items = s
  BY <1>2 DEF Node
<1> QED
  BY <1>2, <1>3 DEF LeftOf, s

LEMMA RightIs ==
  ASSUME NEW n \in Node, NEW e \in 0..Len(n.items) - 1
  PROVE  /\ RightOf(n, e) \in Node /\ RightOf(n, e).next0 = n.items[e + 1].child
         /\ Len(RightOf(n, e).items) = (Len(n.items) - e) - 1
         /\ \A y \in 1..(Len(n.items) - e) - 1 : RightOf(n, e).items[y] = n.items[(y + e) + 1]
<1>1. Len(n.items) \in Nat /\ n.items \in Seq(Item) /\ n.next0 \in Block \cup {0}
  BY Lens
<1> DEFINE s == SubSeq(n.items, e + 2, Len(n.items))
           z == n.items[e + 1].child
<1>2. s \in Seq(Item) /\ Len(s) = (Len(n.items) - e) - 1
         /\ \A y \in 1..(Len(n.items) - e) - 1 : s[y] = n.items[(y + e) + 1]
  BY <1>1
<1>3. z \in Block \cup {0}
  <2>1. e + 1 \in 1..Len(n.items)
    BY <1>1
  <2> QED
    BY <2>1, ItemType
<1> HIDE DEF s, z
<1>4. [next0 |-> z, items |-> s] \in Node
  BY <1>2, <1>3 DEF Node
<1> QED
  BY <1>2, <1>4 DEF RightOf, s, z

-----------------------------------------------------------------------------
(* Keys and children of nodes that are built from others.                   *)
LEMMA ChildIs ==
  ASSUME NEW n \in Node, NEW i \in 0..Len(n.items)
  PROVE  Child(n, i) \in Block \cup {0} /\ Child(n, 0) = n.next0
           /\ (i # 0 => Child(n, i) = n.items[i].child)
<1>1. CASE i = 0
  BY <1>1, Lens DEF Child
<1>2. CASE i # 0
  <2>1. i \in 1..Len(n.items)
    BY <1>2, Lens
  <2> QED
    BY <1>2, <2>1, ItemType DEF Child
<1> QED
  BY <1>1, <1>2

LEMMA InsertedOne ==
  ASSUME NEW n \in Node, NEW i \in 0..Len(n.items), NEW x \in Item
  PROVE  LET m == Inserted(n, i, <<x>>)
         IN  /\ m \in Node /\ Len(m.items) = Len(n.items) + 1 /\ m.next0 = n.next0
             /\ m.items[i + 1].key = x.key /\ Child(m, i + 1) = x.child
             /\ \A y \in 1..i : m.items[y].key = n.items[y].key
             /\ \A y \in i + 1..Len(n.items) : m.items[y + 1].key = n.items[y].key
             /\ \A y \in 0..i : Child(m, y) = Child(n, y)
             /\ \A y \in i + 1..Len(n.items) : Child(m, y + 1) = Child(n, y)
<1> DEFINE m == Inserted(n, i, <<x>>)
<1>1. Len(n.items) \in Nat /\ <<x>> \in Seq(Item) /\ Len(<<x>>) = 1 /\ <<x>>[1] = x
  BY Lens
<1>2. /\ m \in Node /\ m.next0 = n.next0 /\ Len(m.items) = Len(n.items) + 1
      /\ \A y \in 1..Len(n.items) + 1 :
           m.items[y] = IF y <= i THEN n.items[y]
                        ELSE IF y <= i + 1 THEN <<x>>[y - i] ELSE n.items[y - 1]
  BY <1>1, InsertedIs
<1> HIDE DEF m
<1>3. \A y \in 1..i : m.items[y] = n.items[y]
  BY <1>1, <1>2
<1>4. m.items[i + 1] = x
  BY <1>1, <1>2
<1>5. \A y \in i + 1..Len(n.items) : m.items[y + 1] = n.items[y]
  BY <1>1, <1>2
<1>6. \A y \in 0..i : Child(m, y) = Child(n, y)
  BY <1>1, <1>2, <1>3 DEF Child
<1>7. \A y \in i + 1..Len(n.items) : Child(m, y + 1) = Child(n, y)
  BY <1>1, <1>5 DEF Child
<1>8. Child(m, i + 1) = x.child
  BY <1>1, <1>4 DEF Child
<1> QED
  BY <1>2, <1>3, <1>4, <1>5, <1>6, <1>7, <1>8 DEF m

LEMMA DeletedOne ==
  ASSUME NEW n \in Node, NEW i \in 0..Len(n.items) - 1
  PROVE  LET m == Deleted(n, i)
         IN  /\ m \in Node /\ Len(m.items) = Len(n.items) - 1 /\ m.next0 = n.next0
             /\ \A y \in 1..i : m.items[y].key = n.items[y].key
             /\ \A y \in i + 1..Len(n.items) - 1 : m.items[y].key = n.items[y + 1].key
             /\ \A y \in 0..i : Child(m, y) = Child(n, y)
             /\ \A y \in i + 1..Len(n.items) - 1 : Child(m, y) = Child(n, y + 1)
<1> DEFINE m == Deleted(n, i)
<1>1. Len(n.items) \in Nat
  BY Lens
<1>2. /\ m \in Node /\ m.next0 = n.next0 /\ Len(m.items) = Len(n.items) - 1
      /\ \A y \in 1..Len(n.items) - 1 : m.items[y] = IF y <= i THEN n.items[y] ELSE n.items[y + 1]
  BY DeletedIs
<1> HIDE DEF m
<1>3. \A y \in 1..i : m.items[y] = n.items[y]
  BY <1>1, <1>2
<1>4. \A y \in i + 1..Len(n.items) - 1 : m.items[y] = n.items[y + 1]
  BY <1>1, <1>2
<1>5. \A y \in 0..i : Child(m, y) = Child(n, y)
  BY <1>1, <1>2, <1>3 DEF Child
<1>6. \A y \in i + 1..Len(n.items) - 1 : Child(m, y) = Child(n, y + 1)
  BY <1>1, <1>4 DEF Child
<1> QED
  BY <1>2, <1>3, <1>4, <1>5, <1>6 DEF m

LEMMA CatenatedChild ==
  ASSUME NEW n \in Node, NEW x \in Item, NEW r \in Node
  PROVE  /\ \A y \in 0..Len(n.items) : Child(Catenated(n, x, r), y) = Child(n, y)
         /\ \A y \in 0..Len(r.items) :
              Child(Catenated(n, x, r), (y + Len(n.items)) + 1) = Child(r, y)
<1> DEFINE m == Catenated(n, x, r)
           N == Len(n.items)
           R == Len(r.items)
<1>1. N \in Nat /\ R \in Nat
  BY Lens
<1>2. /\ m.next0 = n.next0 /\ \A y \in 1..N : m.items[y] = n.items[y]
      /\ m.items[N + 1].child = r.next0
      /\ \A y \in N + 2..(N + 1) + R : m.items[y] = r.items[y - (N + 1)]
  BY CatenatedIs
<1> HIDE DEF m, N, R
<1>3. ASSUME NEW y \in 0..N PROVE Child(m, y) = Child(n, y)
  BY <1>1, <1>2 DEF Child
<1>4. ASSUME NEW y \in 0..R PROVE Child(m, (y + N) + 1) = Child(r, y)
  <2>1. CASE y = 0
    BY <1>1, <1>2, <2>1 DEF Child
  <2>2. CASE y # 0
    <3>1. (y + N) + 1 \in N + 2..(N + 1) + R /\ ((y + N) + 1) - (N + 1) = y /\ (y + N) + 1 # 0
      BY <1>1, <2>2
    <3>2. m.items[(y + N) + 1] = r.items[y]
      BY <1>2, <3>1
    <3> QED
      BY <2>2, <3>1, <3>2 DEF Child
  <2> QED
    BY <2>1, <2>2
<1> QED
  BY <1>3, <1>4 DEF m, N, R

LEMMA LeftChild ==
  ASSUME NEW n \in Node, NEW e \in 0..Len(n.items)
  PROVE  \A y \in 0..e : Child(LeftOf(n, e), y) = Child(n, y)
BY LeftIs DEF Child

LEMMA RightChild ==
  ASSUME NEW n \in Node, NEW e \in 0..Len(n.items) - 1
  PROVE  \A y \in 0..(Len(n.items) - e) - 1 : Child(RightOf(n, e), y) = Child(n, (y + e) + 1)
<1> DEFINE m == RightOf(n, e)
           N == Len(n.items)
<1>1. N \in Nat /\ e \in 0..N - 1
  BY Lens
<1>2. /\ m.next0 = n.items[e + 1].child
      /\ \A y \in 1..(N - e) - 1 : m.items[y] = n.items[(y + e) + 1]
  BY RightIs
<1> HIDE DEF m, N
<1>3. ASSUME NEW y \in 0..(N - e) - 1 PROVE Child(m, y) = Child(n, (y + e) + 1)
  BY <1>1, <1>2 DEF Child
<1> QED
  BY <1>3 DEF m, N

(* An item has another key.                                                 *)
Rekeyed(n, i, k) == Inserted(Deleted(n, i - 1), i - 1, <<[key |-> k, child |-> n.items[i].child]>>)

LEMMA RekeyedIs ==
  ASSUME NEW n \in Node, NEW i \in 1..Len(n.items), NEW k \in Key
  PROVE  /\ Rekeyed(n, i, k) \in Node /\ Len(Rekeyed(n, i, k).items) = Len(n.items)
         /\ Rekeyed(n, i, k).next0 = n.next0 /\ Rekeyed(n, i, k).items[i].key = k
         /\ \A y \in 1..Len(n.items) : y # i => Rekeyed(n, i, k).items[y].key = n.items[y].key
         /\ \A y \in 0..Len(n.items) : Child(Rekeyed(n, i, k), y) = Child(n, y)
<1> DEFINE d == Deleted(n, i - 1)
           x == [key |-> k, child |-> n.items[i].child]
           m == Inserted(d, i - 1, <<x>>)
           N == Len(n.items)
<1>1. N \in Nat /\ i \in 1..N /\ i - 1 \in 0..N - 1 /\ (i - 1) + 1 = i
  BY Lens
<1>2. x \in Item /\ x.key = k /\ x.child = Child(n, i)
  BY <1>1, ItemType DEF Item, Child
<1>3. /\ d \in Node /\ Len(d.items) = N - 1 /\ d.next0 = n.next0
      /\ \A y \in 1..i - 1 : d.items[y].key = n.items[y].key
      /\ \A y \in (i - 1) + 1..N - 1 : d.items[y].key = n.items[y + 1].key
      /\ \A y \in 0..i - 1 : Child(d, y) = Child(n, y)
      /\ \A y \in (i - 1) + 1..N - 1 : Child(d, y) = Child(n, y + 1)
  BY <1>1, DeletedOne
<1> HIDE DEF x, d, N
<1>4. i - 1 \in 0..Len(d.items)
  BY <1>1, <1>3
<1>5. /\ m \in Node /\ Len(m.items) = Len(d.items) + 1 /\ m.next0 = d.next0
      /\ m.items[(i - 1) + 1].key = x.key /\ Child(m, (i - 1) + 1) = x.child
      /\ \A y \in 1..i - 1 : m.items[y].key = d.items[y].key
      /\ \A y \in (i - 1) + 1..Len(d.items) : m.items[y + 1].key = d.items[y].key
      /\ \A y \in 0..i - 1 : Child(m, y) = Child(d, y)
      /\ \A y \in (i - 1) + 1..Len(d.items) : Child(m, y + 1) = Child(d, y)
  BY <1>2, <1>3, <1>4, InsertedOne
<1> HIDE DEF m
<1>6. m \in Node /\ Len(m.items) = N /\ m.next0 = n.next0 /\ m.items[i].key = k
         /\ Child(m, i) = Child(n, i)
  BY <1>1, <1>2, <1>3, <1>5
<1>7. ASSUME NEW y \in 1..N, y # i PROVE m.items[y].key = n.items[y].key
  <2>1. CASE y < i
    BY <1>1, <1>3, <1>5, <2>1
  <2>2. CASE i < y
    <3>1. y - 1 \in (i - 1) + 1..N - 1 /\ (y - 1) + 1 = y
      BY <1>1, <2>2
    <3>2. m.items[(y - 1) + 1].key = d.items[y - 1].key /\ d.items[y - 1].key = n.items[(y - 1) + 1].key
      BY <1>3, <1>5, <3>1
    <3> QED
      BY <3>1, <3>2
  <2> QED
    BY <1>1, <1>7, <2>1, <2>2
<1>8. ASSUME NEW y \in 0..N PROVE Child(m, y) = Child(n, y)
  <2>1. CASE y < i
    BY <1>1, <1>3, <1>5, <2>1
  <2>2. CASE i < y
    <3>1. y - 1 \in (i - 1) + 1..N - 1 /\ (y - 1) + 1 = y
      BY <1>1, <2>2
    <3>2. Child(m, (y - 1) + 1) = Child(d, y - 1) /\ Child(d, y - 1) = Child(n, (y - 1) + 1)
      BY <1>3, <1>5, <3>1
    <3> QED
      BY <3>1, <3>2
  <2> QED
    BY <1>1, <1>6, <2>1, <2>2
<1> QED
  BY <1>6, <1>7, <1>8 DEF m, d, x, N, Rekeyed

-----------------------------------------------------------------------------
(* Order.                                                                   *)
Between(n, i, k) ==
  /\ \A y \in 1..i : n.items[y].key < k
  /\ \A y \in i + 1..Len(n.items) : k < n.items[y].key

LEMMA NodeKeys ==
  ASSUME NEW n, GoodNode(n)
  PROVE  /\ n \in Node /\ Len(n.items) \in Nat
         /\ \A y \in 1..Len(n.items) : n.items[y].key \in Key /\ n.items[y].key \in Nat \ {0}
         /\ \A y, z \in 1..Len(n.items) : y < z => n.items[y].key < n.items[z].key
         /\ KeysIn(n) \subseteq Key
<1>1. n \in Node /\ Len(n.items) \in Nat
  BY Lens DEF GoodNode
<1>2. \A y \in 1..Len(n.items) : n.items[y].key \in Key /\ n.items[y].key \in Nat \ {0}
  BY <1>1, ItemType
<1> QED
  BY <1>1, <1>2 DEF GoodNode, InOrder, KeysIn

LEMMA GapIs ==
  ASSUME NEW n, GoodNode(n), NEW i \in 0..Len(n.items), NEW k \in Nat
  PROVE  InGap(n, i, k) <=> Between(n, i, k)
<1> DEFINE N == Len(n.items)
           K(y) == n.items[y].key
<1>1. N \in Nat /\ (\A y \in 1..N : K(y) \in Nat) /\ (\A y, z \in 1..N : y < z => K(y) < K(z))
  BY NodeKeys
<1>2. ASSUME InGap(n, i, k) PROVE Between(n, i, k)
  <2>1. (i > 0 => K(i) < k) /\ (i < N => k < K(i + 1))
    BY <1>2 DEF InGap
  <2>2. ASSUME NEW y \in 1..i PROVE K(y) < k
    <3> HIDE DEF K, N
    <3>1. i > 0 /\ i \in 1..N /\ y \in 1..N /\ (y = i \/ y < i) /\ y \in Nat
      BY <1>1 DEF N
    <3> QED
      BY <1>1, <2>1, <3>1
  <2>3. ASSUME NEW y \in i + 1..N PROVE k < K(y)
    <3> HIDE DEF K
    <3>1. i < N /\ i + 1 \in 1..N /\ y \in 1..N /\ (y = i + 1 \/ i + 1 < y)
      BY <1>1
    <3> HIDE DEF N
    <3> QED
      BY <1>1, <2>1, <3>1
  <2> QED
    BY <2>2, <2>3 DEF Between
<1>3. ASSUME Between(n, i, k) PROVE InGap(n, i, k)
  <2>1. (i > 0 => i \in 1..i) /\ (i < N => i + 1 \in i + 1..N)
    BY <1>1
  <2> QED
    BY <1>3, <2>1 DEF Between, InGap
<1> QED
  BY <1>2, <1>3

LEMMA OneGap ==
  ASSUME NEW n, GoodNode(n), NEW i \in 0..Len(n.items), NEW j \in 0..Len(n.items), NEW k \in Nat,
         InGap(n, i, k)
  PROVE  k \notin KeysIn(n) /\ (InGap(n, j, k) => i = j)
<1> DEFINE N == Len(n.items)
           K(y) == n.items[y].key
<1>1. N \in Nat /\ (\A y \in 1..N : K(y) \in Nat)
  BY NodeKeys
<1>2. (\A y \in 1..i : K(y) < k) /\ (\A y \in i + 1..N : k < K(y))
  BY GapIs DEF Between
<1>3. InGap(n, j, k) => (\A y \in 1..j : K(y) < k) /\ (\A y \in j + 1..N : k < K(y))
  BY GapIs DEF Between
<1>4. ASSUME NEW y \in 1..N PROVE K(y) # k
  <2> HIDE DEF K
  <2>1. y \in 1..i \/ y \in i + 1..N
    BY <1>1
  <2> HIDE DEF N
  <2> QED
    BY <1>1, <1>2, <2>1
<1>5. k \notin KeysIn(n)
  BY <1>4 DEF KeysIn
<1>6. ASSUME InGap(n, j, k) PROVE i = j
  <2> HIDE DEF K
  <2>1. i < j => i + 1 \in 1..j /\ i + 1 \in i + 1..N /\ i + 1 \in 1..N
    BY <1>1
  <2>2. j < i => j + 1 \in 1..i /\ j + 1 \in j + 1..N /\ j + 1 \in 1..N
    BY <1>1
  <2>3. ~(i < j)
    BY <1>1, <1>2, <1>3, <1>6, <2>1
  <2>4. ~(j < i)
    BY <1>1, <1>2, <1>3, <1>6, <2>2
  <2> QED
    BY <2>3, <2>4, <1>1
<1> QED
  BY <1>5, <1>6

LEMMA BeforeIs ==
  ASSUME NEW n, GoodNode(n), NEW k \in Nat
  PROVE  /\ Before(n, k) \in 0..Len(n.items)
         /\ Found(n, k) => /\ Before(n, k) < Len(n.items)
                           /\ n.items[Before(n, k) + 1].key = k
         /\ ~Found(n, k) => InGap(n, Before(n, k), k)
         /\ \A y \in 1..Before(n, k) : n.items[y].key < k
<1> DEFINE N == Len(n.items)
           K(y) == n.items[y].key
           P(i) == (\A j \in 1..i : K(j) < k) /\ (i < N => K(i + 1) >= k)
           B == Before(n, k)
           S == {i \in 0..N : i < N => K(i + 1) >= k}
<1>1. N \in Nat /\ (\A y \in 1..N : K(y) \in Nat) /\ (\A y, z \in 1..N : y < z => K(y) < K(z))
  BY NodeKeys
<1>2. S \in SUBSET Nat /\ N \in S
  BY <1>1
<1>3. PICK i \in S : \A y \in S : i <= y
  <2> HIDE DEF S
  <2> QED
    BY <1>2, MinIn
<1>4. i \in 0..N /\ P(i)
  <2>1. ASSUME NEW j \in 1..i PROVE K(j) < k
    <3> HIDE DEF K
    <3>1. j - 1 \in 0..N /\ ~(i <= j - 1) /\ (j - 1) + 1 = j /\ j \in 1..N
      BY <1>1, <1>3
    <3>2. ~(K(j) >= k)
      BY <1>3, <3>1
    <3> QED
      BY <1>1, <3>1, <3>2
  <2> QED
    BY <1>3, <2>1
<1>5. B = CHOOSE b \in 0..N : P(b)
  BY DEF Before
<1>6. B \in 0..N /\ P(B)
  <2> HIDE DEF P, N, B
  <2> QED
    BY <1>4, <1>5
<1>7. ASSUME Found(n, k) PROVE B < N /\ K(B + 1) = k
  <2>1. PICK y \in 1..N : K(y) = k
    BY <1>7 DEF Found, KeysIn
  <2> HIDE DEF B, K
  <2>2. ~(y \in 1..B)
    BY <1>1, <1>6, <2>1
  <2>3. B < N /\ B + 1 \in 1..N /\ (B + 1 = y \/ B + 1 < y)
    BY <1>1, <1>6, <2>1, <2>2
  <2> HIDE DEF N
  <2>4. ~(B + 1 < y)
    BY <1>1, <1>6, <2>1, <2>3
  <2> QED
    BY <2>1, <2>3, <2>4
<1>8. ASSUME ~Found(n, k) PROVE InGap(n, B, k)
  <2>1. \A y \in 1..N : K(y) # k
    BY <1>8 DEF Found, KeysIn
  <2>2. B > 0 => B \in 1..B
    BY <1>1, <1>6
  <2>3. B < N => B + 1 \in 1..N
    BY <1>1, <1>6
  <2>4. (B > 0 => K(B) < k) /\ (B < N => k < K(B + 1))
    <3> HIDE DEF B, K, N
    <3> QED
      BY <1>1, <1>6, <2>1, <2>2, <2>3
  <2> QED
    BY <2>4 DEF InGap
<1> QED
  BY <1>6, <1>7, <1>8

LEMMA GoodByKeys ==
  ASSUME NEW n \in Node,
         \A y, z \in 1..Len(n.items) : y < z => n.items[y].key < n.items[z].key
  PROVE  GoodNode(n)
BY DEF GoodNode, InOrder

LEMMA OrderInserted ==
  ASSUME NEW n, GoodNode(n), NEW i \in 0..Len(n.items), NEW x \in Item, InGap(n, i, x.key)
  PROVE  GoodNode(Inserted(n, i, <<x>>)) /\ KeysIn(Inserted(n, i, <<x>>)) = KeysIn(n) \cup {x.key}
<1> DEFINE N == Len(n.items)
           m == Inserted(n, i, <<x>>)
           K(y) == n.items[y].key
           M(y) == m.items[y].key
           k == x.key
<1>1. /\ N \in Nat /\ (\A y \in 1..N : K(y) \in Nat) /\ (\A y, z \in 1..N : y < z => K(y) < K(z))
      /\ k \in Nat /\ i \in 0..N
  BY NodeKeys, SizeAssumption DEF Item
<1>2. n \in Node
  BY DEF GoodNode
<1>3. /\ m \in Node /\ Len(m.items) = N + 1 /\ M(i + 1) = k
      /\ \A y \in 1..i : M(y) = K(y)
      /\ \A y \in i + 1..N : M(y + 1) = K(y)
  BY <1>2, InsertedOne
<1>4. (\A y \in 1..i : K(y) < k) /\ (\A y \in i + 1..N : k < K(y))
  BY <1>1, GapIs DEF Between
<1>5. ASSUME NEW y \in 1..N + 1, NEW z \in 1..N + 1, y < z PROVE M(y) < M(z)
  <2> HIDE DEF N, M, K, k, m
  <2>1. CASE z <= i
    BY <1>1, <1>3, <1>5, <2>1
  <2>2. CASE z = i + 1
    BY <1>1, <1>3, <1>4, <1>5, <2>2
  <2>3. CASE i + 1 < z
    <3>1. z - 1 \in i + 1..N /\ (z - 1) + 1 = z /\ z - 1 \in 1..N
      BY <1>1, <2>3
    <3>2. M(z) = K(z - 1) /\ k < K(z - 1)
      BY <1>3, <1>4, <3>1
    <3>3. CASE y <= i
      BY <1>1, <1>3, <1>5, <3>1, <3>2, <3>3
    <3>4. CASE y = i + 1
      BY <1>3, <3>2, <3>4
    <3>5. CASE i + 1 < y
      <4>1. y - 1 \in i + 1..N /\ (y - 1) + 1 = y /\ y - 1 \in 1..N /\ y - 1 < z - 1
        BY <1>1, <1>5, <3>5
      <4>2. M(y) = K(y - 1)
        BY <1>3, <4>1
      <4> QED
        BY <1>1, <3>1, <3>2, <4>1, <4>2
    <3> QED
      BY <1>1, <3>3, <3>4, <3>5
  <2> QED
    BY <1>1, <2>1, <2>2, <2>3
<1>6. ASSUME NEW y \in 1..N + 1 PROVE M(y) \in KeysIn(n) \cup {k}
  <2>1. CASE y <= i
    <3>1. y \in 1..i /\ y \in 1..N
      BY <1>1, <2>1
    <3> QED
      BY <1>3, <3>1 DEF KeysIn
  <2>2. CASE y = i + 1
    BY <1>3, <2>2
  <2>3. CASE i + 1 < y
    <3>1. y - 1 \in i + 1..N /\ (y - 1) + 1 = y /\ y - 1 \in 1..N
      BY <1>1, <2>3
    <3>2. M(y) = K(y - 1)
      BY <1>3, <3>1
    <3> QED
      BY <3>1, <3>2 DEF KeysIn
  <2> QED
    BY <1>1, <2>1, <2>2, <2>3
<1>7. ASSUME NEW y \in 1..N PROVE K(y) \in KeysIn(m)
  <2>1. CASE y <= i
    <3>1. y \in 1..i /\ y \in 1..N + 1
      BY <1>1, <2>1
    <3> QED
      BY <1>3, <3>1 DEF KeysIn
  <2>2. CASE ~(y <= i)
    <3>1. y \in i + 1..N /\ y + 1 \in 1..N + 1
      BY <1>1, <2>2
    <3> QED
      BY <1>3, <3>1 DEF KeysIn
  <2> QED
    BY <2>1, <2>2
<1>8. k \in KeysIn(m)
  <2>1. i + 1 \in 1..N + 1
    BY <1>1
  <2> QED
    BY <1>3, <2>1 DEF KeysIn
<1>9. KeysIn(m) = KeysIn(n) \cup {k}
  <2>1. KeysIn(m) = {M(y) : y \in 1..N + 1} /\ KeysIn(n) = {K(y) : y \in 1..N}
    BY <1>3 DEF KeysIn
  <2> HIDE DEF N, M, K, k, m
  <2> QED
    BY <1>6, <1>7, <1>8, <2>1
<1>10. GoodNode(m)
  <2> HIDE DEF N, m, K
  <2> QED
    BY <1>3, <1>5, GoodByKeys
<1> QED
  BY <1>9, <1>10

LEMMA OrderDeleted ==
  ASSUME NEW n, GoodNode(n), NEW i \in 0..Len(n.items) - 1
  PROVE  /\ GoodNode(Deleted(n, i))
         /\ KeysIn(Deleted(n, i)) = KeysIn(n) \ {n.items[i + 1].key}
<1> DEFINE N == Len(n.items)
           m == Deleted(n, i)
           K(y) == n.items[y].key
           M(y) == m.items[y].key
<1>1. /\ N \in Nat /\ (\A y \in 1..N : K(y) \in Nat) /\ (\A y, z \in 1..N : y < z => K(y) < K(z))
      /\ i \in 0..N - 1
  BY NodeKeys
<1>2. n \in Node
  BY DEF GoodNode
<1>3. /\ m \in Node /\ Len(m.items) = N - 1
      /\ \A y \in 1..i : M(y) = K(y)
      /\ \A y \in i + 1..N - 1 : M(y) = K(y + 1)
  BY <1>2, DeletedOne
<1>4. ASSUME NEW y \in 1..N - 1
      PROVE  \/ y <= i /\ y \in 1..N /\ M(y) = K(y)
             \/ i < y /\ y + 1 \in 1..N /\ M(y) = K(y + 1)
  <2>1. (y <= i /\ y \in 1..i /\ y \in 1..N) \/ (i < y /\ y \in i + 1..N - 1 /\ y + 1 \in 1..N)
    BY <1>1
  <2> QED
    BY <1>3, <2>1
<1>5. ASSUME NEW y \in 1..N - 1, NEW z \in 1..N - 1, y < z PROVE M(y) < M(z)
  <2> HIDE DEF N, M, K, m
  <2> QED
    BY <1>1, <1>4, <1>5
<1>6. ASSUME NEW y \in 1..N - 1 PROVE M(y) \in KeysIn(n) \ {K(i + 1)}
  <2>1. M(y) \in KeysIn(n)
    BY <1>4 DEF KeysIn
  <2>2. M(y) # K(i + 1)
    <3> HIDE DEF N, M, K, m
    <3>1. i + 1 \in 1..N
      BY <1>1
    <3>2. CASE y <= i
      <4>1. y < i + 1 /\ y \in 1..N /\ M(y) = K(y)
        BY <1>1, <1>4, <3>2
      <4>2. K(y) < K(i + 1) /\ K(y) \in Nat /\ K(i + 1) \in Nat
        BY <1>1, <3>1, <4>1
      <4> QED
        BY <4>1, <4>2
    <3>3. CASE ~(y <= i)
      <4>1. i + 1 < y + 1 /\ y + 1 \in 1..N /\ M(y) = K(y + 1)
        BY <1>1, <1>4, <3>3
      <4>2. K(i + 1) < K(y + 1) /\ K(y + 1) \in Nat /\ K(i + 1) \in Nat
        BY <1>1, <3>1, <4>1
      <4> QED
        BY <4>1, <4>2
    <3> QED
      BY <3>2, <3>3
  <2> QED
    BY <2>1, <2>2
<1>7. ASSUME NEW y \in 1..N, y # i + 1 PROVE K(y) \in KeysIn(m)
  <2>1. CASE y <= i
    <3>1. y \in 1..i /\ y \in 1..N - 1
      BY <1>1, <2>1
    <3> QED
      BY <1>3, <3>1 DEF KeysIn
  <2>2. CASE ~(y <= i)
    <3>1. y - 1 \in i + 1..N - 1 /\ y - 1 \in 1..N - 1 /\ (y - 1) + 1 = y
      BY <1>1, <1>7, <2>2
    <3>2. M(y - 1) = K((y - 1) + 1)
      BY <1>3, <3>1
    <3> QED
      BY <1>3, <3>1, <3>2 DEF KeysIn
  <2> QED
    BY <2>1, <2>2
<1>8. KeysIn(m) = KeysIn(n) \ {K(i + 1)}
  <2>1. KeysIn(m) = {M(y) : y \in 1..N - 1} /\ KeysIn(n) = {K(y) : y \in 1..N}
    BY <1>3 DEF KeysIn
  <2> HIDE DEF N, M, K, m
  <2> QED
    BY <1>6, <1>7, <2>1
<1>9. GoodNode(m)
  <2> HIDE DEF N, m, K
  <2> QED
    BY <1>3, <1>5, GoodByKeys
<1> QED
  BY <1>8, <1>9

LEMMA OrderCatenated ==
  ASSUME NEW n, GoodNode(n), NEW r, GoodNode(r), NEW x \in Item,
         \A k \in KeysIn(n) : k < x.key, \A k \in KeysIn(r) : x.key < k
  PROVE  /\ GoodNode(Catenated(n, x, r))
         /\ KeysIn(Catenated(n, x, r)) = KeysIn(n) \cup {x.key} \cup KeysIn(r)
<1> DEFINE N == Len(n.items)
           R == Len(r.items)
           m == Catenated(n, x, r)
           K(y) == n.items[y].key
           Z(y) == r.items[y].key
           M(y) == m.items[y].key
           k == x.key
<1>1. /\ N \in Nat /\ (\A y \in 1..N : K(y) \in Nat) /\ (\A y, z \in 1..N : y < z => K(y) < K(z))
      /\ R \in Nat /\ (\A y \in 1..R : Z(y) \in Nat) /\ (\A y, z \in 1..R : y < z => Z(y) < Z(z))
      /\ k \in Nat
  BY NodeKeys, SizeAssumption DEF Item
<1>2. n \in Node /\ r \in Node
  BY DEF GoodNode
<1>3. /\ m \in Node /\ Len(m.items) = (N + 1) + R /\ M(N + 1) = k
      /\ \A y \in 1..N : M(y) = K(y)
      /\ \A y \in N + 2..(N + 1) + R : M(y) = Z(y - (N + 1))
  <2>1. /\ m \in Node /\ Len(m.items) = (N + 1) + R
        /\ \A y \in 1..N : m.items[y] = n.items[y]
        /\ m.items[N + 1].key = k
        /\ \A y \in N + 2..(N + 1) + R : m.items[y] = r.items[y - (N + 1)]
    BY <1>2, CatenatedIs
  <2> HIDE DEF m, N, R, k
  <2> QED
    BY <2>1
<1>4. (\A y \in 1..N : K(y) < k) /\ (\A y \in 1..R : k < Z(y))
  BY DEF KeysIn
<1>5. ASSUME NEW y \in 1..(N + 1) + R
      PROVE  \/ y \in 1..N /\ M(y) = K(y)
             \/ y = N + 1 /\ M(y) = k
             \/ N + 1 < y /\ y - (N + 1) \in 1..R /\ M(y) = Z(y - (N + 1))
  <2>1. y \in 1..N \/ y = N + 1 \/ (y \in N + 2..(N + 1) + R /\ N + 1 < y /\ y - (N + 1) \in 1..R)
    <3> HIDE DEF N, R
    <3> QED
      BY <1>1
  <2> QED
    BY <1>3, <2>1
<1>6. ASSUME NEW y \in 1..(N + 1) + R, NEW z \in 1..(N + 1) + R, y < z PROVE M(y) < M(z)
  <2> HIDE DEF N, R, M, K, Z, k, m
  <2>1. CASE z \in 1..N
    <3>1. y \in 1..N /\ ~(y = N + 1) /\ ~(N + 1 < y) /\ ~(z = N + 1) /\ ~(N + 1 < z)
      BY <1>1, <1>6, <2>1
    <3> QED
      BY <1>1, <1>5, <1>6, <2>1, <3>1
  <2>2. CASE z = N + 1
    <3>1. y \in 1..N
      BY <1>1, <1>6, <2>2
    <3> QED
      BY <1>3, <1>4, <2>2, <3>1
  <2>3. CASE N + 1 < z
    <3>1. z - (N + 1) \in 1..R /\ M(z) = Z(z - (N + 1)) /\ k < Z(z - (N + 1)) /\ Z(z - (N + 1)) \in Nat
      <4>1. ~(z \in 1..N) /\ ~(z = N + 1)
        BY <1>1, <2>3
      <4> QED
        BY <1>1, <1>4, <1>5, <4>1
    <3>2. CASE y \in 1..N
      BY <1>1, <1>3, <1>4, <3>1, <3>2
    <3>3. CASE y = N + 1
      BY <1>3, <3>1, <3>3
    <3>4. CASE N + 1 < y
      <4>1. ~(y \in 1..N) /\ ~(y = N + 1) /\ y - (N + 1) < z - (N + 1)
        BY <1>1, <1>6, <3>4
      <4> QED
        BY <1>1, <1>5, <3>1, <4>1
    <3> QED
      BY <1>5, <3>2, <3>3, <3>4
  <2> QED
    BY <1>5, <2>1, <2>2, <2>3
<1>7. KeysIn(m) = {M(y) : y \in 1..(N + 1) + R} /\ KeysIn(n) = {K(y) : y \in 1..N}
         /\ KeysIn(r) = {Z(y) : y \in 1..R}
  BY <1>3 DEF KeysIn
<1>8. ASSUME NEW y \in 1..(N + 1) + R PROVE M(y) \in KeysIn(n) \cup {k} \cup KeysIn(r)
  <2> HIDE DEF N, R, M, K, Z, k, m
  <2> QED
    BY <1>5, <1>7
<1>9. KeysIn(n) \cup {k} \cup KeysIn(r) \subseteq KeysIn(m)
  <2> HIDE DEF N, R, M, K, Z, k, m
  <2>1. ASSUME NEW y \in 1..N PROVE K(y) \in KeysIn(m)
    <3>1. y \in 1..(N + 1) + R
      BY <1>1
    <3> QED
      BY <1>3, <1>7, <3>1
  <2>2. k \in KeysIn(m)
    <3>1. N + 1 \in 1..(N + 1) + R
      BY <1>1
    <3> QED
      BY <1>3, <1>7, <3>1
  <2>3. ASSUME NEW y \in 1..R PROVE Z(y) \in KeysIn(m)
    <3>1. y + (N + 1) \in N + 2..(N + 1) + R /\ y + (N + 1) \in 1..(N + 1) + R /\ (y + (N + 1)) - (N + 1) = y
      BY <1>1
    <3>2. M(y + (N + 1)) = Z(y)
      BY <1>3, <3>1
    <3> QED
      BY <1>7, <3>1, <3>2
  <2> QED
    BY <1>7, <2>1, <2>2, <2>3
<1>10. KeysIn(m) = KeysIn(n) \cup {k} \cup KeysIn(r)
  <2> HIDE DEF N, R, M, K, Z, k, m
  <2> QED
    BY <1>7, <1>8, <1>9
<1>11. GoodNode(m)
  <2> HIDE DEF N, m, K, Z, R
  <2> QED
    BY <1>3, <1>6, GoodByKeys
<1> QED
  BY <1>10, <1>11

LEMMA OrderHalves ==
  ASSUME NEW n, GoodNode(n), NEW e \in 0..Len(n.items) - 1
  PROVE  /\ GoodNode(LeftOf(n, e)) /\ GoodNode(RightOf(n, e))
         /\ KeysIn(n) = KeysIn(LeftOf(n, e)) \cup {n.items[e + 1].key} \cup KeysIn(RightOf(n, e))
         /\ \A k \in KeysIn(LeftOf(n, e)) : k < n.items[e + 1].key
         /\ \A k \in KeysIn(RightOf(n, e)) : n.items[e + 1].key < k
<1> DEFINE N == Len(n.items)
           l == LeftOf(n, e)
           r == RightOf(n, e)
           K(y) == n.items[y].key
           L(y) == l.items[y].key
           R(y) == r.items[y].key
<1>1. /\ N \in Nat /\ (\A y \in 1..N : K(y) \in Nat) /\ (\A y, z \in 1..N : y < z => K(y) < K(z))
      /\ e \in 0..N - 1
  BY NodeKeys
<1>2. n \in Node /\ e \in 0..N
  BY <1>1 DEF GoodNode
<1>3. l \in Node /\ Len(l.items) = e /\ \A y \in 1..e : L(y) = K(y)
  BY <1>2, LeftIs
<1>4. r \in Node /\ Len(r.items) = (N - e) - 1 /\ \A y \in 1..(N - e) - 1 : R(y) = K((y + e) + 1)
  BY <1>2, RightIs
<1>5. \A y \in 1..(N - e) - 1 : (y + e) + 1 \in 1..N /\ e + 1 < (y + e) + 1
  <2> HIDE DEF N
  <2> QED
    BY <1>1
<1>6. \A y \in 1..e : y \in 1..N /\ y < e + 1
  <2> HIDE DEF N
  <2> QED
    BY <1>1
<1>7. e + 1 \in 1..N
  <2> HIDE DEF N
  <2> QED
    BY <1>1
<1>8. GoodNode(l)
  <2> HIDE DEF N, l, K
  <2>1. \A y, z \in 1..e : y < z => L(y) < L(z)
    <3> HIDE DEF L
    <3> QED
      BY <1>1, <1>3, <1>6
  <2> QED
    BY <1>3, <2>1, GoodByKeys
<1>9. GoodNode(r)
  <2> HIDE DEF N, r, K
  <2>1. ASSUME NEW y \in 1..(N - e) - 1, NEW z \in 1..(N - e) - 1, y < z PROVE R(y) < R(z)
    <3> HIDE DEF R
    <3>1. (y + e) + 1 < (z + e) + 1
      BY <1>1, <2>1
    <3> QED
      BY <1>1, <1>4, <1>5, <3>1
  <2> QED
    BY <1>4, <2>1, GoodByKeys
<1>10. KeysIn(n) = {K(y) : y \in 1..N} /\ KeysIn(l) = {L(y) : y \in 1..e}
          /\ KeysIn(r) = {R(y) : y \in 1..(N - e) - 1}
  BY <1>3, <1>4 DEF KeysIn
<1>11. \A k \in KeysIn(l) : k < K(e + 1)
  <2> HIDE DEF N, l, r, K, L, R
  <2> QED
    BY <1>1, <1>3, <1>6, <1>7, <1>10
<1>12. \A k \in KeysIn(r) : K(e + 1) < k
  <2> HIDE DEF N, l, r, K, L, R
  <2> QED
    BY <1>1, <1>4, <1>5, <1>7, <1>10
<1>13. KeysIn(l) \cup {K(e + 1)} \cup KeysIn(r) \subseteq KeysIn(n)
  <2> HIDE DEF N, l, r, K, L, R
  <2> QED
    BY <1>3, <1>4, <1>5, <1>6, <1>7, <1>10
<1>14. ASSUME NEW y \in 1..N PROVE K(y) \in KeysIn(l) \cup {K(e + 1)} \cup KeysIn(r)
  <2> HIDE DEF N, l, r, K, L, R
  <2>1. y \in 1..e \/ y = e + 1 \/ (y - (e + 1) \in 1..(N - e) - 1 /\ ((y - (e + 1)) + e) + 1 = y)
    BY <1>1
  <2>2. ASSUME y - (e + 1) \in 1..(N - e) - 1, ((y - (e + 1)) + e) + 1 = y
        PROVE  K(y) \in KeysIn(r)
    <3>1. R(y - (e + 1)) = K(y)
      BY <1>4, <2>2
    <3> QED
      BY <1>10, <2>2, <3>1
  <2> QED
    BY <1>3, <1>10, <2>1, <2>2
<1>15. KeysIn(n) = KeysIn(l) \cup {K(e + 1)} \cup KeysIn(r)
  <2> HIDE DEF N, l, r, K, L, R
  <2> QED
    BY <1>10, <1>13, <1>14
<1> QED
  BY <1>8, <1>9, <1>11, <1>12, <1>15

LEMMA OrderRekeyed ==
  ASSUME NEW n, GoodNode(n), NEW i \in 1..Len(n.items), NEW k \in Key,
         \A y \in 1..i - 1 : n.items[y].key < k, \A y \in i + 1..Len(n.items) : k < n.items[y].key
  PROVE  /\ GoodNode(Rekeyed(n, i, k))
         /\ KeysIn(Rekeyed(n, i, k)) = (KeysIn(n) \ {n.items[i].key}) \cup {k}
<1> DEFINE N == Len(n.items)
           m == Rekeyed(n, i, k)
           K(y) == n.items[y].key
           M(y) == m.items[y].key
<1>1. /\ N \in Nat /\ (\A y \in 1..N : K(y) \in Nat) /\ (\A y, z \in 1..N : y < z => K(y) < K(z))
      /\ k \in Nat /\ i \in 1..N
  BY NodeKeys, SizeAssumption
<1>2. n \in Node
  BY DEF GoodNode
<1>3. m \in Node /\ Len(m.items) = N /\ M(i) = k /\ \A y \in 1..N : y # i => M(y) = K(y)
  BY <1>2, RekeyedIs
<1>4. (\A y \in 1..N : y < i => K(y) < k) /\ (\A y \in 1..N : i < y => k < K(y))
  <2>1. \A y \in 1..N : (y < i => y \in 1..i - 1) /\ (i < y => y \in i + 1..N)
    BY <1>1
  <2> QED
    BY <2>1
<1>5. KeysIn(m) = {M(y) : y \in 1..N} /\ KeysIn(n) = {K(y) : y \in 1..N}
  BY <1>3 DEF KeysIn
<1>6. ASSUME NEW y \in 1..N, NEW z \in 1..N, y < z PROVE M(y) < M(z)
  <2> HIDE DEF N, M, K, m
  <2> QED
    BY <1>1, <1>3, <1>4, <1>6
<1>7. GoodNode(m)
  <2> HIDE DEF N, m, K
  <2> QED
    BY <1>3, <1>6, GoodByKeys
<1>8. \A y \in 1..N : y # i => K(y) # K(i)
  <2> HIDE DEF N, M, K, m
  <2> QED
    BY <1>1
<1>9. KeysIn(m) = (KeysIn(n) \ {K(i)}) \cup {k}
  <2> HIDE DEF N, M, K, m
  <2> QED
    BY <1>1, <1>3, <1>5, <1>8
<1> QED
  BY <1>7, <1>9

-----------------------------------------------------------------------------
(* Bytes.                                                                   *)
LEMMA KeyBytes ==
  ASSUME NEW k \in Key
  PROVE  Link \in Nat /\ MaxItem \in Nat /\ Capacity \in Nat /\ First[k] \in Nat
         /\ Link + 1 <= First[k] /\ First[k] <= MaxItem /\ Link < MaxItem
<1>1. First[k] \in Link + 1..MaxItem /\ Link \in Nat /\ MaxItem \in Nat /\ Capacity \in Nat
  BY SizeAssumption
<1> QED
  BY <1>1

LEMMA SameSize ==
  ASSUME NEW n, NEW m, LinkOf(m) = LinkOf(n),
         NEW i \in Nat, NEW j \in Nat, (i = 1) <=> (j = 1),
         m.items[j].key = n.items[i].key, i # 1 => m.items[j - 1].key = n.items[i - 1].key
  PROVE  ItemSize(m, j) = ItemSize(n, i)
<1>1. CASE i = 1
  BY <1>1 DEF ItemSize
<1>2. CASE i # 1
  BY <1>2 DEF ItemSize
<1> QED
  BY <1>1, <1>2

(* p items behind the first a items are replaced by q.                      *)
SameKeys(n, m, a, p, q) ==
  /\ GoodNode(n) /\ GoodNode(m) /\ LinkOf(m) = LinkOf(n)
  /\ a \in Nat /\ p \in Nat /\ q \in Nat /\ a + p <= Len(n.items)
  /\ Len(m.items) = (Len(n.items) - p) + q
  /\ \A y \in 1..a : m.items[y].key = n.items[y].key
  /\ \A y \in (a + p) + 1..Len(n.items) : m.items[(y - p) + q].key = n.items[y].key

LEMMA HeadBytes ==
  ASSUME NEW n, NEW m, NEW a, NEW p, NEW q, SameKeys(n, m, a, p, q)
  PROVE  Offset(m, a) = Offset(n, a) /\ Offset(n, a) \in Nat /\ Offset(n, a) <= Bytes(n)
<1> DEFINE N == Len(n.items)
           M == Len(m.items)
<1>1. /\ GoodNode(n) /\ GoodNode(m) /\ LinkOf(m) = LinkOf(n) /\ N \in Nat /\ M = (N - p) + q
      /\ a \in Nat /\ p \in Nat /\ q \in Nat /\ a + p <= N
      /\ \A y \in 1..a : m.items[y].key = n.items[y].key
  BY NodeKeys DEF SameKeys
<1>2. a \in 0..N /\ a \in 0..a /\ a <= M /\ a + 0 = a /\ N \in a..N
  <2> HIDE DEF N, M
  <2> QED
    BY <1>1
<1>3. ASSUME NEW j \in 0 + 1..a PROVE ItemSize(m, j + 0) = ItemSize(n, j)
  <2>1. j \in 1..a /\ j + 0 = j /\ j \in Nat /\ (j # 1 => j - 1 \in 1..a)
    BY <1>1
  <2>2. /\ LinkOf(m) = LinkOf(n) /\ m.items[j].key = n.items[j].key
        /\ j # 1 => m.items[j - 1].key = n.items[j - 1].key
    BY <1>1, <2>1
  <2>3. ItemSize(m, j) = ItemSize(n, j)
    BY ONLY <2>1, <2>2, SameSize
  <2> QED
    BY ONLY <2>1, <2>3
<1>4. Offset(m, a + 0) - Offset(m, 0 + 0) = Offset(n, a) - Offset(n, 0)
  <2>1. 0 \in 0..N /\ a \in 0..N /\ 0 + 0 >= 0 /\ a + 0 <= M /\ 0 \in Int
    BY <1>1, <1>2
  <2> QED
    BY <1>1, <1>3, <2>1, OffsetsShift
<1>5. Offset(m, 0) = Offset(n, 0) /\ Offset(n, 0) \in Nat /\ Offset(n, a) \in Nat
        /\ Offset(m, a) \in Nat
  <2>1. 0 \in 0..N /\ a \in 0..N /\ a \in 0..M
    BY <1>1, <1>2
  <2> QED
    BY <1>1, <2>1, Offsets
<1>6. Offset(n, a) <= Offset(n, N)
  BY <1>1, <1>2, OffsetsGrow
<1> QED
  BY <1>2, <1>4, <1>5, <1>6 DEF Bytes

LEMMA TailBytes ==
  ASSUME NEW n, NEW m, NEW a, NEW p, NEW q, SameKeys(n, m, a, p, q), a + p < Len(n.items)
  PROVE  /\ Offset(m, (a + q) + 1) \in Nat /\ Offset(n, (a + p) + 1) \in Nat
         /\ Bytes(m) \in Nat /\ Bytes(n) \in Nat
         /\ Bytes(m) - Offset(m, (a + q) + 1) = Bytes(n) - Offset(n, (a + p) + 1)
<1> DEFINE N == Len(n.items)
           M == Len(m.items)
           d == q - p
           b == (a + p) + 1
<1>1. /\ GoodNode(n) /\ GoodNode(m) /\ LinkOf(m) = LinkOf(n) /\ N \in Nat /\ M = (N - p) + q
      /\ a \in Nat /\ p \in Nat /\ q \in Nat /\ a + p <= N /\ a + p < N
      /\ \A y \in b..N : m.items[(y - p) + q].key = n.items[y].key
  BY NodeKeys DEF SameKeys
<1>2. d \in Int /\ b \in 0..N /\ N \in b..N /\ b + d = (a + q) + 1 /\ N + d = M /\ b + d >= 0 /\ N + d <= M
         /\ b + d \in 0..M /\ N \in 0..N /\ M \in 0..M
  <2> HIDE DEF N, M
  <2> QED
    BY <1>1
<1>3. ASSUME NEW j \in b + 1..N PROVE ItemSize(m, j + d) = ItemSize(n, j)
  <2>1. j \in b..N /\ j - 1 \in b..N /\ (j - p) + q = j + d /\ ((j - 1) - p) + q = (j + d) - 1
           /\ j # 1 /\ j + d # 1 /\ j \in Nat /\ j + d \in Nat
    <3> HIDE DEF N, M
    <3> QED
      BY <1>1
  <2>2. m.items[j + d].key = n.items[j].key /\ m.items[(j + d) - 1].key = n.items[j - 1].key
    BY <1>1, <2>1
  <2> DEFINE jd == j + d
  <2>3. jd \in Nat /\ ((j = 1) <=> (jd = 1)) /\ m.items[jd].key = n.items[j].key
           /\ (j # 1 => m.items[jd - 1].key = n.items[j - 1].key)
    BY <2>1, <2>2
  <2> HIDE DEF jd
  <2>4. ItemSize(m, jd) = ItemSize(n, j)
    BY <1>1, <2>1, <2>3, SameSize
  <2> QED
    BY <2>4 DEF jd
<1>4. Offset(m, N + d) - Offset(m, b + d) = Offset(n, N) - Offset(n, b)
  <2> HIDE DEF d, b
  <2> QED
    BY <1>1, <1>2, <1>3, OffsetsShift
<1>5. Offset(m, M) \in Nat /\ Offset(m, b + d) \in Nat /\ Offset(n, N) \in Nat /\ Offset(n, b) \in Nat
  <2> HIDE DEF d, b
  <2> QED
    BY <1>1, <1>2, Offsets
<1> HIDE DEF d
<1> QED
  BY <1>2, <1>4, <1>5 DEF Bytes

LEMMA ItemStep ==
  ASSUME NEW n, GoodNode(n), NEW i \in 0..Len(n.items) - 1
  PROVE  /\ Offset(n, i) \in Nat /\ Offset(n, i + 1) \in Nat /\ LinkOf(n) \in {0, Link}
         /\ Link \in Nat /\ MaxItem \in Nat /\ Capacity \in Nat
         /\ Offset(n, i + 1) <= Offset(n, i) + MaxItem + LinkOf(n)
         /\ Offset(n, i) + Link + 1 + LinkOf(n) <= Offset(n, i + 1)
         /\ Offset(n, i + 1) = Offset(n, i) + ItemSize(n, i + 1) /\ ItemSize(n, i + 1) \in Nat
<1>1. Len(n.items) \in Nat
  BY NodeKeys
<1>2. i + 1 \in 1..Len(n.items) /\ i \in 0..Len(n.items) /\ i + 1 \in 0..Len(n.items) /\ (i + 1) - 1 = i
  BY <1>1
<1>3. Offset(n, i) \in Nat /\ Offset(n, i + 1) \in Nat
         /\ Offset(n, i + 1) = Offset(n, i) + ItemSize(n, i + 1)
  BY <1>2, Offsets
<1>4. ItemSize(n, i + 1) \in Nat /\ LinkOf(n) \in {0, Link} /\ Link \in Nat /\ MaxItem \in Nat
        /\ Link + 1 + LinkOf(n) <= ItemSize(n, i + 1) /\ ItemSize(n, i + 1) <= MaxItem + LinkOf(n)
        /\ Capacity \in Nat
  BY <1>2, ItemSizes, SizeAssumption
<1> QED
  BY <1>3, <1>4

(* An item that is replaced, or inserted, takes its own bytes and those     *)
(* that the item behind it may grow by.                                     *)
LEMMA ChangedBytes ==
  ASSUME NEW n, NEW m, NEW a, NEW p, NEW q, SameKeys(n, m, a, p, q), q <= 2, Link < MaxItem
  PROVE  /\ Bytes(m) \in Nat /\ Bytes(n) \in Nat
         /\ Bytes(m) + Link + 1
              <= Bytes(n) + MaxItem
                 + (IF q = 0 THEN 0 ELSE IF q = 1 THEN MaxItem + LinkOf(n)
                    ELSE 2 * MaxItem + 2 * LinkOf(n))
<1> DEFINE N == Len(n.items)
           M == Len(m.items)
           L == LinkOf(n)
           Q == IF q = 0 THEN 0 ELSE IF q = 1 THEN MaxItem + L ELSE 2 * MaxItem + 2 * L
<1>1. /\ GoodNode(n) /\ GoodNode(m) /\ LinkOf(m) = L /\ N \in Nat /\ M \in Nat /\ M = (N - p) + q
      /\ a \in Nat /\ p \in Nat /\ q \in Nat /\ a + p <= N
  BY NodeKeys DEF SameKeys
<1>2. Link \in Nat /\ MaxItem \in Nat /\ L \in Nat
  BY SizeAssumption DEF LinkOf
<1>3. Offset(m, a) = Offset(n, a) /\ Offset(n, a) \in Nat /\ Offset(n, a) <= Bytes(n)
  BY HeadBytes
<1>4. Bytes(m) \in Nat /\ Bytes(n) \in Nat
  <2>1. N \in 0..N /\ M \in 0..M
    BY <1>1
  <2> QED
    BY <1>1, <2>1, Offsets DEF Bytes
<1>5. Offset(m, a + q) \in Nat /\ Offset(m, a + q) <= Offset(n, a) + Q
  <2>1. CASE q = 0
    BY <1>1, <1>3, <2>1
  <2>2. CASE q = 1
    <3>1. a \in 0..M - 1
      <4> HIDE DEF N, M
      <4> QED
        BY <1>1, <2>2
    <3>2. Offset(m, a + 1) \in Nat /\ Offset(m, a + 1) <= Offset(m, a) + MaxItem + L
      BY <1>1, <3>1, ItemStep
    <3> HIDE DEF L
    <3> QED
      BY <1>2, <1>3, <2>2, <3>2
  <2>3. CASE q = 2
    <3>1. a \in 0..M - 1 /\ a + 1 \in 0..M - 1 /\ (a + 1) + 1 = a + 2
      <4> HIDE DEF N, M
      <4> QED
        BY <1>1, <2>3
    <3>2. Offset(m, a + 1) \in Nat /\ Offset(m, a + 1) <= Offset(m, a) + MaxItem + L
      BY <1>1, <3>1, ItemStep
    <3>3. Offset(m, (a + 1) + 1) \in Nat /\ Offset(m, (a + 1) + 1) <= Offset(m, a + 1) + MaxItem + L
      BY <1>1, <3>1, ItemStep
    <3> HIDE DEF L
    <3> QED
      BY <1>2, <1>3, <2>3, <3>1, <3>2, <3>3
  <2>4. q = 0 \/ q = 1 \/ q = 2
    BY <1>1
  <2> QED
    BY <2>1, <2>2, <2>3, <2>4
<1>6. CASE a + p = N
  <2>1. M = a + q
    <3> HIDE DEF N, M
    <3> QED
      BY <1>1, <1>6
  <2>2. Bytes(m) = Offset(m, a + q)
    BY <2>1 DEF Bytes
  <2>3. Q \in Nat
    BY <1>2
  <2> HIDE DEF Q, L
  <2>4. Bytes(m) + Link + 1 <= Bytes(n) + MaxItem + Q
    BY <1>2, <1>3, <1>4, <1>5, <2>2, <2>3
  <2> QED
    BY <1>4, <2>4 DEF Q, L
<1>7. CASE a + p < N
  <2>1. /\ Offset(m, (a + q) + 1) \in Nat /\ Offset(n, (a + p) + 1) \in Nat
        /\ Bytes(m) - Offset(m, (a + q) + 1) = Bytes(n) - Offset(n, (a + p) + 1)
    BY <1>7, TailBytes
  <2>2. a + q \in 0..M - 1 /\ a + p \in 0..N - 1 /\ a \in 0..N /\ a + p \in a..N
    <3> HIDE DEF N, M
    <3> QED
      BY <1>1, <1>7
  <2>3. Offset(m, (a + q) + 1) <= Offset(m, a + q) + MaxItem + L
    BY <1>1, <2>2, ItemStep
  <2>4. Offset(n, a + p) + Link + 1 + L <= Offset(n, (a + p) + 1) /\ Offset(n, a + p) \in Nat
    BY <1>1, <2>2, ItemStep
  <2>5. Offset(n, a) <= Offset(n, a + p)
    BY <1>1, <2>2, OffsetsGrow
  <2>6. Q \in Nat
    BY <1>2
  <2> HIDE DEF Q, L
  <2>7. Bytes(m) + Link + 1 <= Bytes(n) + MaxItem + Q
    BY <1>2, <1>3, <1>4, <1>5, <2>1, <2>3, <2>4, <2>5, <2>6
  <2> QED
    BY <1>4, <2>7 DEF Q, L
<1> QED
  BY <1>1, <1>6, <1>7

(* Without an item its neighbours take no more.                             *)
LEMMA FewerBytes ==
  ASSUME NEW n, NEW m, NEW a, SameKeys(n, m, a, 1, 0)
  PROVE  Bytes(m) \in Nat /\ Bytes(n) \in Nat /\ Bytes(m) <= Bytes(n)
<1> DEFINE N == Len(n.items)
           M == Len(m.items)
           L == LinkOf(n)
<1>1. /\ GoodNode(n) /\ GoodNode(m) /\ LinkOf(m) = L /\ N \in Nat /\ M \in Nat /\ M = (N - 1) + 0
      /\ a \in Nat /\ a + 1 <= N
      /\ \A y \in 1..a : m.items[y].key = n.items[y].key
      /\ \A y \in (a + 1) + 1..N : m.items[(y - 1) + 0].key = n.items[y].key
  BY NodeKeys DEF SameKeys
<1>2. Link \in Nat /\ MaxItem \in Nat /\ L \in Nat
  BY SizeAssumption DEF LinkOf
<1>3. Offset(m, a) = Offset(n, a) /\ Offset(n, a) \in Nat /\ Offset(n, a) <= Bytes(n)
  BY HeadBytes
<1>4. Bytes(m) \in Nat /\ Bytes(n) \in Nat
  <2>1. N \in 0..N /\ M \in 0..M
    BY <1>1
  <2> QED
    BY <1>1, <2>1, Offsets DEF Bytes
<1>5. CASE a + 1 = N
  <2>1. M = a
    <3> HIDE DEF N, M
    <3> QED
      BY <1>1, <1>5
  <2> QED
    BY <1>3, <1>4, <2>1 DEF Bytes
<1>6. CASE a + 1 < N
  <2>1. /\ Offset(m, (a + 0) + 1) \in Nat /\ Offset(n, (a + 1) + 1) \in Nat
        /\ Bytes(m) - Offset(m, (a + 0) + 1) = Bytes(n) - Offset(n, (a + 1) + 1)
    BY <1>6, TailBytes
  <2>2. a \in 0..M - 1 /\ a \in 0..N - 1 /\ a + 1 \in 0..N - 1 /\ a + 0 = a
           /\ a + 2 \in (a + 1) + 1..N /\ ((a + 2) - 1) + 0 = a + 1 /\ (a + 1) + 1 = a + 2
           /\ a + 1 \in 1..N /\ a + 2 \in 1..N /\ a + 1 < a + 2
           /\ (a # 0 => a \in 1..a /\ a \in 1..N /\ a < a + 1) /\ (a + 2) - 1 = a + 1 /\ (a + 1) - 1 = a
    <3> HIDE DEF N, M
    <3> QED
      BY <1>1, <1>6
  <2>3. Offset(m, a + 1) = Offset(m, a) + ItemSize(m, a + 1) /\ ItemSize(m, a + 1) \in Nat
    BY <1>1, <2>2, ItemStep
  <2>4. Offset(n, a + 1) = Offset(n, a) + ItemSize(n, a + 1) /\ ItemSize(n, a + 1) \in Nat
    BY <1>1, <2>2, ItemStep
  <2>5. Offset(n, (a + 1) + 1) = Offset(n, a + 1) + ItemSize(n, (a + 1) + 1)
           /\ ItemSize(n, (a + 1) + 1) \in Nat
    BY <1>1, <2>2, ItemStep
  <2>6. ItemSize(m, a + 1) <= ItemSize(n, a + 1) + ItemSize(n, a + 2)
    <3> DEFINE k1 == n.items[a + 1].key
               k2 == n.items[a + 2].key
    <3>1. k1 \in Key /\ k2 \in Key /\ k1 < k2 /\ m.items[a + 1].key = k2
      BY <1>1, <2>2, NodeKeys
    <3>2. ItemSize(n, a + 2) = Behind[<<k1, k2>>] + L
      <4>1. a + 2 # 1
        BY <1>1
      <4> QED
        BY <2>2, <4>1 DEF ItemSize
    <3>3. CASE a = 0
      <4>1. a + 1 = 1
        BY <3>3
      <4>2. ItemSize(m, a + 1) = First[k2] + L /\ ItemSize(n, a + 1) = First[k1] + L
        BY <1>1, <3>1, <4>1 DEF ItemSize
      <4>3. First[k2] <= First[k1] + Behind[<<k1, k2>>] /\ First[k2] \in Nat /\ First[k1] \in Nat
               /\ Behind[<<k1, k2>>] \in Nat
        <5> HIDE DEF k1, k2
        <5>1. Behind[<<k1, k2>>] \in Link + 1..MaxItem /\ First[k2] <= First[k1] + Behind[<<k1, k2>>]
          BY <3>1, SizeAssumption
        <5> QED
          BY <1>2, <3>1, <5>1, KeyBytes
      <4> HIDE DEF L, k1, k2
      <4> QED
        BY <1>2, <3>2, <4>2, <4>3
    <3>4. CASE a # 0
      <4> DEFINE k0 == n.items[a].key
      <4>a. a + 1 # 1
        BY <1>1, <3>4
      <4>b. k0 \in Key
        BY <1>1, <2>2, <3>4, NodeKeys
      <4>c. k0 < k1
        BY <1>1, <2>2, <3>4, NodeKeys
      <4>d. m.items[a].key = k0
        BY <1>1, <2>2, <3>4
      <4>1. a + 1 # 1 /\ k0 \in Key /\ k0 < k1 /\ m.items[a].key = k0
        BY <4>a, <4>b, <4>c, <4>d
      <4>2. ItemSize(m, a + 1) = Behind[<<k0, k2>>] + L /\ ItemSize(n, a + 1) = Behind[<<k0, k1>>] + L
        BY <1>1, <2>2, <3>1, <4>1 DEF ItemSize
      <4>3. k0 < k2
        <5>1. k0 \in Nat /\ k1 \in Nat /\ k2 \in Nat
          BY <3>1, <4>1, SizeAssumption
        <5> HIDE DEF k0, k1, k2
        <5> QED
          BY <3>1, <4>1, <5>1
      <4>4. Behind[<<k0, k2>>] <= Behind[<<k0, k1>>] + Behind[<<k1, k2>>] /\ Behind[<<k0, k2>>] \in Nat
               /\ Behind[<<k0, k1>>] \in Nat /\ Behind[<<k1, k2>>] \in Nat
        <5> HIDE DEF k0, k1, k2
        <5>1. Behind[<<k0, k2>>] \in Link + 1..MaxItem /\ Behind[<<k0, k1>>] \in Link + 1..MaxItem
                 /\ Behind[<<k1, k2>>] \in Link + 1..MaxItem
          BY <3>1, <4>1, <4>3, SizeAssumption
        <5>2. Behind[<<k0, k2>>] <= Behind[<<k0, k1>>] + Behind[<<k1, k2>>]
          BY <3>1, <4>1, SizeAssumption
        <5> QED
          BY <1>2, <5>1, <5>2
      <4> HIDE DEF L, k0, k1, k2
      <4> QED
        BY <1>2, <3>2, <4>2, <4>4
    <3> QED
      BY <3>3, <3>4
  <2> QED
    BY <1>3, <1>4, <2>1, <2>2, <2>3, <2>4, <2>5, <2>6, SMTT(20)
<1> QED
  BY <1>1, <1>5, <1>6

LEMMA FewItems ==
  ASSUME NEW n, GoodNode(n), NEW k \in Key
  PROVE  /\ Bytes(n) \in Nat
         /\ Bytes(n) <= Link <=> Len(n.items) = 0
         /\ Len(n.items) = 1 => Bytes(n) <= MaxItem + 2 * Link
         /\ Capacity < Bytes(n) => 4 <= Len(n.items)
<1> DEFINE N == Len(n.items)
           L == LinkOf(n)
<1>1. N \in Nat /\ L \in {0, Link} /\ Link \in Nat /\ MaxItem \in Nat /\ Capacity \in Nat /\ Link < MaxItem
         /\ 3 * (MaxItem + Link) <= Capacity - Link
  BY NodeKeys, KeyBytes, SizeAssumption DEF LinkOf
<1>2. Offset(n, 0) = L /\ Offset(n, N) \in Nat
  <2>1. N \in 0..N
    BY <1>1
  <2> QED
    BY <2>1, Offsets
<1>3. N # 0 => Offset(n, 1) \in Nat /\ Offset(n, 1) <= Offset(n, 0) + MaxItem + L
                 /\ Offset(n, 0) + Link + 1 + L <= Offset(n, 1) /\ Offset(n, 1) <= Offset(n, N)
  <2>1. N # 0 => 0 \in 0..N - 1 /\ 0 + 1 = 1 /\ 1 \in 0..N /\ N \in 1..N
    BY <1>1
  <2> QED
    BY <2>1, ItemStep, OffsetsGrow
<1>4. N >= 2 => Offset(n, 2) \in Nat /\ Offset(n, 2) <= Offset(n, 1) + MaxItem + L
  <2>1. N >= 2 => 1 \in 0..N - 1 /\ 1 + 1 = 2
    BY <1>1
  <2> QED
    BY <2>1, ItemStep
<1>5. N >= 3 => Offset(n, 3) \in Nat /\ Offset(n, 3) <= Offset(n, 2) + MaxItem + L
  <2>1. N >= 3 => 2 \in 0..N - 1 /\ 2 + 1 = 3
    BY <1>1
  <2> QED
    BY <2>1, ItemStep
<1>6. Bytes(n) = Offset(n, N)
  BY DEF Bytes
<1> HIDE DEF N, L
<1>7. N = 0 \/ N = 1 \/ N = 2 \/ N = 3 \/ 4 <= N
  BY <1>1
<1>8. Bytes(n) \in Nat /\ (Bytes(n) <= Link <=> N = 0)
  BY <1>1, <1>2, <1>3, <1>6
<1>9. N = 1 => Bytes(n) <= MaxItem + 2 * Link
  BY <1>1, <1>2, <1>3, <1>6
<1>10. ASSUME Capacity < Bytes(n), ~(4 <= N) PROVE FALSE
  <2>1. N = 0 \/ N = 1 \/ N = 2 \/ N = 3
    BY <1>7, <1>10
  <2> QED
    BY <1>1, <1>2, <1>3, <1>4, <1>5, <1>6, <1>10, <2>1
<1> QED
  BY <1>8, <1>9, <1>10 DEF N

(* A merge saves the link of the right node, not more.                      *)
LEMMA CatenatedBytes ==
  ASSUME NEW n, GoodNode(n), NEW r, GoodNode(r), NEW x \in Item,
         GoodNode(Catenated(n, x, r)), LinkOf(r) = LinkOf(n)
  PROVE  /\ Bytes(Catenated(n, x, r)) \in Nat /\ Bytes(n) \in Nat /\ Bytes(r) \in Nat
         /\ Bytes(Catenated(n, x, r)) + Link + 1 <= Bytes(n) + Bytes(r) + 2 * MaxItem
<1> DEFINE m == Catenated(n, x, r)
           N == Len(n.items)
           R == Len(r.items)
           M == Len(m.items)
           L == LinkOf(n)
<1>1. /\ N \in Nat /\ R \in Nat /\ M \in Nat /\ n \in Node /\ r \in Node
      /\ L \in {0, Link} /\ Link \in Nat /\ MaxItem \in Nat /\ Link < MaxItem
  BY NodeKeys, KeyBytes DEF LinkOf, Item
<1>2. /\ m.next0 = n.next0 /\ M = (N + 1) + R
      /\ \A y \in 1..N : m.items[y] = n.items[y]
      /\ \A y \in N + 2..(N + 1) + R : m.items[y] = r.items[y - (N + 1)]
  BY <1>1, CatenatedIs
<1>3. LinkOf(m) = L
  BY <1>2 DEF LinkOf
<1> HIDE DEF m
<1>4. GoodNode(m)
  BY DEF m
<1>5. SameKeys(n, m, N, 0, M - N)
  <2>1. M - N \in Nat /\ N + 0 <= N /\ M = (N - 0) + (M - N)
    <3> HIDE DEF N, M, R
    <3> QED
      BY <1>1, <1>2
  <2>2. \A y \in (N + 0) + 1..N : FALSE
    BY <1>1
  <2> QED
    BY <1>1, <1>2, <1>3, <1>4, <2>1, <2>2 DEF SameKeys
<1>6. Offset(m, N) = Bytes(n) /\ Bytes(n) \in Nat
  BY <1>5, HeadBytes DEF Bytes
<1>7. N \in 0..M - 1 /\ M \in 0..M /\ R \in 0..R
  <2> HIDE DEF N, M, R
  <2> QED
    BY <1>1, <1>2
<1>8. Offset(m, N + 1) <= Offset(m, N) + MaxItem + L /\ Offset(m, N + 1) \in Nat
  BY <1>3, <1>4, <1>7, ItemStep
<1>9. Bytes(m) \in Nat /\ Bytes(r) \in Nat /\ Offset(r, 0) = L
  BY <1>4, <1>7, Offsets DEF Bytes
<1>10. CASE R = 0
  <2>1. M = N + 1
    <3> HIDE DEF N, M, R
    <3> QED
      BY <1>1, <1>2, <1>10
  <2>2. Bytes(m) = Offset(m, N + 1) /\ Bytes(r) = L
    BY <1>9, <1>10, <2>1 DEF Bytes
  <2> HIDE DEF N, L
  <2> QED
    BY <1>1, <1>6, <1>8, <1>9, <2>2 DEF m
<1>11. CASE R # 0
  <2>1. /\ N + 1 \in 0..M - 1 /\ (N + 1) + 1 = N + 2 /\ 0 \in 0..R - 1 /\ 0 + 1 = 1 /\ 1 \in 0..R
        /\ R \in 1..R /\ 1 + (N + 1) = N + 2 /\ R + (N + 1) = M /\ N + 1 \in Int /\ R + (N + 1) <= M
        /\ 1 + (N + 1) >= 0
    <3> HIDE DEF N, M, R
    <3> QED
      BY <1>1, <1>2, <1>11
  <2>2. Offset(m, N + 2) <= Offset(m, N + 1) + MaxItem + L /\ Offset(m, N + 2) \in Nat
    BY <1>3, <1>4, <2>1, ItemStep
  <2>3. Offset(r, 0) + Link + 1 + L <= Offset(r, 1) /\ Offset(r, 1) \in Nat
    BY <2>1, ItemStep
  <2>4. ASSUME NEW j \in 1 + 1..R PROVE ItemSize(m, j + (N + 1)) = ItemSize(r, j)
    <3> DEFINE jd == j + (N + 1)
    <3>1. /\ jd \in N + 2..(N + 1) + R /\ jd - 1 \in N + 2..(N + 1) + R /\ jd - (N + 1) = j
          /\ (jd - 1) - (N + 1) = j - 1 /\ j # 1 /\ jd # 1 /\ j \in Nat /\ jd \in Nat
      <4> HIDE DEF N, R
      <4> QED
        BY <1>1
    <3>2. m.items[jd] = r.items[j] /\ m.items[jd - 1] = r.items[j - 1]
      BY <1>2, <3>1
    <3> HIDE DEF jd
    <3>3. LinkOf(m) = LinkOf(r) /\ ((j = 1) <=> (jd = 1)) /\ m.items[jd].key = r.items[j].key
             /\ (j # 1 => m.items[jd - 1].key = r.items[j - 1].key)
      BY <1>3, <3>1, <3>2
    <3>4. ItemSize(m, jd) = ItemSize(r, j)
      BY <3>1, <3>3, SameSize
    <3> QED
      BY <3>4 DEF jd
  <2>5. Offset(m, R + (N + 1)) - Offset(m, 1 + (N + 1)) = Offset(r, R) - Offset(r, 1)
    <3> DEFINE d == N + 1
    <3>1. /\ d \in Int /\ 1 + d >= 0 /\ R + d <= M /\ 1 \in 0..R /\ R \in 1..R
          /\ \A j \in 1 + 1..R : ItemSize(m, j + d) = ItemSize(r, j)
      BY <2>1, <2>4
    <3> HIDE DEF d
    <3>2. Offset(m, R + d) - Offset(m, 1 + d) = Offset(r, R) - Offset(r, 1)
      BY <1>4, <3>1, OffsetsShift
    <3> QED
      BY <3>2 DEF d
  <2>6. Bytes(m) - Offset(m, N + 2) = Bytes(r) - Offset(r, 1)
    BY <2>1, <2>5 DEF Bytes
  <2> HIDE DEF N, L
  <2>7. Bytes(m) + Link + 1 <= Bytes(n) + Bytes(r) + 2 * MaxItem
    <3> DEFINE A1 == Offset(m, N + 1)
               A2 == Offset(m, N + 2)
               B1 == Offset(r, 1)
               BM == Bytes(m)
               BN == Bytes(n)
               BR == Bytes(r)
    <3>1. A1 \in Nat /\ A2 \in Nat /\ B1 \in Nat /\ BM \in Nat /\ BN \in Nat /\ BR \in Nat /\ L \in Nat
      BY <1>1, <1>6, <1>8, <1>9, <2>2, <2>3
    <3>2. A1 <= BN + MaxItem + L /\ A2 <= A1 + MaxItem + L /\ L + Link + 1 + L <= B1 /\ BM - A2 = BR - B1
      BY <1>6, <1>8, <1>9, <2>2, <2>3, <2>6
    <3> HIDE DEF A1, A2, B1, BM, BN, BR
    <3>3. BM + Link + 1 <= BN + BR + 2 * MaxItem
      BY <1>1, <3>1, <3>2
    <3> QED
      BY <3>3 DEF BM, BN, BR
  <2> QED
    BY <1>6, <1>9, <2>7 DEF m
<1> QED
  BY <1>10, <1>11

-----------------------------------------------------------------------------
(* split_node finds a place whenever it is called.                          *)
Uniform(n) == \A i \in 1..Len(n.items) : (n.items[i].child = 0) <=> (n.next0 = 0)

LEMMA LeftBytes ==
  ASSUME NEW n, GoodNode(n), NEW e \in 0..Len(n.items) - 1
  PROVE  Bytes(LeftOf(n, e)) = Offset(n, e)
<1> DEFINE m == LeftOf(n, e)
           N == Len(n.items)
<1>1. N \in Nat /\ n \in Node /\ e \in 0..N /\ e \in Nat
  BY NodeKeys
<1>2. GoodNode(m) /\ m.next0 = n.next0 /\ Len(m.items) = e /\ \A y \in 1..e : m.items[y] = n.items[y]
  BY <1>1, LeftIs, OrderHalves
<1> HIDE DEF m
<1>3. LinkOf(m) = LinkOf(n)
  BY <1>2 DEF LinkOf
<1>4. SameKeys(n, m, e, N - e, 0)
  <2>1. N - e \in Nat /\ e + (N - e) <= N /\ Len(m.items) = (N - (N - e)) + 0
    <3> HIDE DEF N
    <3> QED
      BY <1>1, <1>2
  <2>2. \A y \in (e + (N - e)) + 1..N : FALSE
    BY <1>1
  <2> QED
    BY <1>1, <1>2, <1>3, <2>1, <2>2 DEF SameKeys
<1>5. Offset(m, e) = Offset(n, e)
  BY <1>4, HeadBytes
<1> QED
  BY <1>2, <1>5 DEF Bytes, m

LEMMA RightBytes ==
  ASSUME NEW n, GoodNode(n), Uniform(n), NEW e \in 0..Len(n.items) - 2, NEW k \in Key
  PROVE  /\ Bytes(RightOf(n, e)) \in Nat /\ Bytes(n) \in Nat /\ Offset(n, e + 2) \in Nat
         /\ Offset(n, e + 2) <= Bytes(n)
         /\ Bytes(RightOf(n, e)) + Offset(n, e + 2) <= Bytes(n) + MaxItem + 2 * LinkOf(n)
<1> DEFINE m == RightOf(n, e)
           N == Len(n.items)
           L == LinkOf(n)
<1>1. N \in Nat /\ n \in Node /\ e \in 0..N - 1 /\ e \in Nat /\ e + 1 \in 1..N /\ e + 2 \in 0..N /\ N \in e + 2..N
         /\ 0 + (e + 1) < N /\ (0 + (e + 1)) + 1 = e + 2 /\ (0 + 0) + 1 = 1
  BY NodeKeys
<1>2. GoodNode(m) /\ m.next0 = n.items[e + 1].child /\ Len(m.items) = (N - e) - 1
         /\ \A y \in 1..(N - e) - 1 : m.items[y] = n.items[(y + e) + 1]
  BY <1>1, RightIs, OrderHalves
<1> HIDE DEF m
<1>3. LinkOf(m) = L
  BY <1>1, <1>2 DEF LinkOf, Uniform
<1>4. SameKeys(n, m, 0, e + 1, 0)
  <2>1. e + 1 \in Nat /\ 0 + (e + 1) <= N /\ Len(m.items) = (N - (e + 1)) + 0
    <3> HIDE DEF N
    <3> QED
      BY <1>1, <1>2
  <2>2. ASSUME NEW y \in (0 + (e + 1)) + 1..N
        PROVE  m.items[(y - (e + 1)) + 0].key = n.items[y].key
    <3>1. (y - (e + 1)) + 0 \in 1..(N - e) - 1 /\ (((y - (e + 1)) + 0) + e) + 1 = y
      <4> HIDE DEF N
      <4> QED
        BY <1>1
    <3> QED
      BY <1>2, <3>1
  <2> QED
    BY <1>1, <1>2, <1>3, <2>1, <2>2 DEF SameKeys
<1>5. Offset(m, 1) \in Nat /\ Offset(n, e + 2) \in Nat /\ Bytes(m) \in Nat /\ Bytes(n) \in Nat
        /\ Bytes(m) - Offset(m, 1) = Bytes(n) - Offset(n, e + 2)
  BY <1>1, <1>4, TailBytes
<1>6. Offset(m, 1) <= L + MaxItem + L /\ L \in Nat /\ MaxItem \in Nat
  <2>1. 0 \in 0..Len(m.items) - 1 /\ 0 + 1 = 1
    <3> HIDE DEF N
    <3> QED
      BY <1>1, <1>2
  <2>2. Offset(m, 0 + 1) <= Offset(m, 0) + MaxItem + LinkOf(m)
    BY <1>2, <2>1, ItemStep
  <2>3. Offset(m, 0) = L
    BY <1>2, <1>3, Offsets
  <2> QED
    BY <1>3, <2>1, <2>2, <2>3, KeyBytes DEF LinkOf
<1>7. Offset(n, e + 2) <= Bytes(n)
  BY <1>1, OffsetsGrow DEF Bytes
<1> HIDE DEF L
<1>8. Bytes(m) + Offset(n, e + 2) <= Bytes(n) + MaxItem + 2 * L
  <2> DEFINE B == Bytes(m)
             A == Bytes(n)
             O1 == Offset(m, 1)
             O2 == Offset(n, e + 2)
  <2>1. B \in Nat /\ A \in Nat /\ O1 \in Nat /\ O2 \in Nat /\ B - O1 = A - O2 /\ O1 <= L + MaxItem + L
    BY <1>5, <1>6
  <2> HIDE DEF A, B, O1, O2
  <2>2. B + O2 <= A + MaxItem + 2 * L
    BY <1>6, <2>1
  <2> QED
    BY <2>2 DEF A, B, O2
<1> QED
  BY <1>5, <1>7, <1>8 DEF m, L

LEMMA LastBelowIs ==
  ASSUME NEW n, GoodNode(n), Len(n.items) # 0, NEW limit \in Nat
  PROVE  /\ LastBelow(n, limit) \in 0..Len(n.items) - 1
         /\ Offset(n, LastBelow(n, limit)) <= limit \/ LastBelow(n, limit) = 0
         /\ \A i \in LastBelow(n, limit) + 1..Len(n.items) - 1 : Offset(n, i) > limit
<1> DEFINE N == Len(n.items)
           T == N - 1
           Low(j) == Offset(n, j) <= limit \/ j = 0
           S == {x \in 0..T : Low(T - x)}
           P(j) == Low(j) /\ \A i \in j + 1..N - 1 : Offset(n, i) > limit
           B == LastBelow(n, limit)
<1>1. N \in Nat /\ T \in Nat /\ \A i \in 0..N : Offset(n, i) \in Nat
  BY NodeKeys, Offsets
<1>2. S \in SUBSET Nat /\ T \in S
  <2>1. T \in 0..T /\ Low(T - T)
    BY <1>1
  <2> QED
    BY <1>1, <2>1
<1>3. PICK x \in S : \A y \in S : x <= y
  <2> HIDE DEF S
  <2> QED
    BY <1>2, MinIn
<1>4. T - x \in 0..N - 1 /\ P(T - x)
  <2>1. x \in 0..T /\ Low(T - x)
    BY <1>3
  <2>2. ASSUME NEW i \in (T - x) + 1..N - 1 PROVE Offset(n, i) > limit
    <3>1. T - i \in 0..T /\ ~(x <= T - i) /\ T - (T - i) = i /\ i \in 0..N
      BY <1>1, <2>1
    <3>2. ~Low(i)
      BY <1>3, <3>1
    <3> QED
      BY <1>1, <3>1, <3>2
  <2>3. T - x \in 0..N - 1
    BY <1>1, <2>1
  <2> QED
    BY <2>1, <2>2, <2>3
<1>5. B = CHOOSE j \in 0..N - 1 : P(j)
  BY DEF LastBelow
<1>6. B \in 0..N - 1 /\ P(B)
  <2> HIDE DEF P, B, N
  <2> QED
    BY <1>4, <1>5
<1> QED
  BY <1>6

LEMMA PlaceIs ==
  ASSUME NEW n, FirstPlace(n) \in Nat, LastPlace(n) \in Nat, FirstPlace(n) <= LastPlace(n)
  PROVE  /\ Place(n) \in FirstPlace(n)..LastPlace(n)
         /\ GoodPlace(n, Place(n)) \/ Place(n) = LastPlace(n)
<1> DEFINE F == FirstPlace(n)
           Z == LastPlace(n)
           S == {e \in F..Z : GoodPlace(n, e) \/ e = Z}
           P(e) == (GoodPlace(n, e) \/ e = Z) /\ \A i \in F..e - 1 : ~GoodPlace(n, i)
<1>1. F \in Nat /\ Z \in Nat /\ F <= Z
  OBVIOUS
<1> HIDE DEF F, Z
<1>2. S \in SUBSET Nat /\ Z \in S
  BY <1>1
<1>3. PICK e \in S : \A y \in S : e <= y
  <2> HIDE DEF S
  <2> QED
    BY <1>2, MinIn
<1>4. e \in F..Z /\ P(e)
  <2>1. ASSUME NEW i \in F..e - 1 PROVE ~GoodPlace(n, i)
    <3>1. i \in F..Z /\ ~(e <= i)
      BY <1>1, <1>3
    <3> QED
      BY <1>3, <3>1
  <2> QED
    BY <1>3, <2>1
<1>5. Place(n) = CHOOSE j \in F..Z : P(j)
  BY DEF Place, F, Z
<1>6. Place(n) \in F..Z /\ P(Place(n))
  <2> HIDE DEF P
  <2> QED
    BY <1>4, <1>5
<1> QED
  BY <1>6 DEF F, Z

(* A node that is too large for a block, by less than the bytes of a block  *)
(* without one item, is split without an error, and the halves fit and have *)
(* items: E_INTERN_17 to 23 and the assertion of split_node.                *)
THEOREM SplitFits ==
  ASSUME NEW n, GoodNode(n), Uniform(n),
         Capacity < Bytes(n), Bytes(n) + MaxItem + 1 <= 2 * Capacity
  PROVE  /\ Place(n) \in 1..Len(n.items) - 2 /\ Split(n).errors = {}
         /\ Bytes(LeftOf(n, Place(n))) <= Capacity
         /\ Bytes(RightOf(n, Place(n))) <= Capacity
<1> DEFINE N == Len(n.items)
           L == LinkOf(n)
           C == Capacity
           S == SplitPoint
           A == LastBelow(n, C)
           B == LastBelow(n, S)
           Z == LastPlace(n)
           F == FirstPlace(n)
<1>0. PICK k \in Key : TRUE
  <2>1. CASE N = 0
    <3>1. Bytes(n) = L /\ L <= Link /\ Link <= Capacity /\ L \in Nat /\ Link \in Nat /\ Capacity \in Nat
      <4>1. Bytes(n) = L
        BY <2>1, Offsets DEF Bytes
      <4>2. L \in {0, Link} /\ Link \in Nat /\ Capacity \in Nat /\ MaxItem \in Nat
               /\ 4 * MaxItem <= Capacity - Link
        BY SizeAssumption DEF LinkOf
      <4> QED
        BY <4>1, <4>2
    <3> QED
      BY <3>1
  <2>2. CASE N # 0
    <3>1. 1 \in 1..N
      BY <2>2, NodeKeys
    <3> QED
      BY <3>1, NodeKeys
  <2> QED
    BY <2>1, <2>2
<1>1. /\ N \in Nat /\ L \in {0, Link} /\ L \in Nat /\ Link \in Nat /\ MaxItem \in Nat /\ C \in Nat
      /\ Link < MaxItem /\ 4 * MaxItem <= C - Link /\ 3 * (MaxItem + Link) <= C - Link
  BY NodeKeys, KeyBytes, SizeAssumption DEF LinkOf
<1>2. 4 <= N /\ Bytes(n) \in Nat
  BY <1>0, FewItems
<1>3. S \in Nat /\ S <= C
  BY <1>1 DEF SplitPoint
<1>4. \A i \in 0..N : Offset(n, i) \in Nat
  BY Offsets
<1>5. Offset(n, 0) = L /\ Offset(n, 1) <= C
  <2>1. 0 \in 0..N - 1 /\ 0 + 1 = 1 /\ 1 \in 0..N
    BY <1>1, <1>2
  <2>2. Offset(n, 0 + 1) <= Offset(n, 0) + MaxItem + L /\ Offset(n, 0) = L
    BY <2>1, ItemStep, Offsets
  <2> HIDE DEF L, C, N
  <2> QED
    BY <1>1, <1>4, <2>1, <2>2
<1>6. /\ A \in 0..N - 1 /\ (Offset(n, A) <= C \/ A = 0)
      /\ \A i \in A + 1..N - 1 : Offset(n, i) > C
  <2>1. N # 0
    BY <1>2
  <2> QED
    BY <1>1, <2>1, LastBelowIs
<1>7. B \in 0..N - 1
  <2>1. N # 0
    BY <1>2
  <2> QED
    BY <1>3, <2>1, LastBelowIs
<1>8. A # 0 /\ Offset(n, A) <= C
  <2>1. A = 0 => 1 \in A + 1..N - 1
    BY <1>2, <1>1
  <2>2. 1 \in 0..N
    BY <1>1, <1>2
  <2> HIDE DEF A, N, C
  <2> QED
    BY <1>1, <1>4, <1>5, <1>6, <2>1, <2>2
<1>9. Z = (IF A <= N - 2 THEN A ELSE N - 2)
  BY DEF LastPlace, Least
<1>10. Z \in 1..N - 2 /\ Z <= A
  <2> HIDE DEF A, N, Z
  <2> QED
    BY <1>1, <1>2, <1>6, <1>8, <1>9
<1>11. F = (IF (IF B < 1 THEN 1 ELSE B) <= Z THEN (IF B < 1 THEN 1 ELSE B) ELSE Z)
  BY DEF FirstPlace, Least
<1>12. F \in 1..Z
  <2> HIDE DEF B, N, Z, F
  <2> QED
    BY <1>1, <1>7, <1>10, <1>11
<1>13. Place(n) \in F..Z /\ (GoodPlace(n, Place(n)) \/ Place(n) = Z)
  <2>1. F \in Nat /\ Z \in Nat /\ F <= Z
    <3> HIDE DEF F, Z, N
    <3> QED
      BY <1>1, <1>10, <1>12
  <2> QED
    BY <2>1, PlaceIs
<1> DEFINE e == Place(n)
<1> HIDE DEF A, B, F
<1>14. e \in 1..N - 2 /\ e \in 0..N - 1 /\ e \in 0..N - 2 /\ e <= A /\ e \in 0..A /\ A \in 0..N /\ A \in e..N
         /\ e \in 0..N
  <2> HIDE DEF N, Z, e
  <2>1. e \in F..Z
    BY <1>13 DEF e
  <2> QED
    BY <1>1, <1>6, <1>10, <1>12, <2>1
<1>15. Bytes(LeftOf(n, e)) <= C
  <2>1. Bytes(LeftOf(n, e)) = Offset(n, e) /\ Offset(n, e) <= Offset(n, A)
           /\ Offset(n, e) \in Nat /\ Offset(n, A) \in Nat
    BY <1>4, <1>14, LeftBytes, OffsetsGrow
  <2> QED
    BY <1>1, <1>8, <2>1
<1>16. Bytes(RightOf(n, Z)) <= C
  <2>0. Z \in 0..N - 2 /\ Z + 1 \in 0..N - 1 /\ (Z + 1) + 1 = Z + 2
    <3> HIDE DEF N, Z
    <3> QED
      BY <1>1, <1>10
  <2>1. /\ Bytes(RightOf(n, Z)) \in Nat /\ Offset(n, Z + 2) \in Nat
        /\ Bytes(RightOf(n, Z)) + Offset(n, Z + 2) <= Bytes(n) + MaxItem + 2 * L
        /\ Offset(n, Z + 2) <= Bytes(n)
    BY <1>0, <2>0, RightBytes
  <2>2. CASE A <= N - 2
    <3>1. Z + 1 \in A + 1..N - 1
      <4> HIDE DEF N, Z
      <4> QED
        BY <1>1, <1>6, <1>9, <2>2
    <3>2. Offset(n, Z + 1) > C
      BY <1>6, <3>1
    <3>3. Offset(n, Z + 1) + Link + 1 + L <= Offset(n, (Z + 1) + 1) /\ Offset(n, Z + 1) \in Nat
      BY <2>0, ItemStep
    <3> DEFINE O1 == Offset(n, Z + 1)
               O2 == Offset(n, Z + 2)
               R == Bytes(RightOf(n, Z))
               T == Bytes(n)
    <3>4. /\ O1 \in Nat /\ O2 \in Nat /\ R \in Nat /\ T \in Nat /\ O1 > C /\ O1 + Link + 1 + L <= O2
          /\ R + O2 <= T + MaxItem + 2 * L /\ T + MaxItem + 1 <= 2 * C
      BY <1>2, <2>0, <2>1, <3>2, <3>3
    <3> HIDE DEF O1, O2, R, T, C, L
    <3>5. R <= C
      BY <1>1, <3>4
    <3> QED
      BY <3>5 DEF R
  <2>3. CASE ~(A <= N - 2)
    <3>1. Z = N - 2 /\ (Len(n.items) - Z) - 1 = 1
      <4>1. Z = N - 2
        BY <1>9, <2>3
      <4> QED
        BY <1>1, <4>1
    <3>2. GoodNode(RightOf(n, Z)) /\ Len(RightOf(n, Z).items) = 1
      <4>1. Z \in 0..Len(n.items) - 1
        BY <1>1, <1>2, <3>1
      <4>2. n \in Node
        BY NodeKeys
      <4> HIDE DEF Z
      <4> QED
        BY <3>1, <4>1, <4>2, OrderHalves, RightIs
    <3>3. Bytes(RightOf(n, Z)) <= MaxItem + 2 * Link
      BY <1>0, <3>2, FewItems
    <3> DEFINE R == Bytes(RightOf(n, Z))
    <3> HIDE DEF R, C, L
    <3>4. R \in Nat /\ R <= MaxItem + 2 * Link
      BY <2>1, <3>3 DEF R
    <3>5. R <= C
      BY <1>1, <3>4
    <3> QED
      BY <3>5 DEF R
  <2> QED
    BY <2>2, <2>3
<1>17. GoodPlace(n, e)
  BY <1>13, <1>16 DEF GoodPlace
<1>18. Split(n).errors = {}
  <2>1. Huge(n) = {}
    <3>1. ~(Bytes(n) > 2 * Capacity)
      BY <1>1, <1>2
    <3> QED
      BY <3>1 DEF Huge
  <2>2. ~(Len(n.items) < 3)
    BY <1>1, <1>2
  <2> QED
    BY <1>17, <2>1, <2>2 DEF Split
<1> QED
  BY <1>14, <1>15, <1>17, <1>18 DEF GoodPlace

-----------------------------------------------------------------------------
(* The gaps between the items, where the keys of the children belong.       *)
LEMMA GapInserted ==
  ASSUME NEW n \in Node, NEW i \in 0..Len(n.items), NEW x \in Item, NEW k
  PROVE  /\ \A y \in 0..i : y # i /\ InGap(n, y, k) => InGap(Inserted(n, i, <<x>>), y, k)
         /\ InGap(n, i, k) /\ k < x.key => InGap(Inserted(n, i, <<x>>), i, k)
         /\ InGap(n, i, k) /\ x.key < k => InGap(Inserted(n, i, <<x>>), i + 1, k)
         /\ \A y \in i + 1..Len(n.items) :
              InGap(n, y, k) => InGap(Inserted(n, i, <<x>>), y + 1, k)
<1> DEFINE m == Inserted(n, i, <<x>>)
           N == Len(n.items)
           K(y) == n.items[y].key
           M(y) == m.items[y].key
           G(y) == (y > 0 => K(y) < k) /\ (y < N => k < K(y + 1))
           H(y) == (y > 0 => M(y) < k) /\ (y < N + 1 => k < M(y + 1))
<1>1. N \in Nat /\ i \in 0..N
  BY Lens
<1>2. /\ Len(m.items) = N + 1 /\ M(i + 1) = x.key
      /\ \A y \in 1..i : M(y) = K(y)
      /\ \A y \in i + 1..N : M(y + 1) = K(y)
  BY InsertedOne
<1>3. \A y : (InGap(n, y, k) <=> G(y)) /\ (InGap(m, y, k) <=> H(y))
  BY <1>2 DEF InGap
<1> HIDE DEF m, N, K, M
<1>4. ASSUME NEW y \in 0..i, y # i, G(y) PROVE H(y)
  <2>1. (y > 0 => y \in 1..i) /\ y + 1 \in 1..i /\ y < N
    BY <1>1, <1>4
  <2> QED
    BY <1>2, <1>4, <2>1
<1>5. ASSUME G(i), k < x.key PROVE H(i)
  <2>1. i > 0 => i \in 1..i
    BY <1>1
  <2> QED
    BY <1>2, <1>5, <2>1
<1>6. ASSUME G(i), x.key < k PROVE H(i + 1)
  <2>1. (i + 1 < N + 1 => i + 1 \in i + 1..N /\ i < N) /\ i + 1 > 0
    BY <1>1
  <2> QED
    BY <1>2, <1>6, <2>1
<1>7. ASSUME NEW y \in i + 1..N, G(y) PROVE H(y + 1)
  <2>1. y > 0 /\ (y + 1 < N + 1 => y < N /\ y + 1 \in i + 1..N)
    BY <1>1
  <2> QED
    BY <1>2, <1>7, <2>1
<1> HIDE DEF G, H
<1> QED
  BY <1>3, <1>4, <1>5, <1>6, <1>7 DEF m, N

LEMMA GapDeleted ==
  ASSUME NEW n, GoodNode(n), NEW i \in 0..Len(n.items) - 1, NEW k \in Nat
  PROVE  /\ \A y \in 0..i : InGap(n, y, k) => InGap(Deleted(n, i), y, k)
         /\ k = n.items[i + 1].key => InGap(Deleted(n, i), i, k)
         /\ \A y \in i + 1..Len(n.items) : InGap(n, y, k) => InGap(Deleted(n, i), y - 1, k)
<1> DEFINE m == Deleted(n, i)
           N == Len(n.items)
           K(y) == n.items[y].key
           M(y) == m.items[y].key
           G(y) == (y > 0 => K(y) < k) /\ (y < N => k < K(y + 1))
           H(y) == (y > 0 => M(y) < k) /\ (y < N - 1 => k < M(y + 1))
<1>1. /\ N \in Nat /\ n \in Node /\ i \in 0..N - 1 /\ (\A y \in 1..N : K(y) \in Nat)
      /\ \A y, z \in 1..N : y < z => K(y) < K(z)
  BY NodeKeys
<1>2. /\ Len(m.items) = N - 1
      /\ \A y \in 1..i : M(y) = K(y)
      /\ \A y \in i + 1..N - 1 : M(y) = K(y + 1)
  BY <1>1, DeletedOne
<1>3. \A y : (InGap(n, y, k) <=> G(y)) /\ (InGap(m, y, k) <=> H(y))
  BY <1>2 DEF InGap
<1> HIDE DEF m, N, K, M
<1>4. ASSUME NEW y \in 0..i, G(y) PROVE H(y)
  <2>1. (y > 0 => y \in 1..i) /\ y < N
    BY <1>1
  <2>2. CASE y < i
    <3>1. y + 1 \in 1..i
      BY <1>1, <2>2
    <3> QED
      BY <1>2, <1>4, <2>1, <3>1
  <2>3. CASE y = i
    <3>1. ASSUME i < N - 1 PROVE k < M(i + 1)
      <4>1. i + 1 \in i + 1..N - 1 /\ i + 1 \in 1..N /\ (i + 1) + 1 \in 1..N /\ i + 1 < (i + 1) + 1
        BY <1>1, <3>1
      <4>2. M(i + 1) = K((i + 1) + 1) /\ K(i + 1) < K((i + 1) + 1) /\ k < K(i + 1)
        BY <1>1, <1>2, <1>4, <2>1, <2>3, <4>1
      <4>3. K(i + 1) \in Nat /\ K((i + 1) + 1) \in Nat
        BY <1>1, <4>1
      <4> QED
        BY <4>2, <4>3
    <3> QED
      BY <1>2, <1>4, <2>1, <2>3, <3>1
  <2> QED
    BY <1>1, <2>2, <2>3
<1>5. ASSUME k = K(i + 1) PROVE H(i)
  <2>1. ASSUME i > 0 PROVE M(i) < k
    <3>1. i \in 1..i /\ i \in 1..N /\ i + 1 \in 1..N /\ i < i + 1
      BY <1>1, <2>1
    <3> QED
      BY <1>1, <1>2, <1>5, <3>1
  <2>2. ASSUME i < N - 1 PROVE k < M(i + 1)
    <3>1. i + 1 \in i + 1..N - 1 /\ i + 1 \in 1..N /\ (i + 1) + 1 \in 1..N /\ i + 1 < (i + 1) + 1
      BY <1>1, <2>2
    <3> QED
      BY <1>1, <1>2, <1>5, <3>1
  <2> QED
    BY <2>1, <2>2
<1>6. ASSUME NEW y \in i + 1..N, G(y) PROVE H(y - 1)
  <2>0. y \in 1..N /\ y - 1 \in 0..N - 1 /\ y > 0 /\ (y - 1) + 1 = y /\ K(y) < k
    BY <1>1, <1>6
  <2>1. ASSUME y - 1 > 0 PROVE M(y - 1) < k
    <3>1. CASE y = i + 1
      <4>1. y - 1 = i /\ i \in 1..i /\ i \in 1..N /\ i < y
        BY <1>1, <2>1, <3>1
      <4>2. M(y - 1) = K(i) /\ K(i) < K(y) /\ K(i) \in Nat /\ K(y) \in Nat
        BY <1>1, <1>2, <2>0, <4>1
      <4> QED
        BY <2>0, <4>2
    <3>2. CASE y # i + 1
      <4>1. y - 1 \in i + 1..N - 1
        BY <1>1, <3>2
      <4>2. M(y - 1) = K((y - 1) + 1)
        BY <1>2, <4>1
      <4> QED
        BY <2>0, <4>2
    <3> QED
      BY <3>1, <3>2
  <2>2. ASSUME y - 1 < N - 1 PROVE k < M(y)
    <3>1. y \in i + 1..N - 1 /\ y < N
      BY <1>1, <2>0, <2>2
    <3> QED
      BY <1>2, <1>6, <3>1
  <2> QED
    BY <2>0, <2>1, <2>2
<1> HIDE DEF G, H
<1> QED
  BY <1>3, <1>4, <1>5, <1>6 DEF m, N, K

LEMMA GapHalves ==
  ASSUME NEW n, GoodNode(n), NEW e \in 0..Len(n.items) - 1, NEW k \in Nat
  PROVE  /\ \A y \in 0..e :
              InGap(n, y, k) => InGap(LeftOf(n, e), y, k) /\ k < n.items[e + 1].key
         /\ \A y \in 0..(Len(n.items) - e) - 1 :
              InGap(n, (y + e) + 1, k) => InGap(RightOf(n, e), y, k) /\ n.items[e + 1].key < k
<1> DEFINE l == LeftOf(n, e)
           r == RightOf(n, e)
           N == Len(n.items)
           K(y) == n.items[y].key
           A(y) == l.items[y].key
           B(y) == r.items[y].key
           G(y) == (y > 0 => K(y) < k) /\ (y < N => k < K(y + 1))
           H(y) == (y > 0 => A(y) < k) /\ (y < e => k < A(y + 1))
           J(y) == (y > 0 => B(y) < k) /\ (y < (N - e) - 1 => k < B(y + 1))
<1>1. N \in Nat /\ n \in Node /\ e \in 0..N - 1 /\ e \in 0..N /\ e + 1 \in 1..N
  BY NodeKeys
<1>2. /\ Len(l.items) = e /\ \A y \in 1..e : A(y) = K(y)
      /\ Len(r.items) = (N - e) - 1 /\ \A y \in 1..(N - e) - 1 : B(y) = K((y + e) + 1)
  BY <1>1, LeftIs, RightIs
<1>3. \A y : (InGap(n, y, k) <=> G(y)) /\ (InGap(l, y, k) <=> H(y)) /\ (InGap(r, y, k) <=> J(y))
  BY <1>2 DEF InGap
<1>4. ASSUME NEW y \in 0..e, InGap(n, y, k) PROVE k < K(e + 1)
  <2>1. y \in 0..N /\ e + 1 \in y + 1..N
    <3> HIDE DEF N
    <3> QED
      BY <1>1
  <2>2. Between(n, y, k)
    BY <1>4, <2>1, GapIs
  <2> QED
    BY <2>1, <2>2 DEF Between
<1>5. ASSUME NEW y \in 0..(N - e) - 1, InGap(n, (y + e) + 1, k) PROVE K(e + 1) < k
  <2>1. (y + e) + 1 \in 0..N /\ e + 1 \in 1..(y + e) + 1
    <3> HIDE DEF N
    <3> QED
      BY <1>1
  <2>2. Between(n, (y + e) + 1, k)
    <3> DEFINE z == (y + e) + 1
    <3> HIDE DEF z
    <3>1. InGap(n, z, k) /\ z \in 0..N
      BY <1>5, <2>1 DEF z
    <3>2. Between(n, z, k)
      BY <3>1, GapIs
    <3> QED
      BY <3>2 DEF z
  <2> QED
    BY <2>1, <2>2 DEF Between
<1> HIDE DEF l, r, N, K, A, B
<1>6. ASSUME NEW y \in 0..e, G(y) PROVE H(y)
  <2>1. (y > 0 => y \in 1..e) /\ (y < e => y + 1 \in 1..e /\ y < N)
    BY <1>1
  <2> QED
    BY <1>2, <1>6, <2>1
<1>7. ASSUME NEW y \in 0..(N - e) - 1, G((y + e) + 1) PROVE J(y)
  <2>1. /\ (y > 0 => y \in 1..(N - e) - 1) /\ (y + e) + 1 > 0
        /\ (y < (N - e) - 1 => y + 1 \in 1..(N - e) - 1 /\ (y + e) + 1 < N
                               /\ ((y + 1) + e) + 1 = ((y + e) + 1) + 1)
    BY <1>1
  <2> QED
    BY <1>2, <1>7, <2>1
<1> HIDE DEF G, H, J
<1> QED
  BY <1>3, <1>4, <1>5, <1>6, <1>7 DEF l, r, N, K

LEMMA GapCatenated ==
  ASSUME NEW n \in Node, NEW x \in Item, NEW r \in Node, NEW k
  PROVE  /\ \A y \in 0..Len(n.items) :
              InGap(n, y, k) /\ k < x.key => InGap(Catenated(n, x, r), y, k)
         /\ \A y \in 0..Len(r.items) :
              InGap(r, y, k) /\ x.key < k
                => InGap(Catenated(n, x, r), (y + Len(n.items)) + 1, k)
<1> DEFINE m == Catenated(n, x, r)
           N == Len(n.items)
           R == Len(r.items)
           K(y) == n.items[y].key
           Z(y) == r.items[y].key
           M(y) == m.items[y].key
           G(y) == (y > 0 => K(y) < k) /\ (y < N => k < K(y + 1))
           J(y) == (y > 0 => Z(y) < k) /\ (y < R => k < Z(y + 1))
           H(y) == (y > 0 => M(y) < k) /\ (y < (N + 1) + R => k < M(y + 1))
<1>1. N \in Nat /\ R \in Nat
  BY Lens
<1>2. /\ Len(m.items) = (N + 1) + R /\ M(N + 1) = x.key
      /\ \A y \in 1..N : M(y) = K(y)
      /\ \A y \in N + 2..(N + 1) + R : M(y) = Z(y - (N + 1))
  <2>1. /\ m \in Node /\ Len(m.items) = (N + 1) + R
        /\ \A y \in 1..N : m.items[y] = n.items[y]
        /\ m.items[N + 1].key = x.key
        /\ \A y \in N + 2..(N + 1) + R : m.items[y] = r.items[y - (N + 1)]
    BY CatenatedIs
  <2> HIDE DEF m, N, R
  <2> QED
    BY <2>1
<1>3. \A y : (InGap(n, y, k) <=> G(y)) /\ (InGap(r, y, k) <=> J(y)) /\ (InGap(m, y, k) <=> H(y))
  BY <1>2 DEF InGap
<1> HIDE DEF m, N, R, K, M, Z
<1>4. ASSUME NEW y \in 0..N, G(y), k < x.key PROVE H(y)
  <2>1. (y > 0 => y \in 1..N) /\ (y = N \/ (y < N /\ y + 1 \in 1..N))
    BY <1>1
  <2> QED
    BY <1>2, <1>4, <2>1
<1>5. ASSUME NEW y \in 0..R, J(y), x.key < k PROVE H((y + N) + 1)
  <2>1. /\ (y = 0 \/ (y > 0 /\ (y + N) + 1 \in N + 2..(N + 1) + R)) /\ ((y + N) + 1) - (N + 1) = y
        /\ ((y + N) + 1 < (N + 1) + R
              => y < R /\ ((y + N) + 1) + 1 \in N + 2..(N + 1) + R /\ (((y + N) + 1) + 1) - (N + 1) = y + 1)
        /\ (y = 0 => (y + N) + 1 = N + 1)
    BY <1>1
  <2>2. M((y + N) + 1) < k
    BY <1>2, <1>5, <2>1
  <2>3. ASSUME (y + N) + 1 < (N + 1) + R PROVE k < M(((y + N) + 1) + 1)
    BY <1>2, <1>5, <2>1, <2>3
  <2> QED
    BY <2>2, <2>3
<1> HIDE DEF G, H, J
<1> QED
  BY <1>3, <1>4, <1>5 DEF m, N, R

LEMMA GapRekeyed ==
  ASSUME NEW n \in Node, NEW i \in 1..Len(n.items), NEW j \in Key, NEW k
  PROVE  /\ \A y \in 0..Len(n.items) :
              y # i /\ y # i - 1 /\ InGap(n, y, k) => InGap(Rekeyed(n, i, j), y, k)
         /\ InGap(n, i, k) /\ j < k => InGap(Rekeyed(n, i, j), i, k)
         /\ InGap(n, i - 1, k) /\ k < j => InGap(Rekeyed(n, i, j), i - 1, k)
<1> DEFINE m == Rekeyed(n, i, j)
           N == Len(n.items)
           K(y) == n.items[y].key
           M(y) == m.items[y].key
           G(y) == (y > 0 => K(y) < k) /\ (y < N => k < K(y + 1))
           H(y) == (y > 0 => M(y) < k) /\ (y < N => k < M(y + 1))
<1>1. N \in Nat /\ i \in 1..N
  BY Lens
<1>2. Len(m.items) = N /\ M(i) = j /\ \A y \in 1..N : y # i => M(y) = K(y)
  BY RekeyedIs
<1>3. \A y : (InGap(n, y, k) <=> G(y)) /\ (InGap(m, y, k) <=> H(y))
  BY <1>2 DEF InGap
<1> HIDE DEF m, N, K, M
<1>4. ASSUME NEW y \in 0..N, y # i, y # i - 1, G(y) PROVE H(y)
  <2>1. (y > 0 => y \in 1..N) /\ (y < N => y + 1 \in 1..N /\ y + 1 # i)
    BY <1>1, <1>4
  <2> QED
    BY <1>2, <1>4, <2>1
<1>5. ASSUME G(i), j < k PROVE H(i)
  <2>1. i < N => i + 1 \in 1..N /\ i + 1 # i
    BY <1>1
  <2> QED
    BY <1>2, <1>5, <2>1
<1>6. ASSUME G(i - 1), k < j PROVE H(i - 1)
  <2>1. (i - 1 > 0 => i - 1 \in 1..N /\ i - 1 # i) /\ (i - 1) + 1 = i
    BY <1>1
  <2> QED
    BY <1>2, <1>6, <2>1
<1> HIDE DEF G, H
<1> QED
  BY <1>3, <1>4, <1>5, <1>6 DEF m, N
=============================================================================
