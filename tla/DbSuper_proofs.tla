--------------------------- MODULE DbSuper_proofs ---------------------------
(***************************************************************************)
(* What holds of DbSuper for every size of the file, of the table and of a  *)
(* chunk: a block is in one place only, and no block is lost; and the tables *)
(* of ranges and super blocks implement a set of free blocks, the refinement *)
(* that DbSuperProps states.                                                *)
(***************************************************************************)
EXTENDS DbSuperProps, TLAPS, WellFoundedInduction, SequenceTheorems

(* A super block has half a table, a chunk more than its head and lies      *)
(* behind the older ones.                                                   *)
WellFormed(f) ==
  /\ \A b \in Block : f[b] \in Super => InOrder(f[b].range) /\ Len(f[b].range) = Half
  /\ \A c \in Heads(f) : Size(f[c]) >= 2 /\ f[c].next < c

-----------------------------------------------------------------------------
(* Minima and sequences.                                                    *)

LEMMA MinIn ==
  ASSUME NEW S \in SUBSET Nat, S # {}
  PROVE  Min(S) \in S /\ \A j \in S : Min(S) <= j
<1> DEFINE R == OpToRel(<, Nat)
<1>1. IsWellFoundedOn(R, Nat)
  BY NatLessThanWellFounded
<1>2. \A x, y \in Nat : <<x, y>> \in R <=> x < y
  BY DEF OpToRel
<1> HIDE DEF R
<1>3. PICK x \in S : \A y \in S : ~ (<<y, x>> \in R)
  <2>1. S \subseteq Nat
    OBVIOUS
  <2> QED
    BY <1>1, <2>1, WFMin, Zenon
<1>4. \A y \in S : x <= y
  <2> SUFFICES ASSUME NEW y \in S PROVE x <= y
    OBVIOUS
  <2>1. x \in Nat /\ y \in Nat
    OBVIOUS
  <2>2. ~(<<y, x>> \in R)
    BY <1>3
  <2>3. ~(y < x)
    BY <1>2, <2>1, <2>2, Zenon
  <2> QED
    BY <2>1, <2>3
<1> QED
  BY <1>3, <1>4 DEF Min

LEMMA InsertAtIs ==
  ASSUME NEW r \in Seq(FreeRange), NEW i \in 1..Len(r) + 1, NEW e \in FreeRange
  PROVE  /\ InsertAt(r, i, e) \in Seq(FreeRange) /\ Len(InsertAt(r, i, e)) = Len(r) + 1
         /\ \A j \in 1..Len(r) + 1 :
              InsertAt(r, i, e)[j] = IF j < i THEN r[j] ELSE IF j = i THEN e ELSE r[j - 1]
<1> DEFINE a == SubSeq(r, 1, i - 1)
           z == SubSeq(r, i, Len(r))
<1>1. Len(r) \in Nat /\ i \in Nat
  OBVIOUS
<1>2. a \in Seq(FreeRange) /\ Len(a) = i - 1 /\ \A j \in 1..i - 1 : a[j] = r[j]
  BY <1>1
<1>3. z \in Seq(FreeRange) /\ Len(z) = Len(r) + 1 - i
      /\ \A j \in 1..Len(r) + 1 - i : z[j] = r[i + j - 1]
  BY <1>1
<1> HIDE DEF a, z
<1> DEFINE y == a \o <<e>>
<1>4. y \in Seq(FreeRange) /\ Len(y) = i /\ y[i] = e /\ \A j \in 1..i - 1 : y[j] = r[j]
  BY <1>1, <1>2
<1> HIDE DEF y
<1> DEFINE w == y \o z
<1>5. /\ w \in Seq(FreeRange) /\ Len(w) = Len(y) + Len(z)
      /\ \A j \in 1..Len(y) + Len(z) : w[j] = IF j <= Len(y) THEN y[j] ELSE z[j - Len(y)]
  BY <1>3, <1>4, ConcatProperties
<1>6. InsertAt(r, i, e) = w
  BY DEF InsertAt, y, a, z
<1> HIDE DEF w
<1>7. Len(y) + Len(z) = Len(r) + 1
  BY <1>1, <1>3, <1>4
<1>8. ASSUME NEW j \in 1..Len(r) + 1
      PROVE  w[j] = IF j < i THEN r[j] ELSE IF j = i THEN e ELSE r[j - 1]
  <2>1. w[j] = IF j <= i THEN y[j] ELSE z[j - i]
    BY <1>4, <1>5, <1>7
  <2>2. CASE j <= i
    BY <1>1, <1>4, <2>1, <2>2
  <2>3. CASE j > i
    <3>1. w[j] = z[j - i]
      BY <1>1, <2>1, <2>3
    <3>2. j - i \in 1..Len(r) + 1 - i
      BY <1>1, <2>3
    <3>3. z[j - i] = r[i + (j - i) - 1]
      BY <1>3, <3>2
    <3> QED
      BY <1>1, <2>3, <3>1, <3>3
  <2> QED
    BY <1>1, <2>2, <2>3
<1> QED
  BY <1>5, <1>6, <1>7, <1>8

LEMMA RemoveAtIs ==
  ASSUME NEW r \in Seq(FreeRange), NEW i \in 1..Len(r)
  PROVE  /\ RemoveAt(r, i) \in Seq(FreeRange) /\ Len(RemoveAt(r, i)) = Len(r) - 1
         /\ \A j \in 1..Len(r) - 1 :
              RemoveAt(r, i)[j] = IF j < i THEN r[j] ELSE r[j + 1]
<1> DEFINE a == SubSeq(r, 1, i - 1)
           z == SubSeq(r, i + 1, Len(r))
<1>1. Len(r) \in Nat /\ i \in Nat
  OBVIOUS
<1>2. a \in Seq(FreeRange) /\ Len(a) = i - 1 /\ \A j \in 1..i - 1 : a[j] = r[j]
  BY <1>1
<1>3. z \in Seq(FreeRange) /\ Len(z) = Len(r) - i
      /\ \A j \in 1..Len(r) - i : z[j] = r[i + j]
  BY <1>1
<1> HIDE DEF a, z
<1> DEFINE w == a \o z
<1>5. /\ w \in Seq(FreeRange) /\ Len(w) = Len(a) + Len(z)
      /\ \A j \in 1..Len(a) + Len(z) : w[j] = IF j <= Len(a) THEN a[j] ELSE z[j - Len(a)]
  BY <1>2, <1>3, ConcatProperties
<1>6. RemoveAt(r, i) = w
  BY DEF RemoveAt, a, z
<1> HIDE DEF w
<1>7. Len(a) + Len(z) = Len(r) - 1
  BY <1>1, <1>2, <1>3
<1>8. ASSUME NEW j \in 1..Len(r) - 1
      PROVE  w[j] = IF j < i THEN r[j] ELSE r[j + 1]
  <2>1. w[j] = IF j <= i - 1 THEN a[j] ELSE z[j - (i - 1)]
    BY <1>2, <1>5, <1>7
  <2>2. CASE j < i
    BY <1>1, <1>2, <2>1, <2>2
  <2>3. CASE j >= i
    <3>1. w[j] = z[j - (i - 1)]
      BY <1>1, <2>1, <2>3
    <3>2. j - (i - 1) \in 1..Len(r) - i
      BY <1>1, <2>3
    <3>3. z[j - (i - 1)] = r[i + (j - (i - 1))]
      BY <1>3, <3>2
    <3> QED
      BY <1>1, <2>3, <3>1, <3>3
  <2> QED
    BY <1>1, <2>2, <2>3
<1> QED
  BY <1>5, <1>6, <1>7, <1>8

-----------------------------------------------------------------------------
(* Tables of ranges.                                                        *)

(* A sequence of ranges as a prover sees it.                                *)
LEMMA Ranges ==
  ASSUME NEW r \in Seq(FreeRange)
  PROVE  /\ Len(r) \in Nat /\ DOMAIN r = 1..Len(r)
         /\ \A i \in 1..Len(r) : /\ r[i] \in FreeRange
                                 /\ r[i].first \in Nat /\ r[i].count \in Nat
         /\ InOrder(r) <=> /\ \A i \in 1..Len(r) : r[i].first >= 1 /\ r[i].count >= 1
                           /\ \A i, j \in 1..Len(r) : i < j =>
                                r[i].first + r[i].count < r[j].first
<1>1. Len(r) \in Nat /\ DOMAIN r = 1..Len(r)
  OBVIOUS
<1>2. \A i \in 1..Len(r) : r[i] \in FreeRange
  BY ElementOfSeq
<1>3. \A f \in FreeRange : f.first \in Nat /\ f.count \in Nat
  BY DEF FreeRange
<1> QED
  BY <1>1, <1>2, <1>3 DEF InOrder

LEMMA CoveredIs ==
  ASSUME NEW r \in Seq(FreeRange), NEW x
  PROVE  x \in Covered(r) <=>
           /\ x \in Int
           /\ \E i \in 1..Len(r) : r[i].first <= x /\ x <= r[i].first + r[i].count - 1
<1>1. \A i \in 1..Len(r) : r[i].first \in Nat /\ r[i].count \in Nat
  BY Ranges
<1>2. x \in Covered(r) <=> \E i \in 1..Len(r) : x \in r[i].first..r[i].first + r[i].count - 1
  BY DEF Covered, ToSet
<1> QED
  BY <1>1, <1>2

-----------------------------------------------------------------------------
(* insert_range_in_super_table.                                             *)

(* The table s is r with the blocks b..b + n - 1.                           *)
Grown(s, r, b, n) ==
  /\ s \in Seq(FreeRange) /\ InOrder(s)
  /\ Covered(s) = Covered(r) \cup b..b + n - 1

LEMMA SelectIs ==
  ASSUME NEW r \in Seq(FreeRange), NEW b \in Nat, NEW i, NEW I,
         I = {j \in 1..Len(r) : b <= r[j].first + r[j].count},
         i = IF I # {} THEN Min(I) ELSE 0
  PROVE  \/ i = 0 /\ \A j \in 1..Len(r) : b > r[j].first + r[j].count
         \/ /\ i \in 1..Len(r) /\ b <= r[i].first + r[i].count
            /\ \A j \in 1..i - 1 : b > r[j].first + r[j].count
<1>2. I \in SUBSET Nat /\ Len(r) \in Nat
  OBVIOUS
<1>3. \A j \in 1..Len(r) : /\ r[j].first \in Nat /\ r[j].count \in Nat
                            /\ j \in I <=> ~(b > r[j].first + r[j].count)
  BY Ranges
<1>4. \A j \in I : j \in 1..Len(r) /\ b <= r[j].first + r[j].count
  OBVIOUS
<1>5. CASE I = {}
  BY <1>3, <1>5
<1>6. CASE I # {}
  <2>1. i \in I /\ \A j \in I : i <= j
    <3>1. i = Min(I)
      BY <1>6
    <3> QED
      BY <1>2, <1>6, <3>1, MinIn
  <2>2. i \in 1..Len(r)
    BY <1>4, <2>1
  <2>3. ASSUME NEW j \in 1..i - 1 PROVE b > r[j].first + r[j].count
    <3>1. j \in 1..Len(r) /\ j \in Nat /\ i \in Nat /\ ~(i <= j)
      BY <1>2, <2>2
    <3>2. j \notin I
      BY <2>1, <3>1
    <3> QED
      BY <1>3, <3>1, <3>2
  <2> QED
    BY <1>4, <2>1, <2>3
<1> QED
  BY <1>5, <1>6

LEMMA InsertGrows ==
  ASSUME NEW r \in Seq(FreeRange), InOrder(r), NEW b \in Nat \ {0}, NEW n \in Nat \ {0},
         NEW i \in 1..Len(r) + 1,
         \A j \in 1..i - 1 : b > r[j].first + r[j].count,
         \A j \in i..Len(r) : b + n < r[j].first
  PROVE  Grown(InsertAt(r, i, [first |-> b, count |-> n]), r, b, n)
<1> SUFFICES ASSUME NEW e \in FreeRange, e = [first |-> b, count |-> n],
                    NEW s, s = InsertAt(r, i, e)
             PROVE  Grown(s, r, b, n)
  BY DEF FreeRange
<1>1. e.first = b /\ e.count = n
  OBVIOUS
<1>2. /\ s \in Seq(FreeRange) /\ Len(s) = Len(r) + 1
      /\ \A j \in 1..Len(r) + 1 :
           s[j] = IF j < i THEN r[j] ELSE IF j = i THEN e ELSE r[j - 1]
  BY InsertAtIs
<1>3. /\ Len(r) \in Nat /\ i \in Nat
      /\ \A j \in 1..Len(r) : /\ r[j].first \in Nat /\ r[j].count \in Nat
                              /\ r[j].first >= 1 /\ r[j].count >= 1
      /\ \A j, k \in 1..Len(r) : j < k => r[j].first + r[j].count < r[k].first
  <2>1. Len(r) \in Nat /\ \A j \in 1..Len(r) : r[j].first \in Nat /\ r[j].count \in Nat
    BY Ranges, Zenon
  <2>2. /\ \A j \in 1..Len(r) : r[j].first >= 1 /\ r[j].count >= 1
        /\ \A j, k \in 1..Len(r) : j < k => r[j].first + r[j].count < r[k].first
    BY Ranges, Zenon
  <2>3. i \in Nat
    BY <2>1
  <2> QED
    BY <2>1, <2>2, <2>3
<1>4. InOrder(s)
  <2>1. \A j \in 1..Len(s) : s[j].first >= 1 /\ s[j].count >= 1
    <3> SUFFICES ASSUME NEW j \in 1..Len(s) PROVE s[j].first >= 1 /\ s[j].count >= 1
      OBVIOUS
    <3>1. CASE j < i
      BY <1>2, <1>3, <3>1
    <3>2. CASE j = i
      BY <1>1, <1>2, <1>3, <3>2
    <3>3. CASE j > i
      BY <1>2, <1>3, <3>3
    <3> QED
      BY <1>3, <3>1, <3>2, <3>3
  <2>2. ASSUME NEW j \in 1..Len(s), NEW k \in 1..Len(s), j < k
        PROVE  s[j].first + s[j].count < s[k].first
    <3>1. s[j] = (IF j < i THEN r[j] ELSE IF j = i THEN e ELSE r[j - 1])
          /\ s[k] = (IF k < i THEN r[k] ELSE IF k = i THEN e ELSE r[k - 1])
      BY <1>2
    <3>2. CASE k < i
      BY <1>2, <1>3, <2>2, <3>1, <3>2
    <3>3. CASE k = i
      <4>1. s[j] = r[j] /\ s[k] = e /\ j \in 1..i - 1
        BY <1>2, <1>3, <2>2, <3>1, <3>3
      <4> QED
        BY <1>1, <4>1
    <3>4. CASE k > i /\ j < i
      <4>1. s[j] = r[j] /\ s[k] = r[k - 1] /\ j \in 1..Len(r) /\ k - 1 \in 1..Len(r)
            /\ j < k - 1
        BY <1>2, <1>3, <2>2, <3>1, <3>4
      <4> QED
        BY <1>3, <4>1
    <3>5. CASE k > i /\ j = i
      <4>1. s[j] = e /\ s[k] = r[k - 1] /\ k - 1 \in i..Len(r)
        BY <1>2, <1>3, <2>2, <3>1, <3>5
      <4> QED
        BY <1>1, <1>3, <4>1
    <3>6. CASE k > i /\ j > i
      <4>1. s[j] = r[j - 1] /\ s[k] = r[k - 1] /\ j - 1 \in 1..Len(r) /\ k - 1 \in 1..Len(r)
            /\ j - 1 < k - 1
        BY <1>2, <1>3, <2>2, <3>1, <3>6
      <4> QED
        BY <1>3, <4>1
    <3> QED
      BY <1>3, <3>2, <3>3, <3>4, <3>5, <3>6
  <2> QED
    BY <1>2, <2>1, <2>2, Ranges
<1>5. ASSUME NEW x
      PROVE  x \in Covered(s) <=> x \in Covered(r) \cup b..b + n - 1
  <2>1. ASSUME x \in Covered(s) PROVE x \in Covered(r) \cup b..b + n - 1
    <3>1. PICK j \in 1..Len(s) : /\ x \in Int /\ s[j].first <= x
                                 /\ x <= s[j].first + s[j].count - 1
      BY <1>2, <2>1, CoveredIs
    <3>2. CASE j = i
      BY <1>1, <1>2, <1>3, <3>1, <3>2
    <3>3. CASE j # i
      <4>1. PICK k \in 1..Len(r) : s[j] = r[k]
        <5>1. CASE j < i
          BY <1>2, <1>3, <5>1
        <5>2. CASE j > i
          <6>1. s[j] = r[j - 1] /\ j - 1 \in 1..Len(r)
            BY <1>2, <1>3, <5>2
          <6> QED
            BY <6>1
        <5> QED
          BY <1>3, <3>3, <5>1, <5>2
      <4> QED
        BY <3>1, <4>1, CoveredIs
    <3> QED
      BY <3>2, <3>3
  <2>2. ASSUME x \in b..b + n - 1 PROVE x \in Covered(s)
    <3>1. s[i] = e /\ i \in 1..Len(s)
      BY <1>2, <1>3
    <3>2. x \in Int /\ s[i].first <= x /\ x <= s[i].first + s[i].count - 1
      BY <1>1, <2>2, <3>1
    <3> QED
      BY <1>2, <3>1, <3>2, CoveredIs
  <2>3. ASSUME x \in Covered(r) PROVE x \in Covered(s)
    <3>1. PICK j \in 1..Len(r) : /\ x \in Int /\ r[j].first <= x
                                 /\ x <= r[j].first + r[j].count - 1
      BY <2>3, CoveredIs
    <3>2. \E k \in 1..Len(s) : s[k] = r[j]
      <4>1. CASE j < i
        <5>1. s[j] = r[j] /\ j \in 1..Len(s)
          BY <1>2, <1>3, <4>1
        <5> QED
          BY <5>1
      <4>2. CASE j >= i
        <5>1. s[j + 1] = r[j + 1 - 1] /\ j + 1 \in 1..Len(s) /\ j + 1 - 1 = j
          BY <1>2, <1>3, <4>2
        <5> QED
          BY <5>1
      <4> QED
        BY <1>3, <4>1, <4>2
    <3> QED
      BY <1>2, <3>1, <3>2, CoveredIs
  <2> QED
    BY <2>1, <2>2, <2>3
<1> QED
  BY <1>2, <1>4, <1>5 DEF Grown

(* A range grows downwards or upwards and does not reach its neighbours.    *)
LEMMA RangeGrows ==
  ASSUME NEW r \in Seq(FreeRange), InOrder(r), NEW i \in 1..Len(r), NEW e \in FreeRange,
         e.first >= 1, e.first <= r[i].first,
         e.first + e.count >= r[i].first + r[i].count,
         \A j \in 1..i - 1 : r[j].first + r[j].count < e.first,
         \A j \in i + 1..Len(r) : e.first + e.count < r[j].first
  PROVE  LET s == [r EXCEPT ![i] = e] IN
         /\ s \in Seq(FreeRange) /\ Len(s) = Len(r) /\ InOrder(s)
         /\ Covered(s) = Covered(r) \cup e.first..e.first + e.count - 1
<1> DEFINE s == [r EXCEPT ![i] = e]
<1>1. /\ s \in Seq(FreeRange) /\ Len(s) = Len(r)
      /\ \A j \in 1..Len(r) : s[j] = IF j = i THEN e ELSE r[j]
  BY ExceptSeq
<1> HIDE DEF s
<1>2. /\ Len(r) \in Nat /\ i \in Nat /\ e.first \in Nat /\ e.count \in Nat
      /\ \A j \in 1..Len(r) : /\ r[j].first \in Nat /\ r[j].count \in Nat
                              /\ r[j].first >= 1 /\ r[j].count >= 1
      /\ \A j, k \in 1..Len(r) : j < k => r[j].first + r[j].count < r[k].first
  <2>1. Len(r) \in Nat /\ \A j \in 1..Len(r) : r[j].first \in Nat /\ r[j].count \in Nat
    BY Ranges, Zenon
  <2>2. /\ \A j \in 1..Len(r) : r[j].first >= 1 /\ r[j].count >= 1
        /\ \A j, k \in 1..Len(r) : j < k => r[j].first + r[j].count < r[k].first
    BY Ranges, Zenon
  <2>3. i \in Nat
    BY <2>1
  <2>4. e.first \in Nat /\ e.count \in Nat
    BY DEF FreeRange
  <2> QED
    BY <2>1, <2>2, <2>3, <2>4
<1>3. InOrder(s)
  <2>1. \A j \in 1..Len(s) : s[j].first >= 1 /\ s[j].count >= 1
    BY <1>1, <1>2
  <2>2. ASSUME NEW j \in 1..Len(s), NEW k \in 1..Len(s), j < k
        PROVE  s[j].first + s[j].count < s[k].first
    <3>1. CASE j = i
      BY <1>1, <1>2, <2>2, <3>1
    <3>2. CASE k = i
      BY <1>1, <1>2, <2>2, <3>2
    <3>3. CASE j # i /\ k # i
      BY <1>1, <1>2, <2>2, <3>3
    <3> QED
      BY <3>1, <3>2, <3>3
  <2> QED
    BY <1>1, <2>1, <2>2, Ranges
<1>4. ASSUME NEW x
      PROVE  x \in Covered(s) <=> x \in Covered(r) \cup e.first..e.first + e.count - 1
  <2>1. ASSUME x \in Covered(s)
        PROVE  x \in Covered(r) \cup e.first..e.first + e.count - 1
    <3>1. PICK j \in 1..Len(s) : /\ x \in Int /\ s[j].first <= x
                                 /\ x <= s[j].first + s[j].count - 1
      BY <1>1, <2>1, CoveredIs
    <3>2. CASE j = i
      BY <1>1, <1>2, <3>1, <3>2
    <3>3. CASE j # i
      <4>1. s[j] = r[j] /\ j \in 1..Len(r)
        BY <1>1, <3>3
      <4> QED
        BY <3>1, <4>1, CoveredIs
    <3> QED
      BY <3>2, <3>3
  <2>2. ASSUME x \in e.first..e.first + e.count - 1 PROVE x \in Covered(s)
    <3>1. s[i] = e /\ i \in 1..Len(s)
      BY <1>1
    <3>2. x \in Int /\ s[i].first <= x /\ x <= s[i].first + s[i].count - 1
      BY <1>2, <2>2, <3>1
    <3> QED
      BY <1>1, <3>1, <3>2, CoveredIs
  <2>3. ASSUME x \in Covered(r) PROVE x \in Covered(s)
    <3>1. PICK j \in 1..Len(r) : /\ x \in Int /\ r[j].first <= x
                                 /\ x <= r[j].first + r[j].count - 1
      BY <2>3, CoveredIs
    <3>2. CASE j = i
      <4>1. x \in e.first..e.first + e.count - 1
        BY <1>2, <3>1, <3>2
      <4> QED
        BY <2>2, <4>1
    <3>3. CASE j # i
      <4>1. s[j] = r[j] /\ j \in 1..Len(s)
        BY <1>1, <3>3
      <4> QED
        BY <1>1, <3>1, <4>1, CoveredIs
    <3> QED
      BY <3>2, <3>3
  <2> QED
    BY <2>1, <2>2, <2>3
<1> QED
  BY <1>1, <1>3, <1>4 DEF s

(* Taking a range out.                                                      *)
LEMMA RangeRemoved ==
  ASSUME NEW r \in Seq(FreeRange), InOrder(r), NEW i \in 1..Len(r)
  PROVE  /\ RemoveAt(r, i) \in Seq(FreeRange) /\ Len(RemoveAt(r, i)) = Len(r) - 1
         /\ InOrder(RemoveAt(r, i))
         /\ Covered(RemoveAt(r, i)) = Covered(r) \ (r[i].first..r[i].first + r[i].count - 1)
<1> DEFINE s == RemoveAt(r, i)
<1>1. /\ s \in Seq(FreeRange) /\ Len(s) = Len(r) - 1
      /\ \A j \in 1..Len(r) - 1 : s[j] = IF j < i THEN r[j] ELSE r[j + 1]
  BY RemoveAtIs
<1> HIDE DEF s
<1>2. /\ Len(r) \in Nat /\ i \in Nat
      /\ \A j \in 1..Len(r) : /\ r[j].first \in Nat /\ r[j].count \in Nat
                              /\ r[j].first >= 1 /\ r[j].count >= 1
      /\ \A j, k \in 1..Len(r) : j < k => r[j].first + r[j].count < r[k].first
  BY Ranges
<1>3. \A j \in 1..Len(s) : \/ j < i /\ j \in 1..Len(r) /\ s[j] = r[j]
                           \/ j >= i /\ j + 1 \in 1..Len(r) /\ s[j] = r[j + 1]
  BY <1>1, <1>2
<1>4. InOrder(s)
  <2>1. \A j \in 1..Len(s) : s[j].first >= 1 /\ s[j].count >= 1
    BY <1>2, <1>3
  <2>2. ASSUME NEW j \in 1..Len(s), NEW k \in 1..Len(s), j < k
        PROVE  s[j].first + s[j].count < s[k].first
    <3>1. CASE k < i
      <4>1. s[j] = r[j] /\ s[k] = r[k] /\ j \in 1..Len(r) /\ k \in 1..Len(r)
        BY <1>2, <1>3, <2>2, <3>1
      <4> QED
        BY <1>2, <2>2, <4>1
    <3>2. CASE j < i /\ k >= i
      <4>1. s[j] = r[j] /\ s[k] = r[k + 1] /\ j \in 1..Len(r) /\ k + 1 \in 1..Len(r)
        BY <1>2, <1>3, <2>2, <3>2
      <4>2. j < k + 1
        BY <2>2
      <4> QED
        BY <1>2, <4>1, <4>2
    <3>3. CASE j >= i
      <4>1. s[j] = r[j + 1] /\ s[k] = r[k + 1] /\ j + 1 \in 1..Len(r) /\ k + 1 \in 1..Len(r)
        BY <1>2, <1>3, <2>2, <3>3
      <4>2. j + 1 < k + 1
        BY <2>2
      <4> QED
        BY <1>2, <4>1, <4>2
    <3> QED
      BY <1>2, <3>1, <3>2, <3>3
  <2> QED
    BY <1>1, <2>1, <2>2, Ranges
<1>5. ASSUME NEW x
      PROVE  x \in Covered(s) <=> x \in Covered(r) \ (r[i].first..r[i].first + r[i].count - 1)
  <2>1. ASSUME x \in Covered(s)
        PROVE  x \in Covered(r) /\ x \notin r[i].first..r[i].first + r[i].count - 1
    <3>1. PICK j \in 1..Len(s) : /\ x \in Int /\ s[j].first <= x
                                 /\ x <= s[j].first + s[j].count - 1
      BY <1>1, <2>1, CoveredIs
    <3>2. PICK k \in 1..Len(r) : k # i /\ s[j] = r[k]
      <4>1. CASE j < i
        BY <1>2, <1>3, <4>1
      <4>2. CASE j >= i
        <5>1. j + 1 # i /\ j + 1 \in 1..Len(r) /\ s[j] = r[j + 1]
          BY <1>2, <1>3, <4>2
        <5> QED
          BY <5>1
      <4> QED
        BY <1>2, <4>1, <4>2
    <3>3. x \in Covered(r)
      BY <3>1, <3>2, CoveredIs
    <3>4. k < i => x < r[i].first
      BY <1>2, <3>1, <3>2
    <3>5. i < k => r[i].first + r[i].count < x
      BY <1>2, <3>1, <3>2
    <3> QED
      BY <1>2, <3>1, <3>2, <3>3, <3>4, <3>5
  <2>2. ASSUME x \in Covered(r), x \notin r[i].first..r[i].first + r[i].count - 1
        PROVE  x \in Covered(s)
    <3>1. PICK j \in 1..Len(r) : /\ x \in Int /\ r[j].first <= x
                                 /\ x <= r[j].first + r[j].count - 1
      BY <2>2, CoveredIs
    <3>2. j # i
      BY <1>2, <2>2, <3>1
    <3>3. \E k \in 1..Len(s) : s[k] = r[j]
      <4>1. CASE j < i
        <5>1. s[j] = r[j] /\ j \in 1..Len(s)
          BY <1>1, <1>2, <4>1
        <5> QED
          BY <5>1
      <4>2. CASE j > i
        <5>1. j - 1 \in 1..Len(r) - 1 /\ j - 1 >= i /\ (j - 1) + 1 = j
          BY <1>2, <4>2
        <5>2. s[j - 1] = r[j] /\ j - 1 \in 1..Len(s)
          BY <1>1, <1>2, <5>1
        <5> QED
          BY <5>2
      <4> QED
        BY <1>2, <3>2, <4>1, <4>2
    <3> QED
      BY <1>1, <3>1, <3>3, CoveredIs
  <2> QED
    BY <2>1, <2>2
<1> QED
  BY <1>1, <1>4, <1>5 DEF s

LEMMA RangeWith ==
  ASSUME NEW q \in FreeRange, NEW m \in Nat
  PROVE  /\ [q EXCEPT !.count = m] = [first |-> q.first, count |-> m]
         /\ [first |-> q.first, count |-> m] \in FreeRange
BY DEF FreeRange

(* The segment lies behind range i, before the next one.                    *)
LEMMA AppendedGrows ==
  ASSUME NEW r \in Seq(FreeRange), InOrder(r), NEW i \in 1..Len(r), NEW n \in Nat \ {0},
         i < Len(r) => r[i].first + r[i].count + n <= r[i + 1].first
  PROVE  LET t == Appended(r, i, n)
         IN  /\ t.code = "ok" /\ Len(t.range) <= Len(r)
             /\ Grown(t.range, r, r[i].first + r[i].count, n)
<1> DEFINE m == r[i].count + n
           e == [first |-> r[i].first, count |-> m]
           grown == [r EXCEPT ![i] = e]
<1>0. \A j \in 1..Len(r) : r[j] \in FreeRange
  BY ElementOfSeq
<1>1. /\ Len(r) \in Nat /\ i \in Nat
      /\ \A j \in 1..Len(r) : /\ r[j].first \in Nat /\ r[j].count \in Nat
                              /\ r[j].first >= 1 /\ r[j].count >= 1
      /\ \A j, k \in 1..Len(r) : j < k => r[j].first + r[j].count < r[k].first
  BY Ranges
<1>2. m \in Nat
  BY <1>1
<1>3. e \in FreeRange /\ e.first = r[i].first /\ e.count = m /\ e = [r[i] EXCEPT !.count = m]
  BY <1>0, <1>2, RangeWith
<1>4. [r EXCEPT ![i].count = @ + n] = grown
  BY <1>3
<1> HIDE DEF e, m
<1>40. /\ e.first \in Nat /\ e.count \in Nat
       /\ e.first = r[i].first /\ e.count = r[i].count + n
  BY <1>1, <1>3 DEF m
<1>5. /\ grown \in Seq(FreeRange) /\ Len(grown) = Len(r)
      /\ \A j \in 1..Len(r) : grown[j] = IF j = i THEN e ELSE r[j]
  BY <1>3, ExceptSeq
<1>6. \A x : x \in r[i].first..r[i].first + r[i].count - 1 => x \in Covered(r)
  BY <1>1, CoveredIs
<1>7. CASE i < Len(r) /\ e.first + e.count = r[i + 1].first
  <2> DEFINE o == r[i + 1].count
             f == [first |-> r[i].first, count |-> m + o]
             g == [grown EXCEPT ![i] = f]
             u == RemoveAt(r, i + 1)
             s == [u EXCEPT ![i] = f]
  <2>1. i + 1 \in 1..Len(r) /\ o \in Nat /\ m + o \in Nat /\ o >= 1
    BY <1>1, <1>2, <1>7
  <2>2. f \in FreeRange /\ f = [e EXCEPT !.count = m + o]
        /\ f.first = r[i].first /\ f.count = m + o
    BY <1>1, <1>3, <2>1, RangeWith
  <2>3. [grown EXCEPT ![i].count = @ + o] = g
    BY <1>3, <1>5, <2>2
  <2>4. Appended(r, i, n) = [code |-> "ok", range |-> RemoveAt(g, i + 1)]
    BY <1>3, <1>4, <1>5, <1>7, <2>3 DEF Appended
  <2>40. /\ f.first = r[i].first /\ f.count = r[i].count + n + o
         /\ r[i].first + r[i].count + n = r[i + 1].first
         /\ r[i].first \in Nat /\ r[i].count \in Nat /\ r[i + 1].first \in Nat
    BY <1>1, <1>40, <1>7, <2>1, <2>2 DEF m
  <2> HIDE DEF f, o
  <2>5. /\ g \in Seq(FreeRange) /\ Len(g) = Len(r)
        /\ \A j \in 1..Len(r) : g[j] = IF j = i THEN f ELSE grown[j]
    BY <1>5, <2>2, ExceptSeq
  <2> HIDE DEF grown, g
  <2>6. /\ RemoveAt(g, i + 1) \in Seq(FreeRange) /\ Len(RemoveAt(g, i + 1)) = Len(r) - 1
        /\ \A j \in 1..Len(r) - 1 :
             RemoveAt(g, i + 1)[j] = IF j < i + 1 THEN g[j] ELSE g[j + 1]
    BY <2>1, <2>5, RemoveAtIs
  <2>7. /\ u \in Seq(FreeRange) /\ Len(u) = Len(r) - 1 /\ InOrder(u)
        /\ Covered(u) = Covered(r) \ (r[i + 1].first..r[i + 1].first + o - 1)
        /\ \A j \in 1..Len(r) - 1 : u[j] = IF j < i + 1 THEN r[j] ELSE r[j + 1]
    BY <2>1, RangeRemoved, RemoveAtIs DEF o
  <2> HIDE DEF u
  <2>8. u[i] = r[i] /\ i \in 1..Len(u)
    BY <1>1, <1>7, <2>7
  <2>9. ASSUME NEW j \in 1..i - 1 PROVE u[j].first + u[j].count < f.first
    <3>1. u[j] = r[j] /\ j \in 1..Len(r) /\ j < i
      BY <1>1, <1>7, <2>7
    <3> QED
      BY <1>1, <2>40, <3>1
  <2>10. ASSUME NEW j \in i + 1..Len(u) PROVE f.first + f.count < u[j].first
    <3>0. j \in 1..Len(r) - 1 /\ ~(j < i + 1) /\ j \in Nat
      BY <1>1, <2>7
    <3>1. u[j] = r[j + 1] /\ j + 1 \in 1..Len(r) /\ i + 1 < j + 1
      BY <1>1, <2>7, <3>0
    <3>2. r[i + 1].first + r[i + 1].count < r[j + 1].first
      BY <1>1, <2>1, <3>1
    <3>3. r[j + 1].first \in Nat /\ o = r[i + 1].count
      BY <1>1, <3>1 DEF o
    <3> QED
      <4> DEFINE a == r[i].first
                 c == r[i].count
                 d == r[i + 1].first
                 z == r[j + 1].first
      <4>1. /\ a \in Nat /\ c \in Nat /\ d \in Nat /\ z \in Nat /\ o \in Nat
            /\ f.first = a /\ f.count = c + n + o /\ a + c + n = d /\ d + o < z
            /\ u[j].first = z
        BY <2>1, <2>40, <3>1, <3>2, <3>3
      <4> HIDE DEF a, c, d, z
      <4> QED
        BY <4>1
  <2>11. /\ s \in Seq(FreeRange) /\ Len(s) = Len(u) /\ InOrder(s)
         /\ Covered(s) = Covered(u) \cup f.first..f.first + f.count - 1
    <3>1. f.first >= 1 /\ f.first <= u[i].first
          /\ f.first + f.count >= u[i].first + u[i].count
      BY <1>1, <2>1, <2>8, <2>40
    <3> QED
      BY <2>2, <2>7, <2>8, <2>9, <2>10, <3>1, RangeGrows
  <2>12. \A j \in 1..Len(u) : s[j] = IF j = i THEN f ELSE u[j]
    BY <2>2, <2>7, <2>8, ExceptSeq
  <2> HIDE DEF s
  <2>13. RemoveAt(g, i + 1) = s
    <3>1. ASSUME NEW j \in 1..Len(r) - 1 PROVE RemoveAt(g, i + 1)[j] = s[j]
      <4>1. CASE j = i
        BY <1>1, <2>5, <2>6, <2>7, <2>12, <4>1
      <4>2. CASE j < i
        BY <1>1, <1>5, <2>5, <2>6, <2>7, <2>12, <4>2
      <4>3. CASE j > i
        <5>1. j + 1 \in 1..Len(r) /\ ~(j < i + 1) /\ j # i /\ j + 1 # i /\ j \in 1..Len(u)
          BY <1>1, <2>7, <4>3
        <5>2. RemoveAt(g, i + 1)[j] = g[j + 1] /\ g[j + 1] = grown[j + 1]
              /\ grown[j + 1] = r[j + 1]
          BY <1>5, <2>5, <2>6, <5>1
        <5>3. s[j] = u[j] /\ u[j] = r[j + 1]
          BY <2>7, <2>12, <5>1
        <5> QED
          BY <5>2, <5>3
      <4> QED
        BY <1>1, <4>1, <4>2, <4>3
    <3> QED
      BY <2>6, <2>7, <2>11, <3>1, SeqEqual
  <2>14. ASSUME NEW x
         PROVE  x \in Covered(s) <=>
                  x \in Covered(r)
                    \cup r[i].first + r[i].count..r[i].first + r[i].count + n - 1
    <3>2. ASSUME NEW y \in r[i + 1].first..r[i + 1].first + o - 1 PROVE y \in Covered(r)
      <4>1. /\ y \in Int /\ r[i + 1].first <= y
            /\ y <= r[i + 1].first + r[i + 1].count - 1
        BY <1>1, <2>1, <2>40 DEF o
      <4> QED
        BY <2>1, <4>1, CoveredIs
    <3>3. x \in Covered(s) <=> \/ /\ x \in Covered(r)
                                  /\ x \notin r[i + 1].first..r[i + 1].first + o - 1
                               \/ x \in r[i].first..r[i].first + (r[i].count + n + o) - 1
      BY <2>7, <2>11, <2>40
    <3>4. x \in r[i].first..r[i].first + (r[i].count + n + o) - 1 <=>
            \/ x \in r[i].first..r[i].first + r[i].count - 1
            \/ x \in r[i].first + r[i].count..r[i].first + r[i].count + n - 1
            \/ x \in r[i + 1].first..r[i + 1].first + o - 1
      <4> DEFINE a == r[i].first
                 c == r[i].count
                 d == r[i + 1].first
      <4>1. a \in Nat /\ c \in Nat /\ d \in Nat /\ o \in Nat /\ a + c + n = d /\ o >= 1
        BY <2>1, <2>40
      <4> HIDE DEF a, c, d, o
      <4>2. x \in a..a + (c + n + o) - 1 <=>
              \/ x \in a..a + c - 1 \/ x \in a + c..a + c + n - 1 \/ x \in d..d + o - 1
        BY <4>1
      <4> QED
        BY <4>2 DEF a, c, d
    <3> QED
      BY <1>6, <3>2, <3>3, <3>4
  <2> QED
    BY <2>1, <2>4, <2>7, <2>11, <2>13, <2>14, <1>1 DEF Grown
<1>8. CASE ~(i < Len(r) /\ e.first + e.count = r[i + 1].first)
  <2>1. Appended(r, i, n) = [code |-> "ok", range |-> grown]
    BY <1>3, <1>4, <1>5, <1>8 DEF Appended
  <2>2. ASSUME NEW j \in i + 1..Len(r) PROVE e.first + e.count < r[j].first
    <3>1. i + 1 \in 1..Len(r) /\ i < Len(r) /\ j \in 1..Len(r)
      BY <1>1
    <3>2. /\ r[i].first \in Nat /\ r[i].count \in Nat
          /\ r[i + 1].first \in Nat /\ r[i + 1].count \in Nat /\ r[j].first \in Nat
      BY <1>1, <3>1
    <3>3. r[i].first + r[i].count + n <= r[i + 1].first
          /\ e.first + e.count # r[i + 1].first
      BY <1>8, <3>1
    <3> DEFINE a == r[i].first
               c == r[i].count
               d == r[i + 1].first
               z == r[j].first
    <3>30. /\ a \in Nat /\ c \in Nat /\ d \in Nat /\ z \in Nat
           /\ e.first = a /\ e.count = c + n /\ a + c + n <= d /\ a + (c + n) # d
      BY <1>40, <3>2, <3>3
    <3> HIDE DEF a, c, d, z
    <3>4. a + (c + n) < d
      BY <3>30
    <3>5. CASE j = i + 1
      BY <3>30, <3>4, <3>5 DEF d
    <3>6. CASE j # i + 1
      <4>1. i + 1 < j
        BY <1>1, <3>6
      <4>2. r[i + 1].first + r[i + 1].count < r[j].first
        BY <1>1, <3>1, <4>1
      <4>3. d < z
        BY <3>2, <4>2 DEF d, z
      <4>4. a + (c + n) < z
        BY <3>4, <3>30, <4>3
      <4> QED
        BY <3>30, <4>4 DEF z
    <3> QED
      BY <3>5, <3>6
  <2>3. /\ grown \in Seq(FreeRange) /\ Len(grown) = Len(r) /\ InOrder(grown)
        /\ Covered(grown) = Covered(r) \cup e.first..e.first + e.count - 1
    <3>1. e.first >= 1 /\ e.first <= r[i].first
          /\ e.first + e.count >= r[i].first + r[i].count
      BY <1>1, <1>40
    <3>2. \A j \in 1..i - 1 : r[j].first + r[j].count < e.first
      BY <1>1, <1>40
    <3> QED
      BY <1>3, <2>2, <3>1, <3>2, RangeGrows
  <2> HIDE DEF grown
  <2>4. ASSUME NEW x
        PROVE  x \in Covered(grown) <=>
                 x \in Covered(r) \cup r[i].first + r[i].count..r[i].first + r[i].count + n - 1
    <3>1. x \in e.first..e.first + e.count - 1 <=>
            \/ x \in r[i].first..r[i].first + r[i].count - 1
            \/ x \in r[i].first + r[i].count..r[i].first + r[i].count + n - 1
      <4> DEFINE a == r[i].first
                 c == r[i].count
      <4>1. a \in Nat /\ c \in Nat /\ e.first = a /\ e.count = c + n
        BY <1>1, <1>40
      <4> HIDE DEF a, c
      <4>2. x \in e.first..e.first + e.count - 1 <=>
              x \in a..a + c - 1 \/ x \in a + c..a + c + n - 1
        BY <4>1
      <4> QED
        BY <4>2 DEF a, c
    <3> QED
      BY <1>6, <2>3, <3>1
  <2> QED
    BY <1>1, <2>1, <2>3, <2>4 DEF Grown
<1> QED
  BY <1>7, <1>8

(* insert_range_in_super_table keeps the order and adds the blocks, or has  *)
(* no room; the assertion does not fail.                                    *)
LEMMA InsertedRight ==
  ASSUME NEW r \in Seq(FreeRange), InOrder(r), Len(r) <= MaxRanges,
         NEW b \in Nat \ {0}, NEW n \in Nat \ {0},
         (b..b + n - 1) \cap Covered(r) = {}
  PROVE  LET t == Inserted(r, b, n)
         IN  \/ t.code = "full" /\ Len(r) = MaxRanges
             \/ t.code = "ok" /\ Len(t.range) <= MaxRanges /\ Grown(t.range, r, b, n)
<1> DEFINE I == {j \in 1..Len(r) : b <= r[j].first + r[j].count}
           i == IF I # {} THEN Min(I) ELSE 0
           t == Inserted(r, b, n)
           e == [first |-> b, count |-> n]
           At(k) == InsertedAt(r, k, e)
<1> SUFFICES \/ t.code = "full" /\ Len(r) = MaxRanges
             \/ t.code = "ok" /\ Len(t.range) <= MaxRanges /\ Grown(t.range, r, b, n)
  OBVIOUS
<1>1. t = CASE i = 0 -> At(Len(r) + 1)
            [] i > 0 /\ b + n < r[i].first -> At(i)
            [] i > 0 /\ b + n = r[i].first ->
                 [code  |-> "ok",
                  range |-> [r EXCEPT ![i] = [first |-> b, count |-> @.count + n]]]
            [] i > 0 /\ b + n > r[i].first /\ b = r[i].first + r[i].count ->
                 Appended(r, i, n)
            [] OTHER -> [code |-> "overlap", range |-> r]
  BY DEF Inserted, SelectInSeq
<1>2. \/ i = 0 /\ \A j \in 1..Len(r) : b > r[j].first + r[j].count
      \/ /\ i \in 1..Len(r) /\ b <= r[i].first + r[i].count
         /\ \A j \in 1..i - 1 : b > r[j].first + r[j].count
  <2> HIDE DEF i
  <2> QED
    <3>1. i = IF I # {} THEN Min(I) ELSE 0
      BY DEF i
    <3> QED
      BY <3>1, SelectIs
<1> HIDE DEF I, i, t
<1>3. /\ Len(r) \in Nat
      /\ \A j \in 1..Len(r) : /\ r[j].first \in Nat /\ r[j].count \in Nat
                              /\ r[j].first >= 1 /\ r[j].count >= 1
      /\ \A j, k \in 1..Len(r) : j < k => r[j].first + r[j].count < r[k].first
  BY Ranges
<1>4. ASSUME NEW k \in 1..Len(r) + 1, t = At(k),
             \A j \in 1..k - 1 : b > r[j].first + r[j].count,
             \A j \in k..Len(r) : b + n < r[j].first
      PROVE  \/ t.code = "full" /\ Len(r) = MaxRanges
             \/ t.code = "ok" /\ Len(t.range) <= MaxRanges /\ Grown(t.range, r, b, n)
  <2>1. e \in FreeRange
    BY DEF FreeRange
  <2>2. Grown(InsertAt(r, k, e), r, b, n)
    BY <1>4, InsertGrows
  <2>3. Len(InsertAt(r, k, e)) = Len(r) + 1
    BY <2>1, InsertAtIs
  <2> HIDE DEF e
  <2>4. CASE Len(r) = MaxRanges
    BY <1>4, <2>4 DEF InsertedAt
  <2>5. CASE Len(r) # MaxRanges
    <3>1. t.code = "ok" /\ t.range = InsertAt(r, k, e)
      BY <1>4, <2>5 DEF InsertedAt
    <3>2. MaxRanges \in Nat
      BY SizeAssumption DEF MaxRanges
    <3>3. Len(t.range) <= MaxRanges
      BY <1>3, <2>3, <2>5, <3>1, <3>2
    <3> QED
      BY <2>2, <3>1, <3>3
  <2> QED
    BY <2>4, <2>5
<1>5. CASE i = 0
  <2>1. t = At(Len(r) + 1)
    BY <1>1, <1>5
  <2>2. Len(r) + 1 \in 1..Len(r) + 1 /\ (Len(r) + 1) - 1 = Len(r)
        /\ ~(\E j \in Len(r) + 1..Len(r) : TRUE) /\ 0 \notin 1..Len(r)
    BY <1>3
  <2> QED
    BY <1>2, <1>4, <1>5, <2>1, <2>2
<1>6. CASE i # 0
  <2> DEFINE f == r[i].first
             c == r[i].count
  <2>1. /\ i \in 1..Len(r) /\ i > 0 /\ b <= f + c
        /\ \A j \in 1..i - 1 : b > r[j].first + r[j].count
    BY <1>2, <1>3, <1>6
  <2>2. f \in Nat /\ c \in Nat /\ f >= 1 /\ c >= 1
    BY <1>3, <2>1
  <2>3. \A x \in Int : b <= x /\ x < b + n => ~(f <= x /\ x < f + c)
    <3> SUFFICES ASSUME NEW x \in Int, b <= x, x < b + n, f <= x, x < f + c PROVE FALSE
      BY <2>2
    <3>1. x \in b..b + n - 1 /\ r[i].first <= x /\ x <= r[i].first + r[i].count - 1
      BY <2>2
    <3>2. x \in Covered(r)
      BY <2>1, <3>1, CoveredIs
    <3> QED
      BY <3>1, <3>2
  <2>4. t = CASE i > 0 /\ b + n < f -> At(i)
              [] i > 0 /\ b + n = f ->
                   [code  |-> "ok",
                    range |-> [r EXCEPT ![i] = [first |-> b, count |-> @.count + n]]]
              [] i > 0 /\ b + n > f /\ b = f + c -> Appended(r, i, n)
              [] OTHER -> [code |-> "overlap", range |-> r]
    BY <1>1, <1>6, <2>1
  <2>5. CASE b + n < f
    <3>1. t = At(i)
      <4> HIDE DEF f, c, At
      <4> QED
        BY <2>1, <2>2, <2>4, <2>5
    <3>2. i \in 1..Len(r) + 1
      BY <1>3, <2>1
    <3>3. ASSUME NEW j \in i..Len(r) PROVE b + n < r[j].first
      <4>1. CASE j = i
        BY <2>5, <4>1
      <4>2. CASE j # i
        <5>1. i < j /\ j \in 1..Len(r)
          BY <1>3, <2>1, <4>2
        <5>2. f + c < r[j].first /\ r[j].first \in Nat
          BY <1>3, <2>1, <5>1
        <5> HIDE DEF f, c
        <5> QED
          BY <2>2, <2>5, <5>2
      <4> QED
        BY <4>1, <4>2
    <3> QED
      BY <1>4, <2>1, <3>1, <3>2, <3>3
  <2>6. CASE b + n = f
    <3> DEFINE g == [first |-> b, count |-> c + n]
               s == [r EXCEPT ![i] = g]
    <3>1. t = [code |-> "ok", range |-> s]
      BY <2>1, <2>2, <2>4, <2>6
    <3>2. g \in FreeRange /\ g.first = b /\ g.count = c + n
      BY <2>2 DEF FreeRange
    <3> HIDE DEF g
    <3>3. ASSUME NEW j \in i + 1..Len(r) PROVE g.first + g.count < r[j].first
      <4>1. i < j /\ j \in 1..Len(r)
        BY <1>3, <2>1
      <4>2. f + c < r[j].first /\ r[j].first \in Nat
        BY <1>3, <2>1, <4>1
      <4> HIDE DEF f, c
      <4> QED
        BY <2>2, <2>6, <3>2, <4>2
    <3>4. /\ g.first >= 1 /\ g.first <= r[i].first
          /\ g.first + g.count >= r[i].first + r[i].count
      <4>1. g.first >= 1 /\ g.first <= f /\ g.first + g.count >= f + c
        <5> HIDE DEF f, c
        <5> QED
          BY <2>2, <2>6, <3>2
      <4> QED
        BY <4>1
    <3>5. /\ s \in Seq(FreeRange) /\ Len(s) = Len(r) /\ InOrder(s)
          /\ Covered(s) = Covered(r) \cup g.first..g.first + g.count - 1
      BY <2>1, <3>2, <3>3, <3>4, RangeGrows
    <3> HIDE DEF s
    <3>6. ASSUME NEW x PROVE x \in Covered(s) <=> x \in Covered(r) \cup b..b + n - 1
      <4>1. x \in f..f + c - 1 => x \in Covered(r)
        BY <2>1, <2>2, CoveredIs
      <4>2. x \in g.first..g.first + g.count - 1 <=> x \in b..b + n - 1 \/ x \in f..f + c - 1
        <5> HIDE DEF f, c
        <5> QED
          BY <2>2, <2>6, <3>2
      <4> QED
        BY <3>5, <4>1, <4>2
    <3>7. t.code = "ok" /\ t.range = s
      BY <3>1
    <3> QED
      BY <3>5, <3>6, <3>7 DEF Grown
  <2>7. CASE b + n > f /\ b = f + c
    <3>1. t = Appended(r, i, n)
      <4> HIDE DEF f, c
      <4> QED
        BY <2>1, <2>2, <2>4, <2>7
    <3>2. ASSUME i < Len(r) PROVE r[i].first + r[i].count + n <= r[i + 1].first
      <4> DEFINE d == r[i + 1].first
      <4>1. i + 1 \in 1..Len(r) /\ i < i + 1
        BY <1>3, <2>1, <3>2
      <4>2. d \in Nat /\ r[i + 1].count \in Nat /\ r[i + 1].count >= 1 /\ f + c < d
        BY <1>3, <2>1, <4>1
      <4>3. d \in Covered(r)
        <5>1. d \in Int /\ r[i + 1].first <= d /\ d <= r[i + 1].first + r[i + 1].count - 1
          BY <4>2
        <5> QED
          BY <4>1, <5>1, CoveredIs
      <4>4. ~(d \in b..b + n - 1)
        BY <4>3
      <4> HIDE DEF d
      <4>5. f + c + n <= d
        <5> HIDE DEF f, c
        <5> QED
          BY <2>2, <2>7, <4>2, <4>4
      <4> QED
        BY <4>5 DEF d
    <3>3. t.code = "ok" /\ Len(t.range) <= Len(r) /\ Grown(t.range, r, b, n)
      BY <2>1, <2>7, <3>1, <3>2, AppendedGrows
    <3>4. Len(t.range) \in Nat /\ MaxRanges \in Nat
      BY <3>3, SizeAssumption DEF Grown, MaxRanges
    <3> QED
      BY <1>3, <3>3, <3>4
  <2>8. CASE ~(b + n < f) /\ ~(b + n = f) /\ ~(b + n > f /\ b = f + c)
    <3> HIDE DEF f, c
    <3>1. b + n > f /\ b < f + c
      BY <2>1, <2>2, <2>8
    <3>2. CASE b <= f
      BY <2>2, <2>3, <3>1, <3>2
    <3>3. CASE b > f
      BY <2>2, <2>3, <3>1, <3>3
    <3> QED
      BY <2>2, <3>2, <3>3
  <2> QED
    BY <2>5, <2>6, <2>7, <2>8
<1> QED
  BY <1>5, <1>6

-----------------------------------------------------------------------------
(* The tables in allocate_block and deallocate_block.                       *)

(* A block is taken from the front of a range.                              *)
LEMMA TakenFromIs ==
  ASSUME NEW r \in Seq(FreeRange), InOrder(r), NEW i \in 1..Len(r)
  PROVE  LET s == TakenFrom(r, i)
         IN  /\ s \in Seq(FreeRange) /\ InOrder(s) /\ Len(s) <= Len(r)
             /\ r[i].first \in Covered(r) /\ Covered(s) = Covered(r) \ {r[i].first}
<1> DEFINE f == r[i].first
           c == r[i].count
           s == TakenFrom(r, i)
<1>0. \A j \in 1..Len(r) : r[j] \in FreeRange
  BY ElementOfSeq
<1>1. /\ Len(r) \in Nat /\ i \in Nat
      /\ \A j \in 1..Len(r) : /\ r[j].first \in Nat /\ r[j].count \in Nat
                              /\ r[j].first >= 1 /\ r[j].count >= 1
      /\ \A j, k \in 1..Len(r) : j < k => r[j].first + r[j].count < r[k].first
  BY Ranges
<1>2. f \in Nat /\ c \in Nat /\ f >= 1 /\ c >= 1
  BY <1>1
<1>3. \A x : x \in f..f + c - 1 => x \in Covered(r)
  BY <1>2, CoveredIs
<1>4. f \in Covered(r)
  BY <1>2, <1>3
<1>5. CASE c = 1
  <2>1. s = RemoveAt(r, i)
    BY <1>5 DEF TakenFrom
  <2>2. f..f + c - 1 = {f}
    <3> HIDE DEF f, c
    <3> QED
      BY <1>2, <1>5
  <2>3. /\ s \in Seq(FreeRange) /\ Len(s) = Len(r) - 1 /\ InOrder(s)
        /\ Covered(s) = Covered(r) \ (f..f + c - 1)
    BY <2>1, RangeRemoved
  <2> QED
    BY <1>1, <1>4, <2>2, <2>3
<1>6. CASE c # 1
  <2> DEFINE e == [first |-> f + 1, count |-> c - 1]
  <2>1. r[i].first = f /\ r[i].count = c /\ s = [r EXCEPT ![i] = e]
    BY <1>6 DEF TakenFrom
  <2>2. e \in FreeRange /\ e.first = f + 1 /\ e.count = c - 1 /\ c >= 2
    <3> HIDE DEF f, c
    <3> QED
      BY <1>2, <1>6 DEF FreeRange
  <2> HIDE DEF e, f, c
  <2>3. /\ s \in Seq(FreeRange) /\ Len(s) = Len(r)
        /\ \A j \in 1..Len(r) : s[j] = IF j = i THEN e ELSE r[j]
    BY <2>1, <2>2, ExceptSeq
  <2> HIDE DEF s
  <2>4. InOrder(s)
    <3>1. \A j \in 1..Len(s) : s[j].first >= 1 /\ s[j].count >= 1
      BY <1>1, <1>2, <2>2, <2>3
    <3>2. ASSUME NEW j \in 1..Len(s), NEW k \in 1..Len(s), j < k
          PROVE  s[j].first + s[j].count < s[k].first
      <4>0. r[j].first + r[j].count < r[k].first
            /\ r[j].first \in Nat /\ r[j].count \in Nat /\ r[k].first \in Nat
        BY <1>1, <2>3, <3>2
      <4>1. CASE j = i
        <5>0. s[j] = e /\ k # i /\ s[k] = r[k]
          BY <1>1, <2>3, <3>2, <4>1
        <5>1. s[j].first + s[j].count = f + c /\ s[k] = r[k]
          BY <1>2, <2>2, <5>0
        <5> QED
          BY <2>1, <4>0, <4>1, <5>1
      <4>2. CASE k = i
        <5>1. s[j] = r[j] /\ s[k].first = f + 1
          BY <1>1, <2>2, <2>3, <3>2, <4>2
        <5>2. r[j].first + r[j].count < f
          BY <2>1, <4>0, <4>2
        <5> QED
          BY <1>2, <4>0, <5>1, <5>2
      <4>3. CASE j # i /\ k # i
        BY <2>3, <4>0, <4>3
      <4> QED
        BY <4>1, <4>2, <4>3
    <3> QED
      BY <2>3, <3>1, <3>2, Ranges
  <2>5. ASSUME NEW x PROVE x \in Covered(s) <=> x \in Covered(r) /\ x # f
    <3>1. ASSUME x \in Covered(s) PROVE x \in Covered(r) /\ x # f
      <4>1. PICK j \in 1..Len(s) : /\ x \in Int /\ s[j].first <= x
                                   /\ x <= s[j].first + s[j].count - 1
        BY <2>3, <3>1, CoveredIs
      <4>2. CASE j = i
        <5>1. x \in f..f + c - 1 /\ x # f
          BY <1>2, <2>2, <2>3, <4>1, <4>2
        <5> QED
          BY <1>3, <5>1
      <4>3. CASE j # i
        <5>1. s[j] = r[j] /\ j \in 1..Len(r)
          BY <2>3, <4>3
        <5>2. x \in Covered(r)
          BY <4>1, <5>1, CoveredIs
        <5>3. ASSUME x = f PROVE FALSE
          <6>1. r[j].first <= f /\ f <= r[j].first + r[j].count - 1
                /\ r[j].first \in Nat /\ r[j].count \in Nat
            BY <1>1, <4>1, <5>1, <5>3
          <6>2. CASE j < i
            <7>1. r[j].first + r[j].count < f
              BY <1>1, <2>1, <5>1, <6>2
            <7> QED
              BY <1>2, <6>1, <7>1
          <6>3. CASE j > i
            <7>1. f + c < r[j].first
              BY <1>1, <2>1, <5>1, <6>3
            <7> QED
              BY <1>2, <6>1, <7>1
          <6> QED
            BY <1>1, <4>3, <5>1, <6>2, <6>3
        <5> QED
          BY <5>2, <5>3
      <4> QED
        BY <4>2, <4>3
    <3>2. ASSUME x \in Covered(r), x # f PROVE x \in Covered(s)
      <4>1. PICK j \in 1..Len(r) : /\ x \in Int /\ r[j].first <= x
                                   /\ x <= r[j].first + r[j].count - 1
        BY <3>2, CoveredIs
      <4>2. s[j].first <= x /\ x <= s[j].first + s[j].count - 1 /\ j \in 1..Len(s)
        <5>1. CASE j = i
          <6>1. f <= x /\ x <= f + c - 1
            BY <2>1, <4>1, <5>1
          <6> QED
            BY <1>2, <2>2, <2>3, <3>2, <4>1, <5>1, <6>1
        <5>2. CASE j # i
          BY <2>3, <4>1, <5>2
        <5> QED
          BY <5>1, <5>2
      <4> QED
        BY <2>3, <4>1, <4>2, CoveredIs
    <3> QED
      BY <3>1, <3>2
  <2>6. Covered(s) = Covered(r) \ {f}
    BY <2>5
  <2>7. Len(s) <= Len(r)
    BY <1>1, <2>3
  <2> QED
    BY <1>4, <2>3, <2>4, <2>6, <2>7 DEF s, f
<1> QED
  BY <1>5, <1>6

(* The choice of the range stays inside of the table.                       *)
LEMMA AlignedIs ==
  ASSUME NEW r \in Seq(FreeRange), r # <<>>, NEW advised \in Nat, NEW alignment \in Nat
  PROVE  Aligned(r, Advised(r, advised), alignment) \in 1..Len(r)
<1> DEFINE I == {i \in 1..Len(r) : i = Len(r) \/ advised > r[i].first}
           a == Advised(r, advised)
<1>0. DOMAIN r = 1..Len(r)
  BY Ranges
<1>1. Len(r) \in Nat /\ \A i \in 1..Len(r) : r[i].first \in Nat
  BY Ranges
<1>2. Len(r) >= 1
  BY <1>1, EmptySeq
<1>3. Len(r) \in I /\ I \in SUBSET Nat
  BY <1>1, <1>2
<1>4. PICK m \in I : \A j \in I : m <= j
  <2> HIDE DEF I
  <2> QED
    BY <1>3, MinIn
<1>5. /\ m \in Nat /\ m \in 1..Len(r) /\ m <= Len(r)
      /\ m = Len(r) \/ advised > r[m].first
  BY <1>1, <1>4
<1>6. \A j \in 1..Len(r) : j \notin I => advised <= r[j].first
  BY <1>1
<1> HIDE DEF I, a
<1>7. ASSUME NEW j \in 1..m - 1 PROVE advised <= r[j].first
  <2>1. j \in 1..Len(r) /\ ~(m <= j)
    BY <1>1, <1>5
  <2> QED
    BY <1>4, <1>6, <2>1
<1>9. a \in 1..Len(r)
  BY <1>0, <1>5, <1>7 DEF Advised, a
<1>8. Aligned(r, a, alignment) \in {i \in {a, a + 1, a - 1} : i = a \/ i \in DOMAIN r}
  BY DEF Aligned
<1> QED
  BY <1>0, <1>8, <1>9 DEF a

(* Half a table each.                                                       *)
LEMMA HalvesAre ==
  ASSUME NEW r \in Seq(FreeRange), InOrder(r), Len(r) = MaxRanges
  PROVE  /\ Lower(r) \in Seq(FreeRange) /\ Len(Lower(r)) = Half /\ InOrder(Lower(r))
         /\ Upper(r) \in Seq(FreeRange) /\ Len(Upper(r)) = Half /\ InOrder(Upper(r))
         /\ Covered(r) = Covered(Lower(r)) \cup Covered(Upper(r))
         /\ Covered(Lower(r)) \cap Covered(Upper(r)) = {}
<1> DEFINE l == Lower(r)
           u == Upper(r)
<1>1. /\ Half \in Nat /\ Half >= 1 /\ Len(r) = Half + Half /\ MaxRanges = Half + Half
      /\ \A j \in 1..Len(r) : /\ r[j].first \in Nat /\ r[j].count \in Nat
                              /\ r[j].first >= 1 /\ r[j].count >= 1
      /\ \A j, k \in 1..Len(r) : j < k => r[j].first + r[j].count < r[k].first
  BY SizeAssumption, Ranges DEF MaxRanges
<1>0. \A j \in 1..Half + Half : r[j] \in FreeRange
  BY <1>1, ElementOfSeq
<1>2. /\ l \in Seq(FreeRange) /\ Len(l) = Half /\ \A j \in 1..Half : l[j] = r[j]
  <2>1. \A j \in 1..Half : r[j] \in FreeRange
    BY <1>0, <1>1
  <2> QED
    BY <1>1, <2>1, SubSeqProperties DEF Lower
<1>3. /\ u \in Seq(FreeRange) /\ Len(u) = Half /\ \A j \in 1..Half : u[j] = r[Half + j]
  <2>1. \A j \in Half + 1..Half + Half : r[j] \in FreeRange
    BY <1>0, <1>1
  <2> QED
    BY <1>1, <2>1, SubSeqProperties DEF Upper
<1> HIDE DEF l, u
<1>4. InOrder(l)
  <2>1. 1..Half \subseteq 1..Len(r)
    BY <1>1
  <2> QED
    BY <1>1, <1>2, <2>1, Ranges
<1>5. InOrder(u)
  <2>1. \A j \in 1..Half : Half + j \in 1..Len(r)
    BY <1>1
  <2>2. \A j, k \in 1..Half : j < k => Half + j < Half + k
    BY <1>1
  <2> QED
    BY <1>1, <1>3, <2>1, <2>2, Ranges
<1>6. ASSUME NEW x \in Covered(r) PROVE x \in Covered(l) \cup Covered(u)
  <2>1. PICK j \in 1..Len(r) : /\ x \in Int /\ r[j].first <= x
                               /\ x <= r[j].first + r[j].count - 1
    BY CoveredIs
  <2>2. CASE j <= Half
    <3>1. j \in 1..Half /\ l[j] = r[j]
      BY <1>1, <1>2, <2>2
    <3> QED
      BY <1>2, <2>1, <3>1, CoveredIs
  <2>3. CASE j > Half
    <3>1. j - Half \in 1..Half /\ Half + (j - Half) = j
      BY <1>1, <2>3
    <3>2. u[j - Half] = r[j]
      BY <1>3, <3>1
    <3> QED
      BY <1>3, <2>1, <3>1, <3>2, CoveredIs
  <2> QED
    BY <1>1, <2>2, <2>3
<1>7. ASSUME NEW x \in Covered(l)
      PROVE  \E j \in 1..Half : /\ x \in Int /\ r[j].first <= x
                                /\ x <= r[j].first + r[j].count - 1
  BY <1>2, CoveredIs
<1>8. ASSUME NEW x \in Covered(u)
      PROVE  \E j \in Half + 1..Half + Half : /\ x \in Int /\ r[j].first <= x
                                              /\ x <= r[j].first + r[j].count - 1
  <2>1. PICK k \in 1..Half : /\ x \in Int /\ u[k].first <= x
                             /\ x <= u[k].first + u[k].count - 1
    BY <1>3, CoveredIs
  <2>2. Half + k \in Half + 1..Half + Half /\ u[k] = r[Half + k]
    BY <1>1, <1>3
  <2> QED
    BY <2>1, <2>2
<1>9. Covered(l) \subseteq Covered(r) /\ Covered(u) \subseteq Covered(r)
  <2>1. 1..Half \subseteq 1..Len(r) /\ Half + 1..Half + Half \subseteq 1..Len(r)
    BY <1>1
  <2> QED
    BY <1>7, <1>8, <2>1, CoveredIs
<1>10. ASSUME NEW x \in Covered(l), x \in Covered(u) PROVE FALSE
  <2>1. PICK j \in 1..Half : /\ x \in Int /\ r[j].first <= x
                             /\ x <= r[j].first + r[j].count - 1
    BY <1>7
  <2>2. PICK k \in Half + 1..Half + Half : /\ r[k].first <= x
                                           /\ x <= r[k].first + r[k].count - 1
    BY <1>8, <1>10
  <2>3. j \in 1..Len(r) /\ k \in 1..Len(r) /\ j < k
    BY <1>1
  <2>4. /\ r[j].first + r[j].count < r[k].first /\ r[j].first \in Nat /\ r[j].count \in Nat
        /\ r[k].first \in Nat
    BY <1>1, <2>3
  <2> DEFINE a == r[j].first
             c == r[j].count
             d == r[k].first
  <2>5. /\ a \in Nat /\ c \in Nat /\ d \in Nat /\ x \in Int
        /\ x <= a + c - 1 /\ a + c < d /\ d <= x
    BY <2>1, <2>2, <2>4
  <2> HIDE DEF a, c, d
  <2> QED
    BY <2>5
<1> QED
  BY <1>2, <1>3, <1>4, <1>5, <1>6, <1>9, <1>10 DEF l, u

(* The table without its last range.                                        *)
LEMMA FrontIs ==
  ASSUME NEW r \in Seq(FreeRange), InOrder(r), r # <<>>
  PROVE  LET q == r[Len(r)]
         IN  /\ Len(r) \in 1..Len(r) /\ q \in FreeRange
             /\ Front(r) \in Seq(FreeRange) /\ Len(Front(r)) <= Len(r) /\ InOrder(Front(r))
             /\ q.first..q.first + q.count - 1 \subseteq Covered(r)
             /\ Covered(Front(r)) = Covered(r) \ (q.first..q.first + q.count - 1)
<1>1. Len(r) \in Nat /\ Len(r) >= 1 /\ Len(r) \in 1..Len(r)
  BY EmptySeq
<1>2. SubSeq(r, 1, Len(r) - 1) \in Seq(FreeRange)
  <2>1. \A i \in 1..Len(r) - 1 : r[i] \in FreeRange
    BY <1>1, ElementOfSeq
  <2> QED
    BY <1>1, <2>1, SubSeqProperties
<1>3. SubSeq(r, Len(r) + 1, Len(r)) = <<>>
  BY <1>1, SubSeqEmpty
<1>4. Front(r) = RemoveAt(r, Len(r))
  BY <1>2, <1>3, ConcatEmptySeq DEF Front, RemoveAt
<1>5. r[Len(r)] \in FreeRange /\ r[Len(r)].first \in Nat /\ r[Len(r)].count \in Nat
  BY <1>1, Ranges
<1>6. \A x \in r[Len(r)].first..r[Len(r)].first + r[Len(r)].count - 1 : x \in Covered(r)
  BY <1>1, <1>5, CoveredIs
<1> QED
  BY <1>1, <1>4, <1>5, <1>6, RangeRemoved

-----------------------------------------------------------------------------
(* Lists of blocks.                                                         *)

LEMMA LinkedFacts ==
  ASSUME NEW a, NEW S, NEW f, Linked(a, S, f)
  PROVE  /\ a # 0 => a \in S
         /\ \A b \in S : f[b].next # 0 => f[b].next \in S /\ f[b].next # a
         /\ \A b, c \in S : b # c /\ f[b].next # 0 => f[c].next # f[b].next
         /\ \A T \in SUBSET S : (a # 0 => a \in T)
              /\ (\A b \in T : f[b].next \in T \cup {0}) => T = S
<1>1. \A b \in S : f[b].next # 0 =>
        f[b].next # a /\ \A c \in S \ {b} : f[c].next # f[b].next
  BY DEF Linked
<1> QED
  BY <1>1 DEF Linked

LEMMA LinkedSame ==
  ASSUME NEW a, NEW S, NEW f, NEW g, Linked(a, S, f),
         \A b \in S : g[b].next = f[b].next
  PROVE  Linked(a, S, g)
<1>1. /\ a \in S \cup {0} /\ \A b \in S : f[b].next \in S \cup {0}
      /\ \A b \in S : f[b].next # 0 =>
           f[b].next # a /\ \A c \in S \ {b} : f[c].next # f[b].next
      /\ \A T \in SUBSET S :
           (a # 0 => a \in T) /\ (\A b \in T : f[b].next \in T \cup {0}) => T = S
  BY DEF Linked
<1>2. ASSUME NEW T \in SUBSET S, a # 0 => a \in T, \A b \in T : g[b].next \in T \cup {0}
      PROVE  T = S
  <2>1. \A b \in T : f[b].next \in T \cup {0}
    BY <1>2
  <2> QED
    BY <1>1, <1>2, <2>1
<1> QED
  BY <1>1, <1>2 DEF Linked

(* The first block is taken off.                                            *)
LEMMA LinkedPop ==
  ASSUME NEW a, NEW S, NEW f, NEW g, Linked(a, S, f), a # 0, 0 \notin S,
         \A b \in S \ {a} : g[b].next = f[b].next
  PROVE  a \in S /\ f[a].next \notin {a} /\ Linked(f[a].next, S \ {a}, g)
<1> DEFINE n == f[a].next
<1>1. /\ a \in S /\ \A b \in S : f[b].next \in S \cup {0}
      /\ \A b \in S : f[b].next # 0 =>
           f[b].next # a /\ \A c \in S \ {b} : f[c].next # f[b].next
      /\ \A T \in SUBSET S :
           (a # 0 => a \in T) /\ (\A b \in T : f[b].next \in T \cup {0}) => T = S
  BY DEF Linked
<1>2. \A b \in S : f[b].next # a
  BY <1>1
<1>3. n \in (S \ {a}) \cup {0}
  BY <1>1, <1>2
<1>4. \A b \in S \ {a} : g[b].next \in (S \ {a}) \cup {0}
  BY <1>1, <1>2
<1>5. \A b \in S \ {a} : g[b].next # 0 =>
        g[b].next # n /\ \A c \in (S \ {a}) \ {b} : g[c].next # g[b].next
  BY <1>1
<1>6. ASSUME NEW T \in SUBSET (S \ {a}), n # 0 => n \in T,
             \A b \in T : g[b].next \in T \cup {0}
      PROVE  T = S \ {a}
  <2> DEFINE U == T \cup {a}
  <2>1. U \in SUBSET S /\ a \in U
    BY <1>1
  <2>2. ASSUME NEW b \in U PROVE f[b].next \in U \cup {0}
    <3>1. CASE b = a
      BY <1>6, <3>1
    <3>2. CASE b # a
      <4>1. b \in T /\ f[b].next = g[b].next
        BY <3>2
      <4> QED
        BY <1>6, <4>1
    <3> QED
      BY <3>1, <3>2
  <2>3. U = S
    BY <1>1, <2>1, <2>2
  <2> QED
    BY <2>3
<1> QED
  BY <1>1, <1>2, <1>3, <1>4, <1>5, <1>6 DEF Linked

(* A new block is put before the first one.                                 *)
LEMMA LinkedPush ==
  ASSUME NEW a, NEW S, NEW f, NEW g, Linked(a, S, f), NEW b, b # 0, b \notin S, 0 \notin S,
         g[b].next = a, \A c \in S : g[c].next = f[c].next
  PROVE  Linked(b, S \cup {b}, g)
<1>1. /\ a \in S \cup {0} /\ \A c \in S : f[c].next \in S \cup {0}
      /\ \A c \in S : f[c].next # 0 =>
           f[c].next # a /\ \A d \in S \ {c} : f[d].next # f[c].next
      /\ \A T \in SUBSET S :
           (a # 0 => a \in T) /\ (\A c \in T : f[c].next \in T \cup {0}) => T = S
  BY DEF Linked
<1>2. a # b /\ \A c \in S : f[c].next # b
  BY <1>1
<1>3. \A c \in S \cup {b} : g[c].next \in (S \cup {b}) \cup {0}
  BY <1>1
<1>4. ASSUME NEW c \in S \cup {b}, g[c].next # 0
      PROVE  g[c].next # b /\ \A d \in (S \cup {b}) \ {c} : g[d].next # g[c].next
  <2>1. CASE c = b
    BY <1>1, <1>2, <1>4, <2>1
  <2>2. CASE c # b
    BY <1>1, <1>2, <1>4, <2>2
  <2> QED
    BY <2>1, <2>2
<1>5. ASSUME NEW T \in SUBSET (S \cup {b}), b \in T,
             \A c \in T : g[c].next \in T \cup {0}
      PROVE  T = S \cup {b}
  <2> DEFINE U == T \ {b}
  <2>1. U \in SUBSET S /\ (a # 0 => a \in U)
    BY <1>2, <1>5
  <2>2. ASSUME NEW c \in U PROVE f[c].next \in U \cup {0}
    <3>1. c \in S /\ g[c].next = f[c].next /\ f[c].next # b
      BY <1>2, <2>1
    <3> QED
      BY <1>5, <3>1
  <2>3. U = S
    BY <1>1, <2>1, <2>2
  <2> QED
    BY <1>5, <2>3
<1> QED
  BY <1>3, <1>4, <1>5 DEF Linked

-----------------------------------------------------------------------------
(* What a block holds.                                                      *)

LEMMA Contents ==
  /\ \A c \in Super : c \notin Chunk /\ c.next \in Block /\ c.range \in Seq(FreeRange)
  /\ \A c \in Chunk : c \notin Super /\ c.next \in Block /\ c.saved \in 0..MaxSaved
  /\ Other \notin Super /\ Other \notin Chunk
  /\ Super \subseteq Content /\ Chunk \subseteq Content /\ Other \in Content
<1>1. \A c \in Super : DOMAIN c = {"next", "range"}
  BY DEF Super
<1>2. \A c \in Chunk : DOMAIN c = {"next", "saved"}
  BY DEF Chunk
<1>3. DOMAIN Other = {"other"}
  BY DEF Other
<1>4. {"next", "range"} # {"next", "saved"} /\ {"next", "range"} # {"other"}
      /\ {"next", "saved"} # {"other"}
  OBVIOUS
<1>5. \A c \in Super : c.next \in Block /\ c.range \in Seq(FreeRange)
  BY DEF Super
<1>6. \A c \in Chunk : c.next \in Block /\ c.saved \in 0..MaxSaved
  BY DEF Chunk
<1> QED
  BY <1>1, <1>2, <1>3, <1>4, <1>5, <1>6, Zenon DEF Content

LEMMA SizeIs ==
  ASSUME NEW c \in Chunk
  PROVE  Size(c) \in Nat /\ Size(c) >= 1
<1>1. c.saved \in Nat
  BY Contents, SizeAssumption
<1>2. (IF c.next = 0 THEN 1 ELSE 0) \in {0, 1}
  OBVIOUS
<1> QED
  BY <1>1, <1>2 DEF Size

LEMMA HeaderIs ==
  ASSUME NEW h \in Header
  PROVE  /\ h.free \in 1..NBlocks /\ h.link \in Block /\ h.range \in Seq(FreeRange)
         /\ h.rollback \in Block
BY DEF Header

-----------------------------------------------------------------------------
(* Accounted, with the table of the header apart from those of the super    *)
(* blocks.                                                                  *)

Held(f) == UNION {{b} \cup Covered(f[b].range) : b \in SuperBlocks(f)}

(* The super blocks and the chunks of the file.                             *)
SupersApart(f) ==
  /\ \A b \in SuperBlocks(f) : InOrder(f[b].range) /\ b \notin Covered(f[b].range)
  /\ \A b, c \in SuperBlocks(f) : b # c =>
       ({b} \cup Covered(f[b].range)) \cap ({c} \cup Covered(f[c].range)) = {}

ChunksApart(f) ==
  \A c, d \in Heads(f) : c # d => Segment(f, c) \cap Segment(f, d) = {}

(* The parts of the file, the blocks before end.                            *)
Parts(range, held, kept, used, end) ==
  /\ InOrder(range)
  /\ Covered(range) \cap held = {} /\ Covered(range) \cap kept = {}
  /\ used \cap Covered(range) = {} /\ used \cap held = {} /\ used \cap kept = {}
  /\ held \cap kept = {}
  /\ used \cup Covered(range) \cup held \cup kept = 1..end - 1

Split(h, f, used) ==
  /\ Linked(h.link, SuperBlocks(f), f) /\ Linked(h.rollback, Heads(f), f)
  /\ SupersApart(f) /\ ChunksApart(f)
  /\ Parts(h.range, Held(f), Kept(f), used, h.free)

LEMMA AccountedIs ==
  ASSUME NEW h \in Header, NEW f, NEW used, 0 \notin SuperBlocks(f)
  PROVE  Accounted(h, f, used) <=> Split(h, f, used)
<1> DEFINE S == SuperBlocks(f)
           C(b) == Claimed(h, f, b)
           free == UNION {C(b) : b \in S \cup {0}}
           kept == Kept(f)
           A == /\ Linked(h.link, S, f) /\ Linked(h.rollback, Heads(f), f)
                /\ \A b \in S \cup {0} :
                     InOrder(Table(h, f, b)) /\ b \notin Covered(Table(h, f, b))
                /\ \A b, c \in S \cup {0} : b # c => C(b) \cap C(c) = {}
                /\ \A c, d \in Heads(f) : c # d => Segment(f, c) \cap Segment(f, d) = {}
                /\ used \cap free = {} /\ used \cap kept = {} /\ free \cap kept = {}
                /\ used \cup free \cup kept = 1..h.free - 1
<1>1. Accounted(h, f, used) <=> A
  BY DEF Accounted
<1>2. Table(h, f, 0) = h.range /\ C(0) = Covered(h.range)
  BY DEF Table, Claimed
<1>3. \A b \in S : Table(h, f, b) = f[b].range /\ C(b) = {b} \cup Covered(f[b].range)
  BY DEF Table, Claimed
<1> HIDE DEF C
<1>4. free = Covered(h.range) \cup Held(f)
  <2> HIDE DEF S
  <2>1. Held(f) = UNION {C(b) : b \in S}
    BY <1>3 DEF Held, S
  <2> QED
    BY <1>2, <2>1
<1>5. InOrder(h.range) => 0 \notin Covered(h.range)
  <2> SUFFICES ASSUME InOrder(h.range), 0 \in Covered(h.range) PROVE FALSE
    OBVIOUS
  <2>1. h.range \in Seq(FreeRange)
    BY HeaderIs
  <2>2. PICK i \in 1..Len(h.range) : h.range[i].first <= 0
    BY <2>1, CoveredIs
  <2>3. h.range[i].first \in Nat /\ h.range[i].first >= 1
    BY <2>1, Ranges
  <2> QED
    BY <2>2, <2>3
<1> HIDE DEF S, free, kept
<1>6. (\A b \in S \cup {0} : InOrder(Table(h, f, b)) /\ b \notin Covered(Table(h, f, b)))
        <=> /\ InOrder(h.range)
            /\ \A b \in S : InOrder(f[b].range) /\ b \notin Covered(f[b].range)
  <2>1. (\A b \in S \cup {0} : InOrder(Table(h, f, b)) /\ b \notin Covered(Table(h, f, b)))
          <=> /\ InOrder(Table(h, f, 0)) /\ 0 \notin Covered(Table(h, f, 0))
              /\ \A b \in S : InOrder(Table(h, f, b)) /\ b \notin Covered(Table(h, f, b))
    OBVIOUS
  <2> QED
    BY <1>2, <1>3, <1>5, <2>1
<1>7. (\A b, c \in S \cup {0} : b # c => C(b) \cap C(c) = {})
        <=> /\ \A b \in S : C(0) \cap C(b) = {}
            /\ \A b, c \in S : b # c => C(b) \cap C(c) = {}
  <2>1. 0 \notin S
    BY DEF S
  <2>2. ASSUME \A b, c \in S \cup {0} : b # c => C(b) \cap C(c) = {}
        PROVE  /\ \A b \in S : C(0) \cap C(b) = {}
               /\ \A b, c \in S : b # c => C(b) \cap C(c) = {}
    BY <2>1, <2>2
  <2>3. ASSUME \A b \in S : C(0) \cap C(b) = {},
               \A b, c \in S : b # c => C(b) \cap C(c) = {},
               NEW b \in S \cup {0}, NEW c \in S \cup {0}, b # c
        PROVE  C(b) \cap C(c) = {}
    <3>1. CASE b = 0
      BY <2>3, <3>1
    <3>2. CASE c = 0
      <4>1. C(0) \cap C(b) = {}
        BY <2>3, <3>2
      <4> QED
        BY <3>2, <4>1
    <3>3. CASE b # 0 /\ c # 0
      BY <2>3, <3>3
    <3> QED
      BY <3>1, <3>2, <3>3
  <2> QED
    BY <2>2, <2>3
<1>8. (\A b \in S : C(0) \cap C(b) = {}) <=> Covered(h.range) \cap Held(f) = {}
  <2>1. Held(f) = UNION {C(b) : b \in S}
    BY <1>3 DEF Held, S
  <2> QED
    BY <1>2, <2>1
<1>9. (\A b, c \in S : b # c => C(b) \cap C(c) = {})
        <=> \A b, c \in S : b # c =>
              ({b} \cup Covered(f[b].range)) \cap ({c} \cup Covered(f[c].range)) = {}
  BY <1>3
<1>10. A <=> /\ Linked(h.link, S, f) /\ Linked(h.rollback, Heads(f), f)
             /\ SupersApart(f) /\ ChunksApart(f)
             /\ InOrder(h.range) /\ Covered(h.range) \cap Held(f) = {}
             /\ used \cap free = {} /\ used \cap kept = {} /\ free \cap kept = {}
             /\ used \cup free \cup kept = 1..h.free - 1
  BY <1>6, <1>7, <1>8, <1>9 DEF SupersApart, ChunksApart, S
<1> HIDE DEF A
<1>11. /\ used \cap free = {} <=> used \cap Covered(h.range) = {} /\ used \cap Held(f) = {}
       /\ free \cap kept = {} <=> Covered(h.range) \cap kept = {} /\ Held(f) \cap kept = {}
       /\ used \cup free \cup kept = used \cup Covered(h.range) \cup Held(f) \cup kept
  BY <1>4
<1> QED
  BY <1>1, <1>10, <1>11 DEF Split, Parts, S, kept

-----------------------------------------------------------------------------
(* How the parts of a file change with its super blocks and chunks.         *)

Owned(f, b) == {b} \cup Covered(f[b].range)

LEMMA SameSupers ==
  ASSUME NEW f, NEW g, SuperBlocks(g) = SuperBlocks(f),
         \A b \in SuperBlocks(f) : g[b] = f[b]
  PROVE  /\ Held(g) = Held(f) /\ (SupersApart(f) => SupersApart(g))
         /\ \A a : Linked(a, SuperBlocks(f), f) => Linked(a, SuperBlocks(g), g)
<1>1. Held(g) = Held(f)
  BY DEF Held
<1>2. SupersApart(f) => SupersApart(g)
  BY DEF SupersApart
<1>3. ASSUME NEW a, Linked(a, SuperBlocks(f), f) PROVE Linked(a, SuperBlocks(g), g)
  <2>1. \A b \in SuperBlocks(f) : g[b].next = f[b].next
    OBVIOUS
  <2> QED
    BY <1>3, <2>1, LinkedSame
<1> QED
  BY <1>1, <1>2, <1>3

LEMMA SameHeads ==
  ASSUME NEW f, NEW g, Heads(g) = Heads(f), \A c \in Heads(f) : g[c] = f[c]
  PROVE  /\ Kept(g) = Kept(f) /\ (ChunksApart(f) => ChunksApart(g))
         /\ \A a : Linked(a, Heads(f), f) => Linked(a, Heads(g), g)
<1>0. \A c \in Heads(f) : Segment(g, c) = Segment(f, c)
  BY DEF Segment
<1>1. Kept(g) = Kept(f)
  BY <1>0 DEF Kept
<1>2. ChunksApart(f) => ChunksApart(g)
  BY <1>0 DEF ChunksApart
<1>3. ASSUME NEW a, Linked(a, Heads(f), f) PROVE Linked(a, Heads(g), g)
  <2>1. \A b \in Heads(f) : g[b].next = f[b].next
    OBVIOUS
  <2> QED
    BY <1>3, <2>1, LinkedSame
<1> QED
  BY <1>1, <1>2, <1>3

(* The super block l is gone.                                               *)
LEMMA FewerSupers ==
  ASSUME NEW f, NEW g, SupersApart(f), NEW l \in SuperBlocks(f),
         SuperBlocks(g) = SuperBlocks(f) \ {l}, \A b \in SuperBlocks(g) : g[b] = f[b]
  PROVE  /\ SupersApart(g) /\ Held(g) \cap Owned(f, l) = {}
         /\ Held(f) = Held(g) \cup Owned(f, l)
<1>1. \A b \in SuperBlocks(g) : Owned(g, b) = Owned(f, b) /\ g[b] = f[b] /\ b # l
  BY DEF Owned
<1>2. Held(g) = UNION {Owned(f, b) : b \in SuperBlocks(f) \ {l}}
  BY <1>1 DEF Held, Owned
<1>3. Held(f) = UNION {Owned(f, b) : b \in SuperBlocks(f)}
  BY DEF Held, Owned
<1>4. \A b, c \in SuperBlocks(f) : b # c => Owned(f, b) \cap Owned(f, c) = {}
  BY DEF SupersApart, Owned
<1>5. SupersApart(g)
  BY DEF SupersApart
<1> QED
  BY <1>2, <1>3, <1>4, <1>5

(* l is a new super block.                                                  *)
LEMMA MoreSupers ==
  ASSUME NEW f, NEW g, SupersApart(f), NEW l, l \notin SuperBlocks(f),
         SuperBlocks(g) = SuperBlocks(f) \cup {l}, \A b \in SuperBlocks(f) : g[b] = f[b],
         InOrder(g[l].range), l \notin Covered(g[l].range), Held(f) \cap Owned(g, l) = {}
  PROVE  SupersApart(g) /\ Held(g) = Held(f) \cup Owned(g, l)
<1>1. \A b \in SuperBlocks(f) : Owned(g, b) = Owned(f, b) /\ g[b] = f[b] /\ b # l
  BY DEF Owned
<1>2. Held(g) = UNION {Owned(g, b) : b \in SuperBlocks(f) \cup {l}}
  BY DEF Held, Owned
<1>3. Held(f) = UNION {Owned(g, b) : b \in SuperBlocks(f)}
  BY <1>1 DEF Held, Owned
<1>4. \A b \in SuperBlocks(f) : Owned(g, b) \cap Owned(g, l) = {}
  BY <1>3
<1>5. ASSUME NEW b \in SuperBlocks(g)
      PROVE  InOrder(g[b].range) /\ b \notin Covered(g[b].range)
  BY <1>1 DEF SupersApart
<1>6. ASSUME NEW b \in SuperBlocks(g), NEW c \in SuperBlocks(g), b # c
      PROVE  Owned(g, b) \cap Owned(g, c) = {}
  <2>1. CASE b = l
    BY <1>4, <1>6, <2>1
  <2>2. CASE c = l
    BY <1>4, <1>6, <2>2
  <2>3. CASE b # l /\ c # l
    <3>1. b \in SuperBlocks(f) /\ c \in SuperBlocks(f)
      BY <2>3
    <3>2. Owned(f, b) \cap Owned(f, c) = {}
      BY <1>6, <3>1 DEF SupersApart, Owned
    <3> QED
      BY <1>1, <3>1, <3>2
  <2> QED
    BY <2>1, <2>2, <2>3
<1>7. SupersApart(g)
  BY <1>5, <1>6 DEF SupersApart, Owned
<1> QED
  BY <1>2, <1>3, <1>7

(* The chunk at r is gone.                                                  *)
LEMMA FewerHeads ==
  ASSUME NEW f, NEW g, ChunksApart(f), NEW r \in Heads(f),
         Heads(g) = Heads(f) \ {r}, \A c \in Heads(g) : g[c] = f[c]
  PROVE  /\ ChunksApart(g) /\ Kept(g) \cap Segment(f, r) = {}
         /\ Kept(f) = Kept(g) \cup Segment(f, r)
<1>1. \A c \in Heads(g) : Segment(g, c) = Segment(f, c)
  BY DEF Segment
<1>2. Kept(g) = UNION {Segment(f, c) : c \in Heads(f) \ {r}}
  BY <1>1 DEF Kept
<1>3. Kept(f) = UNION {Segment(f, c) : c \in Heads(f)}
  BY DEF Kept
<1>4. ChunksApart(g)
  BY <1>1 DEF ChunksApart
<1> QED
  BY <1>2, <1>3, <1>4 DEF ChunksApart

(* There is a new chunk at r.                                               *)
LEMMA MoreHeads ==
  ASSUME NEW f, NEW g, ChunksApart(f), NEW r, r \notin Heads(f),
         Heads(g) = Heads(f) \cup {r}, \A c \in Heads(f) : g[c] = f[c],
         Kept(f) \cap Segment(g, r) = {}
  PROVE  ChunksApart(g) /\ Kept(g) = Kept(f) \cup Segment(g, r)
<1>1. \A c \in Heads(f) : Segment(g, c) = Segment(f, c)
  BY DEF Segment
<1>2. Kept(g) = UNION {Segment(g, c) : c \in Heads(f) \cup {r}}
  BY DEF Kept
<1>3. Kept(f) = UNION {Segment(g, c) : c \in Heads(f)}
  BY <1>1 DEF Kept
<1>4. \A c \in Heads(f) : Segment(g, c) \cap Segment(g, r) = {}
  BY <1>3
<1>5. ASSUME NEW c \in Heads(g), NEW d \in Heads(g), c # d
      PROVE  Segment(g, c) \cap Segment(g, d) = {}
  <2>1. CASE c = r
    BY <1>4, <1>5, <2>1
  <2>2. CASE d = r
    BY <1>4, <1>5, <2>2
  <2>3. CASE c # r /\ d # r
    <3>1. c \in Heads(f) /\ d \in Heads(f)
      BY <2>3
    <3> QED
      BY <1>1, <1>5, <3>1 DEF ChunksApart
  <2> QED
    BY <2>1, <2>2, <2>3
<1> QED
  BY <1>2, <1>3, <1>5 DEF ChunksApart

(* The file has changed only inside of its chunks.                          *)
LEMMA ChunksWritten ==
  ASSUME NEW f, NEW g, NEW Z, Z \subseteq Kept(f) \ Heads(f),
         \A b \in Block \ Z : g[b] = f[b], \A b \in Z : g[b] \notin Chunk
  PROVE  /\ Heads(g) = Heads(f) /\ Kept(g) = Kept(f) /\ SuperBlocks(g) = SuperBlocks(f)
         /\ \A b \in Heads(f) \cup SuperBlocks(f) : g[b] = f[b]
<1>1. Heads(g) = Heads(f) /\ \A b \in Heads(f) : g[b] = f[b]
  BY DEF Heads
<1>2. Kept(g) = Kept(f)
  <2>1. \A c \in Heads(f) : Segment(g, c) = Segment(f, c)
    BY <1>1 DEF Segment
  <2> QED
    BY <1>1, <2>1 DEF Kept
<1>3. SuperBlocks(g) = SuperBlocks(f) /\ \A b \in SuperBlocks(f) : g[b] = f[b]
  BY <1>2 DEF SuperBlocks
<1> QED
  BY <1>1, <1>2, <1>3

-----------------------------------------------------------------------------
LEMMA NoneCovered ==
  ASSUME NEW r \in Seq(FreeRange), Len(r) = 0
  PROVE  Covered(r) = {}
<1>1. 1..Len(r) = {}
  OBVIOUS
<1>2. ASSUME NEW x, x \in Covered(r) PROVE FALSE
  <2>1. \E i \in 1..Len(r) : TRUE
    BY <1>2, CoveredIs
  <2> QED
    BY <1>1, <2>1
<1> QED
  BY <1>2

(* A file with all of its blocks accounted for.                             *)

Formed(h, f) ==
  /\ h \in Header /\ Len(h.range) <= MaxRanges
  /\ f \in [Block -> Content] /\ f[0] = Other /\ WellFormed(f)

Sound(h, f, used) == Formed(h, f) /\ Split(h, f, used)

LEMMA SoundIs ==
  ASSUME NEW h, NEW f, NEW used
  PROVE  Sound(h, f, used) <=> Formed(h, f) /\ Accounted(h, f, used)
<1>1. ASSUME Formed(h, f) PROVE 0 \notin SuperBlocks(f)
  BY <1>1, Contents DEF Formed, SuperBlocks
<1> QED
  BY <1>1, AccountedIs DEF Sound, Formed

(* Where the parts are and what they hold.                                  *)
LEMMA Places ==
  ASSUME NEW h, NEW f, NEW used, Sound(h, f, used)
  PROVE  /\ h.free \in 1..NBlocks /\ 1..h.free - 1 \subseteq Block \ {0}
         /\ used \subseteq 1..h.free - 1 /\ Covered(h.range) \subseteq 1..h.free - 1
         /\ Held(f) \subseteq 1..h.free - 1 /\ Kept(f) \subseteq 1..h.free - 1
         /\ SuperBlocks(f) \subseteq Held(f) /\ Heads(f) \subseteq Kept(f)
         /\ SuperBlocks(f) \cap Kept(f) = {}
<1>1. h.free \in 1..NBlocks
  BY HeaderIs DEF Sound, Formed
<1>2. 1..h.free - 1 \subseteq Block \ {0}
  BY <1>1, SizeAssumption DEF Block
<1>3. /\ used \subseteq 1..h.free - 1 /\ Covered(h.range) \subseteq 1..h.free - 1
      /\ Held(f) \subseteq 1..h.free - 1 /\ Kept(f) \subseteq 1..h.free - 1
  BY DEF Sound, Split, Parts
<1>4. SuperBlocks(f) \subseteq Held(f)
  BY DEF Held
<1>5. \A c \in Heads(f) : c \in Segment(f, c)
  <2> SUFFICES ASSUME NEW c \in Heads(f) PROVE c \in Segment(f, c)
    OBVIOUS
  <2>1. c \in Int /\ Size(f[c]) \in Nat /\ Size(f[c]) >= 1
    BY SizeIs, SizeAssumption DEF Heads, Block
  <2> QED
    BY <2>1 DEF Segment
<1>6. Heads(f) \subseteq Kept(f)
  BY <1>5 DEF Kept
<1> QED
  BY <1>1, <1>2, <1>3, <1>4, <1>6 DEF SuperBlocks

LEMMA FileIs ==
  ASSUME NEW h, NEW f, Formed(h, f)
  PROVE  /\ h \in Header /\ h.free \in 1..NBlocks /\ h.link \in Block
         /\ h.range \in Seq(FreeRange) /\ h.rollback \in Block /\ Len(h.range) <= MaxRanges
         /\ \A b \in SuperBlocks(f) :
              /\ b \in Block /\ f[b].next \in Block /\ f[b].range \in Seq(FreeRange)
              /\ InOrder(f[b].range) /\ Len(f[b].range) = Half
         /\ \A c \in Heads(f) :
              /\ c \in Block /\ f[c] \in Chunk /\ f[c].next \in Block
              /\ Size(f[c]) \in Nat /\ Size(f[c]) >= 2 /\ f[c].next < c
<1>1. \A c \in Heads(f) : /\ c \in Block /\ f[c] \in Chunk /\ Size(f[c]) >= 2
                           /\ f[c].next < c
  BY DEF Heads, Formed, WellFormed
<1>2. \A c \in Heads(f) : f[c].next \in Block /\ Size(f[c]) \in Nat
  BY <1>1, Contents, SizeIs
<1>3. \A b \in SuperBlocks(f) : /\ b \in Block /\ f[b] \in Super
                                /\ InOrder(f[b].range) /\ Len(f[b].range) = Half
  BY DEF SuperBlocks, Formed, WellFormed
<1>4. \A b \in SuperBlocks(f) : f[b].next \in Block /\ f[b].range \in Seq(FreeRange)
  BY <1>3, Contents
<1> QED
  BY <1>1, <1>2, <1>3, <1>4, HeaderIs DEF Formed

-----------------------------------------------------------------------------
(* What each operation does to such a file.                                 *)

(* A block is taken at the end of the file.                                 *)
LEMMA Extends ==
  ASSUME NEW h, NEW f, NEW used, Sound(h, f, used), h.free < NBlocks,
         NEW k \in Header, k.free = h.free + 1, k.link = h.link, k.range = h.range,
         k.rollback = h.rollback
  PROVE  Sound(k, f, used \cup {h.free})
<1>1. Formed(k, f)
  BY DEF Sound, Formed
<1>2. h.free \in Nat /\ h.free >= 1
  BY Places, SizeAssumption
<1>3. 1..k.free - 1 = (1..h.free - 1) \cup {h.free} /\ h.free \notin 1..h.free - 1
  BY <1>2
<1>4. Parts(k.range, Held(f), Kept(f), used \cup {h.free}, k.free)
  <2>1. Parts(h.range, Held(f), Kept(f), used, h.free)
    BY DEF Sound, Split
  <2> QED
    BY <1>3, <2>1 DEF Parts
<1> QED
  BY <1>1, <1>4 DEF Sound, Split

(* A block is taken from the table of the header.                           *)
LEMMA Takes ==
  ASSUME NEW h, NEW f, NEW used, Sound(h, f, used), NEW i \in 1..Len(h.range),
         NEW k \in Header, k.free = h.free, k.link = h.link, k.range = TakenFrom(h.range, i),
         k.rollback = h.rollback
  PROVE  h.range[i].first \in Block \ used /\ Sound(k, f, used \cup {h.range[i].first})
<1> DEFINE b == h.range[i].first
<1>1. h.range \in Seq(FreeRange) /\ InOrder(h.range) /\ Len(h.range) <= MaxRanges
  BY FileIs DEF Sound, Split, Parts
<1>2. /\ k.range \in Seq(FreeRange) /\ InOrder(k.range) /\ Len(k.range) <= Len(h.range)
      /\ b \in Covered(h.range) /\ Covered(k.range) = Covered(h.range) \ {b}
  BY <1>1, TakenFromIs
<1>3. Formed(k, f)
  <2>1. Len(k.range) <= MaxRanges
    <3>1. Len(k.range) \in Nat /\ Len(h.range) \in Nat /\ MaxRanges \in Nat
      BY <1>1, <1>2, SizeAssumption DEF MaxRanges
    <3> QED
      BY <1>1, <1>2, <3>1
  <2> QED
    BY <2>1 DEF Sound, Formed
<1>4. Parts(k.range, Held(f), Kept(f), used \cup {b}, k.free)
  <2>1. Parts(h.range, Held(f), Kept(f), used, h.free)
    BY DEF Sound, Split
  <2> HIDE DEF b
  <2> QED
    BY <1>2, <2>1 DEF Parts
<1>5. b \in Block \ used
  BY <1>2, Places DEF Sound, Split, Parts
<1> QED
  BY <1>3, <1>4, <1>5 DEF Sound, Split

(* Blocks in use are given back to the table of the header.                 *)
LEMMA Gives ==
  ASSUME NEW h, NEW f, NEW used, Sound(h, f, used), NEW b \in Nat \ {0}, NEW n \in Nat \ {0},
         b..b + n - 1 \subseteq used,
         NEW k \in Header, k.free = h.free, k.link = h.link,
         k.range = Inserted(h.range, b, n).range, k.rollback = h.rollback
  PROVE  LET t == Inserted(h.range, b, n)
         IN  \/ t.code = "full" /\ Len(h.range) = MaxRanges
             \/ t.code = "ok" /\ Sound(k, f, used \ (b..b + n - 1))
<1> DEFINE t == Inserted(h.range, b, n)
           B == b..b + n - 1
<1> HIDE DEF t, B
<1>1. /\ h.range \in Seq(FreeRange) /\ InOrder(h.range) /\ Len(h.range) <= MaxRanges
      /\ Parts(h.range, Held(f), Kept(f), used, h.free)
  BY FileIs DEF Sound, Split, Parts
<1>2. B \subseteq used /\ B \cap Covered(h.range) = {}
  BY <1>1 DEF Parts, B
<1>3. \/ t.code = "full" /\ Len(h.range) = MaxRanges
      \/ t.code = "ok" /\ Len(t.range) <= MaxRanges /\ Grown(t.range, h.range, b, n)
  BY <1>1, <1>2, InsertedRight DEF t, B
<1>4. ASSUME t.code = "ok", Len(t.range) <= MaxRanges, Grown(t.range, h.range, b, n)
      PROVE  Sound(k, f, used \ B)
  <2>1. k.range = t.range
    BY DEF t
  <2>2. InOrder(k.range) /\ Covered(k.range) = Covered(h.range) \cup B
    BY <1>4, <2>1 DEF Grown, B
  <2>3. Formed(k, f)
    BY <1>4, <2>1 DEF Sound, Formed
  <2>4. Parts(k.range, Held(f), Kept(f), used \ B, k.free)
    BY <1>1, <1>2, <2>2 DEF Parts
  <2> QED
    BY <2>3, <2>4 DEF Sound, Split
<1> QED
  BY <1>3, <1>4 DEF t, B

(* A block outside of all chunks is written with something else than a      *)
(* chunk, or cleared.                                                       *)
LEMMA BlockWritten ==
  ASSUME NEW h, NEW f, NEW used, Sound(h, f, used), NEW b \in Block \ {0}, b \notin Kept(f),
         NEW g, \A d \in Block \ {b} : g[d] = f[d], g[b] \notin Chunk,
         g[b] \in Super => InOrder(g[b].range) /\ Len(g[b].range) = Half
  PROVE  /\ g[0] = Other /\ WellFormed(g)
         /\ Heads(g) = Heads(f) /\ Kept(g) = Kept(f) /\ ChunksApart(g)
         /\ \A a : Linked(a, Heads(f), f) => Linked(a, Heads(g), g)
         /\ SuperBlocks(g) \ {b} = SuperBlocks(f) \ {b}
         /\ b \in SuperBlocks(g) <=> g[b] \in Super
<1>1. f \in [Block -> Content] /\ f[0] = Other /\ WellFormed(f)
  BY DEF Sound, Formed
<1>2. b # 0 /\ 0 \in Block
  BY SizeAssumption DEF Block
<1>4. g[0] = Other
  BY <1>1, <1>2
<1>5. Heads(g) = Heads(f) /\ \A d \in Heads(f) : g[d] = f[d]
  <2>1. b \notin Heads(f)
    BY Places
  <2> QED
    BY <2>1 DEF Heads
<1>6. Kept(g) = Kept(f) /\ ChunksApart(g)
      /\ \A a : Linked(a, Heads(f), f) => Linked(a, Heads(g), g)
  <2>1. Kept(g) = Kept(f) /\ (ChunksApart(f) => ChunksApart(g))
    <3>1. \A d \in Heads(f) : Segment(g, d) = Segment(f, d)
      BY <1>5 DEF Segment
    <3> QED
      BY <1>5, <3>1 DEF Kept, ChunksApart
  <2>2. ChunksApart(f)
    BY DEF Sound, Split
  <2>3. \A a : Linked(a, Heads(f), f) => Linked(a, Heads(g), g)
    <3>1. \A d \in Heads(f) : g[d].next = f[d].next
      BY <1>5
    <3> QED
      BY <1>5, <3>1, LinkedSame
  <2> QED
    BY <2>1, <2>2, <2>3
<1>7. WellFormed(g)
  <2>1. \A d \in Heads(g) : Size(g[d]) >= 2 /\ g[d].next < d
    BY <1>1, <1>5 DEF WellFormed
  <2>2. \A d \in Block : g[d] \in Super => InOrder(g[d].range) /\ Len(g[d].range) = Half
    BY <1>1 DEF WellFormed
  <2> QED
    BY <2>1, <2>2 DEF WellFormed
<1>8. SuperBlocks(g) \ {b} = SuperBlocks(f) \ {b} /\ (b \in SuperBlocks(g) <=> g[b] \in Super)
  BY <1>6 DEF SuperBlocks
<1> QED
  BY <1>4, <1>5, <1>6, <1>7, <1>8

(* A block in use becomes a super block with the upper half of the table.   *)
LEMMA Spills ==
  ASSUME NEW h, NEW f, NEW used, Sound(h, f, used), Len(h.range) = MaxRanges, NEW b \in used,
         NEW k \in Header, k.free = h.free, k.link = b, k.range = Lower(h.range),
         k.rollback = h.rollback,
         NEW g \in [Block -> Content], \A d \in Block \ {b} : g[d] = f[d], g[b] \in Super,
         g[b].next = h.link, g[b].range = Upper(h.range)
  PROVE  Sound(k, g, used \ {b}) /\ Len(k.range) = Half /\ b \in Block \ Kept(f)
<1>0. /\ h.range \in Seq(FreeRange) /\ InOrder(h.range) /\ h.link \in Block
      /\ Linked(h.link, SuperBlocks(f), f) /\ Linked(h.rollback, Heads(f), f)
      /\ SupersApart(f) /\ Parts(h.range, Held(f), Kept(f), used, h.free)
  BY FileIs DEF Sound, Split, Parts
<1>1. /\ k.range \in Seq(FreeRange) /\ Len(k.range) = Half /\ InOrder(k.range)
      /\ Upper(h.range) \in Seq(FreeRange) /\ Len(Upper(h.range)) = Half
      /\ InOrder(Upper(h.range))
      /\ Covered(h.range) = Covered(k.range) \cup Covered(Upper(h.range))
      /\ Covered(k.range) \cap Covered(Upper(h.range)) = {}
  BY <1>0, HalvesAre
<1>2. b \in Block \ {0} /\ b \notin Kept(f) /\ b \notin Held(f) /\ b \notin Covered(h.range)
  BY <1>0, Places DEF Parts
<1>3. g[b] \notin Chunk
  BY Contents
<1>5. /\ g[0] = Other /\ WellFormed(g)
      /\ Heads(g) = Heads(f) /\ Kept(g) = Kept(f) /\ ChunksApart(g)
      /\ Linked(h.rollback, Heads(g), g)
      /\ SuperBlocks(g) \ {b} = SuperBlocks(f) \ {b} /\ b \in SuperBlocks(g)
  <2>1. InOrder(g[b].range) /\ Len(g[b].range) = Half
    BY <1>1
  <2> QED
    BY <1>0, <1>2, <1>3, <2>1, BlockWritten
<1>6. /\ b \notin SuperBlocks(f) /\ SuperBlocks(g) = SuperBlocks(f) \cup {b}
      /\ \A d \in SuperBlocks(f) : g[d] = f[d]
      /\ 0 \notin SuperBlocks(f)
  <2>1. b \notin SuperBlocks(f) /\ SuperBlocks(f) \subseteq Block \ {0}
    BY <1>2, Places
  <2> QED
    BY <1>5, <2>1
<1>8. SupersApart(g) /\ Held(g) = Held(f) \cup Owned(g, b)
  <2>1. b \notin Covered(g[b].range)
    BY <1>1, <1>2
  <2>2. Held(f) \cap Owned(g, b) = {}
    BY <1>0, <1>1, <1>2 DEF Parts, Owned
  <2> QED
    BY <1>0, <1>1, <1>6, <2>1, <2>2, MoreSupers
<1>9. Owned(g, b) = {b} \cup Covered(Upper(h.range))
  BY DEF Owned
<1>10. Linked(k.link, SuperBlocks(g), g)
  <2>1. \A d \in SuperBlocks(f) : g[d].next = f[d].next
    BY <1>6
  <2>2. b # 0
    BY <1>2
  <2> QED
    BY <1>0, <1>6, <2>1, <2>2, LinkedPush
<1>11. Parts(k.range, Held(g), Kept(g), used \ {b}, k.free)
  BY <1>0, <1>1, <1>2, <1>5, <1>8, <1>9 DEF Parts
<1>12. Formed(k, g)
  <2>1. Len(k.range) <= MaxRanges
    BY <1>1, SizeAssumption DEF MaxRanges
  <2> QED
    BY <1>5, <2>1 DEF Formed
<1> QED
  BY <1>1, <1>2, <1>5, <1>8, <1>10, <1>11, <1>12 DEF Sound, Split

(* The table of the first super block is read, with that block in it.       *)
LEMMA Loads ==
  ASSUME NEW h, NEW f, NEW used, Sound(h, f, used), h.range = <<>>, h.link # 0,
         NEW k \in Header, k.free = h.free, k.link = f[h.link].next,
         k.range = Inserted(f[h.link].range, h.link, 1).range, k.rollback = h.rollback,
         NEW g \in [Block -> Content], g[h.link] = Other,
         \A d \in Block \ {h.link} : g[d] = f[d]
  PROVE  /\ Inserted(f[h.link].range, h.link, 1).code = "ok"
         /\ k.range # <<>> /\ Sound(k, g, used)
<1> DEFINE l == h.link
           q == f[l].range
<1>0. /\ Linked(l, SuperBlocks(f), f) /\ Linked(h.rollback, Heads(f), f)
      /\ SupersApart(f) /\ Parts(h.range, Held(f), Kept(f), used, h.free)
  BY DEF Sound, Split
<1>1. l \in SuperBlocks(f)
  BY <1>0, LinkedFacts
<1>2. /\ l \in Block \ {0} /\ l \in Nat \ {0} /\ l \notin Kept(f) /\ 0 \notin SuperBlocks(f)
  <2>1. SuperBlocks(f) \subseteq 1..h.free - 1 /\ 1..h.free - 1 \subseteq Block \ {0}
        /\ h.free \in Int /\ SuperBlocks(f) \cap Kept(f) = {}
    BY Places
  <2> QED
    BY <1>1, <2>1 DEF Block
<1>3. /\ q \in Seq(FreeRange) /\ InOrder(q) /\ Len(q) = Half /\ l \notin Covered(q)
  BY <1>0, <1>1, FileIs DEF Sound, SupersApart
<1> HIDE DEF l, q
<1>4. /\ Inserted(q, l, 1).code = "ok" /\ Len(Inserted(q, l, 1).range) <= MaxRanges
      /\ Grown(Inserted(q, l, 1).range, q, l, 1)
  <2>1. l..l + 1 - 1 = {l}
    BY <1>2
  <2>2. (l..l + 1 - 1) \cap Covered(q) = {}
    BY <1>3, <2>1
  <2>3. Half <= MaxRanges /\ Half # MaxRanges
    BY SizeAssumption DEF MaxRanges
  <2> QED
    BY <1>2, <1>3, <2>2, <2>3, InsertedRight
<1>5. InOrder(k.range) /\ k.range \in Seq(FreeRange) /\ Covered(k.range) = Owned(f, l)
  <2>1. l..l + 1 - 1 = {l}
    BY <1>2
  <2> QED
    BY <1>4, <2>1 DEF Grown, Owned, l, q
<1>6. k.range # <<>>
  <2>1. k.range = <<>> => Len(k.range) = 0
    OBVIOUS
  <2>2. k.range = <<>> => Covered(k.range) = {}
    BY <1>5, <2>1, NoneCovered
  <2> QED
    BY <1>5, <2>2 DEF Owned
<1>7. /\ g[0] = Other /\ WellFormed(g)
      /\ Heads(g) = Heads(f) /\ Kept(g) = Kept(f) /\ ChunksApart(g)
      /\ Linked(h.rollback, Heads(g), g)
      /\ SuperBlocks(g) = SuperBlocks(f) \ {l}
  <2>1. g[l] \notin Chunk /\ g[l] \notin Super
    BY Contents DEF l
  <2>2. /\ g[0] = Other /\ WellFormed(g)
        /\ Heads(g) = Heads(f) /\ Kept(g) = Kept(f) /\ ChunksApart(g)
        /\ Linked(h.rollback, Heads(g), g)
        /\ SuperBlocks(g) \ {l} = SuperBlocks(f) \ {l} /\ l \notin SuperBlocks(g)
    BY <1>0, <1>2, <2>1, BlockWritten DEF l
  <2> QED
    BY <2>2
<1>8. \A b \in SuperBlocks(g) : g[b] = f[b]
  BY <1>7 DEF SuperBlocks, l
<1>9. /\ SupersApart(g) /\ Held(g) \cap Owned(f, l) = {}
      /\ Held(f) = Held(g) \cup Owned(f, l)
  BY <1>0, <1>1, <1>7, <1>8, FewerSupers
<1>10. Linked(k.link, SuperBlocks(g), g)
  <2>1. \A b \in SuperBlocks(f) \ {l} : g[b].next = f[b].next
    BY <1>8, <1>7
  <2>2. k.link = f[l].next /\ l # 0
    BY <1>2 DEF l
  <2>3. Linked(f[l].next, SuperBlocks(f) \ {l}, g)
    BY <1>0, <1>2, <2>1, <2>2, LinkedPop
  <2> QED
    BY <1>7, <2>2, <2>3
<1>11. Covered(h.range) = {}
  <2>1. h.range \in Seq(FreeRange) /\ Len(h.range) = 0
    BY FileIs DEF Sound
  <2> QED
    BY <2>1, NoneCovered
<1>12. Parts(k.range, Held(g), Kept(g), used, k.free)
  BY <1>0, <1>5, <1>7, <1>9, <1>11 DEF Parts
<1>13. Formed(k, g)
  BY <1>4, <1>7 DEF Formed, l, q
<1> QED
  BY <1>4, <1>6, <1>7, <1>9, <1>10, <1>12, <1>13 DEF Sound, Split, l, q

(* A chunk is written behind the last block of the file.                    *)
LEMMA Writes ==
  ASSUME NEW h, NEW f, NEW used, Sound(h, f, used), NEW r, r = h.free, r < NBlocks,
         NEW g \in [Block -> Content], \A d \in Block \ {r} : g[d] = f[d], g[r] \in Chunk,
         g[r].next = h.rollback, Size(g[r]) >= 2,
         NEW k \in Header, k.free = r + Size(g[r]), k.link = h.link, k.range = h.range,
         k.rollback = r
  PROVE  Sound(k, g, used)
<1> DEFINE n == Size(g[r])
<1>0. /\ Linked(h.link, SuperBlocks(f), f) /\ Linked(h.rollback, Heads(f), f)
      /\ SupersApart(f) /\ ChunksApart(f) /\ Parts(h.range, Held(f), Kept(f), used, h.free)
      /\ f[0] = Other /\ WellFormed(f)
  BY DEF Sound, Split, Formed
<1>1. r \in Nat /\ r >= 1 /\ r \in Block \ {0} /\ n \in Nat /\ n >= 2
  <2>1. r \in 1..NBlocks
    BY Places
  <2> QED
    BY <2>1, SizeIs, SizeAssumption DEF Block
<1>2. Segment(g, r) = r..r + n - 1
  BY DEF Segment
<1> HIDE DEF n
<1>3. /\ (1..r - 1) \cap Segment(g, r) = {} /\ r \in Segment(g, r) /\ r \notin 1..r - 1
      /\ 1..(r + n) - 1 = (1..r - 1) \cup Segment(g, r)
  <2>1. (1..r - 1) \cap (r..r + n - 1) = {} /\ r \in r..r + n - 1 /\ r \notin 1..r - 1
    BY <1>1
  <2>2. 1..(r + n) - 1 = (1..r - 1) \cup (r..r + n - 1)
    BY <1>1
  <2> QED
    BY <1>2, <2>1, <2>2
<1>4. /\ Kept(f) \subseteq 1..r - 1 /\ Held(f) \subseteq 1..r - 1
      /\ SuperBlocks(f) \subseteq 1..r - 1 /\ Heads(f) \subseteq 1..r - 1
      /\ 0 \notin Heads(f)
  <2>1. 1..r - 1 \subseteq Block \ {0}
    BY Places
  <2> QED
    BY <2>1, Places
<1>5. /\ r \notin Heads(f) /\ Heads(g) = Heads(f) \cup {r} /\ \A c \in Heads(f) : g[c] = f[c]
  BY <1>1, <1>3, <1>4 DEF Heads
<1>6. ChunksApart(g) /\ Kept(g) = Kept(f) \cup Segment(g, r)
  <2>1. Kept(f) \cap Segment(g, r) = {}
    BY <1>3, <1>4
  <2> QED
    BY <1>0, <1>5, <2>1, MoreHeads
<1>7. Linked(r, Heads(g), g)
  <2>1. \A c \in Heads(f) : g[c].next = f[c].next
    BY <1>5
  <2>2. r # 0
    BY <1>1
  <2> QED
    BY <1>0, <1>4, <1>5, <2>1, <2>2, LinkedPush
<1>8. SuperBlocks(g) = SuperBlocks(f) /\ \A b \in SuperBlocks(f) : g[b] = f[b]
  <2>1. r \notin SuperBlocks(f) /\ g[r] \notin Super
    BY <1>3, <1>4, Contents
  <2>2. ASSUME NEW b \in SuperBlocks(f) PROVE b \in SuperBlocks(g)
    <3>1. b \in Block /\ b # r /\ f[b] \in Super /\ b \notin Kept(f)
      BY <2>1 DEF SuperBlocks
    <3>2. b \notin Segment(g, r)
      BY <1>3, <1>4, <2>2
    <3> QED
      BY <1>6, <3>1, <3>2 DEF SuperBlocks
  <2>3. ASSUME NEW b \in SuperBlocks(g) PROVE b \in SuperBlocks(f)
    <3>1. b \in Block /\ g[b] \in Super /\ b \notin Kept(g)
      BY DEF SuperBlocks
    <3>2. b # r /\ b \notin Kept(f)
      BY <1>6, <2>1, <3>1
    <3> QED
      BY <3>1, <3>2 DEF SuperBlocks
  <2>4. \A b \in SuperBlocks(f) : b \in Block /\ b # r
    BY <2>1 DEF SuperBlocks
  <2> QED
    BY <2>2, <2>3, <2>4
<1>9. SupersApart(g) /\ Held(g) = Held(f) /\ Linked(h.link, SuperBlocks(g), g)
  BY <1>0, <1>8, SameSupers
<1>10. WellFormed(g) /\ g[0] = Other
  <2>0. g[r].next < r
    <3>1. h.rollback \in 1..r - 1 \/ h.rollback = 0
      BY <1>0, <1>4, LinkedFacts
    <3> QED
      BY <1>1, <3>1
  <2>1. \A c \in Heads(g) : Size(g[c]) >= 2 /\ g[c].next < c
    BY <1>0, <1>5, <2>0 DEF WellFormed
  <2>2. \A b \in Block : g[b] \in Super => InOrder(g[b].range) /\ Len(g[b].range) = Half
    <3>1. g[r] \notin Super
      BY Contents
    <3> QED
      BY <1>0, <3>1 DEF WellFormed
  <2>3. 0 \in Block \ {r}
    BY <1>1, SizeAssumption DEF Block
  <2> QED
    BY <1>0, <2>1, <2>2, <2>3 DEF WellFormed
<1>11. Parts(k.range, Held(g), Kept(g), used, k.free)
  <2>1. k.free - 1 = (r + n) - 1 /\ h.free - 1 = r - 1
    BY <1>1 DEF n
  <2>2. used \subseteq 1..r - 1 /\ Covered(h.range) \subseteq 1..r - 1
    BY Places
  <2>3. 1..k.free - 1 = (1..h.free - 1) \cup Segment(g, r)
    BY <1>3, <2>1
  <2> QED
    BY <1>0, <1>3, <1>4, <1>6, <1>9, <2>2, <2>3 DEF Parts
<1> QED
  BY <1>6, <1>7, <1>9, <1>10, <1>11 DEF Sound, Split, Formed

(* g is f with the blocks in B cleared.                                     *)
ClearedTo(f, B, g) ==
  /\ g \in [Block -> Content]
  /\ \A d \in Block \ B : g[d] = f[d]
  /\ \A d \in Block \cap B : g[d] = Other

Unchained(h, f, used, k, g) ==
  /\ Heads(g) = Heads(f) \ {h.rollback} /\ \A c \in Heads(g) : g[c] = f[c]
  /\ Sound(k, g, used \cup Segment(f, h.rollback))

(* The first chunk leaves the chain: its blocks are in use, until they are  *)
(* given back.                                                              *)
LEMMA Unchains ==
  ASSUME NEW h, NEW f, NEW used, Sound(h, f, used), h.rollback # 0,
         NEW g, ClearedTo(f, Segment(f, h.rollback), g),
         NEW k \in Header, k.free = h.free, k.link = h.link, k.range = h.range,
         k.rollback = f[h.rollback].next
  PROVE  Unchained(h, f, used, k, g)
<1> DEFINE r == h.rollback
           B == Segment(f, r)
<1>0. /\ Linked(h.link, SuperBlocks(f), f) /\ Linked(h.rollback, Heads(f), f)
      /\ SupersApart(f) /\ ChunksApart(f) /\ Parts(h.range, Held(f), Kept(f), used, h.free)
      /\ f[0] = Other /\ WellFormed(f) /\ Len(h.range) <= MaxRanges
  BY DEF Sound, Split, Formed
<1>1. r \in Heads(f)
  BY <1>0, LinkedFacts
<1>1a. /\ r # 0 /\ k.rollback = f[r].next /\ g \in [Block -> Content]
       /\ \A d \in Block \ B : g[d] = f[d]
       /\ \A d \in Block \cap B : g[d] = Other
  BY DEF ClearedTo
<1>1b. B = Segment(f, r) /\ r = h.rollback
  OBVIOUS
<1> HIDE DEF B, r
<1>2. B \subseteq Kept(f) /\ B \subseteq Block /\ 0 \notin B
  <2>1. B \subseteq Kept(f)
    BY <1>1, <1>1b DEF Kept
  <2> QED
    BY <2>1, Places
<1>3. r \in B /\ \A c \in Heads(f) \ {r} : c \notin B
  <2>1. \A c \in Heads(f) : c \in Segment(f, c)
    <3>1. \A c \in Heads(f) : c \in Int /\ Size(f[c]) \in Nat /\ Size(f[c]) >= 2
      BY FileIs DEF Sound, Block
    <3>2. \A c \in Heads(f) : c \in c..c + Size(f[c]) - 1
      BY <3>1
    <3> QED
      BY <3>2 DEF Segment
  <2> QED
    BY <1>0, <1>1, <1>1b, <2>1 DEF ChunksApart
<1>4. \A d \in Block \cap B : g[d] \notin Chunk /\ g[d] \notin Super
  BY <1>1a, Contents
<1>5. Heads(g) = Heads(f) \ {r} /\ \A c \in Heads(g) : g[c] = f[c]
  BY <1>1, <1>1a, <1>3, <1>4 DEF Heads
<1>6. /\ ChunksApart(g) /\ Kept(g) \cap B = {} /\ Kept(f) = Kept(g) \cup B
  BY <1>0, <1>1, <1>1b, <1>5, FewerHeads
<1>7. SuperBlocks(g) = SuperBlocks(f) /\ \A b \in SuperBlocks(f) : g[b] = f[b]
  BY <1>1a, <1>2, <1>4, <1>6 DEF SuperBlocks
<1>8. SupersApart(g) /\ Held(g) = Held(f) /\ Linked(h.link, SuperBlocks(g), g)
  BY <1>0, <1>7, SameSupers
<1>9. Linked(f[r].next, Heads(g), g)
  <2>1. 0 \notin Heads(f)
    BY <1>0, Contents DEF Heads
  <2>2. \A b \in Heads(f) \ {r} : g[b].next = f[b].next
    BY <1>5
  <2>3. Linked(r, Heads(f), f) /\ r # 0
    BY <1>0, <1>1a, <1>1b
  <2>4. Linked(f[r].next, Heads(f) \ {r}, g)
    BY <2>1, <2>2, <2>3, LinkedPop
  <2> QED
    BY <1>5, <2>4
<1>10. WellFormed(g) /\ g[0] = Other
  <2>1. \A c \in Heads(g) : Size(g[c]) >= 2 /\ g[c].next < c
    BY <1>0, <1>5 DEF WellFormed
  <2>2. \A b \in Block : g[b] \in Super => InOrder(g[b].range) /\ Len(g[b].range) = Half
    BY <1>0, <1>1a, <1>4 DEF WellFormed
  <2>3. 0 \in Block
    BY SizeAssumption DEF Block
  <2> QED
    BY <1>0, <1>1a, <1>2, <2>1, <2>2, <2>3 DEF WellFormed
<1>11. Parts(k.range, Held(g), Kept(g), used \cup B, k.free)
  BY <1>0, <1>2, <1>6, <1>8 DEF Parts
<1>12. Formed(k, g)
  BY <1>0, <1>1a, <1>10 DEF Formed
<1>13. Split(k, g, used \cup B)
  BY <1>1a, <1>6, <1>8, <1>9, <1>11 DEF Split
<1> QED
  BY <1>5, <1>12, <1>13 DEF Unchained, Sound, B, r

(* The blocks from e on are cut off.                                        *)
LEMMA Shortens ==
  ASSUME NEW h, NEW f, NEW used, Sound(h, f, used), NEW e \in 1..h.free,
         e..h.free - 1 \subseteq used,
         NEW k \in Header, k.free = e, k.link = h.link, k.range = h.range,
         k.rollback = h.rollback
  PROVE  Sound(k, f, used \ (e..h.free - 1))
<1> DEFINE B == e..h.free - 1
<1>1. Parts(h.range, Held(f), Kept(f), used, h.free)
  BY DEF Sound, Split
<1>2. 1..e - 1 = (1..h.free - 1) \ B
  <2>1. h.free \in Int
    BY Places
  <2> QED
    BY <2>1
<1> HIDE DEF B
<1>3. B \subseteq used
  BY DEF B
<1>4. Parts(k.range, Held(f), Kept(f), used \ B, k.free)
  BY <1>1, <1>2, <1>3 DEF Parts
<1>5. Formed(k, f)
  BY DEF Sound, Formed
<1> QED
  BY <1>4, <1>5 DEF Sound, Split, B

(* The last range leaves the table: its blocks are in use.                  *)
LEMMA Drops ==
  ASSUME NEW h, NEW f, NEW used, Sound(h, f, used), h.range # <<>>,
         NEW k \in Header, k.free = h.free, k.link = h.link, k.range = Front(h.range),
         k.rollback = h.rollback
  PROVE  LET q == h.range[Len(h.range)]
         IN  /\ q \in FreeRange /\ q.first >= 1 /\ q.count >= 1
             /\ q.first..q.first + q.count - 1 \subseteq 1..h.free - 1
             /\ Sound(k, f, used \cup q.first..q.first + q.count - 1)
<1> DEFINE q == h.range[Len(h.range)]
           B == q.first..q.first + q.count - 1
<1>1. /\ h.range \in Seq(FreeRange) /\ InOrder(h.range)
      /\ Parts(h.range, Held(f), Kept(f), used, h.free)
  BY FileIs DEF Sound, Split, Parts
<1>2. /\ Len(h.range) \in 1..Len(h.range) /\ q \in FreeRange
      /\ k.range \in Seq(FreeRange) /\ Len(k.range) <= Len(h.range) /\ InOrder(k.range)
      /\ B \subseteq Covered(h.range) /\ Covered(k.range) = Covered(h.range) \ B
  BY <1>1, FrontIs
<1>3. q.first >= 1 /\ q.count >= 1
  BY <1>1, <1>2, Ranges
<1> HIDE DEF B, q
<1>4. B \subseteq 1..h.free - 1
  BY <1>2, Places
<1>5. Parts(k.range, Held(f), Kept(f), used \cup B, k.free)
  BY <1>1, <1>2 DEF Parts
<1>6. Formed(k, f)
  <2>1. Len(k.range) \in Nat /\ Len(h.range) \in Nat /\ MaxRanges \in Nat
        /\ Len(h.range) <= MaxRanges
    BY <1>1, <1>2, SizeAssumption DEF MaxRanges, Sound, Formed
  <2> QED
    BY <1>2, <2>1 DEF Sound, Formed
<1>7. Sound(k, f, used \cup B)
  BY <1>5, <1>6 DEF Sound, Split
<1> QED
  BY <1>2, <1>3, <1>4, <1>7 DEF B, q

(* An interrupted release: the file has changed inside of its chunks only.  *)
LEMMA Keeps ==
  ASSUME NEW h, NEW f, NEW used, Sound(h, f, used),
         NEW Z, Z \subseteq Kept(f) \ Heads(f),
         NEW g \in [Block -> Content], \A b \in Block \ Z : g[b] = f[b],
         \A b \in Z : g[b] \notin Chunk, WellFormed(g)
  PROVE  Sound(h, g, used) /\ Heads(g) = Heads(f) /\ Kept(g) = Kept(f)
         /\ \A c \in Heads(f) : g[c] = f[c]
<1>1. /\ Heads(g) = Heads(f) /\ Kept(g) = Kept(f) /\ SuperBlocks(g) = SuperBlocks(f)
      /\ \A b \in Heads(f) \cup SuperBlocks(f) : g[b] = f[b]
  BY ChunksWritten
<1>2. /\ SupersApart(g) /\ Held(g) = Held(f) /\ Linked(h.link, SuperBlocks(g), g)
  BY <1>1, SameSupers DEF Sound, Split
<1>3. ChunksApart(g) /\ Linked(h.rollback, Heads(g), g)
  BY <1>1, SameHeads DEF Sound, Split
<1>4. g[0] = Other
  <2>1. 0 \in Block /\ 0 \notin Z
    BY Places, SizeAssumption DEF Block
  <2> QED
    BY <2>1 DEF Sound, Formed
<1>5. Split(h, g, used)
  BY <1>1, <1>2, <1>3 DEF Sound, Split
<1>6. Formed(h, g)
  BY <1>4 DEF Sound, Formed
<1> QED
  BY <1>1, <1>5, <1>6 DEF Sound

-----------------------------------------------------------------------------
(* The inductive invariant.                                                 *)

(* While the chain is given back the file still has what memory has of it,  *)
(* and has been written only inside of its chunks.                          *)
ReleaseInv ==
  /\ phase # "free" => unsynced = {}
  /\ phase = "free" => /\ Sound(stored, stable, live)
                       /\ \A c \in Heads(block) : stable[c] = block[c]
                       /\ unsynced \subseteq Kept(stable) \ Heads(stable)

SpaceInv ==
  /\ phase \in {"open", "commit", "free"} /\ status \in {"ok", "E_NOSPC"}
  /\ Sound(hdr, block, live) /\ Formed(stored, stable)
  /\ ReleaseInv

LEMMA HeaderWith ==
  ASSUME NEW h \in Header
  PROVE  /\ \A e \in 1..NBlocks :
              LET k == [h EXCEPT !.free = e]
              IN  /\ k \in Header /\ k.free = e /\ k.link = h.link /\ k.range = h.range
                  /\ k.rollback = h.rollback
         /\ \A a \in Block :
              LET k == [h EXCEPT !.link = a]
              IN  /\ k \in Header /\ k.free = h.free /\ k.link = a /\ k.range = h.range
                  /\ k.rollback = h.rollback
         /\ \A r \in Seq(FreeRange) :
              LET k == [h EXCEPT !.range = r]
              IN  /\ k \in Header /\ k.free = h.free /\ k.link = h.link /\ k.range = r
                  /\ k.rollback = h.rollback
         /\ \A a \in Block :
              LET k == [h EXCEPT !.rollback = a]
              IN  /\ k \in Header /\ k.free = h.free /\ k.link = h.link /\ k.range = h.range
                  /\ k.rollback = a
BY DEF Header

LEMMA Nothing == Sound(NoHeader, NoFile, {})
<1>1. NBlocks >= 1 /\ 0 \in Block
  BY SizeAssumption DEF Block
<1>2. NoHeader \in Header /\ NoHeader.range = <<>> /\ NoHeader.link = 0
      /\ NoHeader.rollback = 0 /\ NoHeader.free = 1
  BY <1>1 DEF NoHeader, Header
<1>3. NoFile \in [Block -> Content] /\ \A b \in Block : NoFile[b] = Other
  BY Contents DEF NoFile
<1>4. Heads(NoFile) = {} /\ SuperBlocks(NoFile) = {}
  BY <1>3, Contents DEF Heads, SuperBlocks
<1>5. Kept(NoFile) = {} /\ Held(NoFile) = {}
  BY <1>4 DEF Kept, Held
<1>6. Linked(0, {}, NoFile)
  BY DEF Linked
<1>7. /\ NoHeader.range \in Seq(FreeRange) /\ Len(NoHeader.range) = 0
  BY <1>2
<1>8. InOrder(NoHeader.range) /\ Covered(NoHeader.range) = {}
  BY <1>7, Ranges, NoneCovered
<1>9. WellFormed(NoFile)
  BY <1>3, <1>4, Contents DEF WellFormed
<1>10. Formed(NoHeader, NoFile)
  <2>1. Len(NoHeader.range) <= MaxRanges
    BY <1>7, SizeAssumption DEF MaxRanges
  <2> QED
    BY <1>1, <1>2, <1>3, <1>9, <2>1 DEF Formed
<1>11. 1..NoHeader.free - 1 = {}
  BY <1>2
<1> QED
  BY <1>2, <1>4, <1>5, <1>6, <1>8, <1>10, <1>11
     DEF Sound, Split, Parts, SupersApart, ChunksApart

LEMMA InitSpace == Init => SpaceInv
<1> SUFFICES ASSUME Init PROVE SpaceInv
  OBVIOUS
<1>1. hdr = NoHeader /\ block = NoFile /\ stored = NoHeader /\ stable = NoFile
      /\ live = {} /\ unsynced = {} /\ phase = "open" /\ status = "ok"
  BY DEF Init
<1>2. Sound(hdr, block, live) /\ Formed(stored, stable)
  BY <1>1, Nothing DEF Sound
<1> QED
  BY <1>1, <1>2 DEF SpaceInv, ReleaseInv

-----------------------------------------------------------------------------
(* Every operation keeps it.                                                *)

(* In a transaction the file has no part in it.                             *)
LEMMA InTransaction ==
  ASSUME SpaceInv, phase = "open", UNCHANGED <<phase, file, unsynced>>,
         status' \in {"ok", "E_NOSPC"}, Sound(hdr', block', live')
  PROVE  SpaceInv'
BY DEF SpaceInv, ReleaseInv, file

(* The chunk that ends the file is cut off in memory.                       *)
LEMMA DropChunkKeeps ==
  ASSUME SpaceInv, DropChunk
  PROVE  /\ SpaceInv' /\ status' = "ok" /\ hdr.rollback \in Heads(block)
         /\ hdr'.free = hdr.rollback
         /\ hdr.free = hdr.rollback + Size(block[hdr.rollback])
         /\ Heads(block') = Heads(block) \ {hdr.rollback}
         /\ \A c \in Heads(block') : block'[c] = block[c]
<1> DEFINE r == hdr.rollback
           c == block[r]
           n == Size(c)
           B == Segment(block, r)
           rest == [hdr EXCEPT !.rollback = c.next]
           g == block'
           k == hdr'
<1>1. /\ phase \in {"open", "commit"} /\ r # 0 /\ r + n = hdr.free
      /\ k = [hdr EXCEPT !.free = r, !.rollback = c.next] /\ g = Cleared(r, n)
      /\ phase' \in {"open", "commit"} /\ status' = "ok" /\ UNCHANGED <<file, unsynced, live>>
  BY DEF DropChunk
<1>2. /\ Sound(hdr, block, live) /\ hdr \in Header /\ block \in [Block -> Content]
      /\ unsynced = {} /\ Formed(stored, stable)
  BY <1>1 DEF SpaceInv, ReleaseInv, Sound, Formed
<1>3. r \in Heads(block)
  BY <1>1, <1>2, LinkedFacts DEF Sound, Split
<1>4. /\ r \in Block /\ c.next \in Block /\ n \in Nat /\ n >= 2 /\ hdr.free \in 1..NBlocks
  BY <1>2, <1>3, FileIs DEF Sound
<1>5. r \in Nat /\ r >= 1 /\ r \in 1..hdr.free /\ r \in 1..NBlocks
  BY <1>1, <1>4, SizeAssumption DEF Block
<1>6. B = r..r + n - 1 /\ B = r..hdr.free - 1
  <2>1. hdr.free - 1 = r + n - 1
    BY <1>1, <1>4, <1>5
  <2> QED
    BY <2>1 DEF Segment
<1>7. /\ rest \in Header /\ rest.free = hdr.free /\ rest.link = hdr.link
      /\ rest.range = hdr.range /\ rest.rollback = c.next
  BY <1>2, <1>4, HeaderWith
<1>8. /\ k \in Header /\ k.free = r /\ k.link = hdr.link /\ k.range = hdr.range
      /\ k.rollback = c.next
  BY <1>1, <1>2, <1>4, <1>5 DEF Header
<1>9. ClearedTo(block, B, g)
  BY <1>1, <1>2, <1>6, Contents DEF ClearedTo, Cleared
<1> HIDE DEF g, k, rest
<1>10. Unchained(hdr, block, live, rest, g)
  BY <1>1, <1>2, <1>7, <1>9, Unchains
<1>11. Sound(rest, g, live \cup B)
  BY <1>10 DEF Unchained
<1>12. B \cap live = {}
  <2>1. B \subseteq Kept(block)
    BY <1>3 DEF Kept
  <2> QED
    BY <1>2, <2>1 DEF Sound, Split, Parts
<1> HIDE DEF B
<1>13. Sound(k, g, (live \cup B) \ B)
  <2>1. B = r..rest.free - 1 /\ r \in 1..rest.free
    BY <1>5, <1>6, <1>7
  <2>2. B \subseteq live \cup B
    OBVIOUS
  <2> HIDE DEF r
  <2> QED
    BY <1>7, <1>8, <1>11, <2>1, <2>2, Shortens
<1>14. (live \cup B) \ B = live
  BY <1>12
<1>15. SpaceInv'
  <2>1. Sound(hdr', block', live')
    BY <1>1, <1>13, <1>14 DEF g, k
  <2>2. Formed(stored', stable') /\ unsynced' = {}
    BY <1>1, <1>2 DEF file
  <2> QED
    BY <1>1, <2>1, <2>2 DEF SpaceInv, ReleaseInv
<1>16. Heads(g) = Heads(block) \ {r} /\ \A d \in Heads(g) : g[d] = block[d]
  BY <1>10 DEF Unchained
<1> QED
  BY <1>1, <1>3, <1>8, <1>15, <1>16 DEF g, k

LEMMA CommitKeeps ==
  ASSUME SpaceInv, Commit
  PROVE  SpaceInv'
<1>1. /\ Sound(hdr, block, live) /\ unsynced = {} /\ phase' = "free" /\ stored' = hdr
      /\ stable' = block /\ status' = "ok" /\ hdr' = hdr /\ block' = block
      /\ unsynced' = unsynced /\ live' = live
  BY DEF SpaceInv, ReleaseInv, Commit
<1>2. Sound(hdr', block', live') /\ Sound(stored', stable', live')
  BY <1>1
<1>3. Formed(stored', stable')
  BY <1>2 DEF Sound
<1> QED
  BY <1>1, <1>2, <1>3 DEF SpaceInv, ReleaseInv

LEMMA WriteChunkKeeps ==
  ASSUME SpaceInv, NEW n \in 0..MaxSaved, WriteChunk(n)
  PROVE  /\ SpaceInv' /\ status' = "ok" /\ hdr.free \in Block
         /\ block'[hdr.free] \in Chunk /\ Size(block'[hdr.free]) >= 2
         /\ \A d \in Block \ {hdr.free} : block'[d] = block[d]
         /\ hdr'.free = hdr.free + Size(block'[hdr.free])
<1> DEFINE c == [next |-> hdr.rollback, saved |-> n]
           r == hdr.free
<1>1. /\ phase = "open" /\ (n = 0 => hdr.rollback = 0) /\ r < NBlocks - Size(c)
      /\ block' = [block EXCEPT ![r] = c]
      /\ hdr' = [hdr EXCEPT !.rollback = r, !.free = @ + Size(c)]
      /\ status' = "ok" /\ UNCHANGED <<phase, file, unsynced, live>>
  BY DEF WriteChunk
<1>2. Sound(hdr, block, live)
  BY DEF SpaceInv
<1>3. r \in 1..NBlocks /\ hdr.rollback \in Block /\ hdr \in Header
  BY <1>2, FileIs DEF Sound
<1>4. c \in Chunk /\ c \in Content /\ Size(c) \in Nat /\ Size(c) >= 2
      /\ c.next = hdr.rollback
  <2>1. c \in Chunk /\ c.next = hdr.rollback /\ c.saved = n
    BY <1>3 DEF Chunk
  <2>2. n \in Nat
    BY SizeAssumption
  <2>3. Size(c) = n + 1 + (IF hdr.rollback = 0 THEN 1 ELSE 0)
    BY <2>1 DEF Size
  <2>4. Size(c) >= 2 /\ Size(c) \in Nat
    <3>1. CASE hdr.rollback = 0
      BY <2>2, <2>3, <3>1
    <3>2. CASE hdr.rollback # 0
      BY <1>1, <2>2, <2>3, <3>2
    <3> QED
      BY <3>1, <3>2
  <2> QED
    BY <2>1, <2>4, Contents
<1> HIDE DEF c
<1>5. r \in Block /\ r < NBlocks /\ r + Size(c) \in 1..NBlocks
  BY <1>1, <1>3, <1>4, SizeAssumption DEF Block
<1>6. /\ block' \in [Block -> Content] /\ block'[r] = c
      /\ \A d \in Block \ {r} : block'[d] = block[d]
  BY <1>1, <1>2, <1>4, <1>5 DEF Sound, Formed
<1>7. /\ hdr' \in Header /\ hdr'.free = r + Size(c) /\ hdr'.link = hdr.link
      /\ hdr'.range = hdr.range /\ hdr'.rollback = r
  BY <1>1, <1>3, <1>5 DEF Header
<1>8. Sound(hdr', block', live)
  <2> DEFINE g == block'
             k == hdr'
  <2>1. /\ g \in [Block -> Content] /\ g[r] = c /\ \A d \in Block \ {r} : g[d] = block[d]
    BY <1>6
  <2>2. /\ k \in Header /\ k.free = r + Size(c) /\ k.link = hdr.link
        /\ k.range = hdr.range /\ k.rollback = r
    BY <1>7
  <2> HIDE DEF g, k
  <2>3. Sound(k, g, live)
    BY <1>2, <1>4, <1>5, <2>1, <2>2, Writes
  <2> QED
    BY <2>3 DEF g, k
<1>9. SpaceInv'
  BY <1>1, <1>8, InTransaction
<1>10. block'[r] \in Chunk /\ Size(block'[r]) >= 2 /\ hdr'.free = r + Size(block'[r])
  BY <1>4, <1>6, <1>7
<1> QED
  BY <1>1, <1>5, <1>6, <1>9, <1>10

LEMMA ExtendKeeps ==
  ASSUME SpaceInv, Extend
  PROVE  SpaceInv'
<1>1. /\ phase = "open" /\ UNCHANGED <<phase, block, file, unsynced>>
      /\ \/ /\ hdr.free = NBlocks /\ status' = "E_NOSPC" /\ UNCHANGED <<hdr, live>>
         \/ /\ hdr.free # NBlocks /\ hdr' = [hdr EXCEPT !.free = @ + 1]
            /\ live' = live \cup {hdr.free} /\ status' = "ok"
  BY DEF Extend
<1>2. Sound(hdr, block, live)
  BY DEF SpaceInv
<1>3. CASE hdr.free = NBlocks
  <2>1. Sound(hdr', block', live') /\ status' = "E_NOSPC"
    BY <1>1, <1>2, <1>3
  <2> QED
    BY <1>1, <2>1, InTransaction
<1>4. CASE hdr.free # NBlocks
  <2>1. hdr.free \in 1..NBlocks /\ hdr \in Header
    BY <1>2, FileIs DEF Sound
  <2>2. hdr.free < NBlocks /\ hdr.free + 1 \in 1..NBlocks
    BY <1>4, <2>1, SizeAssumption
  <2>3. hdr' = [hdr EXCEPT !.free = hdr.free + 1] /\ live' = live \cup {hdr.free}
        /\ status' = "ok"
    BY <1>1, <1>4, <2>1 DEF Header
  <2>4. /\ hdr' \in Header /\ hdr'.free = hdr.free + 1 /\ hdr'.link = hdr.link
        /\ hdr'.range = hdr.range /\ hdr'.rollback = hdr.rollback
    BY <2>1, <2>2, <2>3, HeaderWith
  <2>5. Sound(hdr', block, live \cup {hdr.free})
    BY <1>2, <2>2, <2>4, Extends
  <2> QED
    BY <1>1, <2>3, <2>5, InTransaction
<1> QED
  BY <1>3, <1>4

LEMMA AllocateKeeps ==
  ASSUME SpaceInv, NEW advised \in Block, NEW alignment \in 0..MaxAlign,
         Allocate(advised, alignment)
  PROVE  /\ SpaceInv' /\ status' = "ok" /\ hdr'.free = hdr.free
         /\ \E b \in Block \ live : live' = live \cup {b}
         /\ \/ block' = block
            \/ hdr.link # 0 /\ block' = [block EXCEPT ![hdr.link] = Other]
<1> DEFINE P(range) == Aligned(range, Advised(range, advised), alignment)
<1>1. phase = "open" /\ UNCHANGED <<phase, file, unsynced>>
  BY DEF Allocate
<1>2. Sound(hdr, block, live) /\ hdr \in Header /\ hdr.range \in Seq(FreeRange)
      /\ hdr.link \in Block
  BY FileIs DEF SpaceInv, Sound
<1>3. \A range \in Seq(FreeRange) : range # <<>> => P(range) \in 1..Len(range)
  <2>1. advised \in Nat /\ alignment \in Nat
    BY SizeAssumption DEF Block
  <2> QED
    BY <2>1, AlignedIs
<1> HIDE DEF P
<1>4. CASE hdr.range # <<>>
  <2> DEFINE i == P(hdr.range)
  <2>1. /\ hdr' = [hdr EXCEPT !.range = TakenFrom(hdr.range, i)] /\ block' = block
        /\ live' = live \cup {hdr.range[i].first} /\ status' = "ok"
    BY <1>4 DEF Allocate, P
  <2>2. i \in 1..Len(hdr.range)
    BY <1>2, <1>3, <1>4
  <2> HIDE DEF i
  <2>3. /\ hdr' \in Header /\ hdr'.free = hdr.free /\ hdr'.link = hdr.link
        /\ hdr'.range = TakenFrom(hdr.range, i) /\ hdr'.rollback = hdr.rollback
    <3>1. TakenFrom(hdr.range, i) \in Seq(FreeRange)
      BY <1>2, <2>2, TakenFromIs DEF Sound, Split, Parts
    <3> QED
      BY <1>2, <2>1, <3>1, HeaderWith
  <2>4. Sound(hdr', block, live \cup {hdr.range[i].first})
        /\ hdr.range[i].first \in Block \ live
    BY <1>2, <2>2, <2>3, Takes
  <2>5. SpaceInv'
    BY <1>1, <2>1, <2>4, InTransaction
  <2> QED
    BY <2>1, <2>3, <2>4, <2>5
<1>5. CASE hdr.range = <<>>
  <2> DEFINE l == hdr.link
             t == Inserted(block[l].range, l, 1)
             k == [hdr EXCEPT !.link = block[l].next, !.range = t.range]
             i == P(k.range)
  <2>1. l # 0
    BY <1>5 DEF Allocate
  <2>2. Loaded(hdr) = [code |-> t.code, header |-> k]
    BY DEF Loaded
  <2>3. l \in SuperBlocks(block)
    BY <1>2, <2>1, LinkedFacts DEF Sound, Split
  <2>4. block[l].next \in Block /\ block[l].range \in Seq(FreeRange)
        /\ InOrder(block[l].range) /\ Len(block[l].range) = Half
    BY <1>2, <2>3, FileIs DEF Sound
  <2>5. t.range \in Seq(FreeRange)
    <3>1. l \notin Covered(block[l].range)
      BY <1>2, <2>3 DEF Sound, Split, SupersApart
    <3>2. l \in Nat \ {0} /\ l..l + 1 - 1 = {l}
      BY <1>2, <2>1, SizeAssumption DEF Block
    <3>3. (l..l + 1 - 1) \cap Covered(block[l].range) = {}
      BY <3>1, <3>2
    <3>4. Half <= MaxRanges /\ Half # MaxRanges
      BY SizeAssumption DEF MaxRanges
    <3>5. t.code = "ok" => Grown(t.range, block[l].range, l, 1)
      BY <2>4, <3>2, <3>3, <3>4, InsertedRight
    <3>6. t.code = "ok"
      BY <2>4, <3>2, <3>3, <3>4, InsertedRight
    <3> QED
      BY <3>5, <3>6 DEF Grown
  <2> HIDE DEF t
  <2>6. /\ k \in Header /\ k.free = hdr.free /\ k.link = block[l].next /\ k.range = t.range
        /\ k.rollback = hdr.rollback
    BY <1>2, <2>4, <2>5 DEF Header
  <2> DEFINE g == [block EXCEPT ![l] = Other]
  <2>7. g \in [Block -> Content] /\ g[l] = Other /\ \A d \in Block \ {l} : g[d] = block[d]
    BY <1>2, Contents DEF Sound, Formed
  <2> HIDE DEF k, g, l
  <2>8. t.code = "ok" /\ k.range # <<>> /\ Sound(k, g, live)
    BY <1>2, <1>5, <2>1, <2>6, <2>7, Loads DEF t, l
  <2>9. /\ hdr' = [k EXCEPT !.range = TakenFrom(k.range, i)] /\ block' = g
        /\ live' = live \cup {k.range[i].first} /\ status' = "ok"
    <3>1. /\ IF Loaded(hdr).code # "ok"
             THEN status' = "E_INTERN_13" /\ UNCHANGED <<hdr, block, live>>
             ELSE LET range == Loaded(hdr).header.range
                      j == Aligned(range, Advised(range, advised), alignment)
                  IN  /\ hdr' = [Loaded(hdr).header EXCEPT !.range = TakenFrom(range, j)]
                      /\ block' = [block EXCEPT ![hdr.link] = Other]
                      /\ live' = live \cup {range[j].first}
                      /\ status' = "ok"
      BY <1>5 DEF Allocate
    <3>2. Loaded(hdr).code = "ok" /\ Loaded(hdr).header = k
      BY <2>2, <2>8
    <3> QED
      BY <3>1, <3>2 DEF P, g, l
  <2>10. i \in 1..Len(k.range)
    BY <1>3, <2>5, <2>6, <2>8
  <2> HIDE DEF i
  <2>11. /\ hdr' \in Header /\ hdr'.free = k.free /\ hdr'.link = k.link
         /\ hdr'.range = TakenFrom(k.range, i) /\ hdr'.rollback = k.rollback
    <3>1. TakenFrom(k.range, i) \in Seq(FreeRange)
      BY <2>5, <2>6, <2>8, <2>10, TakenFromIs DEF Sound, Split, Parts
    <3> QED
      BY <2>6, <2>9, <3>1, HeaderWith
  <2>12. Sound(hdr', g, live \cup {k.range[i].first}) /\ k.range[i].first \in Block \ live
    BY <2>8, <2>10, <2>11, Takes
  <2>13. SpaceInv'
    BY <1>1, <2>9, <2>12, InTransaction
  <2> QED
    BY <2>1, <2>6, <2>9, <2>11, <2>12, <2>13 DEF g, l
<1> QED
  BY <1>4, <1>5

LEMMA DeallocateKeeps ==
  ASSUME SpaceInv, NEW b \in Block, Deallocate(b)
  PROVE  /\ SpaceInv' /\ status' = "ok" /\ hdr'.free = hdr.free
         /\ block' = block \/ \E c \in Super : block' = [block EXCEPT ![b] = c]
<1> DEFINE t == Inserted(hdr.range, b, 1)
<1>1. /\ phase = "open" /\ b \in live /\ UNCHANGED <<phase, file, unsynced>>
      /\ live' = live \ {b}
      /\ \/ t.code = "full" /\ Spilled(b) /\ status' = "ok"
         \/ /\ t.code # "full"
            /\ hdr' = [hdr EXCEPT !.range = t.range] /\ status' = t.code
            /\ UNCHANGED block
  BY DEF Deallocate
<1>2. Sound(hdr, block, live) /\ hdr \in Header /\ hdr.range \in Seq(FreeRange)
      /\ hdr.link \in Block /\ InOrder(hdr.range) /\ Len(hdr.range) <= MaxRanges
      /\ live \cap Covered(hdr.range) = {}
  BY FileIs DEF SpaceInv, Sound, Split, Parts
<1>3. b \in Nat \ {0} /\ b \in Block \ {0} /\ b..b + 1 - 1 = {b}
  <2>1. b \in Block \ {0}
    BY <1>1, <1>2, Places
  <2> QED
    BY <2>1, SizeAssumption DEF Block
<1>4. \/ t.code = "full" /\ Len(hdr.range) = MaxRanges
      \/ t.code = "ok" /\ Grown(t.range, hdr.range, b, 1)
  <2> DEFINE n == 1
  <2>1. n \in Nat \ {0} /\ (b..b + n - 1) \cap Covered(hdr.range) = {}
    BY <1>1, <1>2, <1>3
  <2>2. t = Inserted(hdr.range, b, n)
    OBVIOUS
  <2> HIDE DEF n, t
  <2>3. \/ t.code = "full" /\ Len(hdr.range) = MaxRanges
        \/ t.code = "ok" /\ Grown(t.range, hdr.range, b, n)
    BY <1>2, <1>3, <2>1, <2>2, InsertedRight
  <2> QED
    BY <2>3 DEF n
<1> HIDE DEF t
<1>5. CASE t.code = "full"
  <2> DEFINE super == [next |-> hdr.link, range |-> Upper(hdr.range)]
  <2>1. Len(hdr.range) = MaxRanges
    BY <1>4, <1>5
  <2>2. Lower(hdr.range) \in Seq(FreeRange) /\ Upper(hdr.range) \in Seq(FreeRange)
    BY <1>2, <2>1, HalvesAre
  <2>3. /\ block' = [block EXCEPT ![b] = super]
        /\ hdr' = [hdr EXCEPT !.link = b, !.range = Lower(hdr.range)] /\ status' = "ok"
    BY <1>1, <1>5 DEF Spilled
  <2>4. super \in Super /\ super \in Content /\ super.next = hdr.link
        /\ super.range = Upper(hdr.range)
    <3>1. super \in Super
      BY <1>2, <2>2 DEF Super
    <3> QED
      BY <3>1, Contents
  <2> HIDE DEF super
  <2>5. /\ block' \in [Block -> Content] /\ block'[b] = super
        /\ \A d \in Block \ {b} : block'[d] = block[d]
    BY <1>2, <2>3, <2>4 DEF Sound, Formed
  <2>6. /\ hdr' \in Header /\ hdr'.free = hdr.free /\ hdr'.link = b
        /\ hdr'.range = Lower(hdr.range) /\ hdr'.rollback = hdr.rollback
    BY <1>2, <2>2, <2>3 DEF Header
  <2>7. Sound(hdr', block', live \ {b})
    <3> DEFINE g == block'
               k == hdr'
    <3>1. /\ g \in [Block -> Content] /\ \A d \in Block \ {b} : g[d] = block[d]
          /\ g[b] \in Super /\ g[b].next = hdr.link /\ g[b].range = Upper(hdr.range)
      BY <2>4, <2>5
    <3>2. /\ k \in Header /\ k.free = hdr.free /\ k.link = b
          /\ k.range = Lower(hdr.range) /\ k.rollback = hdr.rollback
      BY <2>6
    <3> HIDE DEF g, k
    <3>3. Sound(k, g, live \ {b})
      BY <1>1, <1>2, <2>1, <3>1, <3>2, Spills
    <3> QED
      BY <3>3 DEF g, k
  <2>8. SpaceInv'
    BY <1>1, <2>3, <2>7, InTransaction
  <2> QED
    BY <2>3, <2>4, <2>6, <2>8
<1>6. CASE t.code # "full"
  <2>1. t.code = "ok" /\ t.range \in Seq(FreeRange)
    BY <1>4, <1>6 DEF Grown
  <2>2. hdr' = [hdr EXCEPT !.range = t.range] /\ status' = "ok" /\ block' = block
    BY <1>1, <1>6, <2>1
  <2>3. /\ hdr' \in Header /\ hdr'.free = hdr.free /\ hdr'.link = hdr.link
        /\ hdr'.range = t.range /\ hdr'.rollback = hdr.rollback
    BY <1>2, <2>1, <2>2, HeaderWith
  <2>4. Sound(hdr', block, live \ {b})
    <3> DEFINE k == hdr'
               n == 1
    <3>1. /\ k \in Header /\ k.free = hdr.free /\ k.link = hdr.link
          /\ k.range = Inserted(hdr.range, b, n).range /\ k.rollback = hdr.rollback
      BY <2>3 DEF t
    <3>2. n \in Nat \ {0} /\ b..b + n - 1 \subseteq live
      BY <1>1, <1>3
    <3>3. Inserted(hdr.range, b, n).code # "full"
      BY <1>6 DEF t
    <3>4. b..b + n - 1 = {b}
      BY <1>3
    <3> HIDE DEF k, n
    <3>5. Sound(k, block, live \ (b..b + n - 1))
      BY <1>2, <1>3, <3>1, <3>2, <3>3, Gives
    <3> QED
      BY <3>4, <3>5 DEF k
  <2>5. SpaceInv'
    BY <1>1, <2>2, <2>4, InTransaction
  <2> QED
    BY <2>2, <2>3, <2>5
<1> QED
  BY <1>5, <1>6

LEMMA FreeHeaderKeeps ==
  ASSUME SpaceInv, FreeHeader
  PROVE  SpaceInv'
<1>1. /\ Sound(hdr, block, live) /\ phase' = "open" /\ status' = "ok" /\ stored' = NoHeader
      /\ stable' = NoFile /\ unsynced' = {} /\ hdr' = hdr /\ block' = block /\ live' = live
  BY DEF SpaceInv, FreeHeader
<1>2. Sound(hdr', block', live') /\ Formed(stored', stable')
  BY <1>1, Nothing DEF Sound
<1> QED
  BY <1>1, <1>2 DEF SpaceInv, ReleaseInv

LEMMA CrashKeeps ==
  ASSUME SpaceInv, Crash
  PROVE  /\ SpaceInv' /\ Heads(stable') = Heads(stable)
         /\ \A c \in Heads(stable) : stable'[c] = stable[c]
<1>1. PICK lost \in SUBSET unsynced :
        stable' = [b \in Block |-> IF b \in lost THEN Other ELSE stable[b]]
  BY DEF Crash
<1>2. /\ phase = "free" /\ hdr' = stored /\ block' = stable' /\ unsynced' = {}
      /\ status' = "ok" /\ phase' = phase /\ stored' = stored /\ live' = live
  BY DEF Crash
<1>3. /\ Sound(stored, stable, live) /\ lost \subseteq Kept(stable) \ Heads(stable)
      /\ stable \in [Block -> Content] /\ WellFormed(stable)
  BY <1>1, <1>2 DEF SpaceInv, ReleaseInv, Sound, Formed
<1> DEFINE g == stable'
<1>4. /\ g \in [Block -> Content] /\ \A b \in Block \ lost : g[b] = stable[b]
      /\ \A b \in Block \cap lost : g[b] = Other
  BY <1>1, <1>3, Contents
<1> HIDE DEF g
<1>5. lost \subseteq Block
  BY <1>3, Places
<1>6. \A b \in lost : g[b] \notin Chunk /\ g[b] \notin Super
  BY <1>4, <1>5, Contents
<1>7. WellFormed(g)
  <2>1. \A b \in Block : g[b] \in Super => InOrder(g[b].range) /\ Len(g[b].range) = Half
    BY <1>3, <1>4, <1>6 DEF WellFormed
  <2>2. \A c \in Heads(g) : Size(g[c]) >= 2 /\ g[c].next < c
    <3>1. \A c \in Heads(g) : c \in Heads(stable) /\ g[c] = stable[c]
      BY <1>4, <1>6 DEF Heads
    <3> QED
      BY <1>3, <3>1 DEF WellFormed
  <2> QED
    BY <2>1, <2>2 DEF WellFormed
<1>8. Sound(stored, g, live)
  BY <1>3, <1>4, <1>6, <1>7, Keeps
<1>8a. Heads(g) = Heads(stable) /\ \A c \in Heads(stable) : g[c] = stable[c]
  <2>1. \A b \in lost : b \notin Heads(stable)
    BY <1>3
  <2> QED
    BY <1>4, <1>6, <2>1 DEF Heads
<1>9. Sound(hdr', block', live') /\ Sound(stored', stable', live') /\ Formed(stored', stable')
  BY <1>2, <1>8 DEF Sound, g
<1>10. block' = stable'
  BY <1>2
<1>11. SpaceInv'
  BY <1>2, <1>9, <1>10 DEF SpaceInv, ReleaseInv
<1> QED
  BY <1>8a, <1>11 DEF g

(* The chunk that is given back next.                                       *)
LEMMA ChunkAt ==
  ASSUME SpaceInv, phase = "free", NEW r, r = hdr.rollback, r # 0
  PROVE  /\ r \in Nat /\ r >= 1 /\ r \in Heads(block) /\ r \in Heads(stable)
         /\ stable[r] = block[r] /\ stable[r].next \in Block
         /\ Size(stable[r]) \in Nat /\ Size(stable[r]) >= 2
         /\ Segment(block, r) = Segment(stable, r)
         /\ Segment(stable, r) \subseteq 1..hdr.free - 1 /\ Segment(stable, r) \cap live = {}
         /\ r + Size(stable[r]) - 1 \in Kept(stable) \ Heads(stable)
<1> DEFINE n == Size(stable[r])
           s == r + n - 1
           B == Segment(stable, r)
<1>1. /\ Sound(hdr, block, live) /\ Sound(stored, stable, live)
      /\ \A c \in Heads(block) : stable[c] = block[c]
  BY DEF SpaceInv, ReleaseInv
<1>2. r \in Heads(block) /\ stable[r] = block[r]
  <2>1. r \in Heads(block)
    BY <1>1, LinkedFacts DEF Sound, Split
  <2> QED
    BY <1>1, <2>1
<1>3. r \in Heads(stable) /\ r \in Block
  BY <1>2 DEF Heads
<1>4. Size(stable[r]) \in Nat /\ Size(stable[r]) >= 2 /\ stable[r].next \in Block
  BY <1>1, <1>3, FileIs DEF Sound
<1>5. r \in Nat /\ r >= 1
  BY <1>3, SizeAssumption DEF Block
<1>6. Segment(block, r) = Segment(stable, r)
  BY <1>2 DEF Segment
<1>7. Segment(stable, r) \subseteq Kept(block)
  BY <1>2, <1>6 DEF Kept
<1>8. Kept(block) \subseteq 1..hdr.free - 1 /\ live \cap Kept(block) = {}
  BY <1>1, Places DEF Sound, Split, Parts
<1>9. Segment(stable, r) \subseteq 1..hdr.free - 1 /\ Segment(stable, r) \cap live = {}
  BY <1>7, <1>8
<1>10. s \in B /\ s # r /\ s \in Int
  <2>1. B = r..r + n - 1
    BY DEF Segment
  <2> QED
    BY <1>4, <1>5, <2>1
<1>11. s \in Kept(stable)
  BY <1>3, <1>10 DEF Kept
<1>12. ASSUME s \in Heads(stable) PROVE FALSE
  <2>1. Size(stable[s]) \in Nat /\ Size(stable[s]) >= 2
    BY <1>1, <1>12, FileIs DEF Sound
  <2>2. s \in s..s + Size(stable[s]) - 1
    BY <1>10, <2>1
  <2>3. s \in Segment(stable, s)
    BY <2>2 DEF Segment
  <2> HIDE DEF s
  <2>4. Segment(stable, s) \cap Segment(stable, r) = {}
    BY <1>1, <1>3, <1>10, <1>12 DEF Sound, Split, ChunksApart
  <2> QED
    BY <1>10, <2>3, <2>4
<1>13. s \in Kept(stable) \ Heads(stable)
  BY <1>11, <1>12
<1> QED
  BY <1>2, <1>3, <1>4, <1>5, <1>6, <1>9, <1>13

(* While the chain is given back and the file is not written.               *)
LEMMA InRelease ==
  ASSUME SpaceInv, phase = "free", UNCHANGED <<phase, file, unsynced, live>>,
         status' = "ok", Sound(hdr', block', live),
         Heads(block') \subseteq Heads(block),
         \A c \in Heads(block') : stable[c] = block'[c]
  PROVE  SpaceInv'
BY DEF SpaceInv, ReleaseInv, file

(* The chunk at the end of the file.                                        *)
LEMMA CutOffRight ==
  ASSUME NEW h, NEW f, NEW used, NEW B, Sound(h, f, used \cup B), B \cap used = {},
         NEW r \in Nat, r >= 1, B = r..h.free - 1, B # {}, NEW a \in Block, h.rollback = a,
         NEW h0 \in Header, h0.free = h.free, h0.link = h.link, h0.range = h.range,
         h0.rollback = r
  PROVE  Sound([CutOff(h0) EXCEPT !.rollback = a], f, used)
<1> DEFINE last == h.range[Len(h.range)]
           merge == h.range # <<>> /\ last.first + last.count = r
           k == [CutOff(h0) EXCEPT !.rollback = a]
<1>1. /\ h \in Header /\ h.free \in 1..NBlocks /\ h.range \in Seq(FreeRange)
      /\ InOrder(h.range) /\ (used \cup B) \cap Covered(h.range) = {}
  BY FileIs DEF Sound, Split, Parts
<1>2. r \in 1..h.free /\ r \in 1..NBlocks
  <2>1. r <= h.free - 1
    BY <1>1
  <2> QED
    BY <1>1, <2>1, SizeAssumption
<1>3. CASE ~merge
  <2>1. k = [[h0 EXCEPT !.free = r] EXCEPT !.rollback = a]
    BY <1>3 DEF CutOff
  <2>2. /\ k \in Header /\ k.free = r /\ k.link = h.link /\ k.range = h.range
        /\ k.rollback = h.rollback
    BY <1>2, <2>1 DEF Header
  <2> HIDE DEF k
  <2>3. Sound(k, f, (used \cup B) \ (r..h.free - 1))
    BY <1>2, <2>2, Shortens
  <2>4. (used \cup B) \ (r..h.free - 1) = used
    OBVIOUS
  <2> QED
    BY <2>3, <2>4 DEF k
<1>4. CASE merge
  <2> DEFINE e == last.first
             m == [h EXCEPT !.range = Front(h.range)]
             L == last.first..last.first + last.count - 1
  <2>1. k = [[h0 EXCEPT !.free = e, !.range = Front(h.range)] EXCEPT !.rollback = a]
    BY <1>4 DEF CutOff
  <2>2. Front(h.range) \in Seq(FreeRange) /\ L \subseteq Covered(h.range)
    BY <1>1, <1>4, FrontIs
  <2>3. /\ m \in Header /\ m.free = h.free /\ m.link = h.link /\ m.range = Front(h.range)
        /\ m.rollback = h.rollback
    BY <1>1, <2>2, HeaderWith
  <2>4. h.range # <<>> /\ last.first + last.count = r
    BY <1>4
  <2> HIDE DEF m, merge
  <2>5. /\ last \in FreeRange /\ e >= 1 /\ last.count >= 1
        /\ Sound(m, f, (used \cup B) \cup L)
    BY <2>3, <2>4, Drops
  <2>6. e \in Nat /\ last.count \in Nat
    BY <2>5 DEF FreeRange
  <2> HIDE DEF last, e
  <2>7. e + last.count = r /\ L = e..e + last.count - 1
    BY <2>4 DEF e
  <2>8. e \in 1..m.free /\ e \in 1..NBlocks /\ e..m.free - 1 = L \cup B
    <3> DEFINE j == last.count
               z == h.free
    <3>1. e \in Nat /\ j \in Nat /\ e >= 1 /\ j >= 1 /\ e + j = r /\ z \in 1..NBlocks
          /\ r \in 1..z /\ m.free = z /\ L = e..e + j - 1 /\ B = r..z - 1
      BY <1>1, <1>2, <2>3, <2>5, <2>6, <2>7
    <3> HIDE DEF j, z, L
    <3>2. e \in 1..z /\ e \in 1..NBlocks /\ e..z - 1 = (e..e + j - 1) \cup (r..z - 1)
      BY <3>1, SizeAssumption
    <3> QED
      BY <3>1, <3>2
  <2>9. /\ k \in Header /\ k.free = e /\ k.link = m.link /\ k.range = m.range
        /\ k.rollback = m.rollback
    BY <2>1, <2>2, <2>3, <2>8 DEF Header
  <2> HIDE DEF k, L
  <2>10. Sound(k, f, ((used \cup B) \cup L) \ (e..m.free - 1))
    BY <2>5, <2>8, <2>9, Shortens
  <2>11. ((used \cup B) \cup L) \ (e..m.free - 1) = used
    BY <1>1, <2>2, <2>8
  <2> QED
    BY <2>10, <2>11 DEF k
<1> QED
  BY <1>3, <1>4

LEMMA FreeChunkKeeps ==
  ASSUME SpaceInv, FreeChunk
  PROVE  /\ SpaceInv' /\ status' = "ok"
         /\ Heads(block') = Heads(block) \ {hdr.rollback}
         /\ \A c \in Heads(block') : block'[c] = block[c]
         /\ Heads(stable') = Heads(stable) /\ \A c \in Heads(stable) : stable'[c] = stable[c]
<1> DEFINE r == hdr.rollback
           c == stable[r]
           n == Size(c)
           B == Segment(stable, r)
           s == r + n - 1
           super == [next |-> hdr.link, range |-> Upper(hdr.range)]
           t == Inserted(hdr.range, r, n)
           u == Inserted(Lower(hdr.range), r, n - 1)
           rest == [hdr EXCEPT !.rollback = c.next]
           g == [b \in Block |-> IF b \in r..r + n - 1 THEN Other ELSE block[b]]
<1>1. /\ phase = "free" /\ r # 0 /\ c \in Chunk
      /\ UNCHANGED <<phase, stored, live>>
      /\ \/ /\ r + n = hdr.free /\ hdr' = [CutOff(hdr) EXCEPT !.rollback = c.next]
            /\ status' = "ok" /\ block' = g /\ UNCHANGED <<stable, unsynced>>
         \/ /\ r + n # hdr.free /\ t.code # "full"
            /\ hdr' = [rest EXCEPT !.range = t.range]
            /\ status' = t.code /\ block' = g /\ UNCHANGED <<stable, unsynced>>
         \/ /\ t.code = "full"
            /\ hdr' = [rest EXCEPT !.link = s, !.range = u.range]
            /\ stable' = [stable EXCEPT ![s] = super] /\ block' = [g EXCEPT ![s] = super]
            /\ unsynced' = unsynced \cup {s}
            /\ status' = IF u.code = "ok" THEN "ok" ELSE "E_INTERN_15"
  BY DEF FreeChunk, LastOf, Cleared
<1>2. /\ Sound(hdr, block, live) /\ hdr \in Header /\ block \in [Block -> Content]
      /\ Sound(stored, stable, live) /\ stable \in [Block -> Content]
      /\ unsynced \subseteq Kept(stable) \ Heads(stable) /\ WellFormed(stable)
  BY <1>1 DEF SpaceInv, ReleaseInv, Sound, Formed
<1>3. c.next \in Block
  BY <1>1, Contents
<1>4. /\ rest \in Header /\ rest.free = hdr.free /\ rest.link = hdr.link
      /\ rest.range = hdr.range /\ rest.rollback = c.next
  BY <1>2, <1>3, HeaderWith
<1>5. B = r..r + n - 1
  BY DEF Segment
<1>6. ClearedTo(block, B, g)
  BY <1>2, <1>5, Contents DEF ClearedTo
<1>7. g \in [Block -> Content]
  BY <1>6 DEF ClearedTo
<1>8. B = Segment(stable, r) /\ r = hdr.rollback /\ n = Size(stable[r]) /\ c = stable[r]
  OBVIOUS
<1> HIDE DEF r, c, n, B, rest, g
<1>8a. /\ r \in Nat /\ r >= 1 /\ stable[r] = block[r] /\ n \in Nat /\ n >= 2
       /\ B \subseteq 1..hdr.free - 1 /\ B \cap live = {} /\ B = Segment(block, r)
       /\ \A d \in Heads(block) : block[d] = stable[d]
  BY <1>1, <1>8, ChunkAt DEF SpaceInv, ReleaseInv
<1>8b. Unchained(hdr, block, live, rest, g)
  <2>1. /\ ClearedTo(block, Segment(block, hdr.rollback), g) /\ hdr.rollback # 0
        /\ rest.rollback = block[hdr.rollback].next
    BY <1>1, <1>4, <1>6, <1>8, <1>8a
  <2> QED
    BY <1>2, <1>4, <2>1, Unchains
<1>9. /\ r \in Nat /\ r >= 1 /\ n \in Nat /\ n >= 2
      /\ B \subseteq 1..hdr.free - 1 /\ B \cap live = {}
      /\ Sound(rest, g, live \cup B)
      /\ Heads(g) \subseteq Heads(block) /\ \A d \in Heads(g) : g[d] = stable[d]
      /\ r + n - 1 \in Kept(stable) \ Heads(stable)
  <2>1. r + Size(stable[r]) - 1 \in Kept(stable) \ Heads(stable)
    BY <1>1, <1>8, ChunkAt
  <2>2. Sound(rest, g, live \cup B)
    BY <1>8, <1>8a, <1>8b DEF Unchained
  <2>3. Heads(g) \subseteq Heads(block) /\ \A d \in Heads(g) : g[d] = stable[d]
    BY <1>8a, <1>8b DEF Unchained
  <2> QED
    BY <1>8, <1>8a, <2>1, <2>2, <2>3
<1>9a. Heads(g) = Heads(block) \ {hdr.rollback} /\ \A d \in Heads(g) : g[d] = block[d]
  BY <1>8b DEF Unchained
<1>10. (live \cup B) \ B = live
  BY <1>9
<1>11. r \in Nat \ {0} /\ n \in Nat \ {0}
  BY <1>9
<1>12. /\ hdr.range \in Seq(FreeRange) /\ hdr.link \in Block /\ InOrder(hdr.range)
       /\ Len(hdr.range) <= MaxRanges /\ B \cap Covered(hdr.range) = {}
  <2>1. /\ InOrder(rest.range) /\ (live \cup B) \cap Covered(rest.range) = {}
    BY <1>9 DEF Sound, Split, Parts
  <2> QED
    BY <1>2, <1>4, <2>1, FileIs DEF Sound
<1>13. \/ t.code = "full" /\ Len(hdr.range) = MaxRanges
       \/ t.code = "ok" /\ Grown(t.range, hdr.range, r, n)
  <2>1. (r..r + n - 1) \cap Covered(hdr.range) = {}
    BY <1>5, <1>12
  <2> QED
    BY <1>11, <1>12, <2>1, InsertedRight
<1> HIDE DEF t, super, u, s
<1>14. CASE /\ r + n = hdr.free /\ hdr' = [CutOff(hdr) EXCEPT !.rollback = c.next]
            /\ status' = "ok" /\ block' = g /\ UNCHANGED <<stable, unsynced>>
  <2>1. B = r..rest.free - 1 /\ B # {}
    <3>1. rest.free - 1 = r + n - 1 /\ r \in r..r + n - 1
      BY <1>4, <1>9, <1>14
    <3> QED
      BY <1>5, <3>1
  <2>2. Sound([CutOff(hdr) EXCEPT !.rollback = c.next], g, live)
    <3> DEFINE a == c.next
    <3>1. /\ a \in Block /\ rest.rollback = a /\ hdr \in Header /\ hdr.free = rest.free
          /\ hdr.link = rest.link /\ hdr.range = rest.range /\ hdr.rollback = r
      BY <1>2, <1>3, <1>4, <1>8
    <3> HIDE DEF a
    <3>2. Sound([CutOff(hdr) EXCEPT !.rollback = a], g, live)
      BY <1>9, <2>1, <3>1, CutOffRight
    <3> QED
      BY <3>2 DEF a
  <2>3. Sound(hdr', block', live)
    BY <1>14, <2>2
  <2>4. Heads(block') \subseteq Heads(block) /\ \A d \in Heads(block') : stable[d] = block'[d]
    BY <1>9, <1>14
  <2>5. UNCHANGED <<phase, file, unsynced, live>>
    BY <1>1, <1>14 DEF file
  <2>6. SpaceInv'
    BY <1>1, <1>14, <2>3, <2>4, <2>5, InRelease
  <2> QED
    BY <1>9a, <1>14, <2>6
<1>15. CASE /\ t.code # "full" /\ hdr' = [rest EXCEPT !.range = t.range]
            /\ status' = t.code /\ block' = g /\ UNCHANGED <<stable, unsynced>>
  <2>1. t.code = "ok" /\ t.range \in Seq(FreeRange)
    BY <1>13, <1>15 DEF Grown
  <2>2. /\ hdr' \in Header /\ hdr'.free = rest.free /\ hdr'.link = rest.link
        /\ hdr'.range = t.range /\ hdr'.rollback = rest.rollback
    BY <1>4, <1>15, <2>1, HeaderWith
  <2>3. Sound(hdr', g, live)
    <3> DEFINE k == hdr'
    <3>1. /\ k \in Header /\ k.free = rest.free /\ k.link = rest.link
          /\ k.range = Inserted(rest.range, r, n).range /\ k.rollback = rest.rollback
          /\ Inserted(rest.range, r, n).code # "full"
      BY <1>4, <1>15, <2>2 DEF t
    <3>2. r..r + n - 1 \subseteq live \cup B
      BY <1>5
    <3> HIDE DEF k
    <3>3. Sound(k, g, (live \cup B) \ (r..r + n - 1))
      BY <1>9, <1>11, <3>1, <3>2, Gives
    <3> QED
      BY <1>5, <1>10, <3>3 DEF k
  <2>4. Sound(hdr', block', live)
    BY <1>15, <2>3
  <2>5. Heads(block') \subseteq Heads(block) /\ \A d \in Heads(block') : stable[d] = block'[d]
    BY <1>9, <1>15
  <2>6. UNCHANGED <<phase, file, unsynced, live>> /\ status' = "ok"
    BY <1>1, <1>15, <2>1 DEF file
  <2>7. SpaceInv'
    BY <1>1, <2>4, <2>5, <2>6, InRelease
  <2> QED
    BY <1>9a, <1>15, <2>6, <2>7
<1>16. CASE /\ t.code = "full"
            /\ hdr' = [rest EXCEPT !.link = s, !.range = u.range]
            /\ stable' = [stable EXCEPT ![s] = super] /\ block' = [g EXCEPT ![s] = super]
            /\ unsynced' = unsynced \cup {s}
            /\ status' = IF u.code = "ok" THEN "ok" ELSE "E_INTERN_15"
  <2> DEFINE k == [rest EXCEPT !.link = s, !.range = Lower(hdr.range)]
             h == [g EXCEPT ![s] = super]
             m == [stable EXCEPT ![s] = super]
             d == n - 1
  <2>1. Len(hdr.range) = MaxRanges
    BY <1>13, <1>16
  <2>2. /\ Lower(hdr.range) \in Seq(FreeRange) /\ Upper(hdr.range) \in Seq(FreeRange)
        /\ InOrder(Upper(hdr.range)) /\ Len(Upper(hdr.range)) = Half
    BY <1>12, <2>1, HalvesAre
  <2>3. super \in Super /\ super \in Content /\ super \notin Chunk /\ super.next = hdr.link
        /\ super.range = Upper(hdr.range)
    <3>1. super \in Super /\ super.next = hdr.link /\ super.range = Upper(hdr.range)
      BY <1>12, <2>2 DEF Super, super
    <3> QED
      BY <3>1, Contents
  <2>4. s \in B /\ s \in Int /\ s \in Kept(stable) \ Heads(stable)
    BY <1>5, <1>9 DEF s
  <2>5. s \in Block
    BY <1>2, <2>4, Places
  <2>6. /\ h \in [Block -> Content] /\ h[s] = super /\ \A b \in Block \ {s} : h[b] = g[b]
    BY <1>7, <2>3, <2>5
  <2>7. /\ m \in [Block -> Content] /\ m[s] = super
        /\ \A b \in Block \ {s} : m[b] = stable[b]
    BY <1>2, <2>3, <2>5
  <2>8. /\ k \in Header /\ k.free = rest.free /\ k.link = s /\ k.range = Lower(hdr.range)
        /\ k.rollback = rest.rollback
    BY <1>4, <2>2, <2>5 DEF Header
  <2> HIDE DEF k, h, m
  <2>9. Sound(k, h, (live \cup B) \ {s}) /\ Len(k.range) = Half
    <3>1. /\ Len(rest.range) = MaxRanges /\ k.range = Lower(rest.range)
          /\ h[s].next = rest.link /\ h[s].range = Upper(rest.range) /\ h[s] \in Super
          /\ s \in live \cup B
      BY <1>4, <2>1, <2>3, <2>4, <2>6, <2>8
    <3> DEFINE w == live \cup B
    <3>3. Sound(rest, g, w) /\ s \in w
      BY <1>9, <3>1
    <3> HIDE DEF w
    <3>4. Sound(k, h, w \ {s})
      BY <2>6, <2>8, <3>1, <3>3, Spills
    <3>2. Sound(k, h, (live \cup B) \ {s})
      BY <3>4 DEF w
    <3> QED
      BY <1>12, <2>1, <2>8, <3>2, HalvesAre
  <2>10. d \in Nat \ {0} /\ r..r + d - 1 = B \ {s}
    <3>1. d \in Nat \ {0} /\ r..r + d - 1 = (r..r + n - 1) \ {r + n - 1}
      BY <1>9
    <3> QED
      BY <1>5, <3>1 DEF s
  <2> HIDE DEF d
  <2>11. u = Inserted(k.range, r, d)
    BY <2>8 DEF u, d
  <2>12. u.code = "ok" /\ u.range \in Seq(FreeRange)
    <3>1. /\ k.range \in Seq(FreeRange) /\ InOrder(k.range) /\ Len(k.range) <= MaxRanges
          /\ ((live \cup B) \ {s}) \cap Covered(k.range) = {}
      BY <2>9, FileIs DEF Sound, Split, Parts
    <3>2. (r..r + d - 1) \cap Covered(k.range) = {}
      BY <2>10, <3>1
    <3>3. Half # MaxRanges
      BY SizeAssumption DEF MaxRanges
    <3>4. \/ u.code = "full" /\ Len(k.range) = MaxRanges
          \/ u.code = "ok" /\ Len(u.range) <= MaxRanges /\ Grown(u.range, k.range, r, d)
      BY <1>11, <2>10, <2>11, <3>1, <3>2, InsertedRight
    <3> QED
      BY <2>9, <3>3, <3>4 DEF Grown
  <2>13. /\ hdr' \in Header /\ hdr'.free = k.free /\ hdr'.link = k.link
         /\ hdr'.range = u.range /\ hdr'.rollback = k.rollback
    BY <1>4, <1>16, <2>5, <2>8, <2>12 DEF Header
  <2>14. Sound(hdr', h, live)
    <3> DEFINE e == hdr'
    <3>1. /\ e \in Header /\ e.free = k.free /\ e.link = k.link
          /\ e.range = Inserted(k.range, r, d).range /\ e.rollback = k.rollback
          /\ Inserted(k.range, r, d).code # "full"
      BY <2>11, <2>12, <2>13
    <3>2. r..r + d - 1 \subseteq (live \cup B) \ {s}
      BY <1>9, <2>10
    <3> HIDE DEF e
    <3>3. Sound(e, h, ((live \cup B) \ {s}) \ (r..r + d - 1))
      BY <1>11, <2>9, <2>10, <3>1, <3>2, Gives
    <3>4. ((live \cup B) \ {s}) \ (r..r + d - 1) = live
      BY <1>9, <2>4, <2>10
    <3> QED
      BY <3>3, <3>4 DEF e
  <2>15. WellFormed(m)
    <3>1. \A b \in Block : m[b] \in Super => InOrder(m[b].range) /\ Len(m[b].range) = Half
      BY <1>2, <2>2, <2>3, <2>7 DEF WellFormed
    <3>2. \A b \in Heads(m) : b \in Heads(stable) /\ m[b] = stable[b]
      BY <2>3, <2>7 DEF Heads
    <3>3. \A b \in Heads(m) : Size(m[b]) >= 2 /\ m[b].next < b
      BY <1>2, <3>2 DEF WellFormed
    <3> QED
      BY <3>1, <3>3 DEF WellFormed
  <2>16. /\ Sound(stored, m, live) /\ Heads(m) = Heads(stable) /\ Kept(m) = Kept(stable)
         /\ \A b \in Heads(stable) : m[b] = stable[b]
    <3> DEFINE Z == {s}
    <3>1. /\ Z \subseteq Kept(stable) \ Heads(stable)
          /\ \A b \in Block \ Z : m[b] = stable[b]
          /\ \A b \in Z : m[b] \notin Chunk
      BY <2>3, <2>4, <2>7
    <3> HIDE DEF Z
    <3>2. Sound(stored, m, live)
      BY <1>2, <2>7, <2>15, <3>1, Keeps
    <3> QED
      BY <1>2, <2>7, <2>15, <3>1, <3>2, Keeps
  <2>17. /\ Heads(h) \subseteq Heads(g) /\ \A b \in Heads(h) : h[b] = g[b]
    BY <2>3, <2>6 DEF Heads
  <2>18. \A b \in Heads(h) : m[b] = h[b]
    <3>1. \A b \in Heads(h) : b \in Block /\ b # s
      BY <2>3, <2>6 DEF Heads
    <3> QED
      BY <1>9, <2>7, <2>17, <3>1
  <2>19. unsynced \cup {s} \subseteq Kept(m) \ Heads(m)
    BY <1>2, <2>4, <2>16
  <2>20. /\ block' = h /\ stable' = m /\ unsynced' = unsynced \cup {s} /\ status' = "ok"
         /\ phase' = "free" /\ stored' = stored /\ live' = live
    BY <1>1, <1>16, <2>12 DEF h, m
  <2>21. Sound(hdr', block', live') /\ Sound(stored', stable', live')
    BY <2>14, <2>16, <2>20
  <2>22. SpaceInv'
    BY <2>18, <2>19, <2>20, <2>21 DEF SpaceInv, ReleaseInv, Sound
  <2>23. Heads(h) = Heads(g)
    <3>1. g[s] \notin Chunk
      BY <1>6, <2>4, <2>5, Contents DEF ClearedTo
    <3> QED
      BY <2>3, <2>6, <3>1 DEF Heads
  <2> QED
    BY <1>9a, <2>16, <2>17, <2>20, <2>22, <2>23
<1> QED
  BY <1>1, <1>14, <1>15, <1>16

-----------------------------------------------------------------------------
LEMMA StepKeeps == SpaceInv /\ [Next]_vars => SpaceInv'
<1> SUFFICES ASSUME SpaceInv, [Next]_vars PROVE SpaceInv'
  OBVIOUS
<1>1. CASE Next
  BY <1>1, DropChunkKeeps, CommitKeeps, WriteChunkKeeps, ExtendKeeps, AllocateKeeps, DeallocateKeeps,
     FreeChunkKeeps, FreeHeaderKeeps, CrashKeeps DEF Next, Transact, Use, Release
<1>2. CASE UNCHANGED vars
  BY <1>2 DEF vars, file, SpaceInv, ReleaseInv
<1> QED
  BY <1>1, <1>2

LEMMA SpaceInvAlways == Spec => []SpaceInv
<1>1. Init => SpaceInv
  BY InitSpace
<1>2. SpaceInv /\ [Next]_vars => SpaceInv'
  BY StepKeeps
<1> QED
  BY <1>1, <1>2, PTL DEF Spec

-----------------------------------------------------------------------------
(* What the invariant says.                                                 *)

LEMMA FormedSays ==
  ASSUME NEW h, NEW f, Formed(h, f)
  PROVE  h \in Header /\ f \in [Block -> Content] /\ f[0] = Other
BY DEF Formed

LEMMA SpaceSays ==
  ASSUME SpaceInv
  PROVE  /\ Formed(hdr, block) /\ Formed(stored, stable)
         /\ Accounted(hdr, block, live)
         /\ phase = "free" => Accounted(stored, stable, live)
         /\ live \subseteq Block /\ unsynced \subseteq Block
<1>1. Sound(hdr, block, live) /\ Formed(stored, stable)
      /\ (phase = "free" => Sound(stored, stable, live))
  BY DEF SpaceInv, ReleaseInv
<1>2. /\ Formed(hdr, block) /\ Accounted(hdr, block, live)
      /\ phase = "free" => Accounted(stored, stable, live)
  BY <1>1, SoundIs
<1>3. live \subseteq Block
  BY <1>1, Places
<1>4. unsynced \subseteq Block
  <2>1. CASE phase # "free"
    BY <2>1 DEF SpaceInv, ReleaseInv
  <2>2. CASE phase = "free"
    <3>1. unsynced \subseteq Kept(stable) /\ Sound(stored, stable, live)
      BY <2>2 DEF SpaceInv, ReleaseInv
    <3> QED
      BY <3>1, Places
  <2> QED
    BY <2>1, <2>2 DEF SpaceInv
<1> QED
  BY <1>1, <1>2, <1>3, <1>4

(* Every variable has its type, the block 0 of the file, which holds the    *)
(* header, is never written as a block (super.c), and the end of the file   *)
(* stays below the largest link.                                            *)
THEOREM SpaceTypes == Spec => []TypeOK
<1>1. SpaceInv => TypeOK
  BY SpaceSays, FormedSays DEF TypeOK, SpaceInv
<1> QED
  BY <1>1, SpaceInvAlways, PTL

(* insert_range_in_super_table, allocate_block, deallocate_block and the    *)
(* release of the chain (super.c) keep the table of the header and those of *)
(* all super blocks in the order of the blocks, no range empty, overlapping *)
(* or next to another one, and a super block at exactly half a table.       *)
THEOREM TablesStayInOrder == Spec => []TablesInOrder
<1>1. SpaceInv => TablesInOrder
  BY DEF SpaceInv, Sound, Formed, WellFormed, Split, Parts, TablesInOrder
<1> QED
  BY <1>1, SpaceInvAlways, PTL

(* The insertion never meets an overlap, the table that is loaded has room  *)
(* for its own super block, and half a table has room for a chunk           *)
(* (super.c:67-88, 189-191, 383-387): the assertion and both internal errors *)
(* cannot happen, however the chain is released and wherever it is cut off. *)
THEOREM NoInternalErrors == Spec => []NoInternalError
<1>1. SpaceInv => NoInternalError
  BY DEF SpaceInv, NoInternalError
<1> QED
  BY <1>1, SpaceInvAlways, PTL

(* Every block before the end of the file is in use, in one range, a super  *)
(* block or in one chunk, and in one of them only, and the two lists lead   *)
(* to every super block and every chunk: allocate_block hands out no block  *)
(* twice and deallocate_block loses none.                                   *)
THEOREM NoBlockIsTwice == Spec => []NoBlockTwice
<1>1. SpaceInv => NoBlockTwice
  BY SpaceSays DEF NoBlockTwice
<1> QED
  BY <1>1, SpaceInvAlways, PTL

(* deallocate_rollback_chain (super.c) writes to the file only inside of the *)
(* chunks that it gives back, and never their heads: whatever has been      *)
(* written or lost when it is cut off, the header in the file still accounts *)
(* for every block, and the next begin can give the chain back.             *)
THEOREM ReleaseMayRestart == Spec => []ReleaseRestarts
<1>1. SpaceInv => ReleaseRestarts
  BY SpaceSays DEF ReleaseRestarts
<1> QED
  BY <1>1, SpaceInvAlways, PTL

-----------------------------------------------------------------------------
(* The refinement. The invariant makes the free blocks of a file what is    *)
(* left of it without the blocks in use and those of the chunks (FreeIs),   *)
(* so that it is enough to say what an action does to these two.            *)
(* What the tables stand for.                                               *)

LEMMA FreeIs ==
  ASSUME NEW h, NEW f, NEW used, Sound(h, f, used)
  PROVE  FreeBlocks(h, f) = (1..h.free - 1) \ (used \cup Kept(f))
<1>1. FreeBlocks(h, f) = Covered(h.range) \cup Held(f)
  BY DEF FreeBlocks, Held
<1>2. Parts(h.range, Held(f), Kept(f), used, h.free)
  BY DEF Sound, Split
<1> QED
  BY <1>1, <1>2 DEF Parts

ChunkOf(f, c) == [first |-> c, size |-> Size(f[c])]

LEMMA ChunksAre ==
  ASSUME NEW f
  PROVE  /\ Chunks(f) = {ChunkOf(f, c) : c \in Heads(f)}
         /\ Space!Kept(Chunks(f)) = Kept(f)
         /\ \A c : /\ Space!Blocks(ChunkOf(f, c)) = Segment(f, c)
                   /\ ChunkOf(f, c).first = c /\ ChunkOf(f, c).size = Size(f[c])
<1>1. Chunks(f) = {ChunkOf(f, c) : c \in Heads(f)}
  BY DEF Chunks, ChunkOf
<1>2. \A c : ChunkOf(f, c).first = c /\ ChunkOf(f, c).size = Size(f[c])
  BY DEF ChunkOf
<1>3. \A c : Space!Blocks(ChunkOf(f, c)) = Segment(f, c)
  BY <1>2 DEF Space!Blocks, Segment
<1>4. Space!Kept(Chunks(f)) = UNION {Space!Blocks(ChunkOf(f, c)) : c \in Heads(f)}
  BY <1>1 DEF Space!Kept
<1> QED
  BY <1>1, <1>2, <1>3, <1>4 DEF Kept

(* The chunks are those of the heads.                                       *)
LEMMA ChunksSame ==
  ASSUME NEW f, NEW g, Heads(g) = Heads(f), \A c \in Heads(f) : g[c] = f[c]
  PROVE  Chunks(g) = Chunks(f) /\ Kept(g) = Kept(f)
<1>1. \A c \in Heads(f) : ChunkOf(g, c) = ChunkOf(f, c)
  BY DEF ChunkOf
<1>2. Chunks(g) = Chunks(f)
  BY <1>1, ChunksAre
<1> QED
  BY <1>2, SameHeads

LEMMA ChunksFewer ==
  ASSUME NEW f, NEW g, NEW r \in Heads(f), Heads(g) = Heads(f) \ {r},
         \A c \in Heads(g) : g[c] = f[c]
  PROVE  Chunks(g) = Chunks(f) \ {ChunkOf(f, r)} /\ ChunkOf(f, r) \in Chunks(f)
<1>1. \A c \in Heads(g) : ChunkOf(g, c) = ChunkOf(f, c)
  BY DEF ChunkOf
<1>2. \A c, d : ChunkOf(f, c) = ChunkOf(f, d) => c = d
  BY ChunksAre
<1>3. /\ Chunks(f) = {ChunkOf(f, c) : c \in Heads(f)}
      /\ Chunks(g) = {ChunkOf(g, c) : c \in Heads(g)}
  BY ChunksAre
<1> QED
  BY <1>1, <1>2, <1>3

LEMMA ChunksMore ==
  ASSUME NEW f, NEW g, NEW r, Heads(g) = Heads(f) \cup {r}, \A c \in Heads(f) : g[c] = f[c]
  PROVE  Chunks(g) = Chunks(f) \cup {ChunkOf(g, r)}
<1>1. \A c \in Heads(f) : ChunkOf(g, c) = ChunkOf(f, c)
  BY DEF ChunkOf
<1>2. /\ Chunks(f) = {ChunkOf(f, c) : c \in Heads(f)}
      /\ Chunks(g) = {ChunkOf(g, c) : c \in Heads(g)}
  BY ChunksAre
<1> QED
  BY <1>1, <1>2

LEMMA EmptyTable == Covered(<<>>) = {}
<1>1. <<>> \in Seq(FreeRange) /\ Len(<<>>) = 0
  OBVIOUS
<1> QED
  BY <1>1, NoneCovered

(* A list that begins with 0 has no block.                                  *)
LEMMA ListEmpty ==
  ASSUME NEW S, NEW f, Linked(0, S, f)
  PROVE  S = {}
<1>1. \A T \in SUBSET S : (\A b \in T : f[b].next \in T \cup {0}) => T = S
  BY DEF Linked
<1>2. {} \in SUBSET S
  OBVIOUS
<1> QED
  BY <1>1, <1>2, Zenon

(* The first chunk of the chain is the last one of the file.                *)
LEMMA FirstIsNewest ==
  ASSUME NEW h, NEW f, NEW used, Sound(h, f, used)
  PROVE  /\ h.rollback = 0 => Heads(f) = {}
         /\ \A c \in Heads(f) : c <= h.rollback
<1>1. Linked(h.rollback, Heads(f), f) /\ WellFormed(f) /\ h.rollback \in Block
  BY HeaderIs DEF Sound, Split, Formed
<1>2. h.rollback = 0 => Heads(f) = {}
  BY <1>1, ListEmpty
<1> DEFINE T == {c \in Heads(f) : c <= h.rollback}
<1>3. \A c \in Heads(f) : c \in Int
  BY SizeAssumption DEF Heads, Block
<1>4. \A c \in Heads(f) : f[c].next < c /\ f[c].next \in Heads(f) \cup {0}
  BY <1>1, LinkedFacts DEF WellFormed
<1>5. h.rollback # 0 => h.rollback \in T
  <2>1. h.rollback \in Int
    BY <1>1, SizeAssumption DEF Block
  <2> QED
    BY <1>1, <2>1, LinkedFacts
<1>6. ASSUME NEW c \in T PROVE f[c].next \in T \cup {0}
  <2>1. c \in Heads(f) /\ c <= h.rollback /\ c \in Int /\ h.rollback \in Int
    BY <1>1, <1>3, SizeAssumption DEF Block
  <2>2. CASE f[c].next # 0
    <3>1. f[c].next \in Heads(f) /\ f[c].next < c
      BY <1>4, <2>1, <2>2
    <3>2. f[c].next \in Int
      BY <1>3, <3>1
    <3>3. f[c].next <= h.rollback
      BY <2>1, <3>1, <3>2
    <3> QED
      BY <3>1, <3>3
  <2> QED
    BY <2>2
<1>7. T = Heads(f)
  <2>1. T \in SUBSET Heads(f)
    OBVIOUS
  <2> HIDE DEF T
  <2> QED
    BY <1>1, <1>5, <1>6, <2>1, LinkedFacts
<1> QED
  BY <1>2, <1>7

-----------------------------------------------------------------------------
(* The steps of a transaction.                                              *)

LEMMA MapsInitial == Init => Space!Init
<1> SUFFICES ASSUME Init PROVE Space!Init
  OBVIOUS
<1>1. /\ hdr = NoHeader /\ block = NoFile /\ phase = "open" /\ status = "ok"
  BY DEF Init
<1>2. \A b \in Block : block[b] \notin Super /\ block[b] \notin Chunk
  BY <1>1, Contents DEF NoFile
<1>3. Heads(block) = {} /\ SuperBlocks(block) = {}
  BY <1>2 DEF Heads, SuperBlocks
<1>4. Chunks(block) = {}
  BY <1>3 DEF Chunks
<1>5. hdr.free = 1 /\ hdr.range = <<>>
  BY <1>1 DEF NoHeader
<1>6. Covered(hdr.range) = {}
  BY <1>5, EmptyTable
<1>7. FreeBlocks(hdr, block) = {}
  BY <1>3, <1>6 DEF FreeBlocks
<1> QED
  BY <1>1, <1>4, <1>5, <1>7 DEF Space!Init

(* In a transaction there is no older state to go back to.                  *)
LEMMA NoBefore ==
  ASSUME phase # "free"
  PROVE  (IF phase = "free" THEN Mapped(stored, stable) ELSE <<>>) = <<>>
OBVIOUS

LEMMA Before ==
  ASSUME phase = "free"
  PROVE  /\ (IF phase = "free" THEN Mapped(stored, stable) ELSE <<>>) = Mapped(stored, stable)
         /\ Mapped(stored, stable) # <<>>
<1>1. DOMAIN Mapped(stored, stable) = {"top", "free", "chunks"}
  BY DEF Mapped
<1>2. DOMAIN <<>> = {}
  OBVIOUS
<1> QED
  BY <1>1, <1>2

(* A block leaves the free ones and nothing else changes.                   *)
LEMMA TakesOne ==
  ASSUME NEW h, NEW f, NEW k, NEW g, NEW used, NEW b, Sound(h, f, used),
         Sound(k, g, used \cup {b}), b \notin used, k.free = h.free,
         Kept(g) = Kept(f)
  PROVE  b \in FreeBlocks(h, f) /\ FreeBlocks(k, g) = FreeBlocks(h, f) \ {b}
<1>1. b \in 1..k.free - 1 /\ b \notin Kept(g)
  BY DEF Sound, Split, Parts
<1>2. /\ FreeBlocks(h, f) = (1..h.free - 1) \ (used \cup Kept(f))
      /\ FreeBlocks(k, g) = (1..k.free - 1) \ ((used \cup {b}) \cup Kept(g))
  BY FreeIs
<1> QED
  BY <1>1, <1>2

LEMMA ExtendMaps ==
  ASSUME SpaceInv, SpaceInv', Extend
  PROVE  Space!Take
<1>1. /\ phase = "open" /\ phase' = "open" /\ block' = block
      /\ hdr.range = <<>> /\ hdr.link = 0
      /\ \/ /\ hdr.free = NBlocks /\ status' = "E_NOSPC" /\ UNCHANGED <<hdr, live>>
         \/ /\ hdr.free # NBlocks /\ hdr' = [hdr EXCEPT !.free = @ + 1]
            /\ live' = live \cup {hdr.free} /\ status' = "ok"
  BY DEF Extend
<1>2. Sound(hdr, block, live) /\ Sound(hdr', block', live')
  BY DEF SpaceInv
<1>3. SuperBlocks(block) = {} /\ Covered(hdr.range) = {}
  <2>1. Linked(0, SuperBlocks(block), block)
    BY <1>1, <1>2 DEF Sound, Split
  <2> QED
    BY <1>1, <2>1, ListEmpty, EmptyTable
<1>4. FreeBlocks(hdr, block) = {}
  BY <1>3 DEF FreeBlocks
<1>5. hdr.free \in 1..NBlocks /\ hdr \in Header
  BY <1>2, FileIs DEF Sound
<1>6. Chunks(block') = Chunks(block)
  BY <1>1
<1>7. CASE hdr.free = NBlocks
  <2>1. FreeBlocks(hdr', block') = FreeBlocks(hdr, block) /\ hdr'.free = hdr.free
        /\ status' = "E_NOSPC"
    BY <1>1, <1>7
  <2> QED
    BY <1>1, <1>4, <1>6, <1>7, <2>1 DEF Space!Take
<1>8. CASE hdr.free # NBlocks
  <2>1. /\ hdr' = [hdr EXCEPT !.free = @ + 1] /\ status' = "ok"
    BY <1>1, <1>8
  <2>2. hdr'.free = hdr.free + 1 /\ hdr'.range = hdr.range
    BY <1>5, <2>1 DEF Header
  <2>3. FreeBlocks(hdr', block') = {}
    BY <1>1, <1>3, <2>2 DEF FreeBlocks
  <2>4. hdr.free < NBlocks
    BY <1>5, <1>8, SizeAssumption
  <2>5. (status' = "E_NOSPC") = FALSE
    BY <2>1
  <2> QED
    BY <1>1, <1>4, <1>6, <2>2, <2>3, <2>4, <2>5 DEF Space!Take
<1> QED
  BY <1>7, <1>8

LEMMA AllocateMaps ==
  ASSUME SpaceInv, NEW advised \in Block, NEW alignment \in 0..MaxAlign,
         Allocate(advised, alignment)
  PROVE  Space!Take
<1>1. /\ SpaceInv' /\ status' = "ok" /\ hdr'.free = hdr.free
      /\ \E b \in Block \ live : live' = live \cup {b}
      /\ \/ block' = block
         \/ hdr.link # 0 /\ block' = [block EXCEPT ![hdr.link] = Other]
  BY AllocateKeeps
<1>2. phase = "open" /\ phase' = "open"
  BY DEF Allocate
<1>3. PICK b \in Block \ live : live' = live \cup {b}
  BY <1>1
<1>4. Sound(hdr, block, live) /\ Sound(hdr', block', live')
  BY <1>1 DEF SpaceInv
<1>5. Heads(block') = Heads(block) /\ \A c \in Heads(block) : block'[c] = block[c]
  <2>1. CASE block' = block
    BY <2>1
  <2>2. CASE hdr.link # 0 /\ block' = [block EXCEPT ![hdr.link] = Other]
    <3>1. hdr.link \in SuperBlocks(block)
      BY <1>4, <2>2, LinkedFacts DEF Sound, Split
    <3>2. hdr.link \notin Heads(block)
      BY <1>4, <3>1, Places
    <3>3. \A d \in Block \ {hdr.link} : block'[d] = block[d]
      BY <2>2
    <3>4. block'[hdr.link] \notin Chunk
      <4>1. hdr.link \in Block /\ block \in [Block -> Content]
        BY <1>4, HeaderIs DEF Sound, Formed
      <4>2. block'[hdr.link] = Other
        BY <2>2, <4>1
      <4> QED
        BY <4>2, Contents
    <3> QED
      BY <3>2, <3>3, <3>4 DEF Heads
  <2> QED
    BY <1>1, <2>1, <2>2
<1>6. Chunks(block') = Chunks(block) /\ Kept(block') = Kept(block)
  BY <1>5, ChunksSame
<1>7. b \in FreeBlocks(hdr, block)
      /\ FreeBlocks(hdr', block') = FreeBlocks(hdr, block) \ {b}
  <2> DEFINE k == hdr'
             g == block'
             u == live'
  <2>1. Sound(k, g, u) /\ k.free = hdr.free /\ Kept(g) = Kept(block)
        /\ u = live \cup {b}
    BY <1>1, <1>3, <1>4, <1>6
  <2> HIDE DEF k, g, u
  <2>2. b \in FreeBlocks(hdr, block) /\ FreeBlocks(k, g) = FreeBlocks(hdr, block) \ {b}
    BY <1>3, <1>4, <2>1, TakesOne
  <2> QED
    BY <2>2 DEF k, g
<1>8. (status' = "E_NOSPC") = FALSE
  BY <1>1
<1> QED
  BY <1>1, <1>2, <1>6, <1>7, <1>8 DEF Space!Take

LEMMA DeallocateMaps ==
  ASSUME SpaceInv, NEW b \in Block, Deallocate(b)
  PROVE  Space!Give /\ status' = "ok"
<1>1. /\ SpaceInv' /\ status' = "ok" /\ hdr'.free = hdr.free
      /\ (block' = block \/ \E c \in Super : block' = [block EXCEPT ![b] = c])
  BY DeallocateKeeps
<1>2. phase = "open" /\ phase' = "open" /\ b \in live /\ live' = live \ {b}
  BY DEF Deallocate
<1>3. Sound(hdr, block, live) /\ Sound(hdr', block', live')
  BY <1>1 DEF SpaceInv
<1>4. b \in 1..hdr.free - 1 /\ b \notin Kept(block)
  BY <1>2, <1>3 DEF Sound, Split, Parts
<1>5. Heads(block') = Heads(block) /\ \A c \in Heads(block) : block'[c] = block[c]
  <2>1. CASE block' = block
    BY <2>1
  <2>2. CASE \E c \in Super : block' = [block EXCEPT ![b] = c]
    <3>1. PICK c \in Super : block' = [block EXCEPT ![b] = c]
      BY <2>2
    <3>2. b \notin Heads(block)
      BY <1>3, <1>4, Places
    <3>3. \A d \in Block \ {b} : block'[d] = block[d]
      BY <3>1
    <3>4. block'[b] \notin Chunk
      <4>1. block \in [Block -> Content]
        BY <1>3 DEF Sound, Formed
      <4>2. block'[b] = c
        BY <3>1, <4>1
      <4> QED
        BY <4>2, Contents
    <3> QED
      BY <3>2, <3>3, <3>4 DEF Heads
  <2> QED
    BY <1>1, <2>1, <2>2
<1>6. Chunks(block') = Chunks(block) /\ Kept(block') = Kept(block)
  BY <1>5, ChunksSame
<1>7. /\ FreeBlocks(hdr, block) = (1..hdr.free - 1) \ (live \cup Kept(block))
      /\ FreeBlocks(hdr', block') = (1..hdr'.free - 1) \ (live' \cup Kept(block'))
  BY <1>3, FreeIs
<1>8. b \notin FreeBlocks(hdr, block)
      /\ FreeBlocks(hdr', block') = FreeBlocks(hdr, block) \cup {b}
  BY <1>1, <1>2, <1>4, <1>6, <1>7
<1>9. Space!Kept(Chunks(block)) = Kept(block)
  BY ChunksAre
<1> QED
  BY <1>1, <1>2, <1>4, <1>6, <1>8, <1>9 DEF Space!Give

LEMMA WriteChunkMaps ==
  ASSUME SpaceInv, NEW n \in 0..MaxSaved, WriteChunk(n)
  PROVE  Space!Keep /\ status' = "ok"
<1> DEFINE r == hdr.free
           g == block'
           m == Size(g[r])
           k == hdr'
<1>1. /\ SpaceInv' /\ status' = "ok" /\ r \in Block
      /\ g[r] \in Chunk /\ m >= 2 /\ \A d \in Block \ {r} : g[d] = block[d]
      /\ hdr'.free = r + m
  BY WriteChunkKeeps
<1>2. phase = "open" /\ phase' = "open" /\ live' = live
  BY DEF WriteChunk
<1>3. Sound(hdr, block, live) /\ Sound(hdr', g, live)
  BY <1>1, <1>2 DEF SpaceInv
<1>4. hdr'.free \in 1..NBlocks /\ r \in 1..NBlocks /\ m \in Nat
  BY <1>1, <1>3, Places, SizeIs
<1>5a. /\ r = hdr.free /\ m = Size(g[r]) /\ k.free = r + m /\ k.free \in 1..NBlocks
       /\ Sound(k, g, live)
  BY <1>1, <1>3, <1>4
<1>5b. \A d \in Block \ {r} : g[d] = block[d]
  BY <1>1
<1>5c. r \in Block /\ g[r] \in Chunk /\ m \in Nat /\ m >= 2 /\ r \in 1..NBlocks
  BY <1>1, <1>4
<1> HIDE DEF g, k, m, r
<1>5. r \notin Heads(block) /\ Kept(block) \subseteq 1..r - 1 /\ live \subseteq 1..r - 1
  <2>1. Kept(block) \subseteq 1..r - 1 /\ Heads(block) \subseteq Kept(block)
        /\ live \subseteq 1..r - 1
    BY <1>3, <1>5a, Places
  <2>2. r \notin 1..r - 1
    BY <1>5c
  <2> QED
    BY <2>1, <2>2
<1>6. Heads(g) = Heads(block) \cup {r} /\ \A c \in Heads(block) : g[c] = block[c]
  <2>1. \A d \in Block : d \in Heads(g) <=> g[d] \in Chunk
    BY DEF Heads
  <2>2. \A d \in Block : d \in Heads(block) <=> block[d] \in Chunk
    BY DEF Heads
  <2>3. Heads(g) \subseteq Block /\ Heads(block) \subseteq Block
    BY DEF Heads
  <2>4. \A d \in Block \ {r} : d \in Heads(g) <=> d \in Heads(block)
    BY <1>5b, <2>1, <2>2
  <2>5. r \in Heads(g)
    BY <1>5c, <2>1
  <2>6. Heads(g) = Heads(block) \cup {r}
    BY <1>5c, <2>3, <2>4, <2>5
  <2>7. \A c \in Heads(block) : g[c] = block[c]
    BY <1>5, <1>5b, <2>3
  <2> QED
    BY <2>6, <2>7
<1>7. Segment(g, r) = r..r + m - 1
  BY <1>5a DEF Segment
<1>8. Kept(g) = Kept(block) \cup r..r + m - 1
  <2>1. Kept(block) \cap Segment(g, r) = {}
    BY <1>5c, <1>5, <1>7
  <2>2. ChunksApart(block)
    BY <1>3 DEF Sound, Split
  <2>3. Kept(g) = Kept(block) \cup Segment(g, r)
    BY <1>5, <1>6, <2>1, <2>2, MoreHeads
  <2> QED
    BY <1>7, <2>3
<1>9. Chunks(g) = Chunks(block) \cup {[first |-> r, size |-> m]}
  <2>1. Chunks(g) = Chunks(block) \cup {ChunkOf(g, r)}
    BY <1>6, ChunksMore
  <2> QED
    BY <1>5a, <2>1 DEF ChunkOf
<1>10. FreeBlocks(k, g) = FreeBlocks(hdr, block)
  <2> DEFINE A == 1..r - 1
             B == r..r + m - 1
  <2>1. FreeBlocks(hdr, block) = A \ (live \cup Kept(block))
    BY <1>3, <1>5a, FreeIs
  <2>2. FreeBlocks(k, g) = (1..r + m - 1) \ (live \cup Kept(g))
    <3>1. FreeBlocks(k, g) = (1..k.free - 1) \ (live \cup Kept(g))
      BY <1>5a, FreeIs
    <3>2. k.free - 1 = r + m - 1
      BY <1>5a, <1>5c
    <3> QED
      BY <3>1, <3>2, Zenon
  <2>3. 1..r + m - 1 = A \cup B /\ A \cap B = {}
    BY <1>5c
  <2>4. Kept(g) = Kept(block) \cup B
    BY <1>8
  <2> HIDE DEF A, B
  <2> QED
    BY <2>1, <2>2, <2>3, <2>4
<1>11. k.free \in hdr.free + 1..NBlocks /\ m = k.free - hdr.free
  BY <1>5a, <1>5c
<1>12. Space!Keep
  BY <1>2, <1>5a, <1>9, <1>10, <1>11 DEF Space!Keep, g, k
<1> QED
  BY <1>1, <1>12

LEMMA DropChunkMaps ==
  ASSUME SpaceInv, DropChunk
  PROVE  Space!Drop /\ status' = "ok"
<1> DEFINE r == hdr.rollback
           k == hdr'
           g == block'
           B == Segment(block, r)
           d == ChunkOf(block, r)
<1>1. /\ SpaceInv' /\ status' = "ok" /\ r \in Heads(block) /\ k.free = r
      /\ hdr.free = r + Size(block[r]) /\ Heads(g) = Heads(block) \ {r}
      /\ \A c \in Heads(g) : g[c] = block[c]
  BY DropChunkKeeps
<1>2. phase # "free" /\ phase' # "free" /\ live' = live
  BY DEF DropChunk
<1>3. Sound(hdr, block, live) /\ Sound(k, g, live)
  BY <1>1, <1>2 DEF SpaceInv
<1>4. r \in Block /\ Size(block[r]) \in Nat /\ Size(block[r]) >= 2
  BY <1>1, <1>3, FileIs DEF Sound
<1>5. r \in Nat
  BY <1>4, SizeAssumption DEF Block
<1>6. d.first = r /\ d.size = Size(block[r])
  BY ChunksAre
<1>7. B = r..hdr.free - 1 /\ r >= 1 /\ hdr.free \in Nat
  <2>1. hdr.free - 1 = r + Size(block[r]) - 1 /\ hdr.free \in Nat
    BY <1>1, <1>4, <1>5
  <2>2. r >= 1
    BY <1>1, <1>3, Places
  <2> QED
    BY <2>1, <2>2 DEF Segment
<1> HIDE DEF r, k, g, B, d
<1>8. Chunks(g) = Chunks(block) \ {d} /\ d \in Chunks(block)
  <2>1. Chunks(g) = Chunks(block) \ {ChunkOf(block, r)} /\ ChunkOf(block, r) \in Chunks(block)
    BY <1>1, ChunksFewer
  <2> QED
    BY <2>1 DEF d
<1>9. Kept(g) \cap B = {} /\ Kept(block) = Kept(g) \cup B
  <2>1. ChunksApart(block)
    BY <1>3 DEF Sound, Split
  <2>2. Kept(g) \cap Segment(block, r) = {} /\ Kept(block) = Kept(g) \cup Segment(block, r)
    BY <1>1, <2>1, FewerHeads
  <2> QED
    BY <2>2 DEF B
<1>10. FreeBlocks(k, g) = FreeBlocks(hdr, block)
  <2>1. /\ FreeBlocks(hdr, block) = (1..hdr.free - 1) \ (live \cup Kept(block))
        /\ FreeBlocks(k, g) = (1..r - 1) \ (live \cup Kept(g))
    BY <1>1, <1>3, FreeIs
  <2>2. 1..hdr.free - 1 = (1..r - 1) \cup B /\ (1..r - 1) \cap B = {}
    <3>1. r <= hdr.free
      BY <1>1, <1>4, <1>5
    <3> QED
      BY <1>5, <1>7, <3>1
  <2> QED
    BY <1>9, <2>1, <2>2
<1>11. d.first + d.size = hdr.free /\ k.free = d.first
  BY <1>1, <1>6
<1> QED
  BY <1>1, <1>2, <1>8, <1>10, <1>11 DEF Space!Drop, k, g

LEMMA CommitMaps ==
  ASSUME SpaceInv, Commit
  PROVE  Space!Start /\ status' = "ok"
<1>1. /\ phase # "free" /\ phase' = "free" /\ stored' = hdr /\ stable' = block
      /\ status' = "ok" /\ UNCHANGED <<hdr, block>>
  BY DEF Commit
<1>2. Mapped(stored', stable') = Space!Now
  BY <1>1 DEF Mapped, Space!Now
<1>3. Mapped(stored, stable)' = Mapped(stored', stable')
  OBVIOUS
<1> QED
  BY <1>1, <1>2, <1>3 DEF Space!Start

-----------------------------------------------------------------------------
(* The steps of the release.                                                *)

(* The file to which a crash goes back stands for the same blocks.          *)
LEMMA BeforeStays ==
  ASSUME SpaceInv, SpaceInv', phase = "free", phase' = "free", stored' = stored,
         live' = live, Heads(stable') = Heads(stable),
         \A c \in Heads(stable) : stable'[c] = stable[c]
  PROVE  Mapped(stored', stable') = Mapped(stored, stable)
<1>1. Sound(stored, stable, live) /\ Sound(stored, stable', live)
  BY DEF SpaceInv, ReleaseInv
<1>2. Chunks(stable') = Chunks(stable) /\ Kept(stable') = Kept(stable)
  BY ChunksSame
<1>3. /\ FreeBlocks(stored, stable) = (1..stored.free - 1) \ (live \cup Kept(stable))
      /\ FreeBlocks(stored, stable') = (1..stored.free - 1) \ (live \cup Kept(stable'))
  BY <1>1, FreeIs
<1>4. FreeBlocks(stored, stable') = FreeBlocks(stored, stable)
  BY <1>2, <1>3
<1> QED
  BY <1>2, <1>4 DEF Mapped

LEMMA FreeHeaderMaps ==
  ASSUME SpaceInv, FreeHeader
  PROVE  Space!Done /\ status' = "ok"
<1>1. /\ phase = "free" /\ phase' = "open" /\ hdr.rollback = 0 /\ status' = "ok"
      /\ UNCHANGED <<hdr, block, live>>
  BY DEF FreeHeader
<1>2. Heads(block) = {}
  BY <1>1, FirstIsNewest DEF SpaceInv
<1>3. Chunks(block) = {}
  BY <1>2 DEF Chunks
<1> QED
  BY <1>1, <1>3, Before DEF Space!Done

LEMMA CrashMaps ==
  ASSUME SpaceInv, Crash
  PROVE  Space!Again /\ status' = "ok"
<1>1. /\ phase = "free" /\ phase' = "free" /\ hdr' = stored /\ block' = stable'
      /\ stored' = stored /\ live' = live /\ status' = "ok"
  BY DEF Crash
<1>2. Mapped(stored', stable') = Mapped(stored, stable)
  BY <1>1, CrashKeeps, BeforeStays
<1>3. hdr'.free = stored.free
  BY <1>1
<1>4. Mapped(hdr', block') = Mapped(stored, stable)
  BY <1>1, <1>2
<1>5. /\ Mapped(stored, stable).top = hdr'.free
      /\ Mapped(stored, stable).free = FreeBlocks(hdr', block')
      /\ Mapped(stored, stable).chunks = Chunks(block')
  BY <1>4 DEF Mapped
<1> QED
  BY <1>1, <1>2, <1>5, Before DEF Space!Again

LEMMA ThreeParts ==
  ASSUME NEW e \in Nat, NEW r \in Nat, NEW z \in Nat, e >= 1, e <= r, r <= z
  PROVE  /\ 1..z - 1 = ((1..e - 1) \cup (e..r - 1)) \cup (r..z - 1)
         /\ (1..e - 1) \cap (e..r - 1) = {} /\ (1..e - 1) \cap (r..z - 1) = {}
OBVIOUS

(* The cut takes away a range before the chunk, if one ends there.          *)
LEMMA CutAt ==
  ASSUME NEW h, NEW f, NEW used, Sound(h, f, used), NEW r \in Nat, r >= 1, h.rollback = r,
         NEW a \in Block
  PROVE  LET e == [CutOff(h) EXCEPT !.rollback = a].free
         IN  e \in 1..r /\ e..r - 1 \subseteq Covered(h.range)
<1> DEFINE last == h.range[Len(h.range)]
           k == [CutOff(h) EXCEPT !.rollback = a]
<1>1. h \in Header /\ h.range \in Seq(FreeRange) /\ InOrder(h.range)
  BY FileIs DEF Sound, Split, Parts
<1>2. CASE h.range # <<>> /\ last.first + last.count = r
  <2>1. k.free = last.first
    BY <1>1, <1>2 DEF CutOff, Header
  <2>2. /\ last.first \in Nat /\ last.count \in Nat /\ last.first >= 1 /\ last.count >= 1
        /\ last.first..last.first + last.count - 1 \subseteq Covered(h.range)
    <3>1. /\ last.first..last.first + last.count - 1 \subseteq Covered(h.range)
          /\ Len(h.range) \in 1..Len(h.range)
      BY <1>1, <1>2, FrontIs
    <3> QED
      BY <1>1, <3>1, Ranges
  <2>3. last.first + last.count = r
    BY <1>2
  <2> HIDE DEF last, k
  <2>4. k.free \in 1..r
    BY <2>1, <2>2, <2>3
  <2>5. k.free..r - 1 = last.first..last.first + last.count - 1
    <3>1. r - 1 = last.first + last.count - 1
      BY <2>2, <2>3
    <3> QED
      BY <2>1, <3>1, Zenon
  <2> QED
    BY <2>2, <2>4, <2>5 DEF k
<1>3. CASE ~(h.range # <<>> /\ last.first + last.count = r)
  <2>1. k.free = r
    BY <1>1, <1>3 DEF CutOff, Header
  <2> HIDE DEF k
  <2>2. k.free \in 1..r /\ k.free..r - 1 = {}
    BY <2>1
  <2> QED
    BY <2>2 DEF k
<1> QED
  BY <1>2, <1>3

LEMMA FreeChunkMaps ==
  ASSUME SpaceInv, FreeChunk
  PROVE  Space!Release /\ status' = "ok"
<1> DEFINE r == hdr.rollback
           n == Size(stable[r])
           k == hdr'
           g == block'
           B == Segment(block, r)
           d == ChunkOf(block, r)
<1>1. /\ SpaceInv' /\ status' = "ok" /\ Heads(g) = Heads(block) \ {r}
      /\ \A c \in Heads(g) : g[c] = block[c]
      /\ Heads(stable') = Heads(stable) /\ \A c \in Heads(stable) : stable'[c] = stable[c]
  BY FreeChunkKeeps
<1>2. /\ phase = "free" /\ phase' = "free" /\ stored' = stored /\ live' = live
      /\ r # 0 /\ stable[r] \in Chunk
  BY DEF FreeChunk
<1>3. \/ r + n = hdr.free /\ k = [CutOff(hdr) EXCEPT !.rollback = stable[r].next]
      \/ /\ r + n # hdr.free
         /\ \E q : k = [[hdr EXCEPT !.rollback = stable[r].next] EXCEPT !.range = q]
      \/ /\ r + n # hdr.free
         /\ \E q, s :
              k = [[hdr EXCEPT !.rollback = stable[r].next] EXCEPT !.link = s, !.range = q]
  BY DEF FreeChunk
<1>4. /\ r \in Nat /\ r >= 1 /\ r \in Heads(block) /\ stable[r] = block[r]
      /\ stable[r].next \in Block /\ n \in Nat /\ n >= 2
      /\ B = Segment(stable, r) /\ B \subseteq 1..hdr.free - 1 /\ B \cap live = {}
  BY <1>2, ChunkAt
<1>5. Sound(hdr, block, live) /\ Sound(k, g, live) /\ hdr \in Header /\ hdr.free \in 1..NBlocks
  <2>1. Sound(hdr, block, live) /\ Sound(k, g, live)
    BY <1>1, <1>2 DEF SpaceInv
  <2> QED
    BY <2>1, FileIs DEF Sound
<1>6. \/ /\ r + n = hdr.free /\ k.free \in 1..r
         /\ k.free..r - 1 \subseteq Covered(hdr.range)
      \/ r + n # hdr.free /\ k.free = hdr.free
  <2>1. CASE r + n = hdr.free /\ k = [CutOff(hdr) EXCEPT !.rollback = stable[r].next]
    BY <1>4, <1>5, <2>1, CutAt
  <2>2. CASE r + n # hdr.free
    <3>1. hdr'.free = hdr.free
      BY <1>3, <1>5, <2>2 DEF Header
    <3> QED
      BY <2>2, <3>1
  <2> QED
    BY <1>3, <2>1, <2>2
<1>7. Mapped(stored', stable') = Mapped(stored, stable)
  BY <1>1, <1>2, BeforeStays
<1>8. /\ r = hdr.rollback /\ d = ChunkOf(block, r) /\ B = r..r + n - 1
      /\ d.first = r /\ d.size = n /\ Space!Blocks(d) = B
  BY <1>4, ChunksAre DEF Segment
<1> HIDE DEF r, n, k, g, B, d
<1>9. Chunks(g) = Chunks(block) \ {d} /\ d \in Chunks(block)
  <2>1. /\ Chunks(g) = Chunks(block) \ {ChunkOf(block, r)}
        /\ ChunkOf(block, r) \in Chunks(block)
    <3>1. r \in Heads(block) /\ Heads(g) = Heads(block) \ {r}
      BY <1>1, <1>4
    <3>2. \A c \in Heads(g) : g[c] = block[c]
      BY <1>1
    <3> QED
      BY <3>1, <3>2, ChunksFewer
  <2> QED
    BY <1>8, <2>1
<1>10. \A c \in Chunks(block) : c.first <= d.first
  <2>1. \A c \in Heads(block) : c <= r
    BY <1>5, <1>8, FirstIsNewest
  <2> QED
    BY <1>8, <2>1, ChunksAre
<1>11. Kept(g) \cap B = {} /\ Kept(block) = Kept(g) \cup B
  <2>1. ChunksApart(block)
    BY <1>5 DEF Sound, Split
  <2>2. Kept(g) \cap Segment(block, r) = {} /\ Kept(block) = Kept(g) \cup Segment(block, r)
    BY <1>1, <1>4, <1>8, <2>1, FewerHeads
  <2> QED
    BY <2>2 DEF B
<1>12. FreeBlocks(hdr, block) = (1..hdr.free - 1) \ (live \cup Kept(block))
       /\ FreeBlocks(k, g) = (1..k.free - 1) \ (live \cup Kept(g))
  BY <1>5, FreeIs
<1>13. CASE /\ r + n = hdr.free /\ k.free \in 1..r
            /\ k.free..r - 1 \subseteq Covered(hdr.range)
  <2> DEFINE e == k.free
             C == e..r - 1
             A == 1..e - 1
  <2>1. C \subseteq FreeBlocks(hdr, block)
    BY <1>13 DEF FreeBlocks
  <2>2. 1..hdr.free - 1 = (A \cup C) \cup B /\ A \cap C = {} /\ A \cap B = {}
    <3>1. e \in Nat /\ e >= 1 /\ e <= r /\ r <= hdr.free /\ hdr.free \in Nat
      BY <1>4, <1>5, <1>13
    <3>2. B = r..hdr.free - 1
      <4>1. hdr.free - 1 = r + n - 1
        BY <1>4, <1>13
      <4> QED
        BY <1>8, <4>1, Zenon
    <3> HIDE DEF e
    <3> QED
      BY <1>4, <3>1, <3>2, ThreeParts
  <2>3. FreeBlocks(k, g) = A \ (live \cup Kept(g))
    BY <1>12
  <2> HIDE DEF C, A, e
  <2>4. FreeBlocks(k, g) = FreeBlocks(hdr, block) \ C
    BY <1>11, <1>12, <2>2, <2>3
  <2>5. e = k.free /\ C = e..r - 1 /\ e \in 1..r
    BY <1>13 DEF C, e
  <2> QED
    BY <1>1, <1>2, <1>7, <1>8, <1>9, <1>10, <1>13, <2>1, <2>4, <2>5, Before
    DEF Space!Release, k, g
<1>14. CASE r + n # hdr.free /\ k.free = hdr.free
  <2>1. FreeBlocks(k, g) = FreeBlocks(hdr, block) \cup B
    BY <1>4, <1>11, <1>12, <1>14
  <2> QED
    BY <1>1, <1>2, <1>7, <1>8, <1>9, <1>10, <1>14, <2>1, Before DEF Space!Release, k, g
<1> QED
  BY <1>6, <1>13, <1>14

-----------------------------------------------------------------------------
LEMMA StepMaps ==
  ASSUME SpaceInv, [Next]_vars
  PROVE  [Space!Next]_(Space!vars)
<1>1. SpaceInv'
  BY StepKeeps
<1>2. CASE Next
  <2>1. ASSUME status' = "ok" PROVE (status' = "E_NOSPC") = FALSE
    BY <2>1
  <2>2. CASE Commit
    BY <2>1, <2>2, CommitMaps DEF Space!Next
  <2>2a. CASE DropChunk
    BY <2>1, <2>2a, DropChunkMaps DEF Space!Next
  <2>3. CASE \E n \in 0..MaxSaved : WriteChunk(n)
    BY <2>1, <2>3, WriteChunkMaps DEF Space!Next
  <2>4. CASE Extend
    BY <1>1, <2>4, ExtendMaps DEF Space!Next
  <2>5. CASE \E b \in Block, a \in 0..MaxAlign : Allocate(b, a)
    BY <2>5, AllocateMaps DEF Space!Next
  <2>6. CASE \E b \in Block : Deallocate(b)
    BY <2>1, <2>6, DeallocateMaps DEF Space!Next
  <2>7. CASE FreeChunk
    BY <2>1, <2>7, FreeChunkMaps DEF Space!Next
  <2>8. CASE FreeHeader
    BY <2>1, <2>8, FreeHeaderMaps DEF Space!Next
  <2>9. CASE Crash
    BY <2>1, <2>9, CrashMaps DEF Space!Next
  <2> QED
    BY <1>2, <2>2, <2>2a, <2>3, <2>4, <2>5, <2>6, <2>7, <2>8, <2>9
    DEF Next, Transact, Use, Release
<1>3. CASE UNCHANGED vars
  BY <1>3 DEF vars, file, Space!vars, Mapped
<1> QED
  BY <1>2, <1>3

(* To the transactions, super.c is a set of free blocks: allocate_block     *)
(* takes one of them, goes to the end of the file only if there is none and *)
(* reports that the file is full only then; deallocate_block gives one back; *)
(* a commit may cut off the chunks that end the file, one by one;           *)
(* the release gives the chunks back one by one, the newest first, or cuts  *)
(* them off the file together with free blocks only, and a crash takes it   *)
(* back to its beginning.  No step of the table, of its merges or of the    *)
(* super blocks shows.                                                      *)
THEOREM TablesAreASet == Spec => ImplementsFreeSpace
<1>1. Init => Space!Init
  BY MapsInitial
<1>2. SpaceInv /\ [Next]_vars => [Space!Next]_(Space!vars)
  BY StepMaps
<1> QED
  BY <1>1, <1>2, SpaceInvAlways, PTL DEF Spec, ImplementsFreeSpace, Space!Spec
=============================================================================
