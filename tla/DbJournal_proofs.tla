--------------------------- MODULE DbJournal_proofs ---------------------------
(***************************************************************************)
(* What holds of DbTransact for every size of the file, of a chunk and of   *)
(* the cache: whatever fails or crashes, the file stands for the database   *)
(* before the transaction or for the one after it.                          *)
(***************************************************************************)
EXTENDS DbJournal, DbTransact_proofs, WellFoundedInduction

-----------------------------------------------------------------------------
(* Lists of chunks.                                                         *)

LEMMA MinIn ==
  ASSUME NEW S \in SUBSET Nat, S # {}
  PROVE  \E x \in S : \A y \in S : x <= y
<1> DEFINE R == OpToRel(<, Nat)
<1>1. IsWellFoundedOn(R, Nat)
  BY NatLessThanWellFounded
<1>2. \A x, y \in Nat : <<x, y>> \in R <=> x < y
  BY DEF OpToRel
<1> HIDE DEF R
<1>3. PICK x \in S : \A y \in S : ~ (<<y, x>> \in R)
  <2>1. S \subseteq Nat
    OBVIOUS
  <2> QED
    BY <1>1, <2>1, WFMin, Zenon
<1>4. ASSUME NEW y \in S PROVE x <= y
  <2>1. x \in Nat /\ y \in Nat
    OBVIOUS
  <2>2. ~(y < x)
    BY <1>2, <1>3, <2>1, Zenon
  <2> QED
    BY <2>1, <2>2
<1> QED
  BY <1>3, <1>4

LEMMA MaxIn ==
  ASSUME NEW n \in Nat, NEW S \in SUBSET (0..n), S # {}
  PROVE  \E x \in S : \A y \in S : y <= x
<1> DEFINE T == {n - y : y \in S}
<1>1. T \in SUBSET Nat /\ T # {}
  <2>1. ASSUME NEW y \in S PROVE n - y \in Nat
    OBVIOUS
  <2>2. T # {}
    OBVIOUS
  <2> QED
    BY <2>1, <2>2
<1>2. PICK t \in T : \A y \in T : t <= y
  BY <1>1, MinIn
<1>3. PICK x \in S : t = n - x
  OBVIOUS
<1>4. ASSUME NEW y \in S PROVE y <= x
  <2>1. n - y \in T
    OBVIOUS
  <2>2. n - x <= n - y
    BY <1>2, <1>3, <2>1
  <2> QED
    BY <2>2
<1> QED
  BY <1>4

LEMMA BlockIs ==
  ASSUME SizeAssumption
  PROVE  /\ \A b : b \in Block <=> b \in Nat /\ b < NBlocks
         /\ NBlocks \in Nat /\ NBlocks >= 1
BY SMT DEF SizeAssumption, Block

(* Two chains of the same chunk: none has a chunk that the other has not.   *)
LEMMA LinkedOnce ==
  ASSUME NEW f, NEW a \in Nat, NEW S \in SUBSET Chunks(f, a), NEW T \in SUBSET Chunks(f, a),
         Linked(f, a, S), Linked(f, a, T)
  PROVE  S \subseteq T
<1> SUFFICES ASSUME S \ T # {} PROVE FALSE
  OBVIOUS
<1>1. /\ S \ T \in SUBSET (0..a) /\ S \subseteq 1..a
      /\ \A c \in S : f[c].next < c
  BY DEF Chunks
<1>2. PICK c \in S \ T : \A y \in S \ T : y <= c
  BY <1>1, MaxIn
<1>3. c # a
  BY <1>2 DEF Linked
<1>4. PICK d \in S : f[d].next = c
  BY <1>2, <1>3 DEF Linked
<1>5. c < d /\ c # 0 /\ c \in Nat /\ d \in Nat
  <2>1. c \in 1..a /\ d \in 1..a /\ f[d].next < d
    BY <1>1, <1>4
  <2> QED
    BY <1>4, <2>1
<1>6. d \in T
  BY <1>2, <1>5
<1>7. c \in T
  BY <1>4, <1>5, <1>6 DEF Linked
<1> QED
  BY <1>2, <1>7

LEMMA ListLinked ==
  ASSUME SizeAssumption, NEW f, NEW a \in Block, NEW S, IsList(f, a, S), a # 0
  PROVE  S \subseteq Chunks(f, a) /\ Linked(f, a, S)
<1>1. /\ S \subseteq 1..NBlocks - 1 /\ a \in S /\ \A c \in S : c <= a
      /\ \A c \in S : /\ f[c] \in Chunk /\ f[c].next \in S \cup {0}
                      /\ f[c].next < c /\ c + Chunked(f[c]) <= NBlocks
      /\ \A c, e \in S : e < c => e <= f[c].next
  BY DEF IsList
<1>2. a \in Nat /\ \A c \in S : c \in 1..a /\ c \in Nat
  BY <1>1, BlockIs
<1>3. S \subseteq Chunks(f, a)
  BY <1>1, <1>2 DEF Chunks
<1>4. ASSUME NEW c \in S, c # a PROVE \E d \in S : f[d].next = c
  <2> DEFINE A == {d \in S : c < d}
  <2>1. A \in SUBSET Nat /\ a \in A
    <3>1. c < a
      BY <1>1, <1>2, <1>4
    <3> QED
      BY <1>1, <1>2, <3>1
  <2>2. PICK d \in A : \A y \in A : d <= y
    BY <2>1, MinIn
  <2>3. d \in S /\ c < d /\ c <= f[d].next /\ f[d].next < d /\ f[d].next \in S \cup {0}
    BY <1>1, <2>2
  <2>4. f[d].next \in S
    BY <1>2, <2>3
  <2>5. ~(c < f[d].next)
    <3> SUFFICES ASSUME c < f[d].next PROVE FALSE
      OBVIOUS
    <3>1. f[d].next \in A
      BY <2>4
    <3>2. d <= f[d].next
      BY <2>2, <3>1
    <3> QED
      BY <1>2, <2>3, <2>4, <3>2
  <2> QED
    BY <1>2, <2>3, <2>4, <2>5
<1> QED
  BY <1>1, <1>3, <1>4 DEF Linked

LEMMA ListIsChain ==
  ASSUME SizeAssumption, NEW f, NEW a \in Block, NEW S, IsList(f, a, S)
  PROVE  Chains(f, a) = {S} /\ Chain(f, a) = S
<1>1. CASE a = 0
  <2>1. S = {}
    BY <1>1 DEF IsList
  <2>2. Chains(f, a) = {{}}
    BY <1>1 DEF Chains
  <2> QED
    BY <2>1, <2>2 DEF Chain, Only
<1>2. CASE a # 0
  <2> DEFINE L == {T \in SUBSET Chunks(f, a) : Linked(f, a, T)}
  <2>1. S \in L
    BY <1>2, ListLinked
  <2>2. ASSUME NEW T \in L PROVE T = S
    <3>1. a \in Nat
      BY BlockIs
    <3>2. /\ S \in SUBSET Chunks(f, a) /\ T \in SUBSET Chunks(f, a)
          /\ Linked(f, a, S) /\ Linked(f, a, T)
      BY <2>1
    <3>3. S \subseteq T
      BY <3>1, <3>2, LinkedOnce
    <3>4. T \subseteq S
      BY <3>1, <3>2, LinkedOnce
    <3> QED
      BY <3>3, <3>4
  <2>3. L = {S}
    BY <2>1, <2>2
  <2>4. Chains(f, a) = L
    BY <1>2, <2>3 DEF Chains
  <2> QED
    BY <2>3, <2>4 DEF Chain, Only
<1> QED
  BY <1>1, <1>2

LEMMA ListFacts ==
  ASSUME SizeAssumption, NEW f, NEW a, NEW S, IsList(f, a, S), NEW c \in S
  PROVE  /\ c \in Nat /\ 1 <= c /\ c < NBlocks /\ c \in Block
         /\ f[c] \in Chunk /\ Chunked(f[c]) \in Nat /\ Chunked(f[c]) >= 1
         /\ f[c].next \in S \cup {0} /\ f[c].next < c /\ f[c].next \in Nat
         /\ c + Chunked(f[c]) <= NBlocks
         /\ Segment(f, c) \subseteq 1..NBlocks - 1 /\ c \in Segment(f, c)
<1>1. /\ S \subseteq 1..NBlocks - 1
      /\ f[c] \in Chunk /\ f[c].next \in S \cup {0}
      /\ f[c].next < c /\ c + Chunked(f[c]) <= NBlocks
  BY DEF IsList
<1>2. c \in Nat /\ 1 <= c /\ c < NBlocks /\ c \in Block /\ f[c].next \in Nat
  <2>1. NBlocks \in Nat
    BY BlockIs
  <2>2. c \in Nat /\ 1 <= c /\ c < NBlocks
    BY <1>1, <2>1
  <2>3. c \in Block
    BY <2>2, BlockIs
  <2>4. \A x \in S : x \in Nat
    BY <1>1, <2>1
  <2>5. f[c].next \in Nat
    <3>1. f[c].next \in S \/ f[c].next = 0
      BY <1>1, Zenon
    <3> QED
      BY <2>4, <3>1
  <2> QED
    BY <2>2, <2>3, <2>5
<1>3. Chunked(f[c]) \in Nat /\ Chunked(f[c]) >= 1
  BY <1>1, ChunkFields
<1>4. Segment(f, c) \subseteq 1..NBlocks - 1 /\ c \in Segment(f, c)
  <2> DEFINE k == Chunked(f[c])
  <2>1. Segment(f, c) = c..c + k - 1
    BY DEF Segment
  <2> HIDE DEF k
  <2>2. k \in Nat /\ k >= 1 /\ c + k <= NBlocks /\ NBlocks \in Nat
    BY <1>1, <1>3, BlockIs DEF k
  <2> QED
    BY <1>2, <2>1, <2>2
<1> QED
  BY <1>1, <1>2, <1>3, <1>4

LEMMA KeptIs ==
  ASSUME NEW f, NEW S, NEW b
  PROVE  b \in Kept(f, S) <=> \E c \in S : b \in Segment(f, c)
BY DEF Kept

(* A chunk and the ones it leads to are a list, and so are those behind it. *)
LEMMA ListBelow ==
  ASSUME SizeAssumption, NEW f, NEW a, NEW S, IsList(f, a, S), NEW c \in S
  PROVE  /\ IsList(f, c, {x \in S : x <= c})
         /\ IsList(f, f[c].next, {x \in S : x < c})
<1>1. /\ S \subseteq 1..NBlocks - 1 /\ S \subseteq Nat /\ \A x \in S : x >= 1
      /\ \A x \in S : /\ f[x] \in Chunk /\ f[x].next \in S \cup {0} /\ f[x].next < x
                      /\ f[x].next \in Nat /\ x + Chunked(f[x]) <= NBlocks
      /\ \A x, e \in S : e < x => e <= f[x].next /\ e + Chunked(f[e]) <= x
  <2>1. S \subseteq Nat /\ \A x \in S : x >= 1 /\ f[x].next \in Nat
    BY ListFacts
  <2> QED
    BY <2>1 DEF IsList
<1>2. IsList(f, c, {x \in S : x <= c})
  <2> DEFINE T == {x \in S : x <= c}
  <2>1. c \in T /\ c # 0 /\ (\A x \in T : x <= c) /\ T \subseteq S
    BY <1>1
  <2>2. ASSUME NEW x \in T PROVE f[x].next \in T \cup {0}
    BY <1>1
  <2> HIDE DEF T
  <2>3. T \subseteq 1..NBlocks - 1
    BY <1>1, <2>1
  <2>4. IsList(f, c, T)
    BY <1>1, <2>1, <2>2, <2>3 DEF IsList
  <2> QED
    BY <2>4 DEF T
<1>3. IsList(f, f[c].next, {x \in S : x < c})
  <2> DEFINE T == {x \in S : x < c}
             n == f[c].next
  <2>1. T \subseteq S /\ \A x \in T : x <= n
    BY <1>1
  <2>2. ASSUME NEW x \in T PROVE f[x].next \in T \cup {0}
    <3>1. x \in S /\ x < c /\ f[x].next \in S \cup {0} /\ f[x].next < x
      BY <1>1
    <3>2. f[x].next < c
      BY <1>1, <3>1
    <3> QED
      BY <3>1, <3>2
  <2>3. n = 0 => T = {}
    BY <1>1, <2>1
  <2>4. n # 0 => n \in T
    BY <1>1
  <2> HIDE DEF T, n
  <2>5. IsList(f, n, T)
    BY <1>1, <2>1, <2>2, <2>3, <2>4 DEF IsList
  <2> QED
    BY <2>5 DEF T, n
<1> QED
  BY <1>2, <1>3

LEMMA ListAgree ==
  ASSUME SizeAssumption, NEW f, NEW a, NEW S, IsList(f, a, S),
         NEW g, \A b \in Kept(f, S) : g[b] = f[b]
  PROVE  /\ IsList(g, a, S) /\ Kept(g, S) = Kept(f, S)
         /\ \A c \in S : g[c] = f[c] /\ Segment(g, c) = Segment(f, c)
<1>1. ASSUME NEW c \in S PROVE g[c] = f[c]
  <2>1. c \in Segment(f, c)
    BY ListFacts
  <2> QED
    BY <2>1 DEF Kept
<1>2. \A c \in S : Segment(g, c) = Segment(f, c)
  BY <1>1 DEF Segment
<1>3. Kept(g, S) = Kept(f, S)
  BY <1>2, Zenon DEF Kept
<1>4. IsList(g, a, S)
  BY <1>1 DEF IsList
<1> QED
  BY <1>1, <1>2, <1>3, <1>4

LEMMA ListAdd ==
  ASSUME SizeAssumption, NEW f, NEW a \in Nat, NEW S, IsList(f, a, S),
         NEW n \in 1..NBlocks - 1, \A c \in S : c + Chunked(f[c]) <= n,
         f[n] \in Chunk, f[n].next = a, n + Chunked(f[n]) <= NBlocks
  PROVE  IsList(f, n, S \cup {n}) /\ n \notin S
<1>1. /\ S \subseteq 1..NBlocks - 1 /\ S \subseteq Nat
      /\ a = 0 => S = {}
      /\ a # 0 => a \in S /\ \A c \in S : c <= a
      /\ \A x \in S : /\ f[x] \in Chunk /\ f[x].next \in S \cup {0} /\ f[x].next < x
                      /\ x + Chunked(f[x]) <= NBlocks
      /\ \A x, e \in S : e < x => e <= f[x].next /\ e + Chunked(f[e]) <= x
  <2>1. S \subseteq Nat
    BY ListFacts
  <2> QED
    BY <2>1 DEF IsList
<1>2. n \in Nat /\ n # 0 /\ NBlocks \in Nat
  BY BlockIs
<1>3. \A c \in S : c < n
  <2> SUFFICES ASSUME NEW c \in S PROVE c < n
    OBVIOUS
  <2>1. c \in Nat /\ Chunked(f[c]) \in Nat /\ Chunked(f[c]) >= 1
    BY ListFacts
  <2> QED
    BY <1>2, <2>1
<1> DEFINE T == S \cup {n}
<1>4. n \in T /\ \A c \in T : c <= n
  BY <1>1, <1>2, <1>3
<1>5. ASSUME NEW c \in T
      PROVE  /\ f[c] \in Chunk /\ f[c].next \in T \cup {0}
             /\ f[c].next < c /\ c + Chunked(f[c]) <= NBlocks
  <2>1. CASE c \in S
    BY <1>1, <2>1
  <2>2. CASE c = n
    <3>1. a < n
      BY <1>1, <1>2, <1>3
    <3> QED
      BY <1>1, <2>2, <3>1
  <2> QED
    BY <2>1, <2>2
<1>6. ASSUME NEW c \in T, NEW e \in T, e < c PROVE e <= f[c].next /\ e + Chunked(f[e]) <= c
  <2>1. e \in S
    BY <1>1, <1>2, <1>3, <1>6
  <2>2. CASE c \in S
    BY <1>1, <1>6, <2>1, <2>2
  <2>3. CASE c = n
    BY <1>1, <2>1, <2>3
  <2> QED
    BY <2>2, <2>3
<1>7. T \subseteq 1..NBlocks - 1
  BY <1>1
<1> HIDE DEF T
<1>8. IsList(f, n, T)
  BY <1>2, <1>4, <1>5, <1>6, <1>7 DEF IsList
<1>9. n \notin S
  BY <1>2, <1>3
<1> QED
  BY <1>8, <1>9 DEF T

(* The first chunk of the transaction holds the header of before it.        *)
LEMMA OldestIs ==
  ASSUME SizeAssumption, NEW f, NEW a, NEW S, IsList(f, a, S), S # {}
  PROVE  \E c \in S : /\ f[c].next = 0
                      /\ \A e \in S : c <= e /\ (f[e].next = 0 => e = c)
                      /\ SavedHeader(f, S) = f[c + Len(f[c].target) + 1]
                      /\ c + Len(f[c].target) + 1 \in Segment(f, c)
<1>1. S \in SUBSET Nat
  BY ListFacts
<1>2. PICK c \in S : \A e \in S : c <= e
  BY <1>1, MinIn
<1>3. f[c].next = 0
  <2>1. f[c].next < c /\ f[c].next \in S \cup {0} /\ f[c].next \in Nat /\ c \in Nat
    BY ListFacts
  <2>2. ~(c <= f[c].next)
    BY <2>1
  <2> QED
    BY <1>2, <2>1, <2>2
<1>4. ASSUME NEW e \in S, f[e].next = 0 PROVE e = c
  <2>1. c < e => c <= f[e].next
    BY DEF IsList
  <2>2. c \in Nat /\ e \in Nat /\ 1 <= c
    BY ListFacts
  <2> QED
    BY <1>2, <1>4, <2>1, <2>2
<1>5. SavedHeader(f, S) = f[c + Len(f[c].target) + 1]
  <2>1. (CHOOSE x \in S : f[x].next = 0) = c
    BY <1>3, <1>4
  <2> QED
    BY <2>1, Zenon DEF SavedHeader
<1>6. c + Len(f[c].target) + 1 \in Segment(f, c)
  <2>1. f[c] \in Chunk /\ c \in Nat
    BY ListFacts
  <2>2. Len(f[c].target) \in Nat
    BY <2>1, ChunkFields
  <2>3. Chunked(f[c]) = Len(f[c].target) + 1 + 1
    BY <1>3 DEF Chunked
  <2> QED
    BY <2>1, <2>2, <2>3 DEF Segment
<1> QED
  BY <1>2, <1>3, <1>4, <1>5, <1>6

LEMMA SavedSame ==
  ASSUME SizeAssumption, NEW f, NEW a, NEW S, IsList(f, a, S),
         NEW g, NEW b, NEW T, IsList(g, b, T), S \subseteq T, S # {},
         \A c \in S : g[c] = f[c], \A x \in Kept(f, S) : g[x] = f[x]
  PROVE  SavedHeader(g, T) = SavedHeader(f, S)
<1>1. PICK c \in S : /\ f[c].next = 0
                     /\ SavedHeader(f, S) = f[c + Len(f[c].target) + 1]
                     /\ c + Len(f[c].target) + 1 \in Segment(f, c)
  BY OldestIs, Zenon
<1>2. PICK e \in T : /\ \A d \in T : g[d].next = 0 => d = e
                     /\ SavedHeader(g, T) = g[e + Len(g[e].target) + 1]
  <2>1. T # {}
    OBVIOUS
  <2> QED
    BY <2>1, OldestIs
<1>3. e = c /\ g[c] = f[c]
  BY <1>1, <1>2
<1>4. c + Len(f[c].target) + 1 \in Kept(f, S)
  BY <1>1, KeptIs
<1> QED
  BY <1>1, <1>2, <1>3, <1>4

(* Where the copy of a block is.                                            *)
LEMMA CopyIs ==
  ASSUME SizeAssumption, NEW f, NEW a, NEW S, IsList(f, a, S),
         NEW c \in S, NEW b \in Targets(f[c])
  PROVE  /\ IndexOf(f[c], b) \in DOMAIN f[c].target
         /\ f[c].target[IndexOf(f[c], b)] = b
         /\ IndexOf(f[c], b) \in 1..Len(f[c].target)
         /\ c + IndexOf(f[c], b) \in Segment(f, c)
         /\ c + IndexOf(f[c], b) \in Kept(f, S)
<1>1. \E i \in DOMAIN f[c].target : f[c].target[i] = b
  BY DEF Targets
<1>2. /\ IndexOf(f[c], b) \in DOMAIN f[c].target
      /\ f[c].target[IndexOf(f[c], b)] = b
  BY <1>1 DEF IndexOf
<1>3. f[c] \in Chunk /\ c \in Nat
  BY ListFacts
<1>4. f[c].target \in Seq(Block \ {0}) /\ Len(f[c].target) \in Nat
  BY <1>3, ChunkFields
<1>5. DOMAIN f[c].target = 1..Len(f[c].target)
  BY <1>4
<1> DEFINE i == IndexOf(f[c], b)
           n == Len(f[c].target)
           k == Chunked(f[c])
<1>6. i \in 1..n
  BY <1>2, <1>5
<1>7. k >= n + 1 /\ k \in Nat
  <2>1. CASE f[c].next = 0
    BY <1>4, <2>1 DEF Chunked
  <2>2. CASE f[c].next # 0
    BY <1>4, <2>2 DEF Chunked
  <2> QED
    BY <2>1, <2>2
<1>8. Segment(f, c) = c..c + k - 1
  BY DEF Segment
<1> HIDE DEF i, n, k
<1>9. c + i \in Segment(f, c)
  BY <1>3, <1>4, <1>6, <1>7, <1>8 DEF n
<1>10. c + i \in Kept(f, S)
  BY <1>9, KeptIs
<1> QED
  BY <1>2, <1>6, <1>9, <1>10 DEF i, n

LEMMA RestoredIs ==
  ASSUME NEW f, NEW S \in SUBSET Nat, NEW b
  PROVE  /\ b \notin AllTargets(f, S) => Restored(f, S, b) = f[b]
         /\ b \in AllTargets(f, S) =>
              \E c \in S : /\ b \in Targets(f[c])
                           /\ \A e \in S : b \in Targets(f[e]) => c <= e
                           /\ Restored(f, S, b) = CopyOf(f, c, b)
<1>1. CASE b \notin AllTargets(f, S)
  <2>1. Savers(f, S, b) = {}
    BY <1>1 DEF Savers, AllTargets
  <2> QED
    BY <1>1, <2>1 DEF Restored
<1>2. CASE b \in AllTargets(f, S)
  <2> DEFINE A == Savers(f, S, b)
  <2>1. A \in SUBSET Nat /\ A # {} /\ A \subseteq S
    BY <1>2 DEF Savers, AllTargets
  <2>2. PICK c \in A : \A e \in A : c <= e
    BY <2>1, MinIn
  <2>3. ASSUME NEW d \in S, Least(d, A) PROVE d = c
    <3>1. d <= c /\ c <= d /\ c \in Nat /\ d \in Nat
      BY <2>1, <2>2, <2>3 DEF Least
    <3> QED
      BY <3>1
  <2>4. (CHOOSE d \in S : Least(d, A)) = c
    <3>1. Least(c, A) /\ c \in S
      BY <2>1, <2>2 DEF Least
    <3> QED
      BY <2>3, <3>1
  <2>5. Restored(f, S, b) = CopyOf(f, c, b)
    BY <2>1, <2>4, Zenon DEF Restored
  <2>6. c \in S /\ b \in Targets(f[c]) /\ \A e \in S : b \in Targets(f[e]) => c <= e
    BY <2>2 DEF Savers
  <2> QED
    BY <1>2, <2>5, <2>6
<1> QED
  BY <1>1, <1>2

(* A copy is that of the oldest chunk if no older one has one.              *)
LEMMA RestoredFrom ==
  ASSUME NEW f, NEW S \in SUBSET Nat, NEW c \in S, NEW b \in Targets(f[c]),
         \A e \in S : b \in Targets(f[e]) => c <= e
  PROVE  Restored(f, S, b) = CopyOf(f, c, b)
<1>1. b \in AllTargets(f, S)
  BY DEF AllTargets
<1>2. PICK d \in S : /\ b \in Targets(f[d])
                     /\ \A e \in S : b \in Targets(f[e]) => d <= e
                     /\ Restored(f, S, b) = CopyOf(f, d, b)
  BY <1>1, RestoredIs
<1>3. c <= d /\ d <= c /\ c \in Nat /\ d \in Nat
  BY <1>2
<1>4. c = d
  BY <1>3
<1> QED
  BY <1>2, <1>4

-----------------------------------------------------------------------------
(* A file and a header.                                                     *)

LEMMA LiveIs ==
  ASSUME SizeAssumption, NEW h \in Header
  PROVE  /\ Live(h) = (1..h.free - 1) \ h.super
         /\ \A b \in Live(h) : b \in Nat /\ 1 <= b /\ b < h.free /\ b \in Block
<1>1. h.free \in 1..NBlocks /\ NBlocks \in Nat
  BY HeaderFields, BlockIs
<1>2. \A b \in Live(h) : b \in Nat /\ 1 <= b /\ b < h.free
  BY <1>1 DEF Live
<1>3. ASSUME NEW b \in Live(h) PROVE b \in Block
  <2>1. b \in Nat /\ b < NBlocks
    BY <1>1, <1>2
  <2> QED
    BY <2>1, BlockIs
<1> QED
  BY <1>2, <1>3 DEF Live

LEMMA FitsKept ==
  ASSUME SizeAssumption, NEW f, NEW a, NEW S, IsList(f, a, S),
         NEW low \in Nat, NEW high \in Nat, Fits(f, S, low, high), NEW b \in Kept(f, S)
  PROVE  b \in Nat /\ low <= b /\ b < high /\ b \in Block /\ 1 <= b
<1>1. PICK c \in S : b \in Segment(f, c)
  BY KeptIs
<1> DEFINE k == Chunked(f[c])
<1>2. c \in Nat /\ 1 <= c /\ k \in Nat /\ c + k <= NBlocks /\ low <= c /\ c + k <= high
  BY ListFacts DEF Fits
<1>3. b \in c..c + k - 1
  BY <1>1 DEF Segment
<1> HIDE DEF k
<1>4. NBlocks \in Nat
  BY BlockIs
<1>5. b \in Nat /\ low <= b /\ b < high /\ b < NBlocks /\ 1 <= b
  BY <1>2, <1>3, <1>4
<1> QED
  BY <1>5, BlockIs

LEMMA IntactFacts ==
  ASSUME SizeAssumption, NEW f, NEW h, Intact(f, h)
  PROVE  /\ h \in Header /\ h.rollback \in Block /\ h.free \in 1..NBlocks
         /\ IsList(f, h.rollback, ChainOf(f, h))
         /\ HeaderOK(OldHeader(f, h)) /\ ~OldHeader(f, h).inTx
         /\ Kept(f, ChainOf(f, h)) \subseteq Needed(f, h)
         /\ \A b \in Needed(f, h) : b \in Nat /\ 1 <= b /\ b < h.free /\ b \in Block
         /\ h.inTx => OldHeader(f, h).free <= h.free /\ ChainOf(f, h) # {}
<1> DEFINE S == ChainOf(f, h)
           g == OldHeader(f, h)
<1>1. CASE h.inTx
  <2>1. IntactJournal(f, h, S, g)
    BY <1>1 DEF Intact
  <2> HIDE DEF S, g
  <2>2. h \in Header /\ h.rollback \in Block /\ h.free \in 1..NBlocks
    BY <2>1, HeaderFields DEF IntactJournal
  <2>3. /\ IsList(f, h.rollback, S) /\ HeaderOK(g) /\ ~g.inTx
        /\ Fits(f, S, g.free, h.free) /\ g \in Header /\ h.rollback # 0
    BY <2>1 DEF IntactJournal, HeaderOK
  <2>4. g.free \in 1..NBlocks /\ NBlocks \in Nat
    BY <2>3, HeaderFields, BlockIs
  <2>5. h.rollback \in S
    BY <2>3 DEF IsList
  <2>6. g.free <= h.free
    <3> DEFINE r == h.rollback
               k == Chunked(f[r])
    <3>1. g.free <= r /\ r + k <= h.free
      BY <2>3, <2>5 DEF Fits
    <3>2. r \in Nat /\ k \in Nat
      BY <2>3, <2>5, ListFacts
    <3> HIDE DEF r, k
    <3> QED
      BY <2>2, <2>4, <3>1, <3>2
  <2>7. ASSUME NEW b \in Kept(f, S) PROVE b \in Nat /\ 1 <= b /\ b < h.free /\ b \in Block
    <3>1. g.free \in Nat /\ h.free \in Nat
      BY <2>2, <2>4
    <3> QED
      BY <2>3, <3>1, FitsKept
  <2>8. ASSUME NEW b \in Live(g) PROVE b \in Nat /\ 1 <= b /\ b < h.free /\ b \in Block
    <3>1. b \in Nat /\ 1 <= b /\ b < g.free /\ b \in Block
      BY <2>3, LiveIs
    <3> QED
      BY <2>2, <2>4, <2>6, <3>1
  <2>9. Needed(f, h) = Kept(f, S) \cup {b \in Live(g) : ~Guards(f, h, b)}
    BY <1>1 DEF Needed, S, g
  <2> QED
    BY <2>2, <2>3, <2>5, <2>6, <2>7, <2>8, <2>9 DEF S, g
<1>2. CASE ~h.inTx
  <2>1. IntactRest(f, h, S) /\ g = h
    BY <1>2 DEF Intact, OldHeader
  <2>2. Needed(f, h) = Live(h)
    BY <1>2 DEF Needed
  <2> HIDE DEF S, g
  <2>3. /\ HeaderOK(h) /\ h \in Header /\ IsList(f, h.rollback, S)
        /\ Fits(f, S, 1, h.free) /\ Kept(f, S) \cap h.super = {}
    BY <2>1 DEF IntactRest, HeaderOK
  <2>4. h.rollback \in Block /\ h.free \in 1..NBlocks /\ h.free \in Nat
    BY <2>3, HeaderFields
  <2>5. ASSUME NEW b \in Kept(f, S) PROVE b \in Live(h)
    <3>1. b \in Nat /\ 1 <= b /\ b < h.free
      BY <2>3, <2>4, FitsKept
    <3> QED
      BY <2>3, <2>4, <3>1 DEF Live
  <2> QED
    BY <1>2, <2>1, <2>2, <2>3, <2>4, <2>5, LiveIs DEF S, g
<1> QED
  BY <1>1, <1>2

LEMMA ChainFrame ==
  ASSUME SizeAssumption, NEW f, NEW a \in Block, NEW S, IsList(f, a, S),
         NEW g, \A b \in Kept(f, S) : g[b] = f[b]
  PROVE  /\ Chain(f, a) = S /\ Chain(g, a) = S /\ IsList(g, a, S)
         /\ Kept(g, S) = Kept(f, S) /\ AllTargets(g, S) = AllTargets(f, S)
         /\ \A c \in S : g[c] = f[c] /\ Segment(g, c) = Segment(f, c)
         /\ \A c \in S : \A b \in Targets(f[c]) : CopyOf(g, c, b) = CopyOf(f, c, b)
         /\ S # {} => SavedHeader(g, S) = SavedHeader(f, S)
         /\ \A low, high : Fits(f, S, low, high) => Fits(g, S, low, high)
         /\ \A high : SavesBelow(f, S, high) => SavesBelow(g, S, high)
<1>1. /\ IsList(g, a, S) /\ Kept(g, S) = Kept(f, S)
      /\ \A c \in S : g[c] = f[c] /\ Segment(g, c) = Segment(f, c)
  BY ListAgree
<1>2. Chain(f, a) = S /\ Chain(g, a) = S
  BY <1>1, ListIsChain
<1>3. AllTargets(g, S) = AllTargets(f, S)
  BY <1>1 DEF AllTargets
<1>4. ASSUME NEW c \in S, NEW b \in Targets(f[c]) PROVE CopyOf(g, c, b) = CopyOf(f, c, b)
  <2>1. c + IndexOf(f[c], b) \in Kept(f, S)
    BY CopyIs
  <2> QED
    BY <1>1, <2>1 DEF CopyOf
<1>5. S # {} => SavedHeader(g, S) = SavedHeader(f, S)
  BY <1>1, SavedSame
<1>6. \A low, high : Fits(f, S, low, high) => Fits(g, S, low, high)
  BY <1>1 DEF Fits
<1>7. \A high : SavesBelow(f, S, high) => SavesBelow(g, S, high)
  BY <1>1 DEF SavesBelow
<1> QED
  BY <1>1, <1>2, <1>3, <1>4, <1>5, <1>6, <1>7

LEMMA CopiesSame ==
  ASSUME SizeAssumption, NEW f, NEW a \in Block, NEW S, IsList(f, a, S),
         NEW g, \A b \in Kept(f, S) : g[b] = f[b]
  PROVE  /\ \A c \in S : g[c] = f[c]
         /\ \A c \in S : \A b \in Targets(f[c]) : CopyOf(g, c, b) = CopyOf(f, c, b)
BY ChainFrame

(* What a file stands for under a header depends on the needed blocks only. *)
LEMMA Frame ==
  ASSUME SizeAssumption, NEW f, NEW h, Intact(f, h),
         NEW g, \A b \in Needed(f, h) : g[b] = f[b]
  PROVE  /\ Intact(g, h) /\ Image(g, h) = Image(f, h) /\ Needed(g, h) = Needed(f, h)
         /\ ChainOf(g, h) = ChainOf(f, h) /\ OldHeader(g, h) = OldHeader(f, h)
         /\ \A b : Guards(g, h, b) <=> Guards(f, h, b)
<1> DEFINE S == ChainOf(f, h)
           o == OldHeader(f, h)
<1>1. /\ h \in Header /\ h.rollback \in Block /\ IsList(f, h.rollback, S)
      /\ Kept(f, S) \subseteq Needed(f, h) /\ o \in Header
      /\ h.inTx => S # {}
  BY IntactFacts DEF HeaderOK
<1>2. \A b \in Kept(f, S) : g[b] = f[b]
  BY <1>1
<1>3. ChainOf(g, h) = S
  BY <1>1, <1>2, ChainFrame DEF ChainOf
<1>4. /\ IsList(g, h.rollback, S)
      /\ Kept(g, S) = Kept(f, S) /\ AllTargets(g, S) = AllTargets(f, S)
      /\ \A c \in S : g[c] = f[c] /\ Segment(g, c) = Segment(f, c)
      /\ \A c \in S : \A b \in Targets(f[c]) : CopyOf(g, c, b) = CopyOf(f, c, b)
      /\ S # {} => SavedHeader(g, S) = SavedHeader(f, S)
      /\ \A low, high : Fits(f, S, low, high) => Fits(g, S, low, high)
      /\ \A high : SavesBelow(f, S, high) => SavesBelow(g, S, high)
  <2> HIDE DEF S
  <2> QED
    BY <1>1, <1>2, ChainFrame
<1>5. OldHeader(g, h) = o
  BY <1>1, <1>3, <1>4 DEF OldHeader
<1>6. \A b : Guards(g, h, b) <=> Guards(f, h, b)
  BY <1>3, <1>4 DEF Guards
<1>7. Needed(g, h) = Needed(f, h)
  BY <1>3, <1>4, <1>5, <1>6 DEF Needed
<1>8. Intact(g, h)
  <2>1. ASSUME h.inTx PROVE IntactJournal(g, h, S, o)
    <3>1. IntactJournal(f, h, S, o)
      BY <2>1 DEF Intact
    <3> HIDE DEF S, o
    <3> QED
      BY <1>4, <3>1 DEF IntactJournal
  <2>2. ASSUME ~h.inTx PROVE IntactRest(g, h, S)
    <3>1. IntactRest(f, h, S)
      BY <2>2 DEF Intact
    <3> HIDE DEF S
    <3> QED
      BY <1>4, <3>1 DEF IntactRest
  <2> QED
    BY <1>3, <1>5, <2>1, <2>2 DEF Intact
<1>9. ASSUME h.inTx, NEW b \in Live(o) PROVE Restored(g, S, b) = Restored(f, S, b)
  <2>1. S \in SUBSET Nat
    BY <1>1, ListFacts
  <2>2. CASE b \in AllTargets(f, S)
    <3>1. PICK c \in S : /\ b \in Targets(f[c])
                         /\ \A e \in S : b \in Targets(f[e]) => c <= e
                         /\ Restored(f, S, b) = CopyOf(f, c, b)
      BY <2>1, <2>2, RestoredIs
    <3>2. b \in Targets(g[c]) /\ \A e \in S : b \in Targets(g[e]) => c <= e
      BY <1>4, <3>1
    <3>3. Restored(g, S, b) = CopyOf(g, c, b)
      BY <2>1, <3>2, RestoredFrom
    <3> QED
      BY <1>4, <3>1, <3>3
  <2>3. CASE b \notin AllTargets(f, S)
    <3>1. Restored(f, S, b) = f[b] /\ Restored(g, S, b) = g[b]
      BY <1>4, <2>1, <2>3, RestoredIs
    <3>2. b \in Needed(f, h)
      BY <1>9, <2>3 DEF Needed, Guards
    <3> QED
      BY <3>1, <3>2
  <2> QED
    BY <2>2, <2>3
<1>10. Image(g, h) = Image(f, h)
  <2>1. CASE h.inTx
    <3>1. \A b \in Live(o) : Restored(g, S, b) = Restored(f, S, b)
      BY <1>9, <2>1
    <3> QED
      BY <1>3, <1>5, <2>1, <3>1 DEF Image
  <2>2. CASE ~h.inTx
    <3>1. \A b \in Live(h) : g[b] = f[b]
      BY <2>2 DEF Needed
    <3> QED
      BY <1>3, <1>4, <2>2, <3>1 DEF Image, Contents
  <2> QED
    BY <2>1, <2>2
<1> QED
  BY <1>3, <1>5, <1>6, <1>7, <1>8, <1>10

LEMMA OnlyOne ==
  ASSUME NEW x
  PROVE  Only({x}) = x
BY DEF Only

(* The database of DbTransactProps is the image.                            *)
LEMMA DatabaseIs ==
  ASSUME SizeAssumption, NEW f, Intact(f, f[0])
  PROVE  /\ Database(f) = Image(f, f[0])
         /\ Recovered(f)[0] = OldHeader(f, f[0])
         /\ \A b \in Live(OldHeader(f, f[0])) :
              f[0].inTx => Recovered(f)[b] = Image(f, f[0])[b]
<1> DEFINE h == f[0]
           S == ChainOf(f, h)
           o == OldHeader(f, h)
<1>1. /\ h \in Header /\ h.rollback \in Block /\ IsList(f, h.rollback, S)
      /\ o \in Header /\ (h.inTx => S # {})
  BY IntactFacts DEF HeaderOK
<1>2. Chains(f, h.rollback) = {S}
  <2> HIDE DEF S
  <2> QED
    BY <1>1, ListIsChain
<1>3. CASE h.inTx
  <2> DEFINE r == Undone(f, S)
  <2>1. Recoveries(f) = {r}
    BY <1>2, <1>3, Zenon DEF Recoveries
  <2>2. 0 \in Block
    BY NoneTyped
  <2>3. r[0] = o
    BY <1>1, <1>3, <2>2 DEF Undone, OldHeader
  <2>4. ASSUME NEW b \in Live(o) PROVE r[b] = Restored(f, S, b) /\ b \in Block
    <3>1. b \in Block /\ b # 0
      BY <1>1, LiveIs
    <3> QED
      BY <1>1, <1>3, <3>1 DEF Undone
  <2>5. o.rollback = 0
    BY <1>3 DEF Intact, IntactJournal
  <2>6. Chains(r, o.rollback) = {{}}
    BY <2>5 DEF Chains
  <2>7. Kept(r, {}) = {}
    BY DEF Kept
  <2> HIDE DEF r
  <2>8. Data(r) = Contents(r, o, {})
    <3>1. {Contents(r, o, T) : T \in {{}}} = {Contents(r, o, {})}
      OBVIOUS
    <3> HIDE DEF o
    <3>2. Data(r) = Only({Contents(r, o, T) : T \in Chains(r, o.rollback)})
      BY <1>1, <2>3 DEF Data
    <3> QED
      BY <2>6, <3>1, <3>2, OnlyOne
  <2>9. Contents(r, o, {}) = Image(f, h)
    BY <1>3, <2>4, <2>7 DEF Contents, Image
  <2>10. Database(f) = Data(r)
    <3>1. {Data(x) : x \in {r}} = {Data(r)}
      OBVIOUS
    <3> QED
      BY <2>1, <3>1, OnlyOne DEF Database
  <2>11. Recovered(f) = r
    BY <2>1, OnlyOne DEF Recovered
  <2>12. ASSUME NEW b \in Live(o) PROVE r[b] = Image(f, h)[b]
    BY <1>3, <2>4 DEF Image
  <2> QED
    BY <2>3, <2>8, <2>9, <2>10, <2>11, <2>12
<1>4. CASE ~h.inTx
  <2>1. Recoveries(f) = {f}
    BY <1>4 DEF Recoveries
  <2>2. Recovered(f) = f
    BY <2>1, OnlyOne DEF Recovered
  <2>3. {Contents(f, h, T) : T \in {S}} = {Contents(f, h, S)}
    OBVIOUS
  <2>4. Data(f) = Contents(f, h, S)
    <3> HIDE DEF S
    <3>1. Data(f) = Only({Contents(f, h, T) : T \in Chains(f, h.rollback)})
      BY <1>1 DEF Data
    <3> QED
      BY <1>2, <2>3, <3>1, OnlyOne
  <2>5. Database(f) = Data(f)
    <3>1. {Data(x) : x \in {f}} = {Data(f)}
      OBVIOUS
    <3> QED
      BY <2>1, <3>1, OnlyOne DEF Database
  <2>6. o = h
    BY <1>4 DEF OldHeader
  <2> QED
    BY <1>4, <2>2, <2>4, <2>5, <2>6 DEF Image
<1> QED
  BY <1>3, <1>4

-----------------------------------------------------------------------------
(* What a write, a flush and a power failure do to what the disk stands for.*)

LEMMA StandsSame ==
  ASSUME SizeAssumption, NEW f, NEW s, NEW d, NEW h, NEW db, StandsFor(f, s, d, h, db),
         NEW f2, NEW s2, NEW d2, \A b \in Needed(f, h) : f2[b] = f[b],
         d2 => \A b \in Needed(f, h) : s2[b] = f[b]
  PROVE  /\ StandsFor(f2, s2, d2, h, db)
         /\ Needed(f2, h) = Needed(f, h) /\ OldHeader(f2, h) = OldHeader(f, h)
         /\ ChainOf(f2, h) = ChainOf(f, h)
<1>1. Intact(f, h) /\ Image(f, h) = db
  BY DEF StandsFor
<1>2. /\ Intact(f2, h) /\ Image(f2, h) = db /\ Needed(f2, h) = Needed(f, h)
      /\ OldHeader(f2, h) = OldHeader(f, h) /\ ChainOf(f2, h) = ChainOf(f, h)
  BY <1>1, Frame
<1> QED
  BY <1>2 DEF StandsFor

(* A header without a chain.                                                *)
LEMMA NoChain ==
  ASSUME SizeAssumption, NEW f, NEW g, HeaderOK(g), ~g.inTx, g.rollback = 0
  PROVE  /\ Intact(f, g) /\ ChainOf(f, g) = {} /\ OldHeader(f, g) = g
         /\ Needed(f, g) = Live(g) /\ Kept(f, {}) = {}
         /\ Image(f, g) = LiveData(f, g)
         /\ \A b : ~Guards(f, g, b)
<1>1. IsList(f, 0, {}) /\ 0 \in Block
  BY NoneTyped DEF IsList
<1>2. ChainOf(f, g) = {}
  BY <1>1, ListIsChain DEF ChainOf
<1>3. Kept(f, {}) = {}
  BY DEF Kept
<1>4. IntactRest(f, g, {})
  BY <1>1, <1>3 DEF IntactRest, Fits
<1>5. Contents(f, g, {}) = LiveData(f, g)
  BY <1>3 DEF Contents, LiveData
<1> QED
  BY <1>2, <1>3, <1>4, <1>5 DEF Intact, OldHeader, Needed, Image, Guards

LEMMA GuardsNeeded ==
  ASSUME SizeAssumption, NEW f, NEW h, Intact(f, h), NEW b, Guards(f, h, b)
  PROVE  b \notin Needed(f, h)
<1> DEFINE S == ChainOf(f, h)
           g == OldHeader(f, h)
<1>1. h.inTx /\ b \in AllTargets(f, S)
  BY DEF Guards
<1>2. IntactJournal(f, h, S, g)
  BY <1>1 DEF Intact
<1>3. Needed(f, h) = Kept(f, S) \cup {x \in Live(g) : ~Guards(f, h, x)}
  BY <1>1 DEF Needed
<1> HIDE DEF S, g
<1>4. /\ IsList(f, h.rollback, S) /\ Fits(f, S, g.free, h.free) /\ SavesBelow(f, S, g.free)
      /\ g.free \in Nat /\ h.free \in Nat
  BY <1>2, HeaderFields DEF IntactJournal, HeaderOK
<1>5. b \in 1..g.free - 1
  BY <1>1, <1>4 DEF AllTargets, SavesBelow
<1>6. b \notin Kept(f, S)
  <2> SUFFICES ASSUME b \in Kept(f, S) PROVE FALSE
    OBVIOUS
  <2>1. g.free <= b
    BY <1>4, FitsKept
  <2> QED
    BY <1>4, <1>5, <2>1
<1> QED
  BY <1>3, <1>6

(* The old header and the chain of a header on the disk.                    *)
LEMMA OldDiskIs ==
  ASSUME SizeAssumption, NEW f, NEW a, NEW S, IsList(f, a, S),
         NEW g, HeaderOK(g), ~g.inTx, g.rollback = 0, S # {} => SavedHeader(f, S) = g,
         NEW s, NEW d, NEW h, NEW db, OldDisk(f, s, d, S, g, h, db)
  PROVE  /\ OldHeader(f, h) = g /\ ChainOf(f, h) \subseteq S
         /\ h.inTx => ChainOf(f, h) = {x \in S : x <= h.rollback}
         /\ \A b \in Live(g) : ~Guards(f, h, b) => db[b] = f[b] /\ b \in Needed(f, h)
         /\ \A b \in Needed(f, h) : b \in Kept(f, S) \/ (b \in Live(g) /\ ~Guards(f, h, b))
         /\ \A b \in Block : db[b] = IF b \in Live(g) THEN Restored(f, ChainOf(f, h), b) ELSE Free
         /\ db = [b \in Block |-> db[b]]
<1>1. Intact(f, h) /\ Image(f, h) = db /\ (h = g \/ (h.inTx /\ h.rollback \in S))
  BY DEF OldDisk, StandsFor
<1>2. CASE h.inTx
  <2> DEFINE T == {x \in S : x <= h.rollback}
  <2>1. h # g /\ h.rollback \in S /\ h.rollback \in Block
    BY <1>1, <1>2, IntactFacts
  <2>2. IsList(f, h.rollback, T)
    BY <2>1, ListBelow
  <2>3. ChainOf(f, h) = T
    BY <2>1, <2>2, ListIsChain DEF ChainOf
  <2>4. T # {} /\ T \subseteq S
    BY <2>1, <2>2 DEF IsList
  <2>5. SavedHeader(f, S) = SavedHeader(f, T)
    <3> HIDE DEF T
    <3> QED
      BY <2>2, <2>4, SavedSame
  <2>6. OldHeader(f, h) = g
    BY <1>2, <2>3, <2>4, <2>5 DEF OldHeader
  <2>7. T \in SUBSET Nat
    BY <2>2, ListFacts
  <2>8. Needed(f, h) = Kept(f, T) \cup {b \in Live(g) : ~Guards(f, h, b)}
    BY <1>2, <2>3, <2>6 DEF Needed
  <2>9. Kept(f, T) \subseteq Kept(f, S)
    BY <2>4 DEF Kept
  <2>10. Image(f, h) = [b \in Block |-> IF b \in Live(g) THEN Restored(f, T, b) ELSE Free]
    BY <1>2, <2>3, <2>6 DEF Image
  <2>11. ASSUME NEW b \in Live(g), ~Guards(f, h, b) PROVE db[b] = f[b]
    <3>1. b \notin AllTargets(f, T)
      BY <1>2, <2>3, <2>11 DEF Guards
    <3>2. Restored(f, T, b) = f[b]
      BY <2>7, <3>1, RestoredIs
    <3>3. b \in Block
      BY LiveIs DEF HeaderOK
    <3> QED
      BY <1>1, <2>10, <3>2, <3>3
  <2> HIDE DEF T
  <2>12. db = [b \in Block |-> IF b \in Live(g) THEN Restored(f, T, b) ELSE Free]
    BY <1>1, <2>10
  <2> QED
    BY <1>2, <2>3, <2>4, <2>6, <2>8, <2>9, <2>11, <2>12 DEF T
<1>3. CASE ~h.inTx
  <2>1. h = g
    BY <1>1, <1>3
  <2>2. /\ ChainOf(f, g) = {} /\ OldHeader(f, g) = g /\ Needed(f, g) = Live(g)
        /\ Image(f, g) = LiveData(f, g) /\ \A b : ~Guards(f, g, b)
    BY NoChain
  <2>3. \A b \in Live(g) : b \in Block
    BY LiveIs DEF HeaderOK
  <2>4. \A b : Restored(f, {}, b) = f[b]
    BY DEF Restored, Savers
  <2> QED
    BY <1>1, <1>3, <2>1, <2>2, <2>3, <2>4 DEF LiveData
<1> QED
  BY <1>2, <1>3

LEMMA OldDiskSame ==
  ASSUME SizeAssumption, NEW f, NEW a \in Block, NEW S, IsList(f, a, S),
         NEW s, NEW d, NEW g, NEW h, NEW db, OldDisk(f, s, d, S, g, h, db),
         NEW f2, NEW s2, NEW d2,
         \A b \in Needed(f, h) : f2[b] = f[b], \A b \in Kept(f, S) : f2[b] = f[b],
         d2 => \A b \in Needed(f, h) : s2[b] = f[b]
  PROVE  OldDisk(f2, s2, d2, S, g, h, db)
<1>1. StandsFor(f, s, d, h, db) /\ Intact(f, h)
  BY DEF OldDisk, StandsFor
<1>2. StandsFor(f2, s2, d2, h, db)
  BY <1>1, StandsSame
<1>3. \A b : Guards(f2, h, b) <=> Guards(f, h, b)
  BY <1>1, Frame
<1>4. /\ \A c \in S : f2[c] = f[c]
      /\ \A c \in S : \A b \in Targets(f[c]) : CopyOf(f2, c, b) = CopyOf(f, c, b)
  BY ChainFrame
<1> QED
  BY <1>2, <1>3, <1>4 DEF OldDisk

(* rollback_transaction writes back one copy.                               *)
LEMMA OldDiskUndo ==
  ASSUME SizeAssumption, NEW f, NEW a \in Block, NEW S, IsList(f, a, S),
         NEW g, HeaderOK(g), ~g.inTx, g.rollback = 0, S # {} => SavedHeader(f, S) = g,
         NEW high \in Nat, Fits(f, S, g.free, high), SavesBelow(f, S, g.free),
         NEW s, NEW d, NEW h, NEW db, OldDisk(f, s, d, S, g, h, db),
         NEW c \in S, NEW t \in Targets(f[c]),
         NEW f2, f2[t] = CopyOf(f, c, t), \A b \in Block : b # t => f2[b] = f[b],
         NEW s2, \A b \in Block : s2[b] = s[b] \/ (b = t /\ s2[b] = f[b])
  PROVE  OldDisk(f2, s2, d, S, g, h, db)
<1>1. t \notin Kept(f, S)
  <2>1. g.free \in Nat /\ t \in 1..g.free - 1
    BY HeaderFields DEF HeaderOK, SavesBelow
  <2>2. t \in Kept(f, S) => g.free <= t
    BY <2>1, FitsKept
  <2> QED
    BY <2>1, <2>2
<1>2. ASSUME NEW b \in Kept(f, S) PROVE f2[b] = f[b]
  <2>1. b \in Block
    <3>1. g.free \in Nat
      BY HeaderFields DEF HeaderOK
    <3> QED
      BY <3>1, FitsKept
  <2> QED
    BY <1>1, <2>1
<1>3. ASSUME NEW b \in Needed(f, h)
      PROVE  f2[b] = f[b] /\ (d => s2[b] = f[b])
  <2>1. StandsFor(f, s, d, h, db) /\ Intact(f, h)
    BY DEF OldDisk, StandsFor
  <2>2. b \in Block
    BY <2>1, IntactFacts
  <2>3. d => s[b] = f[b]
    BY <2>1 DEF StandsFor
  <2>4. f2[b] = f[b]
    <3>1. CASE b = t
      <4>1. b \in Live(g) /\ ~Guards(f, h, b)
        BY <1>1, <3>1, OldDiskIs
      <4>2. db[b] = f[b]
        BY <4>1, OldDiskIs
      <4>3. CopyOf(f, c, t) = db[t]
        BY <3>1, <4>1 DEF OldDisk
      <4> QED
        BY <3>1, <4>2, <4>3
    <3> QED
      BY <2>2, <3>1
  <2> QED
    BY <2>2, <2>3, <2>4
<1> QED
  BY <1>2, <1>3, OldDiskSame

(* The header that says in-transaction, once the chain is flushed.          *)
LEMMA OldDiskMark ==
  ASSUME SizeAssumption, NEW f, NEW n, n \in Header, n.inTx, n.rollback # 0,
         NEW S, IsList(f, n.rollback, S),
         NEW g, HeaderOK(g), ~g.inTx, g.rollback = 0, SavedHeader(f, S) = g,
         Fits(f, S, g.free, n.free), SavesBelow(f, S, g.free),
         NEW s, NEW d, NEW h, NEW db, OldDisk(f, s, d, S, g, h, db)
  PROVE  /\ Intact(f, n) /\ Image(f, n) = db /\ ChainOf(f, n) = S /\ OldHeader(f, n) = g
         /\ \A s2, d2 : (d2 => \A b \in Needed(f, n) : s2[b] = f[b]) =>
              OldDisk(f, s2, d2, S, g, n, db)
<1>1. n.rollback \in Block
  BY HeaderFields
<1>2. ChainOf(f, n) = S
  BY <1>1, ListIsChain DEF ChainOf
<1>3. OldHeader(f, n) = g
  BY <1>2 DEF OldHeader
<1>4. Intact(f, n)
  BY <1>2, <1>3 DEF Intact, IntactJournal
<1>5. S \in SUBSET Nat
  BY ListFacts
<1>6. /\ OldHeader(f, h) = g /\ ChainOf(f, h) \subseteq S
      /\ h.inTx => ChainOf(f, h) = {x \in S : x <= h.rollback}
      /\ \A b \in Live(g) : ~Guards(f, h, b) => db[b] = f[b]
      /\ \A b \in Block : db[b] = IF b \in Live(g) THEN Restored(f, ChainOf(f, h), b) ELSE Free
      /\ db = [b \in Block |-> db[b]]
  BY OldDiskIs
<1>7. ASSUME NEW b \in Live(g) PROVE Restored(f, S, b) = db[b]
  <2>1. b \in Block
    BY LiveIs DEF HeaderOK
  <2>2. CASE b \notin AllTargets(f, S)
    <3>1. Restored(f, S, b) = f[b]
      BY <1>5, <2>2, RestoredIs
    <3>2. ~Guards(f, h, b)
      BY <1>6, <2>2 DEF Guards, AllTargets
    <3> QED
      BY <1>6, <3>1, <3>2
  <2>3. CASE b \in AllTargets(f, S)
    <3>1. PICK c \in S : /\ b \in Targets(f[c])
                         /\ \A e \in S : b \in Targets(f[e]) => c <= e
                         /\ Restored(f, S, b) = CopyOf(f, c, b)
      BY <1>5, <2>3, RestoredIs
    <3>2. CASE ~Guards(f, h, b)
      BY <3>1, <3>2 DEF OldDisk
    <3>3. CASE Guards(f, h, b)
      <4> DEFINE T == ChainOf(f, h)
      <4>1. h.inTx /\ T = {x \in S : x <= h.rollback} /\ b \in AllTargets(f, T)
        BY <1>6, <3>3 DEF Guards
      <4>2. PICK e \in T : b \in Targets(f[e])
        BY <4>1 DEF AllTargets
      <4>3. c <= e /\ e <= h.rollback /\ c \in Nat /\ e \in Nat /\ h.rollback \in Nat
        <5>1. h.rollback \in Block
          BY IntactFacts DEF OldDisk, StandsFor
        <5> QED
          BY <1>5, <3>1, <4>1, <4>2, <5>1, BlockIs
      <4>4. c \in T
        BY <4>1, <4>3
      <4>5. T \in SUBSET Nat /\ \A x \in T : b \in Targets(f[x]) => c <= x
        BY <1>5, <3>1, <4>1
      <4> HIDE DEF T
      <4>6. Restored(f, T, b) = CopyOf(f, c, b)
        BY <3>1, <4>4, <4>5, RestoredFrom
      <4> QED
        BY <1>6, <2>1, <3>1, <4>6 DEF T
    <3> QED
      BY <3>2, <3>3
  <2> QED
    BY <2>2, <2>3
<1>8. Image(f, n) = db
  <2>1. Image(f, n) = [b \in Block |-> IF b \in Live(g) THEN Restored(f, S, b) ELSE Free]
    BY <1>2, <1>3 DEF Image
  <2>2. \A b \in Block : Image(f, n)[b] = db[b]
    BY <1>6, <1>7, <2>1
  <2> QED
    BY <1>6, <2>1, <2>2
<1>9. \A c \in S : \A b \in Targets(f[c]) : Guards(f, n, b)
  BY <1>2 DEF Guards, AllTargets
<1>10. n.rollback \in S
  BY DEF IsList
<1> QED
  BY <1>2, <1>3, <1>4, <1>8, <1>9, <1>10 DEF OldDisk, StandsFor

-----------------------------------------------------------------------------
(* The undo, chunk by chunk.                                                *)

LEMMA RestoredStart ==
  ASSUME SizeAssumption, NEW f, NEW a, a # 0, NEW S, IsList(f, a, S)
  PROVE  a \in S /\ RestoredTo(f, S, a, 0)
<1>1. a \in S /\ \A c \in S : c <= a
  BY DEF IsList
<1>2. ASSUME NEW c \in S, NEW b \in Targets(f[c])
      PROVE  ~(c > a) /\ ~(IndexOf(f[c], b) <= 0)
  <2>1. IndexOf(f[c], b) \in 1..Len(f[c].target)
    BY CopyIs
  <2>2. c \in Nat /\ a \in Nat
    BY <1>1, ListFacts
  <2> QED
    BY <1>1, <2>1, <2>2
<1> QED
  BY <1>1, <1>2 DEF RestoredTo

LEMMA RestoredWrite ==
  ASSUME SizeAssumption, NEW f, NEW a \in Block, NEW S, IsList(f, a, S),
         NEW low \in Nat, NEW high \in Nat, Fits(f, S, low, high), SavesBelow(f, S, low),
         NEW w \in S, NEW i \in Nat, i < Len(f[w].target), RestoredTo(f, S, w, i),
         NEW t, t = f[w].target[i + 1],
         NEW f2, f2[t] = f[w + 1 + i], \A b \in Block : b # t => f2[b] = f[b]
  PROVE  /\ t \in Targets(f[w]) /\ CopyOf(f, w, t) = f[w + 1 + i]
         /\ t \notin Kept(f, S) /\ t \in 1..low - 1
         /\ \A b \in Kept(f, S) : f2[b] = f[b]
         /\ RestoredTo(f2, S, w, i + 1)
<1>1. f[w] \in Chunk /\ w \in Nat
  BY ListFacts
<1>2. f[w].target \in Seq(Block \ {0}) /\ Len(f[w].target) \in Nat
  BY <1>1, ChunkFields
<1>3. i + 1 \in DOMAIN f[w].target
  BY <1>2
<1>4. t \in Targets(f[w])
  BY <1>3 DEF Targets
<1>5. IndexOf(f[w], t) = i + 1
  <2>1. IndexOf(f[w], t) \in DOMAIN f[w].target /\ f[w].target[IndexOf(f[w], t)] = t
    BY <1>4, CopyIs
  <2> QED
    BY <1>3, <2>1 DEF SavesBelow
<1>6. CopyOf(f, w, t) = f[w + 1 + i]
  <2>1. w + (i + 1) = w + 1 + i
    BY <1>1
  <2> QED
    BY <1>5, <2>1, Zenon DEF CopyOf
<1>7. t \in 1..low - 1
  BY <1>4 DEF SavesBelow
<1>8. t \notin Kept(f, S)
  <2>1. t \in Kept(f, S) => low <= t
    BY FitsKept
  <2> QED
    BY <1>7, <2>1
<1>9. ASSUME NEW b \in Kept(f, S) PROVE f2[b] = f[b]
  <2>1. b \in Block
    BY FitsKept
  <2> QED
    BY <1>8, <2>1
<1>10. /\ \A c \in S : f2[c] = f[c]
       /\ \A c \in S : \A b \in Targets(f[c]) : CopyOf(f2, c, b) = CopyOf(f, c, b)
  <2>1. \A b \in Kept(f, S) : f2[b] = f[b]
    BY <1>9
  <2> QED
    BY <2>1, CopiesSame, Z3
<1>11. ASSUME NEW c \in S, NEW b \in Targets(f[c]),
              c > w \/ (c = w /\ IndexOf(f[c], b) <= i + 1),
              \A e \in S : b \in Targets(f[e]) => c <= e
       PROVE  f2[b] = CopyOf(f, c, b)
  <2>1. c \in Nat
    BY ListFacts
  <2>2. CASE b = t
    <3>1. c <= w
      BY <1>4, <1>11, <2>2
    <3>2. c = w
      BY <1>1, <1>11, <2>1, <3>1
    <3> QED
      BY <1>6, <2>2, <3>2
  <2>3. CASE b # t
    <3>1. IndexOf(f[c], b) \in DOMAIN f[c].target /\ f[c].target[IndexOf(f[c], b)] = b
          /\ IndexOf(f[c], b) \in 1..Len(f[c].target)
      BY CopyIs
    <3>2. c = w => IndexOf(f[c], b) # i + 1
      BY <2>3, <3>1
    <3>3. c > w \/ (c = w /\ IndexOf(f[c], b) <= i)
      <4>1. IndexOf(f[c], b) \in Nat
        BY <3>1
      <4> QED
        BY <1>11, <3>2, <4>1
    <3>4. f[b] = CopyOf(f, c, b)
      BY <1>11, <3>3 DEF RestoredTo
    <3>5. b \in Block
      <4>1. f[c] \in Chunk
        BY ListFacts
      <4>2. f[c].target \in Seq(Block \ {0})
        BY <4>1, ChunkFields
      <4> QED
        BY <3>1, <4>2
    <3> QED
      BY <2>3, <3>4, <3>5
  <2> QED
    BY <2>2, <2>3
<1>12. RestoredTo(f2, S, w, i + 1)
  BY <1>10, <1>11 DEF RestoredTo
<1> QED
  BY <1>4, <1>6, <1>7, <1>8, <1>9, <1>12

LEMMA RestoredNext ==
  ASSUME SizeAssumption, NEW f, NEW a, NEW S, IsList(f, a, S),
         NEW w \in S, f[w].next # 0, RestoredTo(f, S, w, Len(f[w].target))
  PROVE  f[w].next \in S /\ RestoredTo(f, S, f[w].next, 0)
<1> DEFINE n == f[w].next
<1>1. n \in S /\ n < w /\ n \in Nat /\ w \in Nat
  BY ListFacts
<1>2. ASSUME NEW c \in S, NEW b \in Targets(f[c]),
             c > n \/ (c = n /\ IndexOf(f[c], b) <= 0)
      PROVE  c > w \/ (c = w /\ IndexOf(f[c], b) <= Len(f[w].target))
  <2>1. c \in Nat /\ IndexOf(f[c], b) \in 1..Len(f[c].target) /\ f[c] \in Chunk
    BY CopyIs, ListFacts
  <2>2. Len(f[c].target) \in Nat
    BY <2>1, ChunkFields
  <2>3. c > n /\ IndexOf(f[c], b) <= Len(f[c].target)
    BY <1>2, <2>1, <2>2
  <2>4. c < w => c <= n
    BY DEF IsList
  <2> HIDE DEF n
  <2>5. c > w \/ c = w
    BY <1>1, <2>1, <2>3, <2>4
  <2> QED
    BY <2>3, <2>5
<1> QED
  BY <1>1, <1>2 DEF RestoredTo

(* When the oldest chunk is written back the file is that of before.        *)
LEMMA RestoredEnd ==
  ASSUME SizeAssumption, NEW f, NEW n, Intact(f, n), n.inTx,
         NEW w \in ChainOf(f, n), f[w].next = 0,
         RestoredTo(f, ChainOf(f, n), w, Len(f[w].target))
  PROVE  /\ f[w + 1 + Len(f[w].target)] = OldHeader(f, n)
         /\ Intact(f, OldHeader(f, n)) /\ Image(f, OldHeader(f, n)) = Image(f, n)
         /\ ~OldHeader(f, n).inTx /\ OldHeader(f, n).rollback = 0
<1> DEFINE S == ChainOf(f, n)
           g == OldHeader(f, n)
<1>1. IntactJournal(f, n, S, g)
  BY DEF Intact
<1>2. IsList(f, n.rollback, S) /\ HeaderOK(g) /\ ~g.inTx /\ g.rollback = 0
  BY <1>1 DEF IntactJournal
<1>3. g = SavedHeader(f, S)
  BY DEF OldHeader
<1> HIDE DEF S, g
<1>4. w \in S /\ S # {} /\ S \in SUBSET Nat
  BY <1>2, ListFacts DEF S
<1>5. PICK c \in S : /\ f[c].next = 0
                     /\ \A e \in S : c <= e /\ (f[e].next = 0 => e = c)
                     /\ SavedHeader(f, S) = f[c + Len(f[c].target) + 1]
                     /\ c + Len(f[c].target) + 1 \in Segment(f, c)
  <2>1. S # {} /\ IsList(f, n.rollback, S)
    BY <1>2, <1>4
  <2> QED
    BY <2>1, OldestIs, Z3
<1>6. c = w
  BY <1>4, <1>5
<1>7. w \in Nat /\ f[w] \in Chunk
  BY <1>2, <1>4, ListFacts
<1>8. Len(f[w].target) \in Nat
  BY <1>7, ChunkFields
<1>9. w + Len(f[w].target) + 1 = w + 1 + Len(f[w].target)
  <2> DEFINE k == Len(f[w].target)
  <2>1. k \in Nat
    BY <1>8
  <2> HIDE DEF k
  <2>2. w + k + 1 = w + 1 + k
    BY <1>7, <2>1
  <2> QED
    BY <2>2 DEF k
<1>10. f[w + 1 + Len(f[w].target)] = g
  BY <1>3, <1>5, <1>6, <1>9, Zenon
<1>11. ASSUME NEW b \in Live(g) PROVE Restored(f, S, b) = f[b]
  <2>1. CASE b \in AllTargets(f, S)
    <3>1. PICK d \in S : /\ b \in Targets(f[d])
                         /\ \A e \in S : b \in Targets(f[e]) => d <= e
                         /\ Restored(f, S, b) = CopyOf(f, d, b)
      BY <1>4, <2>1, RestoredIs
    <3>2. d > w \/ (d = w /\ IndexOf(f[d], b) <= Len(f[w].target))
      <4>1. w <= d /\ d \in Nat
        BY <1>4, <1>5, <1>6
      <4>2. IndexOf(f[d], b) \in 1..Len(f[d].target)
        BY <1>2, <3>1, CopyIs
      <4>3. d = w => IndexOf(f[d], b) <= Len(f[w].target)
        BY <1>8, <4>2
      <4> QED
        BY <1>7, <4>1, <4>3
    <3>3. f[b] = CopyOf(f, d, b)
      BY <3>1, <3>2 DEF RestoredTo, S
    <3> QED
      BY <3>1, <3>3
  <2>2. CASE b \notin AllTargets(f, S)
    BY <1>4, <2>2, RestoredIs
  <2> QED
    BY <2>1, <2>2
<1>12. Image(f, n) = [b \in Block |-> IF b \in Live(g) THEN Restored(f, S, b) ELSE Free]
  BY DEF Image, S, g
<1>13. Intact(f, g) /\ Image(f, g) = LiveData(f, g)
  BY <1>2, NoChain
<1>14. Image(f, n) = LiveData(f, g)
  BY <1>11, <1>12 DEF LiveData
<1> QED
  BY <1>2, <1>10, <1>13, <1>14 DEF g

-----------------------------------------------------------------------------
(* What the parts of a step do.                                             *)

LEMMA WriteIs ==
  ASSUME SizeAssumption, TypeOK, NEW b \in Block, NEW c, Write(b, c)
  PROVE  /\ file'[b] = c /\ \A x \in Block : x # b => file'[x] = file[x]
         /\ \A x \in Block : stable'[x] = stable[x] \/ (x = b /\ stable'[x] = file[x])
BY DEF Write, TypeOK

LEMMA SpendIs ==
  ASSUME TypeOK, NEW e \in Event, Spend(e)
  PROVE  /\ left[e] > 0 /\ left'[e] = left[e] - 1 /\ left[e] \in Nat
         /\ \A x \in Event : x # e => left'[x] = left[x]
BY DEF Spend, TypeOK

LEMMA EventIs ==
  ASSUME TypeOK
  PROVE  /\ "power" \in Event /\ "kill" \in Event /\ "fault" \in Event
         /\ "op" \in Event /\ "flush" \in Event
         /\ left["power"] \in Nat /\ left["kill"] \in Nat /\ left["fault"] \in Nat
BY DEF Event, TypeOK

LEMMA LeftSame ==
  ASSUME OneKind, TypeOK, UNCHANGED left \/ Spend("op") \/ Spend("flush")
  PROVE  OneKind' /\ Powered' = Powered
<1>1. CASE UNCHANGED left
  BY <1>1 DEF OneKind, Powered
<1>2. ASSUME NEW e \in {"op", "flush"}, Spend(e) PROVE OneKind' /\ Powered' = Powered
  <2>1. e \in Event /\ e # "power" /\ e # "kill" /\ e # "fault"
    BY EventIs
  <2>2. /\ left'["power"] = left["power"] /\ left'["kill"] = left["kill"]
        /\ left'["fault"] = left["fault"]
    BY <1>2, <2>1, SpendIs, EventIs
  <2> QED
    BY <2>2 DEF OneKind, Powered
<1> QED
  BY <1>1, <1>2

LEMMA LeftFailed ==
  ASSUME OneKind, TypeOK, NEW e \in {"kill", "fault"}, Spend(e)
  PROVE  OneKind' /\ ~Powered /\ ~Powered'
<1>1. e \in Event /\ e # "power"
  BY EventIs
<1>2. left[e] > 0 /\ left'["power"] = left["power"]
  BY <1>1, SpendIs, EventIs
<1>3. ~Powered
  BY <1>2, EventIs DEF OneKind, Powered
<1> QED
  BY <1>2, <1>3 DEF OneKind, Powered

LEMMA LeftPower ==
  ASSUME OneKind, TypeOK, Spend("power")
  PROVE  OneKind' /\ Powered
<1>1. left["power"] > 0 /\ left'["kill"] = left["kill"] /\ left'["fault"] = left["fault"]
  BY SpendIs, EventIs
<1> QED
  BY <1>1 DEF OneKind, Powered

(* What was returned stays true of the blocks that a database needs.        *)
LEMMA ChangedSame ==
  ASSUME FreeAssumption, TypeOK, NEW h, ~h.inTx, Image(file, h) = Changed,
         \A b \in Needed(file, h) : file'[b] = file[b], work' = work
  PROVE  Changed' = Changed
<1>1. Needed(file, h) = Live(h) /\ Image(file, h) = Contents(file, h, ChainOf(file, h))
  BY DEF Needed, Image
<1>2. ASSUME NEW b \in Block, work[b] = Fresh PROVE file'[b] = file[b]
  <2>1. Changed[b] = file[b]
    BY <1>2 DEF Changed
  <2>2. file[b] # Free
    BY DEF FreeAssumption, TypeOK
  <2>3. b \in Live(h)
    BY <1>1, <2>1, <2>2 DEF Contents
  <2> QED
    BY <1>1, <2>3
<1> QED
  BY <1>2 DEF Changed

LEMMA SaidSame ==
  ASSUME SizeAssumption, FreeAssumption, TypeOK, NEW h, NEW db,
         Intact(file, h), Image(file, h) = db, ~file[0].inTx => ~h.inTx /\ ~file'[0].inTx,
         \A b \in Needed(file, h) : file'[b] = file[b],
         UNCHANGED <<work, before, result>>, Said(db)
  PROVE  Said(db)'
<1>1. CASE db = before /\ result \in {"cancelled", "crash", "error"}
  BY <1>1 DEF Said
<1>2. CASE db = Changed /\ ~file[0].inTx /\ result \in {"ok", "crash", "error"}
  <2>1. ~h.inTx /\ ~file'[0].inTx
    BY <1>2
  <2>2. Changed' = Changed
    BY <1>2, <2>1, ChangedSame
  <2> QED
    BY <1>2, <2>1, <2>2 DEF Said
<1> QED
  BY <1>1, <1>2 DEF Said

(* Two places a step can lead to: no transaction, and a new one.            *)
LEMMA ToIdle ==
  ASSUME OneKind', Terminate, NEW db, Said(db)',
         StandsFor(file', stable', Powered', file'[0], db), Powered' => stable'[0] = file'[0]
  PROVE  JournalInv'
<1>1. pc' = "idle" /\ idx' = 0
  BY DEF Terminate, Forget
<1>2. Lasting' = Powered'
  BY <1>1 DEF Lasting, TxPc, Powered
<1>3. Now' = db
  BY DEF Now, StandsFor
<1>4. Said(Now)'
  BY <1>3 DEF Said
<1>5. Stands(file[0], Now)'
  BY <1>2, <1>3 DEF Stands
<1>6. IdleInv'
  BY <1>1, <1>4, <1>5 DEF IdleInv
<1> QED
  BY <1>1, <1>6 DEF JournalInv, TxPc

LEMMA ToEnter ==
  ASSUME SizeAssumption, FreeAssumption, TypeOK', OneKind', NEW h, Enter(h),
         HeaderOK(h), ~h.inTx, h.rollback = 0, file' = file, file[0] = h,
         Powered' => stable'[0] = h /\ \A b \in Live(h) : stable'[b] = file[b]
  PROVE  JournalInv'
<1>1. /\ pc' = "open" /\ hdr' = h /\ hdr0' = h /\ hdrDirty' = FALSE /\ cache' = EmptyCache
      /\ txErr' = FALSE /\ final' = FALSE /\ targets' = <<>> /\ info' = NoInfo
      /\ idx' = 0 /\ why' = "none"
      /\ before' = LiveData(file, h) /\ work' = LiveData(file, h)
  BY DEF Enter
<1>2. /\ Intact(file, h) /\ ChainOf(file, h) = {} /\ OldHeader(file, h) = h
      /\ Needed(file, h) = Live(h) /\ Kept(file, {}) = {} /\ Image(file, h) = LiveData(file, h)
  BY NoChain
<1>3. \A b \in Block : cache'[b] = NoBuffer
  BY <1>1 DEF EmptyCache
<1>4. Lasting' = Powered' /\ Journal' = {} /\ OnDisk' = {h}
  <2>1. Lasting' = Powered'
    BY <1>1 DEF Lasting, TxPc, Powered
  <2>2. Journal' = {}
    BY <1>1, <1>2 DEF Journal
  <2> QED
    BY <2>1, <2>2 DEF OnDisk
<1>5. SpaceInv'
  <2>1. IsList(file, 0, {}) /\ 0 \in Block
    BY NoneTyped DEF IsList
  <2>2. {b \in Block : work'[b] # Free} = Live(h)
    <3>1. \A b \in Live(h) : b \in Block /\ file[b] # Free
      BY LiveIs DEF HeaderOK, FreeAssumption, TypeOK
    <3> QED
      BY <1>1, <3>1 DEF LiveData
  <2>3. h.free <= h.free
    BY HeaderFields DEF HeaderOK
  <2> QED
    BY <1>1, <1>2, <1>4, <2>1, <2>2, <2>3 DEF SpaceInv, Fits, SavesBelow
<1>6. DiskInv'
  <2>1. OldDisk(file, stable', Powered', {}, h, h, before')
    BY <1>1, <1>2 DEF OldDisk, StandsFor
  <2>2. h.free <= h.free
    BY HeaderFields DEF HeaderOK
  <2> QED
    BY <1>1, <1>4, <2>1, <2>2 DEF DiskInv, OldOnDisk
<1>7. InfoInv'
  BY <1>1 DEF InfoInv, NoInfo
<1>8. DataInv'
  <2>1. \A b \in Block : InUse(b)' => work'[b] = file[b]
    BY <1>1 DEF InUse, LiveData
  <2> QED
    BY <1>1, <1>3, <2>1 DEF DataInv
<1>9. SavedInv'
  <2>1. \A b \in Below' : b \in Block
    <3>1. h.free \in 1..NBlocks /\ NBlocks \in Nat
      BY HeaderFields, BlockIs DEF HeaderOK
    <3>2. \A b \in 0..h.free - 1 : b \in Nat /\ b < NBlocks
      BY <3>1
    <3> QED
      BY <1>1, <3>2, BlockIs DEF Below
  <2>2. DOMAIN targets' = {}
    BY <1>1
  <2> QED
    BY <1>1, <1>3, <2>1, <2>2 DEF SavedInv
<1>10. FlushInv'
  BY <1>1 DEF FlushInv
<1>11. TxInv'
  BY <1>1, <1>5, <1>6, <1>7, <1>8, <1>9, <1>10 DEF TxInv
<1> QED
  BY <1>1, <1>11 DEF JournalInv, TxPc

-----------------------------------------------------------------------------
(* The process ends, in one way or another.                                 *)

Outside == pc = "idle" \/ why # "none"

(* Whatever header the next process finds, it stands for a database that    *)
(* what the transaction returned, or will not return any more, fits.        *)
SafeWith(h, db) ==
  /\ StandsFor(file, stable, Powered, h, db)
  /\ \/ db = before /\ (Outside => result \in {"cancelled", "crash", "error"})
     \/ db = Changed /\ ~h.inTx /\ (Outside => result \in {"ok", "crash", "error"})

LEMMA StandsWeak ==
  ASSUME NEW h, NEW db, Stands(h, db)
  PROVE  StandsFor(file, stable, Powered, h, db)
BY DEF Stands, StandsFor, Lasting

LEMMA OnDiskIs ==
  /\ file[0] \in OnDisk /\ (Powered => stable[0] \in OnDisk)
  /\ \A h \in OnDisk : h = file[0] \/ (Lasting /\ h = stable[0])
BY DEF OnDisk, Lasting

LEMMA SafeNow ==
  ASSUME TypeOK, JournalInv, NEW h, h = file[0] \/ (Powered /\ h = stable[0])
  PROVE  \E db : SafeWith(h, db)
<1>1. h \in OnDisk
  BY OnDiskIs
<1>2. CASE pc = "idle"
  <2>1. IdleInv /\ h = file[0]
    BY <1>2 DEF JournalInv, IdleInv
  <2>2. StandsFor(file, stable, Powered, h, Now)
    BY <2>1, StandsWeak DEF IdleInv
  <2> QED
    BY <1>2, <2>1, <2>2 DEF SafeWith, Outside, IdleInv, Said
<1>3. CASE pc = "undo"
  <2>1. UndoInv
    BY <1>3 DEF JournalInv
  <2>2. Stands(h, before)
    BY <1>1, <2>1 DEF UndoInv, OldOnDisk, OldDisk, Stands
  <2> QED
    BY <2>1, <2>2, StandsWeak DEF SafeWith, UndoInv
<1>4. CASE pc \in {"undoHeader", "undoEnd"}
  <2>1. UndoneInv
    BY <1>4 DEF JournalInv
  <2>2. Stands(h, before)
    BY <1>1, <2>1 DEF UndoneInv
  <2> QED
    BY <2>1, <2>2, StandsWeak DEF SafeWith, UndoneInv
<1>5. CASE pc \in {"free", "freeHeader", "freeEnd"}
  <2>1. FreeInv
    BY <1>5 DEF JournalInv
  <2>2. Stands(h, Now) /\ ~h.inTx
    BY <1>1, <2>1 DEF FreeInv
  <2>3. StandsFor(file, stable, Powered, h, Now)
    BY <2>2, StandsWeak
  <2> QED
    BY <2>1, <2>2, <2>3 DEF SafeWith, FreeInv, Said
<1>6. CASE pc \in TxPc
  <2>1. why = "none" /\ pc # "idle" /\ OldOnDisk(hdr0)
    BY <1>6 DEF JournalInv, TxInv, DiskInv, TxPc
  <2>2. Stands(h, before)
    BY <1>1, <2>1 DEF OldOnDisk, OldDisk, Stands
  <2> QED
    BY <2>1, <2>2, StandsWeak DEF SafeWith, Outside
<1>7. CASE pc \in {"commitHeader", "commitEnd"}
  <2>1. CommitInv /\ pc # "idle"
    BY <1>7 DEF JournalInv
  <2>2. ~Outside
    BY <2>1 DEF CommitInv, Outside
  <2>3. CASE pc = "commitHeader"
    <3>1. Stands(h, before)
      BY <2>1, <2>3 DEF CommitInv
    <3> QED
      BY <2>2, <3>1, StandsWeak DEF SafeWith
  <2>4. CASE pc = "commitEnd"
    <3>1. ~hdr.inTx /\ Stands(hdr, Changed) /\ (h = hdr \/ Stands(h, before))
      BY <2>1, <2>4 DEF CommitInv
    <3>2. CASE Stands(h, before)
      BY <2>2, <3>2, StandsWeak DEF SafeWith
    <3>3. CASE Stands(hdr, Changed) /\ h = hdr
      <4>1. StandsFor(file, stable, Powered, h, Changed)
        BY <3>3, StandsWeak
      <4> QED
        BY <2>2, <3>1, <3>3, <4>1 DEF SafeWith
    <3> QED
      BY <3>1, <3>2, <3>3
  <2> QED
    BY <1>7, <2>3, <2>4
<1> QED
  BY <1>2, <1>3, <1>4, <1>5, <1>6, <1>7 DEF TypeOK, TxPc

LEMMA EndSafe ==
  ASSUME SizeAssumption, FreeAssumption, TypeOK, JournalInv, OneKind', Terminate,
         NEW h, h = file[0] \/ (Powered /\ h = stable[0]), file'[0] = h,
         \A b \in Needed(file, h) : file'[b] = file[b],
         Powered' => stable'[0] = h /\ \A b \in Needed(file, h) : stable'[b] = file[b],
         UNCHANGED <<work, before>>,
         IF Outside THEN result' = result ELSE result' \in {"crash", "error"}
  PROVE  JournalInv'
<1>1. PICK db : SafeWith(h, db)
  BY SafeNow
<1>2. StandsFor(file, stable, Powered, h, db) /\ Intact(file, h) /\ Image(file, h) = db
  BY <1>1 DEF SafeWith, StandsFor
<1>3. StandsFor(file', stable', Powered', h, db)
  BY <1>2, StandsSame
<1>4. Said(db)'
  <2>1. CASE db = before /\ (Outside => result \in {"cancelled", "crash", "error"})
    BY <2>1 DEF Said
  <2>2. CASE db = Changed /\ ~h.inTx /\ (Outside => result \in {"ok", "crash", "error"})
    <3>1. result' \in {"ok", "crash", "error"} /\ ~file'[0].inTx
      BY <2>2
    <3>2. Changed' = Changed
      BY <1>2, <2>2, ChangedSame
    <3> QED
      BY <2>2, <3>1, <3>2 DEF Said
  <2> QED
    BY <1>1, <2>1, <2>2 DEF SafeWith
<1> QED
  BY <1>3, <1>4, ToIdle

LEMMA KillJournal ==
  ASSUME SizeAssumption, FreeAssumption, TypeOK, JournalInv, Kill
  PROVE  JournalInv'
<1>1. /\ Spend("kill") /\ Terminate /\ UNCHANGED <<work, before>> /\ file' = file
      /\ result' = IF Outside THEN result ELSE "crash"
  BY DEF Kill, Crashed, disk, Outside
<1>2. OneKind' /\ ~Powered'
  BY <1>1, LeftFailed DEF JournalInv
<1> QED
  BY <1>1, <1>2, EndSafe

LEMMA PowerFailureJournal ==
  ASSUME SizeAssumption, FreeAssumption, TypeOK, JournalInv, PowerFailure
  PROVE  JournalInv'
<1>1. /\ Spend("power") /\ Terminate /\ UNCHANGED <<work, before>> /\ stable' = file'
      /\ result' = IF Outside THEN result ELSE "crash"
  BY DEF PowerFailure, Crashed, Outside
<1>2. OneKind' /\ Powered
  BY <1>1, LeftPower DEF JournalInv
<1>3. \A b \in Block : file'[b] = file[b] \/ file'[b] = stable[b]
  BY DEF PowerFailure
<1> DEFINE h == file'[0]
<1>4. h = file[0] \/ h = stable[0]
  BY <1>3, NoneTyped
<1>5. PICK db : SafeWith(h, db)
  BY <1>2, <1>4, SafeNow
<1>6. /\ \A b \in Needed(file, h) : stable[b] = file[b]
      /\ Intact(file, h)
  BY <1>2, <1>5 DEF SafeWith, StandsFor
<1>7. \A b \in Needed(file, h) : b \in Block
  BY <1>6, IntactFacts
<1>8. \A b \in Needed(file, h) : file'[b] = file[b]
  BY <1>3, <1>6, <1>7
<1> QED
  BY <1>1, <1>2, <1>4, <1>8, EndSafe

-----------------------------------------------------------------------------
(* The next transaction begins, undoing the last one if need be.            *)

LEMMA BeginJournal ==
  ASSUME SizeAssumption, FreeAssumption, TypeOK, TypeOK', JournalInv, Begin
  PROVE  JournalInv'
<1> DEFINE h == file[0]
<1>1. pc = "idle" /\ file' = file /\ stable' = stable /\ left' = left
  BY DEF Begin, disk
<1>2. IdleInv /\ OneKind /\ OneKind' /\ Powered' = Powered
  BY <1>1, LeftSame DEF JournalInv
<1>3. /\ StandsFor(file, stable, Powered, h, Now) /\ Intact(file, h) /\ Said(Now) /\ idx = 0
      /\ Powered => stable[0] = h
  BY <1>2, StandsWeak DEF IdleInv, Stands, StandsFor
<1>4. h \in Header /\ Image(file, h) = Now
  BY <1>3, IntactFacts DEF Now
<1>5. CASE ~h.inTx /\ h.rollback = 0
  <2>1. Enter(h)
    BY <1>5 DEF Begin
  <2>2. HeaderOK(h)
    BY <1>3, <1>5 DEF Intact, IntactRest
  <2>3. Needed(file, h) = Live(h)
    BY <1>5, <2>2, NoChain
  <2>4. Powered' => stable'[0] = h /\ \A b \in Live(h) : stable'[b] = file[b]
    BY <1>1, <1>2, <1>3, <2>3 DEF StandsFor
  <2> QED
    BY <1>1, <1>2, <1>5, <2>1, <2>2, <2>4, ToEnter
<1>6. CASE h.inTx \/ h.rollback # 0
  <2>1. /\ hdr' = h /\ walk' = h.rollback /\ why' = "begin" /\ idx' = 0
        /\ pc' = (IF h.inTx THEN "undo" ELSE "free")
        /\ UNCHANGED <<work, before, result>>
    BY <1>3, <1>6 DEF Begin, ghost
  <2>2. Lasting' = Powered
    BY <1>2, <2>1 DEF Lasting, TxPc, Powered
  <2>3. OnDisk' = {h}
    BY <1>1, <1>3, <2>2 DEF OnDisk
  <2>4. Now' = Now
    BY <1>1 DEF Now
  <2>5. CASE h.inTx
    <3> DEFINE S == ChainOf(file, h)
               g == OldHeader(file, h)
    <3>1. IntactJournal(file, h, S, g)
      BY <1>3, <2>5 DEF Intact
    <3>2. IsList(file, h.rollback, S) /\ h.rollback # 0
      BY <3>1 DEF IntactJournal
    <3>3. Now = before /\ result \in {"cancelled", "crash", "error"}
      BY <1>3, <2>5 DEF Said
    <3>4. Journal' = S /\ OldHeader(file, hdr)' = g
      BY <1>1, <2>1 DEF Journal
    <3>5. h.rollback \in S /\ RestoredTo(file, S, h.rollback, 0)
      <4> HIDE DEF S
      <4> QED
        BY <3>2, RestoredStart
    <3>6. 0 <= Len(file[h.rollback].target)
      <4>1. file[h.rollback] \in Chunk
        <5> HIDE DEF S
        <5> QED
          BY <3>2, <3>5, ListFacts
      <4>2. file[h.rollback].target \in Seq(Block \ {0})
        BY <4>1, ChunkFields
      <4> QED
        BY <4>2
    <3>7. OldDisk(file, stable, Powered, S, g, h, before)
      <4>1. \A c \in S : \A b \in Targets(file[c]) : Guards(file, h, b)
        BY <2>5 DEF Guards, AllTargets
      <4> HIDE DEF S, g
      <4> QED
        BY <1>3, <2>5, <3>3, <3>5, <4>1 DEF OldDisk
    <3>8. OldOnDisk(OldHeader(file, hdr))'
      BY <1>1, <2>1, <2>2, <2>3, <3>4, <3>7 DEF OldOnDisk
    <3> HIDE DEF S, g
    <3>9. UndoInv'
      BY <1>1, <1>2, <1>3, <1>4, <2>1, <2>5, <3>3, <3>4, <3>5, <3>6, <3>8 DEF UndoInv
    <3> QED
      BY <1>2, <2>1, <2>5, <3>9 DEF JournalInv, TxPc
  <2>6. CASE ~h.inTx
    <3>1. Stands(hdr, Now)' /\ \A x \in OnDisk' : ~x.inTx /\ Stands(x, Now)'
      BY <1>1, <1>3, <2>1, <2>2, <2>3, <2>4, <2>6 DEF Stands
    <3>2. Said(Now)'
      BY <1>1, <1>3, <2>1, <2>4 DEF Said, Changed
    <3>3. FreeInv'
      BY <1>1, <1>2, <1>3, <2>1, <2>6, <3>1, <3>2 DEF FreeInv
    <3> QED
      BY <1>2, <2>1, <2>6, <3>3 DEF JournalInv, TxPc
  <2> QED
    BY <2>5, <2>6
<1> QED
  BY <1>5, <1>6

LEMMA UndoBlockJournal ==
  ASSUME SizeAssumption, TypeOK, TypeOK', JournalInv, UndoBlock
  PROVE  JournalInv'
<1> DEFINE S == Journal
           g == OldHeader(file, hdr)
           t == file[walk].target[idx + 1]
<1>1. /\ pc = "undo" /\ pc' = "undo" /\ idx < Len(file[walk].target) /\ idx' = idx + 1
      /\ Write(t, file[walk + 1 + idx])
      /\ UNCHANGED <<hdr, walk, why, before, result, left>>
  BY DEF UndoBlock, memory, ghost
<1>2. UndoInv /\ OneKind /\ OneKind' /\ Powered' = Powered /\ OneKind'
  BY <1>1, LeftSame DEF JournalInv
<1>3. /\ hdr.inTx /\ Intact(file, hdr) /\ Image(file, hdr) = before /\ walk \in S
      /\ RestoredTo(file, S, walk, idx)
      /\ \A h \in OnDisk : OldDisk(file, stable, Lasting, S, g, h, before)
      /\ Powered => stable[0] = file[0]
      /\ why \in {"begin", "cancel"} /\ result \in {"cancelled", "crash", "error"}
  BY <1>2 DEF UndoInv, OldOnDisk
<1>4. IntactJournal(file, hdr, S, g)
  BY <1>3 DEF Intact, Journal
<1>5. g = SavedHeader(file, S)
  BY <1>3 DEF OldHeader, Journal
<1>6. Journal = ChainOf(file, hdr)
  BY DEF Journal
<1> HIDE DEF S, g
<1>7. /\ hdr.rollback \in Block /\ hdr.rollback # 0 /\ IsList(file, hdr.rollback, S)
      /\ HeaderOK(g) /\ ~g.inTx /\ g.rollback = 0 /\ g.free \in Nat /\ hdr.free \in Nat
      /\ Fits(file, S, g.free, hdr.free) /\ SavesBelow(file, S, g.free)
  BY <1>4, HeaderFields DEF IntactJournal, HeaderOK
<1>8. file[walk] \in Chunk /\ file[walk].target \in Seq(Block \ {0})
  BY <1>3, <1>7, ListFacts, ChunkFields
<1>9. idx \in Nat /\ t \in Block \ {0}
  BY <1>1, <1>8 DEF TypeOK
<1>10. /\ file'[t] = file[walk + 1 + idx] /\ \A x \in Block : x # t => file'[x] = file[x]
       /\ \A x \in Block : stable'[x] = stable[x] \/ (x = t /\ stable'[x] = file[x])
  BY <1>1, <1>9, WriteIs
<1>11. /\ t \in Targets(file[walk]) /\ CopyOf(file, walk, t) = file[walk + 1 + idx]
       /\ \A b \in Kept(file, S) : file'[b] = file[b]
       /\ RestoredTo(file', S, walk, idx + 1)
  <2> DEFINE u == t
  <2>1. u = file[walk].target[idx + 1]
    OBVIOUS
  <2>2. file'[u] = file[walk + 1 + idx] /\ \A x \in Block : x # u => file'[x] = file[x]
    BY <1>10
  <2> HIDE DEF u
  <2> QED
    BY <1>1, <1>3, <1>7, <1>9, <2>1, <2>2, RestoredWrite
<1> HIDE DEF t
<1>12. Guards(file, hdr, t)
  BY <1>3, <1>6, <1>11 DEF Guards, AllTargets, S
<1>13. \A b \in Needed(file, hdr) : file'[b] = file[b]
  BY <1>3, <1>10, <1>12, GuardsNeeded, IntactFacts
<1>14. /\ Intact(file', hdr) /\ Image(file', hdr) = before
       /\ ChainOf(file', hdr) = S /\ OldHeader(file', hdr) = g
  BY <1>3, <1>13, Frame DEF S, g, Journal
<1>15. file'[walk] = file[walk]
  <2>1. walk \in Segment(file, walk)
    BY <1>3, <1>7, ListFacts
  <2> QED
    BY <1>3, <1>11, <2>1, KeptIs
<1>16. file'[0] = file[0] /\ stable'[0] = stable[0]
  BY <1>9, <1>10, NoneTyped
<1>17. Lasting' = Lasting /\ OnDisk' = OnDisk
  <2>1. Lasting' = Lasting
    BY <1>1, <1>2 DEF Lasting
  <2> QED
    BY <1>16, <2>1 DEF OnDisk
<1>18. ASSUME NEW h \in OnDisk PROVE OldDisk(file', stable', Lasting, S, g, h, before)
  <2>1. file'[t] = CopyOf(file, walk, t) /\ \A b \in Block : b # t => file'[b] = file[b]
    BY <1>10, <1>11
  <2>2. S # {} => SavedHeader(file, S) = g
    BY <1>5
  <2>3. OldDisk(file, stable, Lasting, S, g, h, before)
    BY <1>3
  <2> DEFINE d == Lasting
  <2> HIDE DEF d
  <2>4. OldDisk(file', stable', d, S, g, h, before)
    BY <1>3, <1>7, <1>10, <1>11, <2>1, <2>2, <2>3, OldDiskUndo DEF d
  <2> QED
    BY <2>4 DEF d
<1>19. OldOnDisk(OldHeader(file, hdr))' /\ Journal' = S
  BY <1>1, <1>14, <1>17, <1>18 DEF OldOnDisk, Journal
<1>20. idx + 1 <= Len(file[walk].target)
  BY <1>1, <1>8, <1>9
<1>21. UndoInv'
  BY <1>1, <1>2, <1>3, <1>11, <1>14, <1>15, <1>16, <1>19, <1>20 DEF UndoInv
<1> QED
  BY <1>1, <1>2, <1>21 DEF JournalInv, TxPc

LEMMA UndoNextChunkJournal ==
  ASSUME SizeAssumption, TypeOK, JournalInv, UndoNextChunk
  PROVE  JournalInv'
<1>1. /\ pc = "undo" /\ pc' = "undo" /\ idx = Len(file[walk].target) /\ idx' = 0
      /\ file[walk].next # 0 /\ walk' = file[walk].next
      /\ file' = file /\ stable' = stable
      /\ UNCHANGED <<hdr, why, before, result, left>>
  BY DEF UndoNextChunk, memory, ghost, disk
<1>2. UndoInv /\ OneKind /\ OneKind' /\ Powered' = Powered
  BY <1>1, LeftSame DEF JournalInv
<1>3. IsList(file, hdr.rollback, Journal)
  BY <1>2, IntactFacts DEF UndoInv, Journal
<1>4. walk' \in Journal /\ RestoredTo(file, Journal, walk', 0)
  <2>1. walk \in Journal /\ RestoredTo(file, Journal, walk, Len(file[walk].target))
    BY <1>1, <1>2 DEF UndoInv
  <2> QED
    BY <1>1, <1>3, <2>1, RestoredNext
<1>5. 0 <= Len(file[walk'].target)
  <2>1. file[walk'] \in Chunk
    BY <1>3, <1>4, ListFacts
  <2> QED
    BY <2>1, ChunkFields
<1>6. Journal' = Journal /\ Lasting' = Lasting
  BY <1>1, <1>2 DEF Journal, Lasting
<1>7. OnDisk' = OnDisk
  BY <1>1, <1>6 DEF OnDisk
<1>8. OldOnDisk(OldHeader(file, hdr))'
  BY <1>1, <1>2, <1>6, <1>7 DEF OldOnDisk, UndoInv
<1>9. UndoInv'
  BY <1>1, <1>2, <1>4, <1>5, <1>6, <1>8 DEF UndoInv
<1> QED
  BY <1>1, <1>2, <1>9 DEF JournalInv, TxPc

LEMMA UndoFlushJournal ==
  ASSUME SizeAssumption, TypeOK, JournalInv, UndoFlush
  PROVE  JournalInv'
<1> DEFINE g == OldHeader(file, hdr)
<1>1. /\ pc = "undo" /\ pc' = "undoHeader" /\ idx = Len(file[walk].target)
      /\ file[walk].next = 0 /\ hdr' = file[walk + 1 + idx]
      /\ file' = file /\ stable' = file
      /\ UNCHANGED <<why, before, result, left>>
  BY DEF UndoFlush, FlushFile, flush, ghost
<1>2. UndoInv /\ OneKind /\ OneKind' /\ Powered' = Powered
  BY <1>1, LeftSame DEF JournalInv
<1>3. /\ Intact(file, hdr) /\ hdr.inTx /\ walk \in ChainOf(file, hdr)
      /\ RestoredTo(file, ChainOf(file, hdr), walk, Len(file[walk].target))
      /\ Image(file, hdr) = before
  BY <1>1, <1>2 DEF UndoInv, Journal
<1>4. /\ file[walk + 1 + Len(file[walk].target)] = g
      /\ Intact(file, g) /\ Image(file, g) = Image(file, hdr)
      /\ ~g.inTx /\ g.rollback = 0
  BY <1>1, <1>3, RestoredEnd
<1>5. hdr' = g
  BY <1>1, <1>4
<1>6. Lasting' = Powered /\ OnDisk' = {file[0]}
  <2>1. Lasting' = Powered
    BY <1>1, <1>2 DEF Lasting, TxPc, Powered
  <2> QED
    BY <1>1, <2>1 DEF OnDisk
<1>7. Stands(hdr, before)'
  BY <1>1, <1>3, <1>4, <1>5 DEF Stands, StandsFor
<1>8. \A h \in OnDisk' : Stands(h, before)'
  <2>1. OldDisk(file, stable, Lasting, Journal, g, file[0], before)
    BY <1>2, OnDiskIs DEF UndoInv, OldOnDisk
  <2>2. Intact(file, file[0]) /\ Image(file, file[0]) = before
    BY <2>1 DEF OldDisk, StandsFor
  <2> QED
    BY <1>1, <1>6, <2>2 DEF Stands, StandsFor
<1>9. UndoneInv'
  BY <1>1, <1>2, <1>4, <1>5, <1>7, <1>8 DEF UndoneInv, UndoInv
<1> QED
  BY <1>1, <1>2, <1>9 DEF JournalInv, TxPc

(* A write of the header leaves what the blocks stand for.                  *)
LEMMA HeaderWritten ==
  ASSUME SizeAssumption, TypeOK, NEW n, Write(0, n)
  PROVE  /\ file'[0] = n /\ \A b \in Block : b # 0 => file'[b] = file[b]
         /\ stable'[0] \in {stable[0], file[0]}
         /\ \A b \in Block : b # 0 => stable'[b] = stable[b]
         /\ \A h, d, db : StandsFor(file, stable, d, h, db) =>
              StandsFor(file', stable', d, h, db)
<1>1. /\ file'[0] = n /\ \A b \in Block : b # 0 => file'[b] = file[b]
      /\ stable'[0] \in {stable[0], file[0]}
      /\ \A b \in Block : b # 0 => stable'[b] = stable[b]
  BY NoneTyped, WriteIs
<1>2. ASSUME NEW h, NEW d, NEW db, StandsFor(file, stable, d, h, db)
      PROVE  StandsFor(file', stable', d, h, db)
  <2>1. \A b \in Needed(file, h) : b \in Block /\ b # 0
    BY <1>2, IntactFacts DEF StandsFor
  <2>2. \A b \in Needed(file, h) : file'[b] = file[b]
    BY <1>1, <2>1
  <2>3. d => \A b \in Needed(file, h) : stable'[b] = file[b]
    BY <1>1, <1>2, <2>1 DEF StandsFor
  <2> QED
    BY <1>2, <2>2, <2>3, StandsSame
<1> QED
  BY <1>1, <1>2

LEMMA UndoHeaderJournal ==
  ASSUME SizeAssumption, TypeOK, JournalInv, UndoHeader
  PROVE  JournalInv'
<1>1. UndoneInv /\ OneKind /\ pc = "undoHeader" /\ UNCHANGED <<work, before, result, left>>
  BY DEF JournalInv, UndoHeader, ghost
<1>2. ~hdr.inTx
  BY <1>1 DEF UndoneInv
<1>3. Write(0, hdr) /\ pc' = "undoEnd" /\ UNCHANGED <<hdr, why>>
  BY <1>2 DEF UndoHeader, memory, flush
<1>4. OneKind' /\ Powered' = Powered /\ Lasting' = Lasting /\ Lasting = Powered
  BY <1>1, <1>3, LeftSame DEF Lasting, TxPc, Powered
<1>5. /\ file'[0] = hdr /\ stable'[0] \in {stable[0], file[0]}
      /\ \A h, d, db : StandsFor(file, stable, d, h, db) =>
           StandsFor(file', stable', d, h, db)
  BY <1>3, HeaderWritten
<1>6. Stands(hdr, before)'
  BY <1>1, <1>3, <1>4, <1>5 DEF UndoneInv, Stands
<1>7. \A h \in OnDisk' : h = hdr \/ h \in OnDisk
  BY <1>4, <1>5 DEF OnDisk
<1>8. \A h \in OnDisk' : Stands(h, before)'
  BY <1>1, <1>4, <1>5, <1>6, <1>7 DEF UndoneInv, Stands
<1>9. UndoneInv'
  BY <1>1, <1>2, <1>3, <1>5, <1>6, <1>8 DEF UndoneInv
<1> QED
  BY <1>3, <1>4, <1>9 DEF JournalInv, TxPc

LEMMA UndoEndJournal ==
  ASSUME SizeAssumption, FreeAssumption, TypeOK, TypeOK', JournalInv, UndoEnd
  PROVE  JournalInv'
<1>1. /\ UndoneInv /\ OneKind /\ pc = "undoEnd" /\ UNCHANGED left
      /\ file' = file /\ stable' = file
  BY DEF JournalInv, UndoEnd, FlushFile
<1>2. OneKind' /\ Powered' = Powered
  BY <1>1, LeftSame
<1>3. /\ ~hdr.inTx /\ hdr.rollback = 0 /\ Stands(hdr, before) /\ file[0] = hdr
      /\ result \in {"cancelled", "crash", "error"}
  BY <1>1 DEF UndoneInv
<1>4. CASE why = "cancel"
  <2>1. Terminate /\ UNCHANGED <<before, result>>
    BY <1>4 DEF UndoEnd, ghost
  <2>2. PICK db : db = before
    OBVIOUS
  <2>3. Said(db)'
    BY <1>3, <2>1, <2>2 DEF Said
  <2>4. StandsFor(file', stable', Powered', file'[0], db)
    BY <1>1, <1>3, <2>2 DEF Stands, StandsFor
  <2> QED
    BY <1>1, <1>2, <2>1, <2>3, <2>4, ToIdle
<1>5. CASE why # "cancel"
  <2>1. Enter(hdr)
    BY <1>3, <1>5 DEF UndoEnd
  <2>2. HeaderOK(hdr)
    BY <1>3 DEF Stands, StandsFor, Intact, IntactRest
  <2> QED
    BY <1>1, <1>2, <1>3, <2>1, <2>2, ToEnter
<1> QED
  BY <1>4, <1>5

-----------------------------------------------------------------------------
(* deallocate_rollback_chain: the newest chunk becomes free space.          *)

LEMMA KeptSplit ==
  ASSUME NEW f, NEW S, NEW r \in S, NEW T, S = T \cup {r}
  PROVE  Kept(f, S) = Kept(f, T) \cup Segment(f, r)
BY DEF Kept

(* What the two ways of FreeChunk have in common: the live blocks lose the  *)
(* chunk, the free ones do not touch the rest of the chain.                 *)
LEMMA FreedSame ==
  ASSUME SizeAssumption, NEW f, NEW h, Intact(f, h), ~h.inTx, h.rollback # 0,
         NEW n, HeaderOK(n), ~n.inTx, n.rollback = f[h.rollback].next,
         NEW T, T = {x \in ChainOf(f, h) : x < h.rollback},
         Live(n) = Live(h) \ Segment(f, h.rollback),
         Fits(f, T, 1, n.free), Kept(f, T) \cap n.super = {}
  PROVE  Intact(f, n) /\ Image(f, n) = Image(f, h) /\ Needed(f, n) \subseteq Needed(f, h)
<1> DEFINE S == ChainOf(f, h)
           r == h.rollback
<1>1. IsList(f, r, S)
  BY IntactFacts
<1>2. T = {x \in S : x < r}
  OBVIOUS
<1> HIDE DEF S
<1>3. r \in S /\ \A c \in S : c <= r
  BY <1>1 DEF IsList
<1>4. IsList(f, f[r].next, T)
  <2> HIDE DEF r
  <2>1. IsList(f, f[r].next, {x \in S : x < r})
    BY <1>1, <1>3, ListBelow
  <2> QED
    BY <1>2, <2>1
<1>5. S = T \cup {r}
  <2>1. \A c \in S : c \in Nat /\ r \in Nat
    BY <1>1, <1>3, ListFacts
  <2>2. \A c \in S : c < r \/ c = r
    BY <1>3, <2>1
  <2> QED
    BY <1>2, <1>3, <2>2
<1>6. Kept(f, S) = Kept(f, T) \cup Segment(f, r)
  BY <1>3, <1>5, KeptSplit
<1>7. ChainOf(f, n) = T
  <2>1. n.rollback \in Block /\ IsList(f, n.rollback, T)
    BY <1>4, HeaderFields DEF HeaderOK
  <2> QED
    BY <2>1, ListIsChain DEF ChainOf
<1>8. Intact(f, n)
  BY <1>4, <1>7 DEF Intact, IntactRest
<1>9. Live(n) \ Kept(f, T) = Live(h) \ Kept(f, S)
  <2> DEFINE A == Live(h)
             B == Segment(f, r)
             C == Kept(f, T)
  <2>1. Live(n) = A \ B /\ Kept(f, S) = C \cup B
    BY <1>6
  <2> HIDE DEF A, B, C
  <2>2. (A \ B) \ C = A \ (C \cup B)
    OBVIOUS
  <2> QED
    BY <2>1, <2>2 DEF A, C
<1>10. Contents(f, n, T) = Contents(f, h, S)
  BY <1>9 DEF Contents
<1>11. Image(f, n) = Image(f, h)
  BY <1>7, <1>10 DEF Image, S
<1>12. Needed(f, n) \subseteq Needed(f, h)
  BY DEF Needed
<1> QED
  BY <1>8, <1>11, <1>12

LEMMA ChunkCutOff ==
  ASSUME SizeAssumption, NEW f, NEW h, Intact(f, h), ~h.inTx, h.rollback # 0,
         h.rollback + Chunked(f[h.rollback]) = h.free,
         NEW e \in 1..h.rollback, e..h.rollback - 1 \subseteq h.super,
         NEW n \in Header, ~n.inTx, n.rollback = f[h.rollback].next,
         n.free = e, n.super = h.super \ (e..h.rollback - 1)
  PROVE  Intact(f, n) /\ Image(f, n) = Image(f, h) /\ Needed(f, n) \subseteq Needed(f, h)
<1> DEFINE S == ChainOf(f, h)
           r == h.rollback
           k == Chunked(f[h.rollback])
           T == {x \in S : x < r}
<1>1. /\ IsList(f, r, S) /\ Fits(f, S, 1, h.free) /\ Kept(f, S) \cap h.super = {}
      /\ HeaderOK(h)
  BY DEF Intact, IntactRest
<1> HIDE DEF S
<1>2. r \in S
  BY <1>1 DEF IsList
<1>3. r \in Nat /\ r >= 1 /\ k \in Nat /\ k >= 1 /\ Segment(f, r) = r..h.free - 1
  <2>1. r \in Nat /\ r >= 1 /\ k \in Nat /\ k >= 1
    BY <1>1, <1>2, ListFacts
  <2> HIDE DEF k
  <2>2. r + k - 1 = h.free - 1
    BY <2>1 DEF k
  <2> QED
    BY <2>1, <2>2 DEF Segment, k
<1>4. Segment(f, r) \subseteq Kept(f, S)
  BY <1>2 DEF Kept
<1>5. h.super \subseteq 1..h.free - 1 /\ h.free \in 1..NBlocks /\ NBlocks \in Nat
  BY <1>1, HeaderFields, BlockIs DEF HeaderOK
<1>6. h.super \cap (r..h.free - 1) = {}
  BY <1>1, <1>3, <1>4
<1>7. h.free = r + k
  OBVIOUS
<1> DEFINE P == h.super
           m == h.free
<1>8. P \subseteq 1..m - 1 /\ P \cap (r..m - 1) = {} /\ m = r + k /\ e..r - 1 \subseteq P
      /\ e \in 1..r
  BY <1>5, <1>6, <1>7
<1>9. \A c \in T : c \in Nat /\ 1 <= c /\ Chunked(f[c]) \in Nat /\ Chunked(f[c]) >= 1
                   /\ c + Chunked(f[c]) <= e
  <2> SUFFICES ASSUME NEW c \in T
               PROVE  c \in Nat /\ 1 <= c /\ Chunked(f[c]) \in Nat /\ Chunked(f[c]) >= 1
                      /\ c + Chunked(f[c]) <= e
    OBVIOUS
  <2> DEFINE j == Chunked(f[c])
  <2>1. c \in S /\ c < r
    OBVIOUS
  <2>2. c \in Nat /\ 1 <= c /\ j \in Nat /\ j >= 1
    BY <1>1, <2>1, ListFacts
  <2>3. c + j <= r
    BY <1>1, <1>2, <2>1 DEF IsList
  <2>4. \A b \in c..c + j - 1 : b \notin P
    BY <1>1, <2>1 DEF Kept, Segment
  <2> HIDE DEF j, P
  <2>5. c + j <= e
    <3> SUFFICES ASSUME ~(c + j <= e) PROVE FALSE
      OBVIOUS
    <3>1. c + j - 1 \in c..c + j - 1
      BY <2>2
    <3>2. c + j - 1 \in e..r - 1
      BY <1>3, <2>2, <2>3
    <3> QED
      BY <1>8, <2>4, <3>1, <3>2
  <2> QED
    BY <2>2, <2>5 DEF j
<1>10. HeaderOK(n)
  <2> HIDE DEF P, m, r, k
  <2>1. P \ (e..r - 1) \subseteq 1..e - 1
    BY <1>3, <1>8
  <2> QED
    BY <2>1 DEF HeaderOK, P, r
<1>11. Live(n) = Live(h) \ Segment(f, r)
  <2>1. Live(n) = (1..e - 1) \ (P \ (e..r - 1)) /\ Live(h) = (1..m - 1) \ P
        /\ Segment(f, r) = r..m - 1
    BY <1>3 DEF Live
  <2> HIDE DEF P, m, k, r
  <2>2. (1..e - 1) \ (P \ (e..r - 1)) = ((1..m - 1) \ P) \ (r..m - 1)
    BY <1>3, <1>8
  <2> QED
    BY <2>1, <2>2
<1>12. Fits(f, T, 1, n.free)
  BY <1>9 DEF Fits
<1>13. Kept(f, T) \cap n.super = {}
  BY <1>1 DEF Kept
<1>14. T = {x \in ChainOf(f, h) : x < h.rollback}
  BY DEF S
<1> HIDE DEF T
<1> QED
  BY <1>10, <1>11, <1>12, <1>13, <1>14, FreedSame

LEMMA ChunkFreed ==
  ASSUME SizeAssumption, NEW f, NEW h, Intact(f, h), ~h.inTx, h.rollback # 0,
         NEW n \in Header, ~n.inTx, n.rollback = f[h.rollback].next,
         n.free = h.free,
         n.super = h.super \cup (h.rollback..h.rollback + Chunked(f[h.rollback]) - 1)
  PROVE  Intact(f, n) /\ Image(f, n) = Image(f, h) /\ Needed(f, n) \subseteq Needed(f, h)
<1> DEFINE S == ChainOf(f, h)
           r == h.rollback
           k == Chunked(f[h.rollback])
           T == {x \in S : x < r}
<1>1. /\ IsList(f, r, S) /\ Fits(f, S, 1, h.free) /\ Kept(f, S) \cap h.super = {}
      /\ HeaderOK(h)
  BY DEF Intact, IntactRest
<1> HIDE DEF S
<1>2. r \in S
  BY <1>1 DEF IsList
<1>3. Segment(f, r) = r..r + k - 1
  BY DEF Segment
<1>4. n.super = h.super \cup Segment(f, r)
  BY <1>3
<1>5. h.free \in Nat /\ h.super \subseteq 1..h.free - 1
  BY <1>1, HeaderFields DEF HeaderOK
<1>6. \A b \in Segment(f, r) : b \in 1..h.free - 1
  <2> SUFFICES ASSUME NEW b \in Segment(f, r) PROVE b \in 1..h.free - 1
    OBVIOUS
  <2>1. b \in Kept(f, S)
    BY <1>2, KeptIs
  <2>2. b \in Nat /\ 1 <= b /\ b < h.free
    BY <1>1, <1>5, <2>1, FitsKept
  <2> QED
    BY <1>5, <2>2
<1>7. HeaderOK(n)
  BY <1>4, <1>5, <1>6 DEF HeaderOK
<1>8. Live(n) = Live(h) \ Segment(f, r)
  BY <1>4 DEF Live
<1>9. Fits(f, T, 1, n.free)
  BY <1>1 DEF Fits
<1>10. ASSUME NEW b \in Kept(f, T) PROVE b \notin Segment(f, r)
  <2>1. PICK c \in T : b \in Segment(f, c)
    BY KeptIs
  <2> DEFINE j == Chunked(f[c])
  <2>2. c \in Nat /\ j \in Nat /\ c + j <= r /\ r \in Nat /\ k \in Nat
    <3>1. c \in S /\ c < r
      OBVIOUS
    <3>2. c + j <= r
      BY <1>1, <1>2, <3>1 DEF IsList
    <3> QED
      BY <1>1, <1>2, <3>1, <3>2, ListFacts
  <2>3. b \in c..c + j - 1
    BY <2>1 DEF Segment
  <2> HIDE DEF j, k, r
  <2>4. b \notin r..r + k - 1
    BY <2>2, <2>3
  <2> QED
    BY <1>3, <2>4
<1>11. Kept(f, T) \cap n.super = {}
  <2>1. Kept(f, T) \subseteq Kept(f, S)
    BY DEF Kept
  <2> HIDE DEF T
  <2> QED
    BY <1>1, <1>4, <1>10, <2>1
<1>12. T = {x \in ChainOf(f, h) : x < h.rollback}
  BY DEF S
<1> HIDE DEF T
<1> QED
  BY <1>7, <1>8, <1>9, <1>11, <1>12, FreedSame

(* The free phase: the lasting of a header, before and after a step.        *)
LEMMA FreePlaces ==
  ASSUME TypeOK, JournalInv, pc \in {"free", "freeHeader", "freeEnd"}, UNCHANGED left
  PROVE  /\ FreeInv /\ OneKind' /\ Powered' = Powered /\ Lasting = Powered
         /\ pc' \in {"free", "freeHeader", "freeEnd"} => Lasting' = Powered
<1>1. FreeInv /\ OneKind /\ OneKind' /\ Powered' = Powered
  BY LeftSame DEF JournalInv
<1> QED
  BY <1>1 DEF Lasting, TxPc, Powered

LEMMA FreeChunkJournal ==
  ASSUME SizeAssumption, TypeOK, TypeOK', JournalInv, FreeChunk
  PROVE  JournalInv'
<1> DEFINE r == hdr.rollback
<1>1. /\ pc = "free" /\ pc' = "free" /\ file' = file /\ stable' = stable
      /\ UNCHANGED <<why, work, before, result, left>>
      /\ r # 0
  BY DEF FreeChunk, disk, flush, ghost
<1>2. /\ FreeInv /\ OneKind' /\ Powered' = Powered /\ Lasting = Powered /\ Lasting' = Powered
  BY <1>1, FreePlaces
<1>3. hdr \in Header /\ hdr' \in Header /\ ~hdr.inTx
  BY <1>2 DEF TypeOK, FreeInv
<1>4. PICK db : db = Now
  OBVIOUS
<1>5. Intact(file, hdr) /\ Image(file, hdr) = db
  BY <1>2, <1>4 DEF FreeInv, Stands, StandsFor
<1>6. /\ Intact(file, hdr') /\ Image(file, hdr') = db
      /\ Needed(file, hdr') \subseteq Needed(file, hdr) /\ ~hdr'.inTx
  <2>1. CASE r + Chunked(file[r]) = hdr.free
    <3>1. PICK e \in 1..r :
            /\ e..r - 1 \subseteq hdr.super
            /\ hdr' = [hdr EXCEPT !.free = e, !.rollback = file[r].next,
                                  !.super = @ \ (e..r - 1)]
      BY <2>1 DEF FreeChunk
    <3>2. /\ ~hdr'.inTx /\ hdr'.rollback = file[r].next /\ hdr'.free = e
          /\ hdr'.super = hdr.super \ (e..r - 1)
      BY <1>3, <3>1 DEF Header
    <3> DEFINE n == hdr'
    <3>3. n \in Header
      BY <1>3
    <3> HIDE DEF n
    <3>4. /\ ~n.inTx /\ n.rollback = file[r].next /\ n.free = e
          /\ n.super = hdr.super \ (e..r - 1)
      BY <3>2 DEF n
    <3>5. Intact(file, n) /\ Image(file, n) = Image(file, hdr) /\ Needed(file, n) \subseteq Needed(file, hdr)
      BY <1>1, <1>3, <1>5, <2>1, <3>1, <3>3, <3>4, ChunkCutOff
    <3> QED
      BY <1>5, <3>4, <3>5 DEF n
  <2>2. CASE r + Chunked(file[r]) # hdr.free
    <3>1. hdr' = [hdr EXCEPT !.rollback = file[r].next,
                             !.super = @ \cup (r..r + Chunked(file[r]) - 1)]
      <4> DEFINE k == Chunked(file[r])
      <4>1. r \in Nat /\ k \in Nat
        BY <1>1, <1>3, HeaderFields, ChunkFields, BlockIs DEF FreeChunk
      <4>2. hdr' = [hdr EXCEPT !.rollback = file[r].next,
                               !.super = @ \cup (r..(r + k) - 1)]
        BY <2>2 DEF FreeChunk
      <4> HIDE DEF k
      <4>3. (r + k) - 1 = r + k - 1
        BY <4>1
      <4> QED
        BY <4>2, <4>3 DEF k
    <3>2. /\ ~hdr'.inTx /\ hdr'.rollback = file[r].next /\ hdr'.free = hdr.free
          /\ hdr'.super = hdr.super \cup (r..r + Chunked(file[r]) - 1)
      BY <1>3, <3>1 DEF Header
    <3> DEFINE n == hdr'
    <3>3. n \in Header
      BY <1>3
    <3> HIDE DEF n
    <3>4. /\ ~n.inTx /\ n.rollback = file[r].next /\ n.free = hdr.free
          /\ n.super = hdr.super \cup (r..r + Chunked(file[r]) - 1)
      BY <3>2 DEF n
    <3>5. Intact(file, n) /\ Image(file, n) = Image(file, hdr) /\ Needed(file, n) \subseteq Needed(file, hdr)
      BY <1>1, <1>3, <1>5, <3>3, <3>4, ChunkFreed
    <3> QED
      BY <1>5, <3>4, <3>5 DEF n
  <2> QED
    BY <2>1, <2>2
<1>7. Now' = db /\ OnDisk' = OnDisk
  BY <1>1, <1>2, <1>4 DEF Now, OnDisk
<1>8. Stands(hdr, Now)'
  BY <1>1, <1>2, <1>6, <1>7 DEF FreeInv, Stands, StandsFor
<1>9. \A h \in OnDisk' : ~h.inTx /\ Stands(h, Now)'
  BY <1>1, <1>2, <1>4, <1>7 DEF FreeInv, Stands
<1>10. Said(Now)'
  BY <1>1, <1>2, <1>4, <1>7 DEF FreeInv, Said, Changed
<1>11. FreeInv'
  BY <1>1, <1>2, <1>6, <1>8, <1>9, <1>10 DEF FreeInv
<1> QED
  BY <1>1, <1>2, <1>11 DEF JournalInv, TxPc

LEMMA FreeFlushJournal ==
  ASSUME SizeAssumption, TypeOK, JournalInv, FreeFlush
  PROVE  JournalInv'
<1>1. /\ pc = "free" /\ pc' = "freeHeader" /\ file' = file /\ stable' = file
      /\ UNCHANGED <<hdr, why, work, before, result, left>>
      /\ hdr.rollback = 0
  BY DEF FreeFlush, FlushFile, memory, flush, ghost
<1>2. /\ FreeInv /\ OneKind' /\ Powered' = Powered /\ Lasting = Powered /\ Lasting' = Powered
  BY <1>1, FreePlaces
<1>3. Now' = Now /\ OnDisk' = {file[0]} /\ file[0] \in OnDisk
  BY <1>1, <1>2 DEF Now, OnDisk
<1>4. Stands(hdr, Now)' /\ \A h \in OnDisk' : ~h.inTx /\ Stands(h, Now)'
  BY <1>1, <1>2, <1>3 DEF FreeInv, Stands, StandsFor
<1>5. Said(Now)'
  BY <1>1, <1>2, <1>3 DEF FreeInv, Said, Changed
<1>6. FreeInv'
  BY <1>1, <1>2, <1>4, <1>5 DEF FreeInv
<1> QED
  BY <1>1, <1>2, <1>6 DEF JournalInv, TxPc

LEMMA FreeHeaderJournal ==
  ASSUME SizeAssumption, FreeAssumption, TypeOK, JournalInv, FreeHeader
  PROVE  JournalInv'
<1>1. /\ pc = "freeHeader" /\ pc' = "freeEnd" /\ Write(0, hdr)
      /\ UNCHANGED <<hdr, why, work, before, result, left>>
  BY DEF FreeHeader, memory, flush, ghost
<1>2. /\ FreeInv /\ OneKind' /\ Powered' = Powered /\ Lasting = Powered /\ Lasting' = Powered
  BY <1>1, FreePlaces
<1>3. /\ file'[0] = hdr /\ stable'[0] \in {stable[0], file[0]}
      /\ \A b \in Block : b # 0 => file'[b] = file[b]
      /\ \A h, d, db : StandsFor(file, stable, d, h, db) =>
           StandsFor(file', stable', d, h, db)
  BY <1>1, HeaderWritten
<1>4. PICK db : db = Now
  OBVIOUS
<1>5. /\ StandsFor(file, stable, Powered, hdr, db) /\ ~hdr.inTx /\ Said(db)
      /\ \A h \in OnDisk : ~h.inTx /\ StandsFor(file, stable, Powered, h, db)
      /\ hdr.rollback = 0
  BY <1>1, <1>2, <1>4 DEF FreeInv, Stands
<1>6. StandsFor(file', stable', Powered, hdr, db)
  BY <1>3, <1>5
<1>7. Now' = db
  BY <1>3, <1>6 DEF Now, StandsFor
<1>8. \A h \in OnDisk' : h = hdr \/ h \in OnDisk
  BY <1>2, <1>3 DEF OnDisk
<1>9. \A h \in OnDisk' : ~h.inTx /\ StandsFor(file', stable', Powered, h, db)
  BY <1>3, <1>5, <1>6, <1>8
<1>10. Said(db)'
  <2>1. Intact(file, hdr) /\ Image(file, hdr) = db
    BY <1>5 DEF StandsFor
  <2>2. \A b \in Needed(file, hdr) : file'[b] = file[b]
    <3>1. \A b \in Needed(file, hdr) : b \in Block /\ b # 0
      BY <2>1, IntactFacts
    <3> QED
      BY <1>3, <3>1
  <2> QED
    BY <1>1, <1>3, <1>5, <2>1, <2>2, SaidSame
<1>11. FreeInv'
  BY <1>1, <1>2, <1>3, <1>5, <1>6, <1>7, <1>9, <1>10 DEF FreeInv, Stands, Said
<1> QED
  BY <1>1, <1>2, <1>11 DEF JournalInv, TxPc

LEMMA FreeEndJournal ==
  ASSUME SizeAssumption, FreeAssumption, TypeOK, TypeOK', JournalInv, FreeEnd
  PROVE  JournalInv'
<1>1. pc = "freeEnd" /\ file' = file /\ stable' = file /\ UNCHANGED left
  BY DEF FreeEnd, FlushFile
<1>2. /\ FreeInv /\ OneKind' /\ Powered' = Powered /\ Lasting = Powered
  BY <1>1, FreePlaces
<1>3. PICK db : db = Now
  OBVIOUS
<1>4. /\ StandsFor(file, stable, Powered, hdr, db) /\ ~hdr.inTx /\ Said(db)
      /\ hdr.rollback = 0 /\ file[0] = hdr
  BY <1>1, <1>2, <1>3 DEF FreeInv, Stands
<1>5. CASE why = "commit"
  <2>1. Terminate /\ UNCHANGED <<work, before, result>>
    BY <1>5 DEF FreeEnd, ghost
  <2>2. Said(db)'
    BY <1>1, <1>4, <2>1 DEF Said, Changed
  <2>3. StandsFor(file', stable', Powered', file'[0], db)
    BY <1>1, <1>2, <1>4 DEF StandsFor
  <2> QED
    BY <1>1, <1>2, <2>1, <2>2, <2>3, ToIdle
<1>6. CASE why # "commit"
  <2>1. Enter(hdr)
    BY <1>6 DEF FreeEnd
  <2>2. HeaderOK(hdr)
    BY <1>4 DEF StandsFor, Intact, IntactRest
  <2> QED
    BY <1>1, <1>2, <1>4, <2>1, <2>2, ToEnter
<1> QED
  BY <1>5, <1>6

-----------------------------------------------------------------------------
(* Inside a transaction: what a step leaves of the disk and of the chain.   *)

LEMMA TxList ==
  ASSUME SizeAssumption, TypeOK, SpaceInv
  PROVE  /\ hdr \in Header /\ hdr0 \in Header /\ hdr.rollback \in Block
         /\ HeaderOK(hdr0) /\ ~hdr0.inTx /\ hdr0.rollback = 0
         /\ hdr.free \in Nat /\ hdr.free \in 1..NBlocks
         /\ hdr0.free \in Nat /\ hdr0.free \in 1..NBlocks /\ hdr0.free <= hdr.free
         /\ IsList(file, hdr.rollback, Journal) /\ Fits(file, Journal, hdr0.free, hdr.free)
         /\ SavesBelow(file, Journal, hdr0.free)
         /\ Journal # {} => SavedHeader(file, Journal) = hdr0
         /\ \A b \in Kept(file, Journal) :
              b \in Nat /\ hdr0.free <= b /\ b < hdr.free /\ b \in Block /\ 1 <= b
<1>1. /\ HeaderOK(hdr0) /\ ~hdr0.inTx /\ hdr0.rollback = 0 /\ HeaderOK(hdr)
      /\ hdr0.free <= hdr.free
      /\ IsList(file, hdr.rollback, Journal) /\ Fits(file, Journal, hdr0.free, hdr.free)
      /\ SavesBelow(file, Journal, hdr0.free)
      /\ Journal # {} => SavedHeader(file, Journal) = hdr0
  BY DEF SpaceInv
<1>2. /\ hdr.rollback \in Block /\ hdr.free \in Nat /\ hdr.free \in 1..NBlocks
      /\ hdr0.free \in Nat /\ hdr0.free \in 1..NBlocks
      /\ hdr \in Header /\ hdr0 \in Header
  BY <1>1, HeaderFields DEF HeaderOK
<1>3. \A b \in Kept(file, Journal) :
        b \in Nat /\ hdr0.free <= b /\ b < hdr.free /\ b \in Block /\ 1 <= b
  BY <1>1, <1>2, FitsKept
<1> QED
  BY <1>1, <1>2, <1>3

LEMMA TxDisk ==
  ASSUME SizeAssumption, TypeOK, SpaceInv, DiskInv, NEW h \in OnDisk
  PROVE  /\ OldDisk(file, stable, Lasting, Journal, hdr0, h, before)
         /\ StandsFor(file, stable, Lasting, h, before)
         /\ Intact(file, h) /\ Image(file, h) = before /\ OldHeader(file, h) = hdr0
         /\ \A b \in Live(hdr0) : ~Guards(file, h, b) => before[b] = file[b]
         /\ \A b \in Needed(file, h) :
              /\ b \in Nat /\ 1 <= b /\ b < h.free /\ b < hdr.free /\ b \in Block
              /\ b \in Kept(file, Journal) \/ (b \in Live(hdr0) /\ ~Guards(file, h, b))
<1>1. OldDisk(file, stable, Lasting, Journal, hdr0, h, before)
  BY DEF DiskInv, OldOnDisk
<1>2. /\ HeaderOK(hdr0) /\ ~hdr0.inTx /\ hdr0.rollback = 0
      /\ IsList(file, hdr.rollback, Journal) /\ (Journal # {} => SavedHeader(file, Journal) = hdr0)
      /\ hdr.free \in Nat
  BY TxList
<1> DEFINE r == hdr.rollback
           d == Lasting
<1>3. IsList(file, r, Journal) /\ OldDisk(file, stable, d, Journal, hdr0, h, before)
  BY <1>1, <1>2
<1> HIDE DEF r, d
<1>4. /\ OldHeader(file, h) = hdr0
      /\ \A b \in Live(hdr0) : ~Guards(file, h, b) => before[b] = file[b] /\ b \in Needed(file, h)
      /\ \A b \in Needed(file, h) : b \in Kept(file, Journal) \/ (b \in Live(hdr0) /\ ~Guards(file, h, b))
  BY <1>2, <1>3, OldDiskIs
<1>5. StandsFor(file, stable, Lasting, h, before) /\ Intact(file, h) /\ Image(file, h) = before
  BY <1>1 DEF OldDisk, StandsFor
<1>6. /\ \A b \in Needed(file, h) : b \in Nat /\ 1 <= b /\ b < h.free /\ b \in Block
      /\ h.free \in Nat
  BY <1>5, IntactFacts
<1>7. h.free <= hdr.free
  BY DEF DiskInv
<1>8. \A b \in Needed(file, h) : b < hdr.free
  BY <1>2, <1>6, <1>7
<1> QED
  BY <1>1, <1>4, <1>5, <1>6, <1>8

LEMMA TxFrame ==
  ASSUME SizeAssumption, TypeOK, SpaceInv, DiskInv, hdr'.rollback = hdr.rollback,
         \A b \in Kept(file, Journal) : file'[b] = file[b],
         \A h \in OnDisk : \A b \in Needed(file, h) : file'[b] = file[b]
  PROVE  /\ Journal' = Journal /\ Kept(file', Journal) = Kept(file, Journal)
         /\ IsList(file', hdr.rollback, Journal)
         /\ \A low, high : Fits(file, Journal, low, high) => Fits(file', Journal, low, high)
         /\ SavesBelow(file', Journal, hdr0.free)
         /\ AllTargets(file', Journal) = AllTargets(file, Journal)
         /\ Journal # {} => SavedHeader(file', Journal) = hdr0
         /\ \A c \in Journal : file'[c] = file[c] /\ Segment(file', c) = Segment(file, c)
         /\ \A h \in OnDisk : \A b : Guards(file', h, b) <=> Guards(file, h, b)
         /\ \A h \in OnDisk : \A s2, d2 :
              (d2 => \A b \in Needed(file, h) : s2[b] = file[b]) =>
                OldDisk(file', s2, d2, Journal, hdr0, h, before)
<1>1. /\ hdr.rollback \in Block /\ IsList(file, hdr.rollback, Journal)
      /\ SavesBelow(file, Journal, hdr0.free)
      /\ Journal # {} => SavedHeader(file, Journal) = hdr0
  BY TxList
<1> DEFINE r == hdr.rollback
           S == Journal
           g == file'
           d == Lasting
<1>2. r \in Block /\ IsList(file, r, S) /\ \A b \in Kept(file, S) : g[b] = file[b]
  BY <1>1
<1>3. \A h \in OnDisk : \A b \in Needed(file, h) : g[b] = file[b]
  OBVIOUS
<1>4. \A h \in OnDisk : Intact(file, h) /\ OldDisk(file, stable, d, S, hdr0, h, before)
  BY TxDisk
<1> HIDE DEF r, S, g, d
<1>5. /\ Chain(g, r) = S /\ IsList(g, r, S)
      /\ Kept(g, S) = Kept(file, S) /\ AllTargets(g, S) = AllTargets(file, S)
      /\ \A c \in S : g[c] = file[c] /\ Segment(g, c) = Segment(file, c)
      /\ S # {} => SavedHeader(g, S) = SavedHeader(file, S)
      /\ \A low, high : Fits(file, S, low, high) => Fits(g, S, low, high)
      /\ \A high : SavesBelow(file, S, high) => SavesBelow(g, S, high)
  BY <1>2, ChainFrame
<1>6. ASSUME NEW h \in OnDisk, NEW b PROVE Guards(g, h, b) <=> Guards(file, h, b)
  BY <1>3, <1>4, Frame
<1>7. ASSUME NEW h \in OnDisk, NEW s2, NEW d2, d2 => \A b \in Needed(file, h) : s2[b] = file[b]
      PROVE  OldDisk(g, s2, d2, S, hdr0, h, before)
  BY <1>2, <1>3, <1>4, <1>7, OldDiskSame
<1>8. Journal' = S
  BY <1>5 DEF Journal, ChainOf, r, g
<1> QED
  BY <1>1, <1>5, <1>6, <1>7, <1>8 DEF r, S, g

(* A step that leaves the disk and the chain alone.                         *)
LEMMA TxSame ==
  ASSUME SizeAssumption, TypeOK, SpaceInv, DiskInv, file' = file, stable' = stable,
         hdr'.rollback = hdr.rollback, hdr'.inTx = hdr.inTx, hdr0' = hdr0, before' = before,
         Powered' = Powered, pc \in TxPc, pc' \in TxPc
  PROVE  /\ Journal' = Journal /\ Lasting' = Lasting /\ OnDisk' = OnDisk
         /\ OldOnDisk(hdr0)'
<1>1. Journal' = Journal
  BY DEF Journal, ChainOf
<1>2. Lasting' = Lasting
  BY DEF Lasting
<1>3. OnDisk' = OnDisk
  BY <1>2 DEF OnDisk
<1> QED
  BY <1>1, <1>2, <1>3 DEF DiskInv, OldOnDisk

-----------------------------------------------------------------------------
(* The commands.                                                            *)

(* What DataInv and SavedInv say of block b if w is its content in the      *)
(* transaction and u its buffer.                                            *)
BlockData(b, w, u) ==
  /\ w \notin {Free, Fresh} => w = IF u = NoBuffer THEN file[b] ELSE u.data
  /\ u # NoBuffer => /\ w \notin {Free, Fresh} /\ ~u.dirty => u.data = file[b]
                     /\ u.dirty \/ u.pins > 0 => w \notin {Free, Fresh}

SavedData(b, u) ==
  u # NoBuffer =>
    /\ u.loaded /\ b \in Live(hdr0) =>
         \A h \in OnDisk : ~Guards(file, h, b) => u.orig = before[b]
    /\ u.saved => b \in AllTargets(file, Journal)

LEMMA BelowIs ==
  ASSUME SizeAssumption, TypeOK
  PROVE  \A b \in Below : b \in Block /\ b \in Nat /\ b < hdr0.free
<1>1. hdr0.free \in 1..NBlocks /\ NBlocks \in Nat
  BY HeaderFields, BlockIs DEF TypeOK
<1>2. \A b \in 0..hdr0.free - 1 : b \in Nat /\ b < hdr0.free /\ b < NBlocks
  BY <1>1
<1> QED
  BY <1>2, BlockIs DEF Below

LEMMA CommandJournal ==
  ASSUME SizeAssumption, TypeInv, TypeInv', JournalInv, Working,
         UNCHANGED left \/ Spend("op"),
         hdr'.rollback = hdr.rollback, hdr'.inTx = hdr.inTx, hdr.free <= hdr'.free,
         HeaderOK(hdr'), Kept(file, Journal) \cap hdr'.super = {},
         {x \in Block : work'[x] # Free} = Live(hdr') \ Kept(file, Journal),
         hdrDirty' \/ (hdr' = hdr /\ hdrDirty' = hdrDirty),
         NEW b \in Block,
         \A x \in Block : x # b => work'[x] = work[x] /\ cache'[x] = cache[x],
         BlockData(b, work'[b], cache'[b]),
         b \in Below => SavedData(b, cache'[b])
  PROVE  JournalInv'
<1>1. /\ pc = "open" /\ ~txErr /\ pc' = "open" /\ ~txErr' /\ hdr0' = hdr0
      /\ targets = <<>> /\ targets' = <<>> /\ file' = file /\ stable' = stable
      /\ before' = before /\ info' = info /\ final' = final /\ idx' = idx /\ why' = why
  BY DEF Working, Running, TypeInv, TargetsCached, flush, disk
<1>2. TxInv /\ OneKind /\ OneKind' /\ Powered' = Powered /\ TypeOK
  BY <1>1, LeftSame DEF JournalInv, TxPc, TypeInv
<1>3. /\ SpaceInv /\ DiskInv /\ InfoInv /\ DataInv /\ SavedInv /\ FlushInv
      /\ why = "none" /\ ~final
  BY <1>1, <1>2 DEF TxInv
<1>4. /\ Journal' = Journal /\ Lasting' = Lasting /\ OnDisk' = OnDisk /\ OldOnDisk(hdr0)'
  BY <1>1, <1>2, <1>3, TxSame DEF TxPc
<1>5. /\ hdr.free \in Nat /\ hdr'.free \in Nat /\ hdr0.free \in Nat /\ hdr0.free <= hdr.free
      /\ Fits(file, Journal, hdr0.free, hdr.free) /\ IsList(file, hdr.rollback, Journal)
  <2>1. hdr'.free \in 1..NBlocks
    BY HeaderFields DEF HeaderOK
  <2> QED
    BY <1>2, <1>3, <2>1, TxList
<1>6. SpaceInv'
  <2>1. Fits(file, Journal, hdr0.free, hdr'.free)
    <3> SUFFICES ASSUME NEW c \in Journal
                 PROVE  hdr0.free <= c /\ c + Chunked(file[c]) <= hdr'.free
      BY DEF Fits
    <3> DEFINE k == Chunked(file[c])
    <3>1. c \in Nat /\ k \in Nat /\ hdr0.free <= c /\ c + k <= hdr.free
      BY <1>5, ListFacts DEF Fits
    <3> HIDE DEF k
    <3>2. c + k <= hdr'.free
      BY <1>5, <3>1
    <3> QED
      BY <3>1, <3>2 DEF k
  <2>2. hdr0.free <= hdr'.free
    BY <1>5
  <2>3. ~hdrDirty' => hdr' = hdr0
    BY <1>3 DEF SpaceInv
  <2> QED
    BY <1>1, <1>3, <1>4, <2>1, <2>2, <2>3 DEF SpaceInv
<1>7. DiskInv'
  <2>1. ASSUME NEW h \in OnDisk PROVE h.free <= hdr'.free /\ (h = hdr0 \/ (hdr'.inTx /\ h.inTx))
    <3>1. h.free <= hdr.free /\ (h = hdr0 \/ (hdr.inTx /\ h.inTx)) /\ h.free \in Nat
      BY <1>2, <1>3, TxDisk, IntactFacts DEF DiskInv
    <3> QED
      BY <1>5, <3>1
  <2> QED
    BY <1>1, <1>2, <1>3, <1>4, <2>1 DEF DiskInv
<1>8. InfoInv'
  BY <1>1, <1>3 DEF InfoInv
<1>9. DataInv'
  <2>1. ASSUME NEW x \in Block PROVE BlockData(x, work'[x], cache'[x])
    <3>1. BlockData(x, work[x], cache[x])
      BY <1>3 DEF DataInv, InUse, BlockData
    <3> QED
      BY <3>1
  <2>2. /\ \A x \in Block : InUse(x)' =>
              work'[x] = IF cache'[x] = NoBuffer THEN file'[x] ELSE cache'[x].data
        /\ \A x \in Block : cache'[x] # NoBuffer =>
              /\ InUse(x)' /\ ~cache'[x].dirty => cache'[x].data = file'[x]
              /\ cache'[x].dirty \/ cache'[x].pins > 0 => InUse(x)'
    BY <1>1, <2>1 DEF InUse, BlockData
  <2> QED
    BY <1>1, <1>3, <2>2 DEF DataInv
<1>10. SavedInv'
  <2>1. ASSUME NEW x \in Below PROVE SavedData(x, cache'[x])
    <3>1. x \in Block
      BY <1>2, BelowIs
    <3>2. SavedData(x, cache[x])
      BY <1>1, <1>3 DEF SavedInv, SavedData
    <3> QED
      BY <3>1, <3>2
  <2>2. Below' = Below
    BY <1>1 DEF Below
  <2> QED
    BY <1>1, <1>4, <2>1, <2>2 DEF SavedInv, SavedData
<1>11. FlushInv'
  BY <1>1, <1>3 DEF FlushInv
<1>12. TxInv'
  BY <1>1, <1>3, <1>6, <1>7, <1>8, <1>9, <1>10, <1>11 DEF TxInv
<1> QED
  BY <1>1, <1>2, <1>12 DEF JournalInv, TxPc

LEMMA CommandFacts ==
  ASSUME SizeAssumption, TypeInv, JournalInv, Running, NEW b \in Block
  PROVE  /\ SpaceInv /\ DiskInv /\ TypeOK /\ BlockData(b, work[b], cache[b])
         /\ b \in Below => SavedData(b, cache[b])
         /\ HeaderOK(hdr) /\ hdr.free \in Nat /\ hdr.free <= hdr.free
         /\ Kept(file, Journal) \cap hdr.super = {}
         /\ {x \in Block : work[x] # Free} = Live(hdr) \ Kept(file, Journal)
<1>1. /\ pc = "open" /\ ~txErr /\ targets = <<>> /\ TypeOK
  BY DEF Running, TypeInv, TargetsCached
<1>2. TxInv
  BY <1>1 DEF JournalInv, TxPc
<1>3. SpaceInv /\ DiskInv /\ DataInv /\ SavedInv
  BY <1>1, <1>2 DEF TxInv
<1>4. BlockData(b, work[b], cache[b])
  BY <1>3 DEF DataInv, InUse, BlockData
<1>5. b \in Below => SavedData(b, cache[b])
  BY <1>1, <1>3 DEF SavedInv, SavedData
<1>6. hdr.free \in Nat
  BY <1>1, <1>3, TxList
<1> QED
  BY <1>1, <1>3, <1>4, <1>5, <1>6 DEF SpaceInv

LEMMA AllocateJournal ==
  ASSUME SizeAssumption, FreeAssumption, TypeInv, TypeInv', JournalInv, NEW b \in Block, Allocate(b)
  PROVE  JournalInv'
<1>1. /\ Working /\ Running /\ Spend("op") /\ hdrDirty' = TRUE /\ cache' = cache
      /\ work' = [work EXCEPT ![b] = Fresh]
  BY DEF Allocate, Working
<1> DEFINE K == Kept(file, Journal)
<1>2. /\ SpaceInv /\ DiskInv /\ BlockData(b, work[b], cache[b])
      /\ b \in Below => SavedData(b, cache[b])
      /\ HeaderOK(hdr) /\ hdr.free \in Nat
      /\ K \cap hdr.super = {}
      /\ {x \in Block : work[x] # Free} = Live(hdr) \ K
      /\ TypeOK
  BY <1>1, CommandFacts
<1>3. /\ work'[b] = Fresh /\ \A x \in Block : x # b => work'[x] = work[x] /\ cache'[x] = cache[x]
  BY <1>1, <1>2 DEF TypeOK
<1>4. \A x \in K : x \in Nat /\ x < hdr.free
  BY <1>2, TxList
<1> HIDE DEF K
<1>5. hdr \in Header /\ hdr' \in Header /\ hdr.super \subseteq 1..hdr.free - 1
  BY <1>2 DEF HeaderOK, TypeInv, TypeOK
<1>6. /\ hdr'.rollback = hdr.rollback /\ hdr'.inTx = hdr.inTx /\ hdr.free <= hdr'.free
      /\ HeaderOK(hdr') /\ K \cap hdr'.super = {}
      /\ Live(hdr') = Live(hdr) \cup {b} /\ b \notin K
  <2>1. CASE b \in hdr.super /\ hdr' = [hdr EXCEPT !.super = @ \ {b}]
    <3>1. /\ hdr'.rollback = hdr.rollback /\ hdr'.inTx = hdr.inTx /\ hdr'.free = hdr.free
          /\ hdr'.super = hdr.super \ {b}
      BY <1>5, <2>1 DEF Header
    <3>2. HeaderOK(hdr')
      BY <1>5, <3>1 DEF HeaderOK
    <3>3. K \cap hdr'.super = {} /\ b \notin K
      BY <1>2, <2>1, <3>1
    <3>4. Live(hdr') = Live(hdr) \cup {b}
      BY <1>5, <2>1, <3>1 DEF Live
    <3> QED
      BY <1>2, <3>1, <3>2, <3>3, <3>4
  <2>2. CASE hdr.super = {} /\ b = hdr.free /\ hdr' = [hdr EXCEPT !.free = @ + 1]
    <3>1. /\ hdr'.rollback = hdr.rollback /\ hdr'.inTx = hdr.inTx /\ hdr'.free = hdr.free + 1
          /\ hdr'.super = {}
      BY <1>5, <2>2 DEF Header
    <3>2. HeaderOK(hdr')
      BY <1>5, <3>1 DEF HeaderOK
    <3>3. b \notin K
      BY <1>2, <1>4, <2>2
    <3>4. Live(hdr') = Live(hdr) \cup {b}
      <4>1. hdr.free >= 1
        BY <1>5, HeaderFields
      <4>2. 1..(hdr.free + 1) - 1 = (1..hdr.free - 1) \cup {hdr.free}
        BY <1>2, <4>1
      <4> QED
        BY <2>2, <3>1, <4>2 DEF Live
    <3> QED
      BY <1>2, <3>1, <3>2, <3>3, <3>4
  <2> QED
    BY <2>1, <2>2 DEF Allocate
<1>7. {x \in Block : work'[x] # Free} = Live(hdr') \ K
  <2>1. {x \in Block : work'[x] # Free} = {x \in Block : work[x] # Free} \cup {b}
    BY <1>3 DEF FreeAssumption
  <2> QED
    BY <1>2, <1>6, <2>1
<1>8. BlockData(b, work'[b], cache'[b]) /\ (b \in Below => SavedData(b, cache'[b]))
  <2>1. work[b] \in {Free, Fresh}
    <3>1. b \in hdr.super \/ b = hdr.free
      BY DEF Allocate
    <3>2. b \notin Live(hdr)
      BY <1>2, <3>1 DEF Live
    <3> QED
      BY <1>2, <3>2
  <2> QED
    BY <1>1, <1>2, <1>3, <2>1 DEF BlockData
<1> QED
  BY <1>1, <1>3, <1>6, <1>7, <1>8, CommandJournal DEF K

(* A command that leaves the header alone.                                  *)
LEMMA SameHeaderJournal ==
  ASSUME SizeAssumption, TypeInv, TypeInv', JournalInv, Working,
         UNCHANGED left \/ Spend("op"), UNCHANGED <<hdr, hdrDirty>>,
         NEW b \in Block, work[b] # Free, work'[b] # Free,
         \A x \in Block : x # b => work'[x] = work[x] /\ cache'[x] = cache[x],
         BlockData(b, work'[b], cache'[b]),
         b \in Below => SavedData(b, cache'[b])
  PROVE  JournalInv'
<1>1. Running
  BY DEF Working
<1>2. /\ HeaderOK(hdr) /\ hdr.free \in Nat /\ hdr.free <= hdr.free
      /\ Kept(file, Journal) \cap hdr.super = {}
      /\ {x \in Block : work[x] # Free} = Live(hdr) \ Kept(file, Journal)
  BY <1>1, CommandFacts
<1>3. {x \in Block : work'[x] # Free} = {x \in Block : work[x] # Free}
  OBVIOUS
<1> QED
  BY <1>2, <1>3, CommandJournal

LEMMA OpenClearedJournal ==
  ASSUME SizeAssumption, FreeAssumption, ValueAssumption, TypeInv, TypeInv', JournalInv,
         NEW b \in Block, OpenCleared(b)
  PROVE  JournalInv'
<1>1. /\ Working /\ Running /\ UNCHANGED <<hdr, hdrDirty, left>> /\ work[b] = Fresh
      /\ cache' = [cache EXCEPT ![b] = Cleared(b)]
      /\ work' = [work EXCEPT ![b] = Zero]
  BY DEF OpenCleared, Working
<1>2. /\ BlockData(b, work[b], cache[b]) /\ TypeOK
      /\ b \in Below => SavedData(b, cache[b])
  BY <1>1, CommandFacts
<1>3. /\ work'[b] = Zero /\ cache'[b] = Cleared(b)
      /\ \A x \in Block : x # b => work'[x] = work[x] /\ cache'[x] = cache[x]
      /\ cache[b] \in Buffer \cup {NoBuffer} /\ cache'[b] # NoBuffer
  <2>1. Cleared(b) # NoBuffer
    BY <1>2, ClearedTyped, BufferAssumption DEF BufferAssumption, ValueAssumption
  <2> QED
    BY <1>1, <1>2, <2>1 DEF TypeOK
<1>4. Zero \notin {Free, Fresh}
  BY DEF FreeAssumption, ValueAssumption, Content
<1>5. Cleared(b).data = Zero /\ Cleared(b).dirty
  BY <1>3 DEF Cleared, Buffer
<1>6. BlockData(b, work'[b], cache'[b])
  BY <1>3, <1>4, <1>5 DEF BlockData
<1>7. ASSUME b \in Below PROVE SavedData(b, cache'[b])
  <2>1. CASE cache[b] = NoBuffer
    <3>1. ~Cleared(b).loaded /\ ~Cleared(b).saved
      BY <2>1 DEF Cleared
    <3> QED
      BY <1>3, <3>1 DEF SavedData
  <2>2. CASE cache[b] # NoBuffer
    <3>1. /\ Cleared(b).loaded = cache[b].loaded /\ Cleared(b).saved = cache[b].saved
          /\ Cleared(b).orig = cache[b].orig
      BY <1>3, <2>2 DEF Cleared, Buffer
    <3> QED
      BY <1>2, <1>3, <1>7, <2>2, <3>1 DEF SavedData
  <2> QED
    BY <2>1, <2>2
<1>8. work[b] # Free /\ work'[b] # Free
  BY <1>1, <1>3, <1>4 DEF FreeAssumption
<1> QED
  BY <1>1, <1>3, <1>6, <1>7, <1>8, SameHeaderJournal

LEMMA OpenJournal ==
  ASSUME SizeAssumption, BufferAssumption, TypeInv, TypeInv', JournalInv,
         NEW b \in Block, Open(b)
  PROVE  JournalInv'
<1>1. /\ Working /\ Running /\ UNCHANGED <<hdr, hdrDirty, left, work>>
      /\ work[b] \notin {Free, Fresh} /\ cache' = [cache EXCEPT ![b] = Opened(b)]
  BY DEF Open, Working
<1>2. /\ BlockData(b, work[b], cache[b]) /\ TypeOK /\ SpaceInv /\ DiskInv
      /\ b \in Below => SavedData(b, cache[b])
  BY <1>1, CommandFacts
<1>3. /\ cache'[b] = Opened(b) /\ \A x \in Block : x # b => cache'[x] = cache[x]
      /\ cache[b] \in Buffer \cup {NoBuffer}
  BY <1>1, <1>2 DEF TypeOK
<1>4. CASE cache[b] = NoBuffer
  <2>1. /\ Opened(b).data = file[b] /\ Opened(b).orig = file[b] /\ ~Opened(b).dirty
        /\ ~Opened(b).saved
    BY <1>4 DEF Opened
  <2>2. BlockData(b, work'[b], cache'[b])
    BY <1>1, <1>2, <1>3, <1>4, <2>1 DEF BlockData
  <2>3. SavedData(b, cache'[b])
    <3>1. ASSUME b \in Live(hdr0), NEW h \in OnDisk, ~Guards(file, h, b) PROVE before[b] = file[b]
      BY <1>2, <3>1, TxDisk
    <3> QED
      BY <1>3, <2>1, <3>1 DEF SavedData
  <2> QED
    BY <1>1, <1>3, <2>2, <2>3, SameHeaderJournal
<1>5. CASE cache[b] # NoBuffer
  <2>1. /\ Opened(b).data = cache[b].data /\ Opened(b).orig = cache[b].orig
        /\ Opened(b).dirty = cache[b].dirty /\ Opened(b).saved = cache[b].saved
        /\ Opened(b).loaded = cache[b].loaded /\ Opened(b) # NoBuffer
    <3>1. Opened(b) = [cache[b] EXCEPT !.pins = @ + 1] /\ cache[b] \in Buffer
      BY <1>3, <1>5 DEF Opened
    <3>2. Opened(b) \in Buffer
      BY <3>1 DEF Buffer
    <3> QED
      BY <3>1, <3>2 DEF Buffer, BufferAssumption
  <2>2. BlockData(b, work'[b], cache'[b])
    BY <1>1, <1>2, <1>3, <1>5, <2>1 DEF BlockData
  <2>3. b \in Below => SavedData(b, cache'[b])
    BY <1>2, <1>3, <1>5, <2>1 DEF SavedData
  <2> QED
    BY <1>1, <1>3, <2>2, <2>3, SameHeaderJournal
<1> QED
  BY <1>4, <1>5

LEMMA SetDirtyJournal ==
  ASSUME SizeAssumption, FreeAssumption, BufferAssumption, TypeInv, TypeInv', JournalInv,
         NEW b \in Block, NEW v \in Value, SetDirty(b, v)
  PROVE  JournalInv'
<1>1. /\ Working /\ Running /\ UNCHANGED <<hdr, hdrDirty>> /\ Spend("op") /\ b \in Pinned
      /\ cache' = [cache EXCEPT ![b].data = v, ![b].dirty = TRUE]
      /\ work' = [work EXCEPT ![b] = v]
  BY DEF SetDirty, Working
<1>2. /\ BlockData(b, work[b], cache[b]) /\ TypeOK
      /\ b \in Below => SavedData(b, cache[b])
  BY <1>1, CommandFacts
<1>3. cache[b] # NoBuffer /\ cache[b].pins > 0 /\ cache[b] \in Buffer
  BY <1>1, <1>2 DEF Pinned, TypeOK
<1>4. /\ work'[b] = v /\ cache'[b] = [cache[b] EXCEPT !.data = v, !.dirty = TRUE]
      /\ \A x \in Block : x # b => work'[x] = work[x] /\ cache'[x] = cache[x]
  BY <1>1, <1>2 DEF TypeOK
<1>5. /\ cache'[b].data = v /\ cache'[b].dirty /\ cache'[b].orig = cache[b].orig
      /\ cache'[b].saved = cache[b].saved /\ cache'[b].loaded = cache[b].loaded
      /\ cache'[b] # NoBuffer
  <2>1. cache'[b] \in Buffer \cup {NoBuffer}
    BY DEF TypeInv, TypeOK
  <2>2. v \in Content
    BY DEF Content
  <2>3. cache'[b] \in Buffer
    BY <1>3, <1>4, <2>2 DEF Buffer
  <2> QED
    BY <1>3, <1>4, <2>3 DEF Buffer, BufferAssumption
<1>6. v \notin {Free, Fresh} /\ work[b] # Free
  BY <1>2, <1>3 DEF FreeAssumption, Content, BlockData
<1>7. BlockData(b, work'[b], cache'[b])
  BY <1>4, <1>5, <1>6 DEF BlockData
<1>8. b \in Below => SavedData(b, cache'[b])
  BY <1>2, <1>3, <1>5 DEF SavedData
<1>9. work'[b] # Free
  BY <1>4, <1>6
<1> QED
  BY <1>1, <1>4, <1>6, <1>7, <1>8, <1>9, SameHeaderJournal

LEMMA CloseJournal ==
  ASSUME SizeAssumption, BufferAssumption, TypeInv, TypeInv', JournalInv,
         NEW b \in Block, Close(b)
  PROVE  JournalInv'
<1>1. /\ Working /\ Running /\ UNCHANGED <<hdr, hdrDirty, left, work>> /\ b \in Pinned
      /\ cache' = [cache EXCEPT ![b].pins = @ - 1]
  BY DEF Close, Working
<1>2. /\ BlockData(b, work[b], cache[b]) /\ TypeOK
      /\ b \in Below => SavedData(b, cache[b])
  BY <1>1, CommandFacts
<1>3. cache[b] # NoBuffer /\ cache[b].pins > 0 /\ cache[b] \in Buffer
  BY <1>1, <1>2 DEF Pinned, TypeOK
<1>4. /\ cache'[b] = [cache[b] EXCEPT !.pins = @ - 1]
      /\ \A x \in Block : x # b => cache'[x] = cache[x]
  BY <1>1, <1>2 DEF TypeOK
<1>5. /\ cache'[b].data = cache[b].data /\ cache'[b].orig = cache[b].orig
      /\ cache'[b].dirty = cache[b].dirty
      /\ cache'[b].saved = cache[b].saved /\ cache'[b].loaded = cache[b].loaded
  BY <1>3, <1>4 DEF Buffer
<1>6. work[b] \notin {Free, Fresh}
  BY <1>2, <1>3 DEF BlockData
<1>7. BlockData(b, work'[b], cache'[b])
  <2>1. work'[b] = work[b] /\ work[b] = cache[b].data
    BY <1>1, <1>2, <1>3, <1>6 DEF BlockData
  <2>2. ~cache[b].dirty => cache[b].data = file[b]
    BY <1>2, <1>3, <1>6 DEF BlockData
  <2>3. cache'[b] # NoBuffer
    BY <1>3, <1>4, BufferUpdate DEF BufferAssumption, Buffer
  <2> QED
    BY <1>5, <1>6, <2>1, <2>2, <2>3 DEF BlockData
<1>8. b \in Below => SavedData(b, cache'[b])
  BY <1>2, <1>3, <1>5 DEF SavedData
<1> QED
  BY <1>1, <1>4, <1>6, <1>7, <1>8, SameHeaderJournal

LEMMA DeallocateJournal ==
  ASSUME SizeAssumption, FreeAssumption, BufferAssumption, TypeInv, TypeInv', JournalInv,
         NEW b \in Block, Deallocate(b)
  PROVE  JournalInv'
<1>1. /\ Working /\ Running /\ Spend("op") /\ hdrDirty' = TRUE
      /\ work[b] # Free /\ b \notin Pinned
      /\ cache' = [cache EXCEPT ![b] = Invalidated(@)]
      /\ hdr' = [hdr EXCEPT !.super = @ \cup {b}]
      /\ work' = [work EXCEPT ![b] = Free]
  BY DEF Deallocate, Working
<1> DEFINE K == Kept(file, Journal)
<1>2. /\ SpaceInv /\ DiskInv /\ BlockData(b, work[b], cache[b]) /\ TypeOK
      /\ b \in Below => SavedData(b, cache[b])
      /\ HeaderOK(hdr) /\ hdr.free \in Nat /\ hdr.free <= hdr.free
      /\ K \cap hdr.super = {}
      /\ {x \in Block : work[x] # Free} = Live(hdr) \ K
  BY <1>1, CommandFacts
<1> HIDE DEF K
<1>3. /\ work'[b] = Free /\ cache'[b] = Invalidated(cache[b])
      /\ \A x \in Block : x # b => work'[x] = work[x] /\ cache'[x] = cache[x]
      /\ cache[b] \in Buffer \cup {NoBuffer}
  BY <1>1, <1>2 DEF TypeOK
<1>4. hdr \in Header /\ b \in Live(hdr) /\ b \notin K
  BY <1>1, <1>2 DEF HeaderOK
<1>5. /\ hdr'.rollback = hdr.rollback /\ hdr'.inTx = hdr.inTx /\ hdr'.free = hdr.free
      /\ hdr'.super = hdr.super \cup {b}
  BY <1>1, <1>4 DEF Header
<1>6. HeaderOK(hdr')
  BY <1>2, <1>4, <1>5 DEF HeaderOK, Live, TypeInv, TypeOK
<1>7. K \cap hdr'.super = {} /\ Live(hdr') = Live(hdr) \ {b}
  BY <1>2, <1>4, <1>5 DEF Live
<1>8. {x \in Block : work'[x] # Free} = Live(hdr') \ K
  <2>1. {x \in Block : work'[x] # Free} = {x \in Block : work[x] # Free} \ {b}
    BY <1>3
  <2> QED
    BY <1>2, <1>7, <2>1
<1>9. CASE cache[b] = NoBuffer \/ ~cache[b].dirty
  <2>1. cache'[b] = cache[b]
    BY <1>3, <1>9 DEF Invalidated
  <2>2. cache[b] # NoBuffer => ~(cache[b].pins > 0)
    BY <1>1 DEF Pinned
  <2>3. BlockData(b, work'[b], cache'[b])
    BY <1>3, <1>9, <2>1, <2>2 DEF BlockData
  <2> QED
    BY <1>1, <1>2, <1>3, <1>5, <1>6, <1>7, <1>8, <2>1, <2>3, CommandJournal DEF K
<1>10. CASE cache[b] # NoBuffer /\ cache[b].dirty /\ cache[b].loaded
  <2>1. cache'[b] = [cache[b] EXCEPT !.data = cache[b].orig, !.dirty = FALSE]
    BY <1>3, <1>10 DEF Invalidated
  <2>2. /\ cache'[b].orig = cache[b].orig /\ ~cache'[b].dirty
        /\ cache'[b].saved = cache[b].saved /\ cache'[b].loaded = cache[b].loaded
        /\ cache'[b].pins = cache[b].pins
    BY <1>3, <1>10, <2>1 DEF Buffer
  <2>3. ~(cache[b].pins > 0)
    BY <1>1, <1>10 DEF Pinned
  <2>4. BlockData(b, work'[b], cache'[b])
    BY <1>3, <2>2, <2>3 DEF BlockData
  <2>5. b \in Below => SavedData(b, cache'[b])
    BY <1>2, <1>10, <2>2 DEF SavedData
  <2> QED
    BY <1>1, <1>2, <1>3, <1>5, <1>6, <1>7, <1>8, <2>4, <2>5, CommandJournal DEF K
<1>11. CASE cache[b] # NoBuffer /\ cache[b].dirty /\ ~cache[b].loaded
  <2>1. cache'[b] = NoBuffer
    BY <1>3, <1>11 DEF Invalidated
  <2>2. BlockData(b, work'[b], cache'[b]) /\ SavedData(b, cache'[b])
    BY <1>3, <2>1 DEF BlockData, SavedData
  <2> QED
    BY <1>1, <1>2, <1>3, <1>5, <1>6, <1>7, <1>8, <2>2, CommandJournal DEF K
<1> QED
  BY <1>9, <1>10, <1>11

-----------------------------------------------------------------------------
(* The transaction is cancelled, ended, or one of its calls fails.          *)

LEMMA TxOpen ==
  ASSUME JournalInv, pc \in TxPc
  PROVE  /\ OneKind /\ why = "none" /\ (txErr => pc = "open") /\ (pc = "open" => ~final)
         /\ SpaceInv /\ DiskInv /\ (~txErr => InfoInv /\ DataInv /\ SavedInv /\ FlushInv)
BY DEF JournalInv, TxInv

(* An open transaction that nobody ends any more.                           *)
LEMMA EndTx ==
  ASSUME SizeAssumption, FreeAssumption, TypeOK, JournalInv, OneKind', Terminate,
         file' = file, stable' = stable, UNCHANGED <<work, before>>,
         IF Outside THEN result' = result ELSE result' \in {"crash", "error"},
         Powered' => Powered /\ stable[0] = file[0]
  PROVE  JournalInv'
<1>1. PICK db : SafeWith(file[0], db)
  BY SafeNow
<1>2. Powered => \A b \in Needed(file, file[0]) : stable[b] = file[b]
  BY <1>1 DEF SafeWith, StandsFor
<1> QED
  BY <1>2, EndSafe

LEMMA CancelJournal ==
  ASSUME SizeAssumption, FreeAssumption, TypeOK, JournalInv, pc = "open",
         NEW r \in {"cancelled", "error"}, Cancel(r)
  PROVE  JournalInv'
<1>1. /\ result' = r /\ file' = file /\ stable' = stable /\ UNCHANGED <<work, before, left>>
  BY DEF Cancel, disk
<1>2. /\ OneKind /\ OneKind' /\ Powered' = Powered /\ why = "none" /\ SpaceInv /\ DiskInv
  BY <1>1, TxOpen, LeftSame DEF TxPc
<1>3. Powered => stable[0] = file[0]
  BY <1>2 DEF DiskInv
<1>4. OldDisk(file, stable, Lasting, Journal, hdr0, file[0], before)
  BY <1>2, TxDisk, OnDiskIs
<1>5. StandsFor(file, stable, Powered, file[0], before)
  BY <1>2, TxDisk, OnDiskIs, StandsWeak DEF Stands
<1>6. CASE ~hdr.inTx
  <2>1. Terminate
    BY <1>6 DEF Cancel
  <2>2. PICK db : db = before
    OBVIOUS
  <2>3. StandsFor(file', stable', Powered', file'[0], db) /\ Said(db)'
    BY <1>1, <1>2, <1>5, <2>2 DEF Said
  <2> QED
    BY <1>1, <1>2, <1>3, <2>1, <2>3, ToIdle
<1>7. CASE hdr.inTx
  <2>1. /\ pc' = "undo" /\ why' = "cancel" /\ walk' = hdr.rollback /\ idx' = 0 /\ hdr' = hdr
    BY <1>7 DEF Cancel, memory
  <2>2. /\ hdr \in Header /\ hdr.rollback # 0 /\ IsList(file, hdr.rollback, Journal)
        /\ HeaderOK(hdr0) /\ ~hdr0.inTx /\ hdr0.rollback = 0
        /\ Fits(file, Journal, hdr0.free, hdr.free) /\ SavesBelow(file, Journal, hdr0.free)
        /\ Journal # {} => SavedHeader(file, Journal) = hdr0
    BY <1>2, <1>7, TxList DEF SpaceInv
  <2>3. hdr.rollback \in Journal /\ RestoredTo(file, Journal, hdr.rollback, 0)
    BY <2>2, RestoredStart
  <2>4. SavedHeader(file, Journal) = hdr0
    BY <2>2, <2>3
  <2> DEFINE S == Journal
             d == Lasting
             n == hdr
  <2>5. OldDisk(file, stable, d, S, hdr0, file[0], before) /\ IsList(file, n.rollback, S)
    BY <1>4, <2>2
  <2>6. n \in Header /\ n.inTx /\ n.rollback # 0 /\ Fits(file, S, hdr0.free, n.free)
        /\ SavesBelow(file, S, hdr0.free) /\ SavedHeader(file, S) = hdr0
    BY <1>7, <2>2, <2>4
  <2> HIDE DEF S, d, n
  <2>7. Intact(file, n) /\ Image(file, n) = before /\ OldHeader(file, n) = hdr0
    BY <2>2, <2>5, <2>6, OldDiskMark
  <2>8. Lasting' = Powered /\ OnDisk' = {file[0]} /\ Journal' = S
    <3>1. Lasting' = Powered
      BY <1>2, <2>1 DEF Lasting, TxPc, Powered
    <3> QED
      BY <1>1, <1>3, <2>1, <3>1 DEF OnDisk, S, Journal
  <2>9. OldDisk(file, stable, Powered, S, hdr0, file[0], before)
    BY <1>4, <1>5, <2>5 DEF OldDisk, S
  <2>10. OldHeader(file, hdr)' = hdr0
    BY <1>1, <2>1, <2>7 DEF n
  <2>11. OldOnDisk(OldHeader(file, hdr))'
    BY <1>1, <2>8, <2>9, <2>10 DEF OldOnDisk
  <2>12. 0 <= Len(file[hdr.rollback].target)
    <3>1. file[hdr.rollback] \in Chunk
      BY <2>2, <2>3, ListFacts
    <3> QED
      BY <3>1, ChunkFields
  <2>13. UndoInv'
    BY <1>1, <1>2, <1>3, <1>7, <2>1, <2>3, <2>7, <2>8, <2>11, <2>12 DEF UndoInv, S, n
  <2> QED
    BY <1>2, <2>1, <2>13 DEF JournalInv, TxPc
<1> QED
  BY <1>6, <1>7

LEMMA EndJournal ==
  ASSUME SizeAssumption, FreeAssumption, TypeInv, JournalInv, End
  PROVE  JournalInv'
<1>1. pc = "open" /\ TypeOK /\ targets = <<>>
  BY DEF End, TypeInv, TargetsCached
<1>2. CASE txErr /\ Cancel("error")
  BY <1>1, <1>2, CancelJournal
<1>3. CASE ~txErr
  <2>1. /\ pc' = "collect" /\ final' = TRUE /\ CommandsDone
        /\ UNCHANGED <<file, stable, hdr, hdr0, hdrDirty, cache, txErr, targets, info, idx, why,
                       work, before, left>>
    BY <1>3 DEF End, disk, memory, ghost
  <2>2. /\ OneKind' /\ Powered' = Powered /\ why = "none" /\ SpaceInv /\ DiskInv
        /\ InfoInv /\ DataInv /\ SavedInv /\ FlushInv
    BY <1>1, <1>3, <2>1, TxOpen, LeftSame DEF TxPc
  <2>3. /\ Journal' = Journal /\ Lasting' = Lasting /\ OnDisk' = OnDisk /\ OldOnDisk(hdr0)'
    BY <1>1, <2>1, <2>2, TxSame DEF TxPc
  <2>4. SpaceInv'
    BY <2>1, <2>2, <2>3 DEF SpaceInv
  <2>5. DiskInv'
    BY <1>1, <2>1, <2>2, <2>3 DEF DiskInv
  <2>6. InfoInv'
    BY <1>1, <2>1, <2>2 DEF InfoInv
  <2>7. DataInv'
    BY <2>1, <2>2 DEF DataInv, InUse, CommandsDone, Pinned
  <2>8. SavedInv'
    BY <1>1, <2>1, <2>2, <2>3 DEF SavedInv, Below
  <2>9. FlushInv'
    BY <1>1, <2>1, <2>2 DEF FlushInv
  <2>10. TxInv'
    BY <1>3, <2>1, <2>2, <2>4, <2>5, <2>6, <2>7, <2>8, <2>9 DEF TxInv
  <2> QED
    BY <2>1, <2>2, <2>10 DEF JournalInv, TxPc
<1> QED
  BY <1>2, <1>3 DEF End

LEMMA FailJournal ==
  ASSUME SizeAssumption, FreeAssumption, TypeOK, JournalInv, pc # "idle", Fail, OneKind',
         Powered' => Powered /\ pc \in TxPc \ {"markEnd"},
         Powered' = Powered
  PROVE  JournalInv'
<1>1. file' = file /\ stable' = stable
  BY DEF Fail, disk
<1>2. CASE pc' = "open"
  <2>1. /\ pc \in TxPc /\ txErr' = TRUE /\ targets' = <<>> /\ ~final
        /\ UNCHANGED <<hdr, hdr0, hdrDirty, why, work, before, final>>
    BY <1>2 DEF Fail, Terminate, ghost, TxPc
  <2>2. why = "none" /\ SpaceInv /\ DiskInv
    BY <2>1, TxOpen
  <2>3. /\ Journal' = Journal /\ Lasting' = Lasting /\ OnDisk' = OnDisk /\ OldOnDisk(hdr0)'
    BY <1>1, <1>2, <2>1, <2>2, TxSame DEF TxPc
  <2>4. SpaceInv'
    BY <1>1, <2>1, <2>2, <2>3 DEF SpaceInv
  <2>5. Powered' => stable[0] = file[0]
    BY <2>2 DEF DiskInv
  <2>6. DiskInv'
    BY <1>1, <1>2, <2>1, <2>2, <2>3, <2>5 DEF DiskInv
  <2>7. TxInv'
    BY <1>2, <2>1, <2>2, <2>4, <2>6 DEF TxInv
  <2> QED
    BY <1>2, <2>7 DEF JournalInv, TxPc
<1>3. CASE pc' # "open"
  <2>1. Terminate /\ UNCHANGED <<work, before>>
    BY <1>3 DEF Fail, ghost
  <2>2. IF Outside THEN result' = result ELSE result' \in {"crash", "error"}
    BY <1>3 DEF Fail, ghost, Outside
  <2>3. Powered' => stable[0] = file[0]
    <3> SUFFICES ASSUME Powered' PROVE stable[0] = file[0]
      OBVIOUS
    <3>1. DiskInv /\ Powered /\ pc # "markEnd"
      BY TxOpen
    <3> QED
      BY <3>1 DEF DiskInv
  <2> QED
    BY <1>1, <2>1, <2>2, <2>3, EndTx
<1> QED
  BY <1>2, <1>3

LEMMA FailuresJournal ==
  ASSUME SizeAssumption, FreeAssumption, TypeOK, JournalInv, NoSpace \/ AllocateFails \/ Fault
  PROVE  JournalInv'
<1>1. OneKind
  BY DEF JournalInv
<1>2. CASE NoSpace \/ AllocateFails
  <2>1. Fail /\ UNCHANGED left /\ pc \in {"chunkIO", "tail", "open"}
    BY <1>2 DEF NoSpace, AllocateFails, Running
  <2>2. OneKind' /\ Powered' = Powered
    BY <1>1, <2>1, LeftSame
  <2> QED
    BY <2>1, <2>2, FailJournal DEF TxPc
<1>3. CASE Fault
  <2>1. Fail /\ Spend("fault") /\ pc # "idle"
    BY <1>3 DEF Fault
  <2>2. OneKind' /\ ~Powered /\ ~Powered'
    BY <1>1, <2>1, LeftFailed
  <2>3. Powered' = Powered
    BY <2>2 DEF Powered
  <2> QED
    BY <2>1, <2>2, <2>3, FailJournal
<1> QED
  BY <1>2, <1>3

-----------------------------------------------------------------------------
(* flush_cache_buffers, up to the blocks behind the old end of the file.    *)

(* A step that touches neither the disk nor a header.                       *)
LEMMA QuietStep ==
  ASSUME SizeAssumption, TypeOK, JournalInv, ~txErr, pc \in TxPc, pc' \in TxPc, pc # "markEnd",
         UNCHANGED <<file, stable, hdr, hdr0, hdrDirty, txErr, work, before, why>>,
         UNCHANGED left \/ Spend("flush"),
         pc' \in {"markHeader", "markEnd"} => FALSE, pc' = "markFlush" => hdr.rollback # 0
  PROVE  /\ OneKind' /\ Powered' = Powered /\ ~txErr' /\ why' = "none"
         /\ SpaceInv /\ DiskInv /\ InfoInv /\ DataInv /\ SavedInv /\ FlushInv
         /\ SpaceInv' /\ DiskInv'
         /\ Journal' = Journal /\ OnDisk' = OnDisk /\ Below' = Below
<1>1. /\ OneKind' /\ Powered' = Powered /\ why = "none" /\ SpaceInv /\ DiskInv
      /\ InfoInv /\ DataInv /\ SavedInv /\ FlushInv
  BY TxOpen, LeftSame
<1>2. /\ Journal' = Journal /\ Lasting' = Lasting /\ OnDisk' = OnDisk /\ OldOnDisk(hdr0)'
  BY <1>1, TxSame
<1>3. SpaceInv'
  BY <1>1, <1>2 DEF SpaceInv
<1>4. DiskInv'
  BY <1>1, <1>2 DEF DiskInv
<1> QED
  BY <1>1, <1>2, <1>3, <1>4 DEF Below

LEMMA TxDone ==
  ASSUME OneKind', pc' \in TxPc, ~txErr', why' = "none", pc' = "open" => ~final',
         SpaceInv', DiskInv', InfoInv', DataInv', SavedInv', FlushInv'
  PROVE  JournalInv'
BY DEF JournalInv, TxInv, TxPc

LEMMA EvictedData ==
  ASSUME SizeAssumption, TypeOK, DataInv, SavedInv, NEW S \in SUBSET Clean, Evict(S), targets = <<>>, targets' = <<>>,
         UNCHANGED <<file, hdr0, work, before, final>>,
         Journal' = Journal, OnDisk' = OnDisk, Below' = Below
  PROVE  DataInv' /\ SavedInv'
<1>1. \A b \in Block : cache'[b] = IF b \in S THEN NoBuffer ELSE cache[b]
  BY DEF Evict
<1>2. \A b \in S : b \in Block /\ cache[b] # NoBuffer /\ ~cache[b].dirty
  BY DEF Clean
<1>3. DataInv'
  <2>1. ASSUME NEW b \in Block, InUse(b)
        PROVE  work[b] = IF cache'[b] = NoBuffer THEN file[b] ELSE cache'[b].data
    BY <1>1, <1>2, <2>1 DEF DataInv
  <2>2. ASSUME NEW b \in Block, cache'[b] # NoBuffer
        PROVE  cache'[b] = cache[b]
    BY <1>1, <2>2
  <2>3. final => Pinned' = {}
    BY <2>2 DEF DataInv, Pinned
  <2> QED
    BY <2>1, <2>2, <2>3 DEF DataInv, InUse
<1>4. SavedInv'
  <2>1. ASSUME NEW b \in Below, cache'[b] # NoBuffer PROVE cache'[b] = cache[b]
    <3>1. b \in Block
      BY BelowIs
    <3> QED
      BY <1>1, <2>1, <3>1
  <2> QED
    BY <2>1 DEF SavedInv
<1> QED
  BY <1>3, <1>4

LEMMA CacheFullJournal ==
  ASSUME SizeAssumption, TypeInv, JournalInv, CacheFull
  PROVE  JournalInv'
<1>1. /\ pc = "open" /\ ~txErr /\ targets = <<>> /\ targets' = <<>> /\ TypeOK
      /\ pc' \in {"open", "collect"} /\ Spend("flush")
      /\ UNCHANGED <<file, stable, hdr, hdr0, hdrDirty, txErr, work, before, why, final, info, idx>>
  BY DEF CacheFull, Running, disk, flush, ghost, TypeInv, TargetsCached
<1>2. /\ OneKind' /\ Powered' = Powered /\ ~txErr' /\ why' = "none"
      /\ SpaceInv /\ DiskInv /\ InfoInv /\ DataInv /\ SavedInv /\ FlushInv
      /\ SpaceInv' /\ DiskInv'
      /\ Journal' = Journal /\ OnDisk' = OnDisk /\ Below' = Below
  BY <1>1, QuietStep DEF TxPc
<1>3. DataInv' /\ SavedInv'
  <2>1. PICK S \in SUBSET Clean : Evict(S)
    BY DEF CacheFull
  <2> QED
    BY <1>1, <1>2, <2>1, EvictedData
<1>4. InfoInv'
  BY <1>1, <1>2 DEF InfoInv
<1>5. FlushInv'
  BY <1>1, <1>2 DEF FlushInv
<1>6. ~final'
  BY <1>1, TxOpen DEF TxPc
<1> QED
  BY <1>1, <1>2, <1>3, <1>4, <1>5, <1>6, TxDone DEF TxPc

LEMMA CollectJournal ==
  ASSUME SizeAssumption, BufferAssumption, TypeInv, TypeInv', JournalInv, Collect
  PROVE  JournalInv'
<1>1. /\ pc = "collect" /\ ~txErr /\ targets = <<>> /\ targets' = <<>> /\ TypeOK /\ pc' = "tail"
      /\ UNCHANGED <<file, stable, hdr, hdr0, hdrDirty, txErr, work, before, why, final, info, idx, left>>
  BY TxOpen DEF Collect, disk, flush, ghost, TypeInv, TargetsCached, TxPc
<1>2. /\ OneKind' /\ Powered' = Powered /\ ~txErr' /\ why' = "none"
      /\ SpaceInv /\ DiskInv /\ InfoInv /\ DataInv /\ SavedInv /\ FlushInv
      /\ SpaceInv' /\ DiskInv'
      /\ Journal' = Journal /\ OnDisk' = OnDisk /\ Below' = Below
  BY <1>1, QuietStep DEF TxPc
<1>3. ASSUME NEW b \in Block
      PROVE  \/ cache'[b] = cache[b] /\ ~(b \in Unsaved /\ ~cache[b].loaded)
             \/ /\ cache[b] # NoBuffer /\ cache'[b] # NoBuffer /\ b \in Unsaved
                /\ cache'[b].data = cache[b].data /\ cache'[b].dirty = cache[b].dirty
                /\ cache'[b].saved = cache[b].saved /\ cache'[b].pins = cache[b].pins
                /\ cache'[b].loaded /\ cache'[b].orig = file[b]
  <2>1. CASE b \in Unsaved /\ ~cache[b].loaded
    <3>1. cache'[b] = [cache[b] EXCEPT !.orig = file[b], !.loaded = TRUE]
      BY <2>1 DEF Collect
    <3>2. cache[b] # NoBuffer /\ cache[b] \in Buffer
      BY <1>1, <2>1 DEF Unsaved, Dirty, TypeOK
    <3>3. cache'[b] \in Buffer
      BY <1>1, <3>1, <3>2 DEF Buffer, TypeOK
    <3> QED
      BY <2>1, <3>1, <3>2, <3>3 DEF Buffer, BufferAssumption
  <2>2. CASE ~(b \in Unsaved /\ ~cache[b].loaded)
    BY <2>2 DEF Collect
  <2> QED
    BY <2>1, <2>2
<1>4. DataInv'
  <2>1. ASSUME NEW b \in Block
        PROVE  /\ cache'[b] = NoBuffer <=> cache[b] = NoBuffer
               /\ cache[b] # NoBuffer => /\ cache'[b].data = cache[b].data
                                         /\ cache'[b].dirty = cache[b].dirty
                                         /\ cache'[b].pins = cache[b].pins
    BY <1>3
  <2>2. Pinned' = Pinned
    BY <2>1 DEF Pinned
  <2> QED
    BY <1>1, <1>2, <2>1, <2>2 DEF DataInv, InUse
<1>5. ASSUME NEW b \in Below, cache'[b] # NoBuffer
      PROVE  /\ cache'[b].loaded /\ b \in Live(hdr0) =>
                  \A h \in OnDisk : ~Guards(file, h, b) => cache'[b].orig = before[b]
             /\ cache'[b].saved => b \in AllTargets(file, Journal)
  <2>1. b \in Block
    BY <1>1, BelowIs
  <2>2. CASE cache'[b] = cache[b]
    BY <1>1, <1>2, <1>5, <2>2 DEF SavedInv
  <2>3. CASE cache[b] # NoBuffer /\ cache'[b].saved = cache[b].saved /\ cache'[b].orig = file[b]
    <3>1. ASSUME b \in Live(hdr0), NEW h \in OnDisk, ~Guards(file, h, b) PROVE before[b] = file[b]
      BY <1>1, <1>2, <3>1, TxDisk
    <3> QED
      BY <1>1, <1>2, <2>3, <3>1 DEF SavedInv
  <2> QED
    BY <1>3, <2>1, <2>2, <2>3
<1>6. SavedInv'
  BY <1>1, <1>2, <1>5 DEF SavedInv
<1>7. FlushInv'
  <2>1. ASSUME NEW b \in Unsaved' PROVE cache'[b].loaded
    <3>1. b \in Block /\ cache'[b] # NoBuffer /\ cache'[b].dirty /\ cache'[b].pins = 0 /\ b \in Below
          /\ ~cache'[b].saved
      BY <1>2 DEF Unsaved, Dirty
    <3>2. cache'[b] = cache[b] => b \in Unsaved
      BY <3>1 DEF Unsaved, Dirty
    <3> QED
      BY <1>3, <3>1, <3>2
  <2> QED
    BY <1>1, <1>2, <2>1 DEF FlushInv
<1>8. InfoInv'
  BY <1>1, <1>2 DEF InfoInv
<1> QED
  BY <1>1, <1>2, <1>4, <1>6, <1>7, <1>8, TxDone DEF TxPc

(* A write that no header on the disk and no chunk needs to be undone.      *)
LEMMA FileWritten ==
  ASSUME SizeAssumption, TypeOK, JournalInv, ~txErr, pc \in TxPc \ {"markHeader", "markEnd"}, pc' = pc,
         NEW b \in Block, b # 0, NEW c, Write(b, c),
         b \notin Kept(file, Journal), \A h \in OnDisk : b \notin Needed(file, h),
         UNCHANGED <<hdr, hdr0, hdrDirty, txErr, work, before, why, left, info>>
  PROVE  /\ OneKind' /\ Powered' = Powered /\ ~txErr' /\ why' = "none"
         /\ SpaceInv /\ DiskInv /\ InfoInv /\ DataInv /\ SavedInv /\ FlushInv
         /\ SpaceInv' /\ DiskInv' /\ InfoInv'
         /\ Journal' = Journal /\ OnDisk' = OnDisk /\ Below' = Below
         /\ AllTargets(file', Journal) = AllTargets(file, Journal)
         /\ \A h \in OnDisk : \A x : Guards(file', h, x) <=> Guards(file, h, x)
<1>1. /\ OneKind' /\ Powered' = Powered /\ why = "none" /\ SpaceInv /\ DiskInv
      /\ InfoInv /\ DataInv /\ SavedInv /\ FlushInv
  BY TxOpen, LeftSame
<1>2. /\ \A x \in Block : x # b => file'[x] = file[x]
      /\ \A x \in Block : x # b => stable'[x] = stable[x]
      /\ file'[0] = file[0] /\ stable'[0] = stable[0]
  BY WriteIs, BlockIs
<1>3. \A x \in Kept(file, Journal) : file'[x] = file[x]
  <2>1. \A x \in Kept(file, Journal) : x \in Block
    BY <1>1, TxList
  <2> QED
    BY <1>2, <2>1
<1>4. \A h \in OnDisk : \A x \in Needed(file, h) :
        file'[x] = file[x] /\ stable'[x] = stable[x]
  <2>1. \A h \in OnDisk : \A x \in Needed(file, h) : x \in Block
    BY <1>1, TxDisk
  <2> QED
    BY <1>2, <2>1
<1>5. /\ Journal' = Journal /\ Kept(file', Journal) = Kept(file, Journal)
      /\ IsList(file', hdr.rollback, Journal)
      /\ \A low, high : Fits(file, Journal, low, high) => Fits(file', Journal, low, high)
      /\ SavesBelow(file', Journal, hdr0.free)
      /\ AllTargets(file', Journal) = AllTargets(file, Journal)
      /\ Journal # {} => SavedHeader(file', Journal) = hdr0
      /\ \A x \in Journal : file'[x] = file[x] /\ Segment(file', x) = Segment(file, x)
      /\ \A h \in OnDisk : \A x : Guards(file', h, x) <=> Guards(file, h, x)
      /\ \A h \in OnDisk : \A s2, d2 :
           (d2 => \A x \in Needed(file, h) : s2[x] = file[x]) =>
             OldDisk(file', s2, d2, Journal, hdr0, h, before)
  BY <1>1, <1>3, <1>4, TxFrame
<1>6. Lasting' = Lasting
  BY <1>1 DEF Lasting
<1>7. OnDisk' = OnDisk
  BY <1>2, <1>6 DEF OnDisk
<1>8. SpaceInv'
  BY <1>1, <1>5 DEF SpaceInv
<1>9. OldOnDisk(hdr0)'
  <2>1. ASSUME NEW h \in OnDisk PROVE OldDisk(file', stable', Lasting, Journal, hdr0, h, before)
    <3>1. Lasting => \A x \in Needed(file, h) : stable'[x] = file[x]
      BY <1>1, <1>4, TxDisk DEF StandsFor
    <3> QED
      BY <1>5, <3>1
  <2> QED
    BY <1>5, <1>6, <1>7, <2>1 DEF OldOnDisk
<1>10. DiskInv'
  BY <1>1, <1>2, <1>7, <1>9 DEF DiskInv
<1>11. InfoInv'
  <2>1. Kept(file', {x \in Journal : x >= info.first}) = Kept(file, {x \in Journal : x >= info.first})
    BY <1>5 DEF Kept
  <2> QED
    BY <1>1, <1>5, <2>1 DEF InfoInv
<1> QED
  BY <1>1, <1>5, <1>7, <1>8, <1>10, <1>11 DEF Below

(* One of the changed buffers is written to its place.                      *)
LEMMA BufferWritten ==
  ASSUME SizeAssumption, TypeInv, TypeInv', JournalInv, pc \in {"tail", "overwrite"}, pc' = pc,
         NEW b \in Dirty, Write(b, cache[b].data), b \notin Kept(file, Journal),
         \A h \in OnDisk : b \notin Needed(file, h),
         UNCHANGED <<hdr, hdr0, hdrDirty, txErr, work, before, why, left, info, final, idx>>,
         \A x \in Block : x # b => cache'[x] = cache[x], cache'[b] # NoBuffer,
         cache'[b].data = cache[b].data, ~cache'[b].dirty, cache'[b].saved = cache[b].saved,
         cache'[b].loaded = cache[b].loaded, cache'[b].pins = cache[b].pins,
         b \in Below /\ cache'[b].orig # cache[b].orig => \A h \in OnDisk : Guards(file, h, b)
  PROVE  JournalInv'
<1>1. /\ ~txErr /\ targets = <<>> /\ targets' = <<>> /\ TypeOK
      /\ b \in Block /\ cache[b] # NoBuffer /\ cache[b].dirty /\ cache[b].pins = 0 /\ b # 0
  BY TxOpen DEF TypeInv, TargetsCached, TxPc, Dirty, TypeOK
<1>2. /\ OneKind' /\ Powered' = Powered /\ ~txErr' /\ why' = "none"
      /\ SpaceInv /\ DiskInv /\ InfoInv /\ DataInv /\ SavedInv /\ FlushInv
      /\ SpaceInv' /\ DiskInv' /\ InfoInv'
      /\ Journal' = Journal /\ OnDisk' = OnDisk /\ Below' = Below
      /\ AllTargets(file', Journal) = AllTargets(file, Journal)
      /\ \A h \in OnDisk : \A x : Guards(file', h, x) <=> Guards(file, h, x)
  <2>1. pc \in TxPc \ {"markHeader", "markEnd"}
    BY DEF TxPc
  <2> QED
    BY <1>1, <2>1, FileWritten
<1>3. file'[b] = cache[b].data /\ \A x \in Block : x # b => file'[x] = file[x]
  BY <1>1, WriteIs
<1>4. InUse(b) /\ work[b] = cache[b].data
  BY <1>1, <1>2 DEF DataInv
<1>5. DataInv'
  <2>1. ASSUME NEW x \in Block, InUse(x)
        PROVE  work[x] = IF cache'[x] = NoBuffer THEN file'[x] ELSE cache'[x].data
    BY <1>2, <1>3, <1>4, <2>1 DEF DataInv
  <2>2. ASSUME NEW x \in Block, cache'[x] # NoBuffer
        PROVE  /\ InUse(x) /\ ~cache'[x].dirty => cache'[x].data = file'[x]
               /\ cache'[x].dirty \/ cache'[x].pins > 0 => InUse(x)
    BY <1>2, <1>3, <1>4, <2>2 DEF DataInv
  <2>3. Pinned' = Pinned
    BY <1>1 DEF Pinned
  <2> QED
    BY <1>2, <2>1, <2>2, <2>3 DEF DataInv, InUse
<1>6. SavedInv'
  <2>1. ASSUME NEW x \in Below, cache'[x] # NoBuffer
        PROVE  /\ cache'[x].loaded /\ x \in Live(hdr0) =>
                    \A h \in OnDisk : ~Guards(file, h, x) => cache'[x].orig = before[x]
               /\ cache'[x].saved => x \in AllTargets(file, Journal)
    <3>1. CASE x # b
      <4>1. x \in Block
        BY <1>1, BelowIs
      <4>2. cache'[x] = cache[x]
        BY <3>1, <4>1
      <4> QED
        BY <1>1, <1>2, <2>1, <4>2 DEF SavedInv
    <3>2. CASE x = b
      BY <1>1, <1>2, <3>2 DEF SavedInv
    <3> QED
      BY <3>1, <3>2
  <2> QED
    BY <1>1, <1>2, <2>1 DEF SavedInv
<1>7. FlushInv'
  <2>1. ASSUME NEW x \in Dirty' PROVE x \in Dirty /\ cache'[x] = cache[x]
    BY DEF Dirty
  <2>2. \A x \in Unsaved' : x \in Unsaved /\ cache'[x] = cache[x]
    BY <1>2, <2>1 DEF Unsaved
  <2>3. file'[0] = file[0] /\ stable'[0] = stable[0]
    BY <1>1, WriteIs, BlockIs
  <2> QED
    BY <1>2, <2>1, <2>2, <2>3 DEF FlushInv
<1> QED
  BY <1>1, <1>2, <1>5, <1>6, <1>7, TxDone DEF TxPc

(* A changed block is one of the database.                                  *)
LEMMA DirtyIs ==
  ASSUME SizeAssumption, TypeOK, SpaceInv, DataInv, NEW b \in Dirty
  PROVE  /\ b \in Block /\ b # 0 /\ cache[b] # NoBuffer /\ cache[b] \in Buffer /\ InUse(b)
         /\ b \notin Kept(file, Journal) /\ b \in Live(hdr)
<1>1. b \in Block /\ b # 0 /\ cache[b] # NoBuffer /\ cache[b] \in Buffer /\ cache[b].dirty
  BY DEF Dirty, TypeOK
<1>2. InUse(b)
  BY <1>1 DEF DataInv
<1>3. b \in {x \in Block : work[x] # Free}
  BY <1>1, <1>2 DEF InUse
<1> QED
  BY <1>1, <1>2, <1>3 DEF SpaceInv

LEMMA TailWriteJournal ==
  ASSUME SizeAssumption, BufferAssumption, TypeInv, TypeInv', JournalInv, TailWrite
  PROVE  JournalInv'
<1>1. /\ pc = "tail" /\ pc' = "tail" /\ TypeOK
      /\ UNCHANGED <<hdr, hdr0, hdrDirty, txErr, work, before, why, left, info, final, idx>>
  BY DEF TailWrite, flush, ghost, TypeInv
<1>2. PICK b \in Block :
        /\ b \in Dirty \ Below /\ Write(b, cache[b].data)
        /\ cache' = [cache EXCEPT ![b].dirty = FALSE]
  BY DEF TailWrite, Least
<1>3. SpaceInv /\ DiskInv /\ DataInv
  BY <1>1, TxOpen DEF TxPc
<1>4. /\ b \in Block /\ b # 0 /\ cache[b] # NoBuffer /\ cache[b] \in Buffer
      /\ b \notin Kept(file, Journal)
  BY <1>1, <1>2, <1>3, DirtyIs
<1>5. b \notin Live(hdr0)
  <2>1. hdr0.free \in Nat
    BY <1>1, <1>3, TxList
  <2>2. b \in Nat
    BY <1>4, BlockIs
  <2> QED
    BY <1>2, <2>1, <2>2 DEF Live, Below
<1>6. \A h \in OnDisk : b \notin Needed(file, h)
  BY <1>1, <1>3, <1>4, <1>5, TxDisk
<1>7. /\ \A x \in Block : x # b => cache'[x] = cache[x]
      /\ cache'[b] # NoBuffer /\ cache'[b].data = cache[b].data /\ ~cache'[b].dirty
      /\ cache'[b].saved = cache[b].saved /\ cache'[b].loaded = cache[b].loaded
      /\ cache'[b].pins = cache[b].pins /\ cache'[b].orig = cache[b].orig
  <2>1. cache'[b] = [cache[b] EXCEPT !.dirty = FALSE] /\ \A x \in Block : x # b => cache'[x] = cache[x]
    BY <1>1, <1>2 DEF TypeOK
  <2>2. cache'[b] \in Buffer
    BY <1>4, <2>1 DEF Buffer
  <2> QED
    BY <1>4, <2>1, <2>2 DEF Buffer, BufferAssumption
<1> QED
  BY <1>1, <1>2, <1>4, <1>6, <1>7, BufferWritten

LEMMA OverwriteJournal ==
  ASSUME SizeAssumption, BufferAssumption, TypeInv, TypeInv', JournalInv, Overwrite
  PROVE  JournalInv'
<1>1. /\ pc = "overwrite" /\ pc' = "overwrite" /\ TypeOK /\ targets = <<>>
      /\ UNCHANGED <<hdr, hdr0, hdrDirty, txErr, work, before, why, left, info, final, idx>>
  BY DEF Overwrite, flush, ghost, TypeInv, TargetsCached
<1>2. PICK b \in Block :
        /\ b \in Dirty \cap Below /\ Write(b, cache[b].data)
        /\ cache' = [cache EXCEPT ![b].dirty = FALSE, ![b].orig = cache[b].data]
  BY DEF Overwrite, Least
<1>3. SpaceInv /\ DiskInv /\ DataInv /\ SavedInv /\ FlushInv
  BY <1>1, TxOpen DEF TxPc
<1>4. /\ b \in Block /\ b # 0 /\ cache[b] # NoBuffer /\ cache[b] \in Buffer
      /\ b \notin Kept(file, Journal)
  BY <1>1, <1>2, <1>3, DirtyIs
<1>5. b \in AllTargets(file, Journal)
  <2>1. b \notin Unsaved
    BY <1>1, <1>3 DEF FlushInv
  <2>2. cache[b].saved
    BY <1>2, <2>1 DEF Unsaved
  <2> QED
    BY <1>1, <1>2, <1>3, <1>4, <2>2 DEF SavedInv
<1>6. hdr.rollback # 0
  <2>1. Journal # {}
    BY <1>5 DEF AllTargets
  <2> QED
    BY <1>1, <1>3, <2>1, TxList DEF IsList
<1>7. file[0] = hdr /\ stable[0] = hdr /\ hdr.inTx
  BY <1>1, <1>3, <1>6 DEF SpaceInv, FlushInv
<1>8. ASSUME NEW h \in OnDisk PROVE Guards(file, h, b) /\ b \notin Needed(file, h)
  <2>1. h = hdr
    BY <1>7 DEF OnDisk
  <2>2. Guards(file, h, b)
    BY <1>5, <1>7, <2>1 DEF Guards, Journal
  <2>3. Intact(file, h)
    BY <1>1, <1>3, TxDisk
  <2> QED
    BY <2>2, <2>3, GuardsNeeded
<1>9. /\ \A x \in Block : x # b => cache'[x] = cache[x]
      /\ cache'[b] # NoBuffer /\ cache'[b].data = cache[b].data /\ ~cache'[b].dirty
      /\ cache'[b].saved = cache[b].saved /\ cache'[b].loaded = cache[b].loaded
      /\ cache'[b].pins = cache[b].pins
  <2>1. /\ cache'[b] = [cache[b] EXCEPT !.dirty = FALSE, !.orig = cache[b].data]
        /\ \A x \in Block : x # b => cache'[x] = cache[x]
    BY <1>1, <1>2 DEF TypeOK
  <2>2. cache'[b] \in Buffer
    BY <1>4, <2>1 DEF Buffer
  <2> QED
    BY <1>4, <2>1, <2>2 DEF Buffer, BufferAssumption
<1> QED
  BY <1>1, <1>2, <1>4, <1>8, <1>9, BufferWritten

LEMMA TailDoneJournal ==
  ASSUME SizeAssumption, TypeInv, JournalInv, TailDone
  PROVE  JournalInv'
<1>1. /\ pc = "tail" /\ ~txErr /\ TypeOK /\ pc' = "chunk" /\ Dirty \ Below = {}
      /\ targets = <<>>
      /\ UNCHANGED <<file, stable, hdr, hdr0, hdrDirty, cache, txErr, work, before, why, final,
                     info, idx, left, targets>>
  BY TxOpen DEF TailDone, disk, memory, flush, ghost, TypeInv, TargetsCached, TxPc
<1>2. /\ OneKind' /\ Powered' = Powered /\ ~txErr' /\ why' = "none"
      /\ SpaceInv /\ DiskInv /\ InfoInv /\ DataInv /\ SavedInv /\ FlushInv
      /\ SpaceInv' /\ DiskInv'
      /\ Journal' = Journal /\ OnDisk' = OnDisk /\ Below' = Below
  BY <1>1, QuietStep DEF TxPc
<1>3. DataInv' /\ SavedInv'
  BY <1>1, <1>2 DEF DataInv, SavedInv, InUse, Pinned
<1>4. InfoInv'
  BY <1>1, <1>2 DEF InfoInv
<1>5. FlushInv'
  BY <1>1, <1>2 DEF FlushInv, Unsaved, Dirty
<1> QED
  BY <1>1, <1>2, <1>3, <1>4, <1>5, TxDone DEF TxPc

LEMMA ChunkHeadIs ==
  ASSUME TypeOK
  PROVE  /\ ChunkHead \in Chunk /\ ChunkHead.target = targets /\ ChunkHead.next = hdr.rollback
         /\ Chunked(ChunkHead) \in Nat /\ Chunked(ChunkHead) >= 1
         /\ Chunked(ChunkHead) = Len(targets) + 1 + (IF hdr.rollback = 0 THEN 1 ELSE 0)
         /\ Len(targets) \in Nat /\ DOMAIN targets = 1..Len(targets)
<1>1. ChunkHead \in Chunk /\ ChunkHead.target = targets /\ ChunkHead.next = hdr.rollback
  BY HeaderFields DEF ChunkHead, Chunk, TypeOK
<1>2. Len(targets) \in Nat /\ DOMAIN targets = 1..Len(targets)
  BY DEF TypeOK
<1> QED
  BY <1>1, <1>2 DEF Chunked

LEMMA LastChunkJournal ==
  ASSUME SizeAssumption, TypeInv, JournalInv, LastChunk
  PROVE  JournalInv'
<1>1. /\ pc = "chunk" /\ ~txErr /\ TypeOK /\ pc' = "chunkIO"
      /\ UNCHANGED <<file, stable, hdr, hdr0, hdrDirty, cache, txErr, work, before, why, final,
                     info, idx, left, targets>>
  BY TxOpen DEF LastChunk, disk, memory, flush, ghost, TypeInv, TxPc
<1>2. /\ OneKind' /\ Powered' = Powered /\ ~txErr' /\ why' = "none"
      /\ SpaceInv /\ DiskInv /\ InfoInv /\ DataInv /\ SavedInv /\ FlushInv
      /\ SpaceInv' /\ DiskInv'
      /\ Journal' = Journal /\ OnDisk' = OnDisk /\ Below' = Below
  BY <1>1, QuietStep DEF TxPc
<1>3. DataInv' /\ SavedInv'
  BY <1>1, <1>2 DEF DataInv, SavedInv, InUse, Pinned
<1>4. InfoInv'
  BY <1>1, <1>2 DEF InfoInv
<1>5. FlushInv'
  <2>1. idx = 0 /\ idx' = 0
    BY <1>1, <1>2 DEF FlushInv
  <2>2. Chunked(ChunkHead)' = Chunked(ChunkHead)
    BY <1>1 DEF ChunkHead
  <2>3. /\ idx' < Chunked(ChunkHead)'
        /\ \A i \in 0..idx' - 1 : file'[hdr'.free + i] = ChunkBlock(i)'
    BY <1>1, <2>1, <2>2, ChunkHeadIs
  <2> QED
    BY <1>1, <1>2, <2>3 DEF FlushInv, Unsaved, Dirty
<1> QED
  BY <1>1, <1>2, <1>3, <1>4, <1>5, TxDone DEF TxPc

LEMMA ChunksDoneJournal ==
  ASSUME SizeAssumption, TypeInv, JournalInv, ChunksDone
  PROVE  JournalInv'
<1>1. /\ pc = "chunk" /\ ~txErr /\ TypeOK /\ pc' = (IF hdrDirty THEN "markFlush" ELSE "overwrite")
      /\ Unsaved = {} /\ ~(hdrDirty /\ hdr.rollback = 0)
      /\ UNCHANGED <<file, stable, hdr, hdr0, hdrDirty, cache, txErr, work, before, why, final,
                     info, idx, left, targets>>
  BY TxOpen DEF ChunksDone, disk, memory, flush, ghost, TypeInv, TxPc
<1>2. /\ OneKind' /\ Powered' = Powered /\ ~txErr' /\ why' = "none"
      /\ SpaceInv /\ DiskInv /\ InfoInv /\ DataInv /\ SavedInv /\ FlushInv
      /\ SpaceInv' /\ DiskInv'
      /\ Journal' = Journal /\ OnDisk' = OnDisk /\ Below' = Below
  BY <1>1, QuietStep DEF TxPc
<1>3. DataInv' /\ SavedInv'
  BY <1>1, <1>2 DEF DataInv, SavedInv, InUse, Pinned
<1>4. InfoInv'
  BY <1>1, <1>2 DEF InfoInv
<1>5. FlushInv'
  BY <1>1, <1>2 DEF FlushInv, Unsaved, Dirty
<1> QED
  BY <1>1, <1>2, <1>3, <1>4, <1>5, TxDone DEF TxPc

LEMMA AddBufferJournal ==
  ASSUME SizeAssumption, BufferAssumption, TypeInv, TypeInv', JournalInv, AddBuffer
  PROVE  JournalInv'
<1>1. /\ pc = "chunk" /\ ~txErr /\ TypeOK /\ pc' \in {"chunk", "chunkIO"}
      /\ UNCHANGED <<file, stable, hdr, hdr0, hdrDirty, txErr, work, before, why, final,
                     info, idx, left>>
  BY TxOpen DEF AddBuffer, disk, ghost, TypeInv, TxPc
<1>2. /\ OneKind' /\ Powered' = Powered /\ ~txErr' /\ why' = "none"
      /\ SpaceInv /\ DiskInv /\ InfoInv /\ DataInv /\ SavedInv /\ FlushInv
      /\ SpaceInv' /\ DiskInv'
      /\ Journal' = Journal /\ OnDisk' = OnDisk /\ Below' = Below
  BY <1>1, QuietStep DEF TxPc
<1>3. PICK b \in Block :
        /\ b \in Unsaved /\ targets' = Append(targets, b)
        /\ cache' = [cache EXCEPT ![b].saved = TRUE]
  BY DEF AddBuffer, Least
<1>4. /\ b \in Dirty /\ b \in Below /\ ~cache[b].saved /\ cache[b].loaded
      /\ cache[b] # NoBuffer /\ cache[b] \in Buffer
  <2>1. b \in Dirty /\ b \in Below /\ ~cache[b].saved /\ cache[b].loaded
    BY <1>1, <1>2, <1>3 DEF Unsaved, FlushInv
  <2> QED
    BY <1>1, <1>2, <2>1, DirtyIs
<1>5. /\ \A x \in Block : x # b => cache'[x] = cache[x]
      /\ cache'[b] # NoBuffer /\ cache'[b].data = cache[b].data /\ cache'[b].dirty = cache[b].dirty
      /\ cache'[b].saved /\ cache'[b].loaded = cache[b].loaded
      /\ cache'[b].pins = cache[b].pins /\ cache'[b].orig = cache[b].orig
  <2>1. cache'[b] = [cache[b] EXCEPT !.saved = TRUE] /\ \A x \in Block : x # b => cache'[x] = cache[x]
    BY <1>1, <1>3 DEF TypeOK
  <2>2. cache'[b] \in Buffer
    BY <1>4, <2>1 DEF Buffer
  <2> QED
    BY <1>4, <2>1, <2>2 DEF Buffer, BufferAssumption
<1>6. DataInv'
  <2>1. Pinned' = Pinned
    BY <1>4, <1>5 DEF Pinned
  <2>2. ASSUME NEW x \in Block
        PROVE  /\ cache'[x] = NoBuffer <=> cache[x] = NoBuffer
               /\ cache[x] # NoBuffer => /\ cache'[x].data = cache[x].data
                                         /\ cache'[x].dirty = cache[x].dirty
                                         /\ cache'[x].pins = cache[x].pins
    BY <1>4, <1>5
  <2> QED
    BY <1>1, <1>2, <2>1, <2>2 DEF DataInv, InUse
<1> DEFINE n == Len(targets)
<1>7. /\ n \in Nat /\ DOMAIN targets = 1..n /\ DOMAIN targets' = 1..n + 1
      /\ targets'[n + 1] = b /\ \A i \in 1..n : targets'[i] = targets[i]
  BY <1>1, <1>3 DEF TypeOK
<1> HIDE DEF n
<1>8. SavedInv'
  <2>1. ASSUME NEW x \in Below, cache'[x] # NoBuffer
        PROVE  /\ cache'[x].loaded /\ x \in Live(hdr0) =>
                    \A h \in OnDisk : ~Guards(file, h, x) => cache'[x].orig = before[x]
               /\ cache'[x].saved =>
                    x \in AllTargets(file, Journal) \/ \E i \in DOMAIN targets' : targets'[i] = x
    <3>1. CASE x # b
      <4>1. cache'[x] = cache[x]
        BY <1>1, <1>5, <3>1, BelowIs
      <4> QED
        BY <1>2, <1>7, <2>1, <4>1 DEF SavedInv
    <3>2. CASE x = b
      <4>1. n + 1 \in DOMAIN targets'
        BY <1>7
      <4> QED
        BY <1>2, <1>4, <1>5, <1>7, <3>2, <4>1 DEF SavedInv
    <3> QED
      BY <3>1, <3>2
  <2>2. \A i \in DOMAIN targets : targets[i] \in Below /\ cache[targets[i]].loaded
                                   /\ cache[targets[i]].saved /\ targets[i] # b
    BY <1>2, <1>4 DEF SavedInv
  <2>3. ASSUME NEW i \in DOMAIN targets'
        PROVE  /\ targets'[i] \in Below /\ cache'[targets'[i]].loaded /\ cache'[targets'[i]].saved
               /\ \A j \in DOMAIN targets' : targets'[i] = targets'[j] => i = j
    <3>1. CASE i = n + 1
      <4>1. \A j \in 1..n : targets'[j] # b
        BY <1>7, <2>2
      <4>2. targets'[i] = b
        BY <1>7, <3>1
      <4>3. \A j \in DOMAIN targets' : j # i => j \in 1..n
        BY <1>7, <3>1
      <4> QED
        BY <1>4, <1>5, <4>1, <4>2, <4>3
    <3>2. CASE i \in 1..n
      <4>1. targets'[i] = targets[i] /\ targets[i] \in Below /\ targets[i] # b
            /\ cache[targets[i]].loaded /\ cache[targets[i]].saved
        BY <1>7, <2>2, <3>2
      <4>2. cache'[targets'[i]] = cache[targets[i]]
        BY <1>1, <1>5, <4>1, BelowIs
      <4>3. \A j \in 1..n : targets[i] = targets[j] => i = j
        BY <1>2, <1>7, <3>2 DEF SavedInv
      <4> QED
        <5>1. ASSUME NEW j \in DOMAIN targets', targets'[i] = targets'[j] PROVE i = j
          <6>1. j # n + 1
            BY <1>7, <4>1, <5>1
          <6>2. j \in 1..n
            BY <1>7, <6>1
          <6> QED
            BY <1>7, <4>1, <4>3, <5>1, <6>2
        <5> QED
          BY <4>1, <4>2, <5>1
    <3>3. i = n + 1 \/ i \in 1..n
      BY <1>7
    <3> QED
      BY <3>1, <3>2, <3>3
  <2> QED
    BY <1>1, <1>2, <2>1, <2>3 DEF SavedInv
<1>9. FlushInv'
  <2>1. Dirty' = Dirty
    BY <1>4, <1>5 DEF Dirty
  <2>2. \A x \in Unsaved' : x \in Unsaved /\ cache'[x] = cache[x]
    <3>1. ASSUME NEW x \in Unsaved' PROVE x # b /\ x \in Block
      BY <1>5 DEF Unsaved, Dirty
    <3> QED
      BY <1>2, <1>5, <2>1, <3>1 DEF Unsaved
  <2>3. idx = 0 /\ idx' = 0
    BY <1>1, <1>2 DEF FlushInv
  <2>4. Len(targets') = n + 1
    BY <1>1, <1>3 DEF TypeOK, n
  <2>5. Chunked(ChunkHead)' >= 1 /\ Chunked(ChunkHead)' \in Nat
    BY <1>7, <2>4 DEF ChunkHead, Chunked
  <2> QED
    BY <1>1, <1>2, <2>1, <2>2, <2>3, <2>5 DEF FlushInv
<1>10. InfoInv'
  BY <1>1, <1>2 DEF InfoInv
<1> QED
  BY <1>1, <1>2, <1>6, <1>8, <1>9, <1>10, TxDone DEF TxPc

(* At the end of the flush that ends a transaction the file holds it.       *)
LEMMA AllWritten ==
  ASSUME FreeAssumption, TypeOK, DataInv, final, Dirty = {}
  PROVE  \A b \in Block : Changed[b] = IF work[b] = Free THEN Free ELSE file[b]
<1> SUFFICES ASSUME NEW b \in Block
             PROVE  Changed[b] = IF work[b] = Free THEN Free ELSE file[b]
  OBVIOUS
<1>1. Changed[b] = IF work[b] = Fresh THEN file[b] ELSE work[b]
  BY DEF Changed
<1>2. CASE work[b] \in {Free, Fresh}
  BY <1>1, <1>2 DEF FreeAssumption
<1>3. CASE InUse(b)
  <2>1. cache[b] # NoBuffer => ~cache[b].dirty
    <3> SUFFICES ASSUME cache[b] # NoBuffer, cache[b].dirty PROVE FALSE
      OBVIOUS
    <3>1. cache[b].pins \in Nat
      BY DEF TypeOK, Buffer
    <3>2. b \notin Pinned
      BY DEF DataInv
    <3> QED
      BY <3>1, <3>2 DEF Dirty, Pinned
  <2>2. work[b] = file[b]
    BY <1>3, <2>1 DEF DataInv
  <2> QED
    BY <1>1, <1>3, <2>2 DEF InUse
<1> QED
  BY <1>2, <1>3 DEF InUse

LEMMA FlushDoneJournal ==
  ASSUME SizeAssumption, FreeAssumption, TypeInv, JournalInv, FlushDone
  PROVE  JournalInv'
<1>1. /\ pc = "overwrite" /\ ~txErr /\ TypeOK /\ targets = <<>> /\ Dirty \cap Below = {}
      /\ UNCHANGED <<file, stable, left>>
  BY TxOpen DEF FlushDone, disk, TypeInv, TargetsCached, TxPc
<1>2. /\ OneKind' /\ Powered' = Powered /\ SpaceInv /\ DiskInv
      /\ InfoInv /\ DataInv /\ SavedInv /\ FlushInv /\ why = "none"
  BY <1>1, TxOpen, LeftSame DEF TxPc
<1>3. Dirty = {}
  BY <1>1, <1>2 DEF FlushInv
<1>4. CASE ~final
  <2>1. /\ pc' = "open" /\ info' = NoInfo
        /\ UNCHANGED <<hdr, hdr0, hdrDirty, txErr, final, targets, idx, why, work, before>>
    BY <1>4 DEF FlushDone, ghost
  <2>2. PICK S \in SUBSET Clean : Evict(S)
    BY <1>4 DEF FlushDone
  <2>3. /\ ~txErr' /\ why' = "none" /\ SpaceInv' /\ DiskInv'
        /\ Journal' = Journal /\ OnDisk' = OnDisk /\ Below' = Below
    BY <1>1, <2>1, QuietStep DEF TxPc
  <2>4. DataInv' /\ SavedInv'
    BY <1>1, <1>2, <2>1, <2>2, <2>3, EvictedData
  <2>5. InfoInv'
    BY <2>1 DEF InfoInv, NoInfo
  <2>6. FlushInv'
    BY <1>1, <1>2, <2>1 DEF FlushInv
  <2> QED
    BY <1>2, <1>4, <2>1, <2>3, <2>4, <2>5, <2>6, TxDone DEF TxPc
<1>5. CASE final /\ (hdrDirty \/ hdr.inTx)
  <2>1. /\ pc' = "commit"
        /\ UNCHANGED <<hdr, hdr0, hdrDirty, cache, txErr, final, targets, info, idx, why, work, before>>
    BY <1>5 DEF FlushDone, ghost, memory, flush
  <2>2. /\ ~txErr' /\ why' = "none" /\ SpaceInv' /\ DiskInv'
        /\ Journal' = Journal /\ OnDisk' = OnDisk /\ Below' = Below
    BY <1>1, <2>1, QuietStep DEF TxPc
  <2>3. DataInv' /\ SavedInv'
    BY <1>1, <1>2, <2>1, <2>2 DEF DataInv, SavedInv, InUse, Pinned
  <2>4. InfoInv'
    BY <1>1, <1>2, <2>1, <2>2 DEF InfoInv
  <2>5. FlushInv'
    BY <1>1, <1>2, <1>3, <1>5, <2>1, <2>2 DEF FlushInv, Unsaved, Dirty
  <2> QED
    BY <1>2, <2>1, <2>2, <2>3, <2>4, <2>5, TxDone DEF TxPc
<1>6. CASE final /\ ~hdrDirty /\ ~hdr.inTx
  <2>1. Terminate /\ result' = "ok" /\ UNCHANGED <<work, before>>
    BY <1>6 DEF FlushDone
  <2>2. hdr = hdr0 /\ file[0] = hdr0 /\ (Powered => stable[0] = hdr0)
    BY <1>2, <1>6, OnDiskIs DEF SpaceInv, DiskInv
  <2>3. HeaderOK(hdr0) /\ ~hdr0.inTx /\ hdr0.rollback = 0
    BY <1>2 DEF SpaceInv
  <2>4. /\ ChainOf(file, hdr0) = {} /\ Kept(file, {}) = {}
        /\ Image(file, hdr0) = LiveData(file, hdr0)
    BY <2>3, NoChain
  <2>5. {b \in Block : work[b] # Free} = Live(hdr0)
    BY <1>2, <2>2, <2>4 DEF SpaceInv, Journal
  <2>6. Changed = LiveData(file, hdr0)
    <3>1. \A b \in Block : Changed[b] = IF b \in Live(hdr0) THEN file[b] ELSE Free
      BY <1>1, <1>2, <1>3, <1>6, <2>5, AllWritten
    <3>2. Changed = [b \in Block |-> Changed[b]]
      BY DEF Changed
    <3> QED
      BY <3>1, <3>2 DEF LiveData
  <2>7. StandsFor(file, stable, Powered, hdr0, before) /\ before = Changed
    <3>1. StandsFor(file, stable, Lasting, hdr0, before) /\ Image(file, hdr0) = before
      BY <1>1, <1>2, <2>2, OnDiskIs, TxDisk
    <3>2. StandsFor(file, stable, Powered, hdr0, before)
      BY <3>1, StandsWeak DEF Stands
    <3> QED
      BY <2>4, <2>6, <3>1, <3>2
  <2>8. PICK db : db = before
    OBVIOUS
  <2>9. Changed' = Changed
    BY <1>1, <2>1 DEF Changed
  <2>10. StandsFor(file', stable', Powered', file'[0], db) /\ Said(db)'
    BY <1>1, <1>2, <2>1, <2>2, <2>3, <2>7, <2>8, <2>9 DEF Said
  <2> QED
    BY <1>1, <1>2, <2>1, <2>2, <2>10, ToIdle
<1> QED
  BY <1>4, <1>5, <1>6

-----------------------------------------------------------------------------
(* set_physical_file_in_transaction.                                        *)

LEMMA TxFlushed ==
  ASSUME SizeAssumption, TypeOK, SpaceInv, DiskInv, file' = file, stable' = file,
         hdr'.rollback = hdr.rollback, hdr0' = hdr0, before' = before
  PROVE  /\ Journal' = Journal /\ OnDisk' = {file[0]} /\ file[0] \in OnDisk
         /\ OldOnDisk(hdr0)'
<1>1. Journal' = Journal
  BY DEF Journal, ChainOf
<1>2. OnDisk' = {file[0]} /\ file[0] \in OnDisk
  BY DEF OnDisk
<1>3. \A d : OldDisk(file, file, d, Journal, hdr0, file[0], before)
  BY <1>2, TxDisk DEF OldDisk, StandsFor
<1> QED
  BY <1>1, <1>2, <1>3 DEF OldOnDisk

LEMMA MarkFlushJournal ==
  ASSUME SizeAssumption, TypeInv, TypeInv', JournalInv, MarkFlush
  PROVE  JournalInv'
<1>1. /\ pc = "markFlush" /\ pc' = "markHeader" /\ ~txErr /\ TypeOK /\ targets = <<>>
      /\ file' = file /\ stable' = file /\ hdr' = [hdr EXCEPT !.inTx = TRUE]
      /\ UNCHANGED <<hdr0, hdrDirty, cache, txErr, targets, final, info, idx, why, work, before, left>>
  BY TxOpen DEF MarkFlush, FlushFile, flush, ghost, TypeInv, TargetsCached, TxPc
<1>2. /\ OneKind' /\ Powered' = Powered /\ SpaceInv /\ DiskInv
      /\ InfoInv /\ DataInv /\ SavedInv /\ FlushInv /\ why = "none"
  BY <1>1, TxOpen, LeftSame DEF TxPc
<1>3. /\ hdr'.inTx /\ hdr'.rollback = hdr.rollback /\ hdr'.free = hdr.free
      /\ hdr'.super = hdr.super /\ hdr' \in Header /\ hdr.rollback # 0
  BY <1>1, <1>2 DEF TypeInv, TypeOK, Header, DiskInv
<1>4. /\ Journal' = Journal /\ OnDisk' = {file[0]} /\ file[0] \in OnDisk
      /\ OldOnDisk(hdr0)'
  BY <1>1, <1>2, <1>3, TxFlushed
<1>5. hdrDirty
  BY <1>2, <1>3 DEF SpaceInv
<1>6. SpaceInv'
  <2>1. HeaderOK(hdr') /\ Live(hdr') = Live(hdr)
    BY <1>2, <1>3 DEF SpaceInv, HeaderOK, Live
  <2> QED
    BY <1>1, <1>2, <1>3, <1>4, <1>5, <2>1 DEF SpaceInv
<1>7. DiskInv'
  BY <1>1, <1>2, <1>3, <1>4 DEF DiskInv
<1>8. InfoInv'
  BY <1>1, <1>2, <1>3, <1>4 DEF InfoInv
<1>9. DataInv'
  BY <1>1, <1>2 DEF DataInv, InUse, Pinned
<1>10. SavedInv'
  BY <1>1, <1>2, <1>4 DEF SavedInv, Below
<1>11. FlushInv'
  BY <1>1, <1>2 DEF FlushInv, Unsaved, Dirty, Below
<1> QED
  BY <1>1, <1>2, <1>6, <1>7, <1>8, <1>9, <1>10, <1>11, TxDone DEF TxPc

LEMMA MarkEndJournal ==
  ASSUME SizeAssumption, TypeInv, TypeInv', JournalInv, MarkEnd
  PROVE  JournalInv'
<1>1. /\ pc = "markEnd" /\ pc' = "overwrite" /\ ~txErr /\ TypeOK /\ targets = <<>>
      /\ file' = file /\ stable' = file
      /\ UNCHANGED <<hdr, hdr0, hdrDirty, cache, txErr, targets, final, info, idx, why, work,
                     before, left>>
  BY TxOpen DEF MarkEnd, FlushFile, memory, flush, ghost, TypeInv, TargetsCached, TxPc
<1>2. /\ OneKind' /\ Powered' = Powered /\ SpaceInv /\ DiskInv
      /\ InfoInv /\ DataInv /\ SavedInv /\ FlushInv /\ why = "none"
  BY <1>1, TxOpen, LeftSame DEF TxPc
<1>3. /\ Journal' = Journal /\ OnDisk' = {file[0]} /\ file[0] \in OnDisk
      /\ OldOnDisk(hdr0)'
  BY <1>1, <1>2, TxFlushed
<1>4. file[0] = hdr /\ hdr.inTx
  BY <1>1, <1>2 DEF DiskInv
<1>5. SpaceInv'
  BY <1>1, <1>2, <1>3 DEF SpaceInv
<1>6. DiskInv'
  BY <1>1, <1>2, <1>3 DEF DiskInv
<1>7. InfoInv'
  BY <1>1, <1>2, <1>3 DEF InfoInv
<1>8. DataInv'
  BY <1>1, <1>2 DEF DataInv, InUse, Pinned
<1>9. SavedInv'
  BY <1>1, <1>2, <1>3 DEF SavedInv, Below
<1>10. FlushInv'
  BY <1>1, <1>2, <1>4 DEF FlushInv, Unsaved, Dirty, Below
<1> QED
  BY <1>1, <1>2, <1>5, <1>6, <1>7, <1>8, <1>9, <1>10, TxDone DEF TxPc

LEMMA MarkHeaderJournal ==
  ASSUME SizeAssumption, TypeInv, TypeInv', JournalInv, MarkHeader
  PROVE  JournalInv'
<1>1. /\ pc = "markHeader" /\ pc' = "markEnd" /\ ~txErr /\ TypeOK /\ targets = <<>> /\ Write(0, hdr)
      /\ UNCHANGED <<hdr, hdr0, hdrDirty, cache, txErr, targets, final, info, idx, why, work,
                     before, left>>
  BY TxOpen DEF MarkHeader, memory, flush, ghost, TypeInv, TargetsCached, TxPc
<1>2. /\ OneKind' /\ Powered' = Powered /\ SpaceInv /\ DiskInv
      /\ InfoInv /\ DataInv /\ SavedInv /\ FlushInv /\ why = "none"
  BY <1>1, TxOpen, LeftSame DEF TxPc
<1>3. /\ file'[0] = hdr /\ \A b \in Block : b # 0 => file'[b] = file[b] /\ stable'[b] = stable[b]
      /\ stable'[0] \in {stable[0], file[0]}
  BY <1>1, HeaderWritten
<1>4. /\ hdr.inTx /\ stable[0] = file[0] /\ \A b \in Block \ {0} : stable[b] = file[b]
      /\ hdr.rollback # 0 /\ hdr \in Header
  BY <1>1, <1>2 DEF DiskInv, SpaceInv, TypeOK
<1>5. Lasting /\ Lasting' /\ OnDisk = {file[0]} /\ OnDisk' = {file[0], hdr} /\ stable'[0] = file[0]
  BY <1>1, <1>3, <1>4 DEF Lasting, OnDisk, TxPc
<1>6. \A b \in Kept(file, Journal) : b \in Block /\ file'[b] = file[b]
  <2>1. \A b \in Kept(file, Journal) : b \in Block /\ b # 0
    BY <1>1, <1>2, TxList
  <2> QED
    BY <1>3, <2>1
<1>7. \A h \in OnDisk : \A b \in Needed(file, h) : file'[b] = file[b] /\ stable'[b] = file[b]
  <2>1. \A h \in OnDisk : \A b \in Needed(file, h) : b \in Block /\ b # 0
    BY <1>1, <1>2, TxDisk
  <2> QED
    BY <1>3, <1>4, <2>1
<1>8. /\ Journal' = Journal /\ Kept(file', Journal) = Kept(file, Journal)
      /\ IsList(file', hdr.rollback, Journal)
      /\ \A low, high : Fits(file, Journal, low, high) => Fits(file', Journal, low, high)
      /\ SavesBelow(file', Journal, hdr0.free)
      /\ AllTargets(file', Journal) = AllTargets(file, Journal)
      /\ Journal # {} => SavedHeader(file', Journal) = hdr0
      /\ \A c \in Journal : file'[c] = file[c] /\ Segment(file', c) = Segment(file, c)
      /\ \A h \in OnDisk : \A b : Guards(file', h, b) <=> Guards(file, h, b)
      /\ \A h \in OnDisk : \A s2, d2 :
           (d2 => \A b \in Needed(file, h) : s2[b] = file[b]) =>
             OldDisk(file', s2, d2, Journal, hdr0, h, before)
  BY <1>1, <1>2, <1>6, <1>7, TxFrame
<1>9. OldDisk(file', stable', TRUE, Journal, hdr0, file[0], before)
  BY <1>5, <1>7, <1>8
<1>10. OldDisk(file', stable', TRUE, Journal, hdr0, hdr, before)
  <2> DEFINE n == hdr
             S == Journal
             f == file'
             s == stable'
             h == file[0]
  <2>1. /\ IsList(file, hdr.rollback, Journal) /\ HeaderOK(hdr0) /\ ~hdr0.inTx /\ hdr0.rollback = 0
        /\ Fits(file, Journal, hdr0.free, hdr.free)
    BY <1>1, <1>2, TxList
  <2>2. Journal # {}
    BY <1>4, <2>1 DEF IsList
  <2>3. /\ n \in Header /\ n.inTx /\ n.rollback # 0 /\ IsList(f, n.rollback, S)
        /\ SavedHeader(f, S) = hdr0 /\ Fits(f, S, hdr0.free, n.free) /\ SavesBelow(f, S, hdr0.free)
        /\ OldDisk(f, s, TRUE, S, hdr0, h, before)
    BY <1>4, <1>8, <1>9, <2>1, <2>2
  <2>4. \A b \in Block \ {0} : s[b] = f[b]
    BY <1>3, <1>4
  <2> HIDE DEF n, S, f, s, h
  <2>5. /\ Intact(f, n)
        /\ \A s2, d2 : (d2 => \A b \in Needed(f, n) : s2[b] = f[b]) =>
             OldDisk(f, s2, d2, S, hdr0, n, before)
    BY <2>1, <2>3, OldDiskMark
  <2>6. \A b \in Needed(f, n) : s[b] = f[b]
    BY <2>4, <2>5, IntactFacts
  <2>7. OldDisk(f, s, TRUE, S, hdr0, n, before)
    BY <2>5, <2>6
  <2> QED
    BY <2>7 DEF n, S, f, s
<1>11. SpaceInv'
  BY <1>1, <1>2, <1>8 DEF SpaceInv
<1>12. DiskInv'
  <2>1. \A h \in OnDisk' : h.free <= hdr.free /\ (h = hdr0 \/ (hdr.inTx /\ h.inTx))
    <3>1. hdr.free <= hdr.free
      BY <1>4, HeaderFields
    <3> QED
      BY <1>2, <1>4, <1>5, <3>1 DEF DiskInv
  <2>2. OldOnDisk(hdr0)'
    BY <1>1, <1>5, <1>8, <1>9, <1>10 DEF OldOnDisk
  <2> QED
    BY <1>1, <1>3, <1>4, <2>1, <2>2 DEF DiskInv
<1>13. InfoInv'
  <2>1. Kept(file', {x \in Journal : x >= info.first}) = Kept(file, {x \in Journal : x >= info.first})
    BY <1>8 DEF Kept
  <2> QED
    BY <1>1, <1>2, <1>8, <2>1 DEF InfoInv
<1>14. DataInv'
  <2>1. cache[0] = NoBuffer /\ ~InUse(0)
    <3>1. 0 \notin Live(hdr) /\ 0 \in Block
      BY <1>4, LiveIs, BlockIs
    <3>2. 0 \notin {b \in Block : work[b] # Free}
      BY <1>2, <3>1 DEF SpaceInv
    <3> QED
      BY <1>1, <3>1, <3>2 DEF TypeOK, InUse
  <2> QED
    BY <1>1, <1>2, <1>3, <2>1 DEF DataInv, InUse, Pinned
<1>15. SavedInv'
  <2>1. Below' = Below
    BY <1>1 DEF Below
  <2>2. ASSUME NEW b, ~Guards(file', hdr, b) PROVE ~Guards(file, file[0], b)
    <3>1. b \notin AllTargets(file, Journal)
      <4>1. ChainOf(file', hdr) = Journal
        <5>1. Journal' = ChainOf(file', hdr')
          BY DEF Journal
        <5> QED
          BY <1>1, <1>8, <5>1
      <4> QED
        BY <1>4, <1>8, <2>2, <4>1 DEF Guards
    <3>2. ChainOf(file, file[0]) \subseteq Journal
      <4>1. /\ HeaderOK(hdr0) /\ ~hdr0.inTx /\ hdr0.rollback = 0
            /\ IsList(file, hdr.rollback, Journal) /\ (Journal # {} => SavedHeader(file, Journal) = hdr0)
        BY <1>1, <1>2, TxList
      <4>2. OldDisk(file, stable, Lasting, Journal, hdr0, file[0], before)
        BY <1>1, <1>2, <1>5, TxDisk
      <4> DEFINE r == hdr.rollback
                 d == Lasting
      <4>3. IsList(file, r, Journal) /\ OldDisk(file, stable, d, Journal, hdr0, file[0], before)
        BY <4>1, <4>2
      <4> HIDE DEF r, d
      <4> QED
        BY <4>1, <4>3, OldDiskIs
    <3> QED
      BY <3>1, <3>2 DEF Guards, AllTargets
  <2>3. \A h \in OnDisk' : \A b : ~Guards(file', h, b) => ~Guards(file, file[0], b)
    BY <1>5, <1>8, <2>2
  <2> QED
    BY <1>1, <1>2, <1>5, <1>8, <2>1, <2>3 DEF SavedInv
<1>16. FlushInv'
  BY <1>1, <1>2 DEF FlushInv, Unsaved, Dirty, Below
<1> QED
  BY <1>1, <1>2, <1>11, <1>12, <1>13, <1>14, <1>15, <1>16, TxDone DEF TxPc

-----------------------------------------------------------------------------
(* write_rollback_chunk.                                                    *)

(* The file g is f with a chunk k blocks long at n, behind the chunks of r.  *)
ChunkBehind(f, r, S, low, n, k, g) ==
  /\ r \in Block /\ IsList(f, r, S)
  /\ low \in Nat /\ n \in Nat /\ 1 <= low /\ low <= n
  /\ Fits(f, S, low, n) /\ SavesBelow(f, S, low)
  /\ \A b \in Block : b < n => g[b] = f[b]
  /\ g[n] \in Chunk /\ g[n].next = r /\ k = Chunked(g[n]) /\ n + k <= NBlocks
  /\ Targets(g[n]) \subseteq 1..low - 1
  /\ \A i, j \in DOMAIN g[n].target : g[n].target[i] = g[n].target[j] => i = j

LEMMA ChunkAdded ==
  ASSUME SizeAssumption, NEW f, NEW r, NEW S, NEW low, NEW n, NEW k, NEW g,
         ChunkBehind(f, r, S, low, n, k, g), NEW T, T = S \cup {n}
  PROVE  /\ IsList(g, n, T) /\ Chain(g, n) = T /\ n \notin S
         /\ Fits(g, T, low, n + k) /\ SavesBelow(g, T, low)
         /\ Kept(g, T) = Kept(f, S) \cup (n..(n + k) - 1)
         /\ AllTargets(g, T) = AllTargets(f, S) \cup Targets(g[n])
         /\ S # {} => SavedHeader(g, T) = SavedHeader(f, S)
         /\ S = {} => SavedHeader(g, T) = g[n + Len(g[n].target) + 1]
         /\ \A c \in S : g[c] = f[c] /\ Segment(g, c) = Segment(f, c) /\ c < n /\ c \in Nat
         /\ Segment(g, n) = n..(n + k) - 1
<1> USE DEF ChunkBehind
<1>1. k \in Nat /\ k >= 1 /\ NBlocks \in Nat /\ r \in Nat
  BY ChunkFields, BlockIs
<1>2. \A b \in Kept(f, S) : g[b] = f[b]
  BY FitsKept
<1>3. /\ IsList(g, r, S) /\ Kept(g, S) = Kept(f, S) /\ AllTargets(g, S) = AllTargets(f, S)
      /\ \A c \in S : g[c] = f[c] /\ Segment(g, c) = Segment(f, c)
      /\ S # {} => SavedHeader(g, S) = SavedHeader(f, S)
      /\ Fits(g, S, low, n) /\ SavesBelow(g, S, low)
  <2>1. /\ Chain(f, r) = S /\ Chain(g, r) = S /\ IsList(g, r, S)
        /\ Kept(g, S) = Kept(f, S) /\ AllTargets(g, S) = AllTargets(f, S)
        /\ \A c \in S : g[c] = f[c] /\ Segment(g, c) = Segment(f, c)
        /\ \A c \in S : \A b \in Targets(f[c]) : CopyOf(g, c, b) = CopyOf(f, c, b)
        /\ S # {} => SavedHeader(g, S) = SavedHeader(f, S)
        /\ \A x, y : Fits(f, S, x, y) => Fits(g, S, x, y)
        /\ \A y : SavesBelow(f, S, y) => SavesBelow(g, S, y)
    BY <1>2, ChainFrame
  <2> QED
    BY <2>1
<1>4. ASSUME NEW c \in S
      PROVE  c \in Nat /\ Chunked(g[c]) \in Nat /\ Chunked(g[c]) >= 1 /\ low <= c
             /\ c + Chunked(g[c]) <= n
  BY <1>3, ListFacts DEF Fits
<1>5. \A c \in S : c < n
  <2> SUFFICES ASSUME NEW c \in S PROVE c < n
    OBVIOUS
  <2> DEFINE j == Chunked(g[c])
  <2>1. c \in Nat /\ j \in Nat /\ j >= 1 /\ c + j <= n
    BY <1>4
  <2> HIDE DEF j
  <2> QED
    BY <2>1
<1>6. n \in 1..NBlocks - 1 /\ n \in Block
  BY <1>1, BlockIs
<1>7. IsList(g, n, T) /\ n \notin S
  <2>1. \A c \in S : c + Chunked(g[c]) <= n
    BY <1>4
  <2>2. n + Chunked(g[n]) <= NBlocks
    OBVIOUS
  <2> QED
    BY <1>1, <1>3, <1>6, <2>1, <2>2, ListAdd
<1>8. Chain(g, n) = T
  BY <1>6, <1>7, ListIsChain
<1>9. Fits(g, T, low, n + k)
  <2> SUFFICES ASSUME NEW c \in T PROVE low <= c /\ c + Chunked(g[c]) <= n + k
    BY DEF Fits
  <2>1. CASE c = n
    BY <1>1, <2>1
  <2>2. CASE c \in S
    <3> DEFINE j == Chunked(g[c])
    <3>1. c \in Nat /\ j \in Nat /\ low <= c /\ c + j <= n
      BY <1>4, <2>2
    <3> HIDE DEF j
    <3>2. c + j <= n + k
      BY <1>1, <3>1
    <3> QED
      BY <3>1, <3>2 DEF j
  <2> QED
    BY <2>1, <2>2
<1>10. SavesBelow(g, T, low)
  BY <1>3 DEF SavesBelow
<1>11. Segment(g, n) = n..(n + k) - 1
  BY <1>1 DEF Segment
<1>12. Kept(g, T) = Kept(f, S) \cup (n..(n + k) - 1)
  <2>1. Kept(g, T) = Kept(g, S) \cup Segment(g, n)
    <3>1. n \in T /\ T = S \cup {n}
      OBVIOUS
    <3> QED
      BY <3>1, KeptSplit
  <2> QED
    BY <1>3, <1>11, <2>1
<1>13. AllTargets(g, T) = AllTargets(f, S) \cup Targets(g[n])
  <2>1. AllTargets(g, T) = AllTargets(g, S) \cup Targets(g[n])
    BY DEF AllTargets
  <2> QED
    BY <1>3, <2>1
<1>14. S # {} => SavedHeader(g, T) = SavedHeader(f, S)
  <2>1. S # {} => SavedHeader(g, T) = SavedHeader(g, S)
    BY <1>3, <1>7, SavedSame
  <2> QED
    BY <1>3, <2>1
<1>15. S = {} => SavedHeader(g, T) = g[n + Len(g[n].target) + 1]
  <2> SUFFICES ASSUME S = {} PROVE SavedHeader(g, T) = g[n + Len(g[n].target) + 1]
    OBVIOUS
  <2>1. PICK c \in T : /\ g[c].next = 0
                      /\ \A e \in T : c <= e /\ (g[e].next = 0 => e = c)
                      /\ SavedHeader(g, T) = g[c + Len(g[c].target) + 1]
                      /\ c + Len(g[c].target) + 1 \in Segment(g, c)
    <3>1. T # {}
      OBVIOUS
    <3> QED
      BY <1>7, <3>1, OldestIs
  <2>2. c = n
    OBVIOUS
  <2> QED
    BY <2>1, <2>2
<1> QED
  BY <1>3, <1>4, <1>5, <1>7, <1>8, <1>9, <1>10, <1>11, <1>12, <1>13, <1>14, <1>15

(* Where the chunk is written, and what is written already.                 *)
LEMMA ChunkPlace ==
  ASSUME SizeAssumption, TypeInv, JournalInv, ChunkWrite
  PROVE  /\ pc = "chunkIO" /\ ~txErr /\ TypeOK /\ why = "none"
         /\ SpaceInv /\ DiskInv /\ InfoInv /\ DataInv /\ SavedInv /\ FlushInv
         /\ OneKind' /\ Powered' = Powered
         /\ hdr.free \in Nat /\ 1 <= hdr.free /\ Chunked(ChunkHead) \in Nat /\ idx \in Nat
         /\ idx < Chunked(ChunkHead) /\ hdr.free + Chunked(ChunkHead) < NBlocks
         /\ hdr.free + idx \in Block /\ hdr.free + idx # 0
         /\ hdr.free + idx \notin Kept(file, Journal)
         /\ \A h \in OnDisk : hdr.free + idx \notin Needed(file, h)
         /\ \A i \in 0..idx : file'[hdr.free + i] = ChunkBlock(i)
         /\ \A x \in Block : x < hdr.free => file'[x] = file[x] /\ stable'[x] = stable[x]
<1>1. /\ pc = "chunkIO" /\ ~txErr /\ TypeOK /\ ChunkFits /\ left' = left
      /\ Write(hdr.free + idx, ChunkBlock(idx))
  BY TxOpen DEF ChunkWrite, TypeInv, TxPc
<1>2. /\ SpaceInv /\ DiskInv /\ InfoInv /\ DataInv /\ SavedInv /\ FlushInv /\ why = "none"
      /\ OneKind' /\ Powered' = Powered
  BY <1>1, TxOpen, LeftSame DEF TxPc
<1> DEFINE n == hdr.free
           k == Chunked(ChunkHead)
<1>3. /\ n \in Nat /\ 1 <= n /\ k \in Nat /\ idx \in Nat /\ idx < k /\ NBlocks \in Nat
      /\ \A i \in 0..idx - 1 : file[n + i] = ChunkBlock(i)
  BY <1>1, <1>2, HeaderFields, ChunkHeadIs, BlockIs DEF TypeOK, FlushInv
<1>4. n + k < NBlocks
  <2>1. n < NBlocks - k
    BY <1>1 DEF ChunkFits
  <2> HIDE DEF n, k
  <2> QED
    BY <1>3, <2>1
<1>5. \A x \in Kept(file, Journal) : x \in Nat /\ x < n
  BY <1>1, <1>2, TxList
<1>6. \A h \in OnDisk : \A x \in Needed(file, h) : x \in Nat /\ x < n
  BY <1>1, <1>2, TxDisk
<1>7. Write(n + idx, ChunkBlock(idx))
  BY <1>1
<1> HIDE DEF n, k
<1>8. n + idx \in Block /\ n + idx # 0 /\ n + idx \in Nat /\ ~(n + idx < n)
  BY <1>3, <1>4, BlockIs
<1>9. /\ file'[n + idx] = ChunkBlock(idx) /\ \A x \in Block : x # n + idx => file'[x] = file[x]
      /\ \A x \in Block : x # n + idx => stable'[x] = stable[x]
  BY <1>1, <1>7, <1>8, WriteIs
<1>10. \A i \in 0..idx : file'[n + i] = ChunkBlock(i)
  <2> SUFFICES ASSUME NEW i \in 0..idx PROVE file'[n + i] = ChunkBlock(i)
    OBVIOUS
  <2>1. CASE i = idx
    BY <1>9, <2>1
  <2>2. CASE i # idx
    <3>1. i \in 0..idx - 1 /\ n + i \in Block /\ n + i # n + idx
      BY <1>3, <1>4, <2>2, BlockIs
    <3> QED
      BY <1>3, <1>9, <3>1
  <2> QED
    BY <2>1, <2>2
<1>11. \A x \in Block : x < n => file'[x] = file[x] /\ stable'[x] = stable[x]
  BY <1>8, <1>9
<1>12. n + idx \notin Kept(file, Journal) /\ \A h \in OnDisk : n + idx \notin Needed(file, h)
  BY <1>5, <1>6, <1>8
<1> QED
  BY <1>1, <1>2, <1>3, <1>4, <1>8, <1>10, <1>11, <1>12 DEF n, k

(* A write at or behind the end of the file is none to the database.        *)
LEMMA BehindData ==
  ASSUME SizeAssumption, TypeOK, SpaceInv, DataInv, \A x \in Block : x < hdr.free => file'[x] = file[x],
         UNCHANGED <<cache, work, final>>
  PROVE  DataInv'
<1>1. \A x \in Block : InUse(x) => file'[x] = file[x]
  <2> SUFFICES ASSUME NEW x \in Block, InUse(x) PROVE file'[x] = file[x]
    OBVIOUS
  <2>1. x \in {y \in Block : work[y] # Free}
    BY DEF InUse
  <2>2. x \in Live(hdr) /\ hdr \in Header
    BY <2>1 DEF SpaceInv, TypeOK
  <2> QED
    BY <2>2, LiveIs
<1> QED
  BY <1>1 DEF DataInv, InUse, Pinned

LEMMA ChunkWriteSome ==
  ASSUME SizeAssumption, TypeInv, TypeInv', JournalInv, ChunkWrite, idx + 1 < Chunked(ChunkHead)
  PROVE  JournalInv'
<1>1. /\ idx' = idx + 1 /\ pc' = pc /\ Write(hdr.free + idx, ChunkBlock(idx))
      /\ UNCHANGED <<hdr, hdr0, hdrDirty, cache, txErr, targets, final, info, why, work, before, left>>
  BY DEF ChunkWrite, ghost
<1>2. /\ pc = "chunkIO" /\ ~txErr /\ TypeOK
      /\ DataInv /\ SavedInv /\ FlushInv /\ SpaceInv /\ idx \in Nat
      /\ hdr.free + idx \in Block /\ hdr.free + idx # 0
      /\ hdr.free + idx \notin Kept(file, Journal)
      /\ \A h \in OnDisk : hdr.free + idx \notin Needed(file, h)
      /\ \A i \in 0..idx : file'[hdr.free + i] = ChunkBlock(i)
      /\ \A x \in Block : x < hdr.free => file'[x] = file[x] /\ stable'[x] = stable[x]
  BY ChunkPlace
<1> DEFINE b == hdr.free + idx
           c == ChunkBlock(idx)
<1>3. b \in Block /\ b # 0 /\ Write(b, c) /\ b \notin Kept(file, Journal)
      /\ \A h \in OnDisk : b \notin Needed(file, h)
  BY <1>1, <1>2
<1> HIDE DEF b, c
<1>4. /\ OneKind' /\ ~txErr' /\ why' = "none" /\ SpaceInv' /\ DiskInv' /\ InfoInv'
      /\ Journal' = Journal /\ OnDisk' = OnDisk /\ Below' = Below
      /\ AllTargets(file', Journal) = AllTargets(file, Journal)
      /\ \A h \in OnDisk : \A x : Guards(file', h, x) <=> Guards(file, h, x)
  <2>1. pc \in TxPc \ {"markHeader", "markEnd"}
    BY <1>2 DEF TxPc
  <2> QED
    BY <1>1, <1>2, <1>3, <2>1, FileWritten
<1>5. DataInv'
  BY <1>1, <1>2, BehindData
<1>6. SavedInv'
  BY <1>1, <1>2, <1>4 DEF SavedInv
<1>7. FlushInv'
  <2>1. ChunkHead' = ChunkHead
    BY <1>1 DEF ChunkHead
  <2>2. \A i : ChunkBlock(i)' = ChunkBlock(i)
    BY <1>1, <2>1 DEF ChunkBlock
  <2>3. \A i \in 0..idx' - 1 : i \in 0..idx
    BY <1>1, <1>2
  <2>4. \A i \in 0..idx' - 1 : file'[hdr'.free + i] = ChunkBlock(i)'
    BY <1>1, <1>2, <2>2, <2>3
  <2>5. idx' < Chunked(ChunkHead)'
    BY <1>1, <2>1
  <2>6. Unsaved' = Unsaved /\ Dirty' = Dirty
    BY <1>1 DEF Unsaved, Dirty, Below
  <2> QED
    BY <1>1, <1>2, <1>4, <2>4, <2>5, <2>6 DEF FlushInv
<1> QED
  BY <1>1, <1>2, <1>4, <1>5, <1>6, <1>7, TxDone DEF TxPc

LEMMA ChunkWriteLast ==
  ASSUME SizeAssumption, TypeInv, TypeInv', JournalInv, ChunkWrite, ~(idx + 1 < Chunked(ChunkHead))
  PROVE  JournalInv'
<1> DEFINE n == hdr.free
           k == Chunked(ChunkHead)
           r == hdr.rollback
           S == Journal
           T == S \cup {n}
           first == IF info.first = 0 THEN n ELSE info.first
<1>1. /\ pc = "chunkIO" /\ ~txErr /\ TypeOK /\ why = "none"
      /\ SpaceInv /\ DiskInv /\ InfoInv /\ DataInv /\ SavedInv /\ FlushInv
      /\ OneKind' /\ Powered' = Powered
      /\ n \in Nat /\ 1 <= n /\ k \in Nat /\ idx \in Nat /\ idx < k /\ n + k < NBlocks
      /\ n + idx \in Block /\ n + idx # 0 /\ n + idx \notin Kept(file, Journal)
      /\ \A h \in OnDisk : n + idx \notin Needed(file, h)
      /\ \A i \in 0..idx : file'[n + i] = ChunkBlock(i)
      /\ \A x \in Block : x < n => file'[x] = file[x] /\ stable'[x] = stable[x]
  BY ChunkPlace
<1>2. /\ idx' = 0 /\ pc' = "chunk" /\ targets' = <<>> /\ hdrDirty' = TRUE
      /\ info' = [first |-> first,
                  next  |-> IF info.first = 0 THEN hdr.rollback ELSE info.next,
                  count |-> info.count + k]
      /\ hdr' = [hdr EXCEPT !.rollback = hdr.free, !.free = @ + k]
      /\ UNCHANGED <<hdr0, cache, txErr, final, why, work, before, left>>
  BY DEF ChunkWrite, ghost
<1>3. idx + 1 = k
  BY <1>1
<1>4. /\ hdr \in Header /\ hdr' \in Header /\ hdr'.rollback = n /\ hdr'.free = n + k
      /\ hdr'.super = hdr.super /\ hdr'.inTx = hdr.inTx
  <2>1. hdr \in Header /\ hdr' \in Header
    BY DEF TypeInv, TypeOK
  <2>2. hdr' = [hdr EXCEPT !.rollback = n, !.free = n + k]
    BY <1>2
  <2> HIDE DEF n, k
  <2> QED
    BY <2>1, <2>2 DEF Header
<1>5. /\ r \in Block /\ IsList(file, r, S) /\ hdr0.free \in Nat /\ 1 <= hdr0.free /\ hdr0.free <= n
      /\ Fits(file, S, hdr0.free, n) /\ SavesBelow(file, S, hdr0.free)
      /\ S # {} => SavedHeader(file, S) = hdr0
      /\ HeaderOK(hdr0) /\ ~hdr0.inTx /\ hdr0.rollback = 0
  BY <1>1, TxList
<1>6. /\ ChunkHead \in Chunk /\ ChunkHead.target = targets /\ ChunkHead.next = r
      /\ Len(targets) \in Nat /\ DOMAIN targets = 1..Len(targets)
      /\ k = Len(targets) + 1 + (IF r = 0 THEN 1 ELSE 0)
  BY <1>1, ChunkHeadIs
<1>7. file'[n] = ChunkHead
  <2> HIDE DEF n
  <2>1. 0 \in 0..idx /\ n + 0 = n
    BY <1>1
  <2>2. file'[n + 0] = ChunkBlock(0)
    BY <1>1, <2>1
  <2>3. ChunkBlock(0) = ChunkHead
    <3>1. 0 \notin DOMAIN targets
      BY <1>6
    <3> QED
      BY <3>1 DEF ChunkBlock
  <2> QED
    BY <2>1, <2>2, <2>3
<1>8. \A i \in DOMAIN targets : /\ file'[n + i] = cache[targets[i]].orig
                                /\ targets[i] \in Below /\ targets[i] \in Block
                                /\ cache[targets[i]] # NoBuffer /\ cache[targets[i]].loaded
                                /\ targets[i] \in 1..hdr0.free - 1
                                /\ \A j \in DOMAIN targets : targets[i] = targets[j] => i = j
  <2> SUFFICES ASSUME NEW i \in DOMAIN targets
               PROVE  /\ file'[n + i] = cache[targets[i]].orig
                      /\ targets[i] \in Below /\ targets[i] \in Block
                      /\ cache[targets[i]] # NoBuffer /\ cache[targets[i]].loaded
                      /\ targets[i] \in 1..hdr0.free - 1
                      /\ \A j \in DOMAIN targets : targets[i] = targets[j] => i = j
    OBVIOUS
  <2>1. /\ targets[i] \in Below /\ cache[targets[i]].loaded
        /\ \A j \in DOMAIN targets : targets[i] = targets[j] => i = j
    BY <1>1 DEF SavedInv
  <2>2. targets[i] \in Block \ {0} /\ cache[targets[i]] # NoBuffer
    BY DEF TypeInv, TypeOK, TargetsCached
  <2>3. i \in 0..idx /\ i # 0
    <3> HIDE DEF k
    <3> QED
      BY <1>1, <1>3, <1>6
  <2>4. ChunkBlock(i) = cache[targets[i]].orig
    BY <2>3 DEF ChunkBlock
  <2>5. targets[i] \in 1..hdr0.free - 1
    BY <1>1, <1>5, <2>1, <2>2, BelowIs
  <2> QED
    BY <1>1, <2>1, <2>2, <2>3, <2>4, <2>5
<1>9. Targets(file'[n]) = {targets[i] : i \in DOMAIN targets}
  BY <1>6, <1>7 DEF Targets
<1>10. /\ IsList(file', n, T) /\ Chain(file', n) = T /\ n \notin S
       /\ Fits(file', T, hdr0.free, n + k) /\ SavesBelow(file', T, hdr0.free)
       /\ Kept(file', T) = Kept(file, S) \cup (n..(n + k) - 1)
       /\ AllTargets(file', T) = AllTargets(file, S) \cup Targets(file'[n])
       /\ S # {} => SavedHeader(file', T) = SavedHeader(file, S)
       /\ S = {} => SavedHeader(file', T) = file'[n + Len(file'[n].target) + 1]
       /\ \A c \in S : /\ file'[c] = file[c] /\ Segment(file', c) = Segment(file, c)
                       /\ c < n /\ c \in Nat
       /\ Segment(file', n) = n..(n + k) - 1
  <2> DEFINE g == file'
  <2>1. /\ g[n] \in Chunk /\ g[n].next = r /\ k = Chunked(g[n]) /\ n + k <= NBlocks
        /\ Targets(g[n]) \subseteq 1..hdr0.free - 1
        /\ \A i, j \in DOMAIN g[n].target : g[n].target[i] = g[n].target[j] => i = j
        /\ \A b \in Block : b < n => g[b] = file[b]
    <3>1. n + k <= NBlocks
      <4> HIDE DEF n, k
      <4> QED
        BY <1>1, BlockIs
    <3>2. Targets(g[n]) \subseteq 1..hdr0.free - 1
      BY <1>8, <1>9
    <3> QED
      BY <1>1, <1>6, <1>7, <1>8, <3>1, <3>2
  <2> DEFINE low == hdr0.free
  <2>2. ChunkBehind(file, r, S, low, n, k, g) /\ T = S \cup {n}
    BY <1>1, <1>5, <2>1 DEF ChunkBehind
  <2> HIDE DEF g, n, k, r, S, T, low
  <2>3. /\ IsList(g, n, T) /\ Chain(g, n) = T /\ n \notin S
        /\ Fits(g, T, low, n + k) /\ SavesBelow(g, T, low)
        /\ Kept(g, T) = Kept(file, S) \cup (n..(n + k) - 1)
        /\ AllTargets(g, T) = AllTargets(file, S) \cup Targets(g[n])
        /\ S # {} => SavedHeader(g, T) = SavedHeader(file, S)
        /\ S = {} => SavedHeader(g, T) = g[n + Len(g[n].target) + 1]
        /\ \A c \in S : g[c] = file[c] /\ Segment(g, c) = Segment(file, c) /\ c < n /\ c \in Nat
        /\ Segment(g, n) = n..(n + k) - 1
    BY <2>2, ChunkAdded
  <2> QED
    BY <2>3 DEF g, low
<1>11. Journal' = T
  BY <1>4, <1>10 DEF Journal, ChainOf
<1> HIDE DEF n, k, r, S, T, first
<1>12. Lasting' = Lasting /\ OnDisk' = OnDisk
  <2>1. Lasting' = Lasting
    BY <1>1, <1>2, <1>4 DEF Lasting, TxPc
  <2>2. 0 \in Block /\ 0 < n
    BY <1>1, BlockIs
  <2> QED
    BY <1>1, <2>1, <2>2 DEF OnDisk
<1>13. SpaceInv'
  <2>1. HeaderOK(hdr') /\ Kept(file', T) \cap hdr'.super = {}
        /\ Live(hdr') = Live(hdr) \cup (n..(n + k) - 1)
        /\ Live(hdr) \cap (n..(n + k) - 1) = {}
    <3>1. hdr.super \subseteq 1..n - 1 /\ Kept(file, S) \cap hdr.super = {}
      BY <1>1 DEF SpaceInv, HeaderOK, n, S
    <3>2. hdr.super \cap (n..(n + k) - 1) = {}
      <4>1. (1..n - 1) \cap (n..(n + k) - 1) = {}
        BY <1>1
      <4> QED
        BY <3>1, <4>1
    <3>3. HeaderOK(hdr')
      <4>1. 1..n - 1 \subseteq 1..(n + k) - 1
        BY <1>1
      <4> QED
        BY <1>4, <3>1, <4>1 DEF HeaderOK
    <3>4. 1..(n + k) - 1 = (1..n - 1) \cup (n..(n + k) - 1)
      BY <1>1
    <3>5. (1..n - 1) \cap (n..(n + k) - 1) = {}
      BY <1>1
    <3>6. Live(hdr) = (1..n - 1) \ hdr.super /\ Live(hdr') = (1..(n + k) - 1) \ hdr.super
      BY <1>4 DEF Live, n
    <3> DEFINE X == 1..n - 1
               Y == n..(n + k) - 1
               Z == 1..(n + k) - 1
    <3>7. Z = X \cup Y /\ X \cap Y = {} /\ hdr.super \cap Y = {}
          /\ Live(hdr) = X \ hdr.super /\ Live(hdr') = Z \ hdr.super
      BY <3>2, <3>4, <3>5, <3>6
    <3>8. Kept(file', T) = Kept(file, S) \cup Y
      BY <1>10
    <3> HIDE DEF X, Y, Z
    <3>9. /\ Live(hdr') = Live(hdr) \cup Y /\ Live(hdr) \cap Y = {}
          /\ Kept(file', T) \cap hdr.super = {}
      BY <3>1, <3>7, <3>8
    <3> QED
      BY <1>4, <3>3, <3>9 DEF Y
  <2>2. {b \in Block : work'[b] # Free} = Live(hdr') \ Kept(file', T)
    <3>1. {b \in Block : work[b] # Free} = Live(hdr) \ Kept(file, S)
      BY <1>1 DEF SpaceInv, S
    <3> DEFINE Y == n..(n + k) - 1
    <3>2. /\ Live(hdr') = Live(hdr) \cup Y /\ Live(hdr) \cap Y = {}
          /\ Kept(file', T) = Kept(file, S) \cup Y
      BY <1>10, <2>1
    <3> HIDE DEF Y
    <3> QED
      BY <1>2, <3>1, <3>2
  <2>3. SavedHeader(file', T) = hdr0
    <3>1. CASE S # {}
      BY <1>5, <1>10, <3>1
    <3>2. CASE S = {}
      <4> DEFINE m == Len(targets)
      <4>1. r = 0
        BY <1>5, <3>2 DEF IsList
      <4>2. m \in Nat /\ k = m + 2
        BY <1>6, <4>1
      <4>3. SavedHeader(file', T) = file'[n + m + 1]
        BY <1>6, <1>7, <1>10, <3>2
      <4>4. m + 1 \notin DOMAIN targets
        BY <1>6, <4>2
      <4> HIDE DEF m
      <4>5. m + 1 \in 0..idx /\ m + 1 # 0 /\ n + (m + 1) = n + m + 1
        BY <1>1, <1>3, <4>2
      <4>6. ChunkBlock(m + 1) = hdr0
        BY <4>4, <4>5 DEF ChunkBlock
      <4> QED
        BY <1>1, <4>3, <4>5, <4>6
    <3> QED
      BY <3>1, <3>2
  <2>4. hdr0.free <= n + k /\ n # 0
    BY <1>1, <1>5
  <2> QED
    BY <1>1, <1>2, <1>4, <1>5, <1>10, <1>11, <2>1, <2>2, <2>3, <2>4 DEF SpaceInv
<1>14. \A h \in OnDisk : /\ OldDisk(file, stable, Lasting, S, hdr0, h, before)
                         /\ Intact(file, h)
                         /\ \A b \in Needed(file, h) : file'[b] = file[b] /\ stable'[b] = stable[b]
  <2> SUFFICES ASSUME NEW h \in OnDisk
               PROVE  /\ OldDisk(file, stable, Lasting, S, hdr0, h, before)
                      /\ Intact(file, h)
                      /\ \A b \in Needed(file, h) : file'[b] = file[b] /\ stable'[b] = stable[b]
    OBVIOUS
  <2>1. /\ OldDisk(file, stable, Lasting, Journal, hdr0, h, before) /\ Intact(file, h)
        /\ \A b \in Needed(file, h) : b \in Block /\ b < hdr.free
    BY <1>1, TxDisk
  <2> QED
    BY <1>1, <2>1 DEF n, S
<1>15. \A h \in OnDisk : \A b : Guards(file', h, b) <=> Guards(file, h, b)
  <2> DEFINE g == file'
  <2> HIDE DEF g
  <2>1. \A h \in OnDisk : Intact(file, h) /\ \A b \in Needed(file, h) : g[b] = file[b]
    BY <1>14 DEF g
  <2>2. \A h \in OnDisk : \A b : Guards(g, h, b) <=> Guards(file, h, b)
    BY <2>1, Frame
  <2> QED
    BY <2>2 DEF g
<1>16. ASSUME NEW h \in OnDisk PROVE OldDisk(file', stable', Lasting, T, hdr0, h, before)
  <2>1. OldDisk(file', stable', Lasting, S, hdr0, h, before)
    <3> DEFINE g == file'
               s == stable'
               d == Lasting
    <3>1. OldDisk(file, stable, d, S, hdr0, h, before)
      BY <1>14
    <3>2. \A b \in Needed(file, h) : g[b] = file[b]
      BY <1>14
    <3>3. \A b \in Kept(file, S) : g[b] = file[b]
      BY <1>1, <1>5, FitsKept
    <3>4. d => \A b \in Needed(file, h) : s[b] = file[b]
      BY <1>14 DEF OldDisk, StandsFor
    <3> HIDE DEF g, s, d
    <3>5. OldDisk(g, s, d, S, hdr0, h, before)
      BY <1>5, <3>1, <3>2, <3>3, <3>4, OldDiskSame
    <3> QED
      BY <3>5 DEF g, s, d
  <2>2. ASSUME NEW c \in T, NEW b \in Targets(file'[c]), b \in Live(hdr0), ~Guards(file', h, b)
        PROVE  CopyOf(file', c, b) = before[b]
    <3>1. CASE c \in S
      BY <2>1, <2>2, <3>1 DEF OldDisk
    <3>2. CASE c = n
      <4> DEFINE i == IndexOf(file'[n], b)
      <4>1. i \in DOMAIN targets /\ targets[i] = b
        <5>1. file'[n].target = targets
          BY <1>6, <1>7
        <5>2. \E j \in DOMAIN targets : targets[j] = b
          BY <1>9, <2>2, <3>2
        <5> QED
          BY <5>1, <5>2 DEF IndexOf
      <4>2. CopyOf(file', c, b) = file'[n + i]
        BY <3>2 DEF CopyOf
      <4> HIDE DEF i
      <4>3. file'[n + i] = cache[b].orig /\ b \in Below /\ cache[b] # NoBuffer /\ cache[b].loaded
        BY <1>8, <4>1
      <4>4. ~Guards(file, h, b)
        BY <1>15, <2>2
      <4>5. cache[b].orig = before[b]
        BY <1>1, <2>2, <4>3, <4>4 DEF SavedInv
      <4> QED
        BY <4>2, <4>3, <4>5
    <3> QED
      BY <3>1, <3>2 DEF T
  <2> QED
    BY <2>1, <2>2 DEF OldDisk, T
<1>17. DiskInv'
  <2>1. ASSUME NEW h \in OnDisk PROVE h.free <= n + k /\ (h = hdr0 \/ (hdr.inTx /\ h.inTx))
    <3>1. h.free <= n /\ (h = hdr0 \/ (hdr.inTx /\ h.inTx)) /\ h.free \in Nat
      BY <1>1, <1>14, IntactFacts DEF DiskInv, n
    <3> QED
      BY <1>1, <3>1
  <2>2. OldOnDisk(hdr0)'
    BY <1>2, <1>11, <1>12, <1>16 DEF OldOnDisk
  <2>3. file'[0] = file[0] /\ stable'[0] = stable[0]
    <3>1. 0 \in Block /\ 0 < n
      BY <1>1, BlockIs
    <3> QED
      BY <1>1, <3>1
  <2> QED
    BY <1>1, <1>2, <1>4, <1>12, <2>1, <2>2, <2>3 DEF DiskInv
<1>18. InfoInv'
  <2>1. /\ info'.first = first /\ info'.count = info.count + k
        /\ info'.next = IF info.first = 0 THEN hdr.rollback ELSE info.next
    BY <1>2
  <2>2. CASE info.first = 0
    <3>1. first = n /\ info.count = 0 /\ info'.next = file'[n].next
      BY <1>1, <1>6, <1>7, <2>1, <2>2 DEF InfoInv, first, r
    <3>2. first # 0 /\ first \in T /\ first + info'.count = n + k
      BY <1>1, <2>1, <3>1 DEF T
    <3>3. {c \in T : c >= first} = {n}
      BY <1>1, <1>10, <3>1 DEF T
    <3>4. Kept(file', {n}) = Segment(file', n)
      BY DEF Kept
    <3> QED
      BY <1>2, <1>4, <1>10, <1>11, <2>1, <3>1, <3>2, <3>3, <3>4 DEF InfoInv
  <2>3. CASE info.first # 0
    <3>1. /\ first = info.first /\ first \in S /\ info.next = file[first].next
          /\ first + info.count = n /\ info'.next = info.next
          /\ first..n - 1 = Kept(file, {c \in S : c >= first})
      BY <1>1, <2>1, <2>3 DEF InfoInv, first, n, S
    <3>2. first \in Nat /\ first < n /\ file'[first] = file[first]
      BY <1>10, <3>1
    <3>3. info.count \in Nat
      BY <1>1 DEF TypeOK
    <3>4. first # 0 /\ first \in T /\ first + info'.count = n + k
      BY <1>1, <2>1, <2>3, <3>1, <3>2, <3>3 DEF T
    <3>5. {c \in T : c >= first} = {c \in S : c >= first} \cup {n}
      BY <1>1, <3>2 DEF T
    <3>6. Kept(file', {c \in T : c >= first}) = Kept(file, {c \in S : c >= first}) \cup Segment(file', n)
      <4> DEFINE U == {c \in S : c >= first}
      <4>1. Kept(file', U \cup {n}) = Kept(file', U) \cup Segment(file', n)
        BY DEF Kept
      <4>2. Kept(file', U) = Kept(file, U)
        BY <1>10 DEF Kept
      <4> QED
        BY <3>5, <4>1, <4>2
    <3>7. first..(n + k) - 1 = (first..n - 1) \cup (n..(n + k) - 1)
      BY <1>1, <3>2
    <3> QED
      BY <1>2, <1>4, <1>10, <1>11, <2>1, <3>1, <3>2, <3>4, <3>6, <3>7 DEF InfoInv
  <2> QED
    BY <2>2, <2>3
<1>19. DataInv'
  BY <1>1, <1>2, BehindData DEF n
<1>20. SavedInv'
  <2>1. Below' = Below
    BY <1>2 DEF Below
  <2>2. ASSUME NEW b \in Below, cache[b] # NoBuffer
        PROVE  /\ cache[b].loaded /\ b \in Live(hdr0) =>
                    \A h \in OnDisk : ~Guards(file', h, b) => cache[b].orig = before[b]
               /\ cache[b].saved => b \in AllTargets(file', T)
    <3>1. cache[b].saved => b \in AllTargets(file, S) \/ \E i \in DOMAIN targets : targets[i] = b
      BY <1>1, <2>2 DEF SavedInv, S
    <3>2. cache[b].saved => b \in AllTargets(file', T)
      BY <1>9, <1>10, <3>1
    <3> QED
      BY <1>1, <1>15, <2>2, <3>2 DEF SavedInv
  <2> QED
    BY <1>2, <1>11, <1>12, <2>1, <2>2 DEF SavedInv
<1>21. FlushInv'
  BY <1>1, <1>2 DEF FlushInv, Unsaved, Dirty, Below
<1> QED
  BY <1>1, <1>2, <1>13, <1>17, <1>18, <1>19, <1>20, <1>21, TxDone DEF TxPc

LEMMA ChunkWriteJournal ==
  ASSUME SizeAssumption, TypeInv, TypeInv', JournalInv, ChunkWrite
  PROVE  JournalInv'
BY ChunkWriteSome, ChunkWriteLast

-----------------------------------------------------------------------------
(* precommit_transaction after its flush.                                   *)

(* The header of the commit has the free blocks and the database of the     *)
(* transaction: the chunks of the last flush, which it drops, are behind    *)
(* all other blocks.                                                        *)
LEMMA CommittedIs ==
  ASSUME SizeAssumption, TypeOK, SpaceInv, InfoInv, TypeOK', hdr' = Committed(hdr)
  PROVE  \E T : /\ ~hdr'.inTx /\ HeaderOK(hdr') /\ IsList(file, hdr'.rollback, T)
                /\ Fits(file, T, 1, hdr'.free) /\ Kept(file, T) \cap hdr'.super = {}
                /\ Live(hdr') \ Kept(file, T) = Live(hdr) \ Kept(file, Journal)
<1> DEFINE S == Journal
           n == hdr.free
           e == info.first
<1>1. /\ hdr \in Header /\ hdr' \in Header /\ IsList(file, hdr.rollback, S)
      /\ Fits(file, S, hdr0.free, n) /\ 1 <= hdr0.free /\ hdr0.free \in Nat /\ n \in Nat
      /\ n \in 1..NBlocks /\ Kept(file, S) \cap hdr.super = {} /\ hdr.super \subseteq 1..n - 1
      /\ \A c \in S : c \in Nat /\ 1 <= c
  <2>1. \A c \in S : c \in Nat /\ 1 <= c
    <3>1. IsList(file, hdr.rollback, S)
      BY TxList
    <3> QED
      BY <3>1, ListFacts
  <2> QED
    BY <2>1, TxList DEF SpaceInv, HeaderOK, TypeOK
<1>2. info.count \in Nat /\ e \in Nat
  BY DEF TypeOK
<1>3. CASE e = 0
  <2>1. /\ ~hdr'.inTx /\ hdr'.rollback = hdr.rollback /\ hdr'.free = n /\ hdr'.super = hdr.super
    <3>1. hdr' = [hdr EXCEPT !.number = @ + 1, !.inTx = FALSE]
      BY <1>3 DEF Committed
    <3> QED
      BY <1>1, <3>1 DEF Header
  <2>2. HeaderOK(hdr') /\ Live(hdr') = Live(hdr)
    BY <1>1, <2>1 DEF HeaderOK, Live
  <2>3. Fits(file, S, 1, n)
    BY <1>1 DEF Fits
  <2> QED
    BY <1>1, <2>1, <2>2, <2>3
<1>4. CASE e # 0
  <2> DEFINE T == {x \in S : x < e}
             U == {x \in S : x >= e}
             X == e..n - 1
  <2>1. /\ e \in S /\ info.next = file[e].next /\ e + info.count = n /\ X = Kept(file, U)
    BY <1>4 DEF InfoInv
  <2>2. n - info.count = e
    <3> HIDE DEF e, n
    <3> QED
      BY <1>1, <1>2, <2>1
  <2>3. /\ ~hdr'.inTx /\ hdr'.rollback = file[e].next /\ hdr'.free = e /\ hdr'.super = hdr.super
    <3>1. hdr' = [[hdr EXCEPT !.number = @ + 1, !.inTx = FALSE]
                    EXCEPT !.rollback = info.next, !.free = @ - info.count]
      BY <1>4, <2>1 DEF Committed
    <3> QED
      BY <1>1, <2>1, <2>2, <3>1 DEF Header
  <2>4. IsList(file, file[e].next, T)
    BY <1>1, <2>1, ListBelow
  <2>5. e \in Nat /\ 1 <= e /\ e <= n
    <3> HIDE DEF e, n
    <3> QED
      BY <1>1, <1>2, <2>1
  <2>6. Kept(file, S) = Kept(file, T) \cup X
    <3> HIDE DEF e
    <3>1. S = T \cup U
      BY <1>1, <1>2
    <3>2. Kept(file, T \cup U) = Kept(file, T) \cup Kept(file, U)
      <4> HIDE DEF T, U
      <4> QED
        BY DEF Kept
    <3> QED
      BY <2>1, <3>1, <3>2
  <2>7. Fits(file, T, 1, e)
    <3> SUFFICES ASSUME NEW c \in T PROVE 1 <= c /\ c + Chunked(file[c]) <= e
      BY DEF Fits
    <3>1. c \in S /\ c < e
      OBVIOUS
    <3> HIDE DEF e
    <3>2. c + Chunked(file[c]) <= e
      BY <1>1, <2>1, <3>1 DEF IsList
    <3> QED
      BY <1>1, <3>1, <3>2
  <2>8. hdr.super \subseteq 1..e - 1
    <3> HIDE DEF e, n, T, U, S
    <3>1. \A b \in hdr.super : b \in 1..n - 1 /\ b \notin X
      BY <1>1, <2>6
    <3>2. \A b \in 1..n - 1 : b \notin X => b \in 1..e - 1
      BY <1>1, <2>5
    <3> QED
      BY <3>1, <3>2
  <2>9. Kept(file, T) \cap hdr.super = {}
    BY <1>1, <2>6
  <2>10. Live(hdr') \ Kept(file, T) = Live(hdr) \ Kept(file, S)
    <3> DEFINE Y == 1..n - 1
               Z == 1..e - 1
    <3>1. Y \ X = Z
      <4> HIDE DEF e, n
      <4> QED
        BY <1>1, <2>5
    <3>2. Live(hdr) = Y \ hdr.super /\ Live(hdr') = Z \ hdr.super
      BY <2>3 DEF Live
    <3> HIDE DEF X, Y, Z, T, S, e, n
    <3> QED
      BY <2>6, <3>1, <3>2
  <2> HIDE DEF T
  <2> QED
    BY <1>1, <2>3, <2>4, <2>7, <2>8, <2>9, <2>10 DEF HeaderOK
<1> QED
  BY <1>3, <1>4

LEMMA CommitFlushJournal ==
  ASSUME SizeAssumption, FreeAssumption, TypeInv, TypeInv', JournalInv, CommitFlush
  PROVE  JournalInv'
<1>1. /\ pc = "commit" /\ pc' = "commitHeader" /\ ~txErr /\ TypeOK
      /\ file' = file /\ stable' = file /\ hdr' = Committed(hdr)
      /\ UNCHANGED <<hdr0, why, work, before, left>>
  BY TxOpen DEF CommitFlush, FlushFile, flush, ghost, TypeInv, TxPc
<1>2. /\ OneKind' /\ SpaceInv /\ DiskInv /\ InfoInv /\ DataInv /\ FlushInv /\ why = "none"
  BY <1>1, TxOpen, LeftSame DEF TxPc
<1>3. PICK T : /\ ~hdr'.inTx /\ HeaderOK(hdr') /\ IsList(file, hdr'.rollback, T)
               /\ Fits(file, T, 1, hdr'.free) /\ Kept(file, T) \cap hdr'.super = {}
               /\ Live(hdr') \ Kept(file, T) = Live(hdr) \ Kept(file, Journal)
  <2>1. TypeOK'
    BY DEF TypeInv
  <2> QED
    BY <1>1, <1>2, <2>1, CommittedIs
<1>4. ChainOf(file, hdr') = T
  <2>1. hdr'.rollback \in Block
    BY <1>3, HeaderFields DEF HeaderOK
  <2> QED
    BY <1>3, <2>1, ListIsChain DEF ChainOf
<1>5. Intact(file, hdr')
  BY <1>3, <1>4 DEF Intact, IntactRest
<1>6. {b \in Block : work[b] # Free} = Live(hdr') \ Kept(file, T)
  BY <1>2, <1>3 DEF SpaceInv
<1>7. Image(file, hdr') = Changed
  <2>1. final /\ Dirty = {}
    BY <1>1, <1>2 DEF FlushInv
  <2>2. \A b \in Block : Changed[b] = IF work[b] = Free THEN Free ELSE file[b]
    BY <1>1, <1>2, <2>1, AllWritten
  <2>3. \A b \in Block : Changed[b] = IF b \in Live(hdr') \ Kept(file, T) THEN file[b] ELSE Free
    BY <1>6, <2>2
  <2>4. Changed = [b \in Block |-> Changed[b]]
    BY DEF Changed
  <2> QED
    BY <1>3, <1>4, <2>3, <2>4 DEF Image, Contents
<1>8. Changed' = Changed
  BY <1>1 DEF Changed
<1>9. Journal' = T
  BY <1>1, <1>4 DEF Journal
<1>10. Stands(hdr, Changed)'
  BY <1>1, <1>5, <1>7, <1>8 DEF Stands, StandsFor
<1>11. Stands(file[0], before)' /\ OldHeader(file, file[0]) = hdr0 /\ hdr0.rollback = 0
  <2>1. /\ Intact(file, file[0]) /\ Image(file, file[0]) = before
        /\ OldHeader(file, file[0]) = hdr0
    BY <1>1, <1>2, OnDiskIs, TxDisk
  <2> QED
    BY <1>1, <1>2, <2>1 DEF Stands, StandsFor, SpaceInv
<1>12. CommitInv'
  BY <1>1, <1>2, <1>3, <1>6, <1>9, <1>10, <1>11 DEF CommitInv
<1> QED
  BY <1>1, <1>2, <1>12 DEF JournalInv, TxPc

LEMMA CommitHeaderJournal ==
  ASSUME SizeAssumption, FreeAssumption, TypeInv, JournalInv, CommitHeader
  PROVE  JournalInv'
<1>1. /\ pc = "commitHeader" /\ pc' = "commitEnd" /\ TypeOK /\ Write(0, hdr)
      /\ UNCHANGED <<hdr, hdr0, why, work, before, left>>
  BY DEF CommitHeader, memory, flush, ghost, TypeInv
<1>2. OneKind' /\ Powered' = Powered /\ CommitInv
  BY <1>1, LeftSame DEF JournalInv
<1>3. /\ file'[0] = hdr /\ \A b \in Block : b # 0 => file'[b] = file[b] /\ stable'[b] = stable[b]
      /\ stable'[0] \in {stable[0], file[0]}
      /\ \A h, d, db : StandsFor(file, stable, d, h, db) => StandsFor(file', stable', d, h, db)
  BY <1>1, HeaderWritten
<1>4. /\ ~hdr.inTx /\ Stands(hdr, Changed) /\ why = "none"
      /\ {b \in Block : work[b] # Free} = Live(hdr) \ Kept(file, Journal)
      /\ \A b \in Block \ {0} : stable[b] = file[b]
      /\ stable[0] = file[0] /\ Stands(file[0], before)
  BY <1>1, <1>2 DEF CommitInv
<1>5. Lasting = Powered /\ Lasting' = Powered
  BY <1>1, <1>2 DEF Lasting, TxPc, Powered
<1>6. Intact(file, hdr) /\ Image(file, hdr) = Changed
  BY <1>4 DEF Stands, StandsFor
<1>7. /\ hdr.rollback \in Block /\ IsList(file, hdr.rollback, Journal)
      /\ Kept(file, Journal) \subseteq Needed(file, hdr)
      /\ \A b \in Needed(file, hdr) : b \in Block /\ 1 <= b
  BY <1>6, IntactFacts DEF Journal
<1>8. \A b \in Needed(file, hdr) : file'[b] = file[b]
  BY <1>3, <1>7
<1>9. Changed' = Changed
  BY <1>1, <1>4, <1>6, <1>8, ChangedSame
<1>10. Journal' = Journal /\ Kept(file', Journal) = Kept(file, Journal)
  <2> DEFINE r == hdr.rollback
             S == Journal
             g == file'
  <2>1. r \in Block /\ IsList(file, r, S) /\ \A b \in Kept(file, S) : g[b] = file[b]
    BY <1>7, <1>8
  <2> HIDE DEF r, S, g
  <2>2. Chain(g, r) = S /\ Kept(g, S) = Kept(file, S)
    <3>1. IsList(g, r, S) /\ Kept(g, S) = Kept(file, S)
      BY <2>1, ListAgree
    <3> QED
      BY <2>1, <3>1, ListIsChain
  <2>3. Journal' = Chain(g, r)
    BY <1>1 DEF Journal, ChainOf, r, g
  <2> QED
    BY <2>2, <2>3 DEF S, g
<1>11. Stands(hdr, Changed)' /\ Stands(file[0], before) /\ StandsFor(file', stable', Powered, file[0], before)
  <2>1. StandsFor(file, stable, Powered, hdr, Changed) /\ StandsFor(file, stable, Powered, file[0], before)
    BY <1>4, <1>5 DEF Stands
  <2>2. StandsFor(file', stable', Powered, hdr, Changed) /\ StandsFor(file', stable', Powered, file[0], before)
    BY <1>3, <2>1
  <2> QED
    BY <1>1, <1>4, <1>5, <1>9, <2>2 DEF Stands
<1>12. CommitInv'
  <2>1. \A b \in Block \ {0} : stable'[b] = file'[b]
    BY <1>3, <1>4
  <2>2. Stands(stable[0], before)'
    BY <1>1, <1>3, <1>4, <1>5, <1>11 DEF Stands
  <2> QED
    BY <1>1, <1>3, <1>4, <1>10, <1>11, <2>1, <2>2 DEF CommitInv
<1> QED
  BY <1>1, <1>2, <1>12 DEF JournalInv, TxPc

LEMMA CommitEndJournal ==
  ASSUME SizeAssumption, TypeInv, JournalInv, CommitEnd
  PROVE  JournalInv'
<1>1. /\ pc = "commitEnd" /\ TypeOK /\ file' = file /\ stable' = file /\ result' = "ok"
      /\ UNCHANGED <<work, before, left>>
  BY DEF CommitEnd, FlushFile, TypeInv
<1>2. OneKind' /\ Powered' = Powered /\ CommitInv
  BY <1>1, LeftSame DEF JournalInv
<1>3. /\ ~hdr.inTx /\ file[0] = hdr /\ Intact(file, hdr) /\ Image(file, hdr) = Changed
  BY <1>1, <1>2 DEF CommitInv, Stands, StandsFor
<1>4. PICK db : db = Changed
  OBVIOUS
<1>5. Said(db)' /\ \A d : StandsFor(file, file, d, hdr, db)
  BY <1>1, <1>3, <1>4 DEF Said, Changed, StandsFor
<1>6. CASE hdr.rollback = 0
  <2>1. Terminate
    BY <1>6 DEF CommitEnd
  <2>2. StandsFor(file', stable', Powered', file'[0], db)
    BY <1>1, <1>3, <1>5
  <2> QED
    BY <1>1, <1>2, <1>5, <2>1, <2>2, ToIdle
<1>7. CASE hdr.rollback # 0
  <2>1. pc' = "free" /\ why' = "commit" /\ hdr' = hdr
    BY <1>7 DEF CommitEnd, memory
  <2>2. Now' = db /\ OnDisk' = {hdr}
    BY <1>1, <1>3, <1>4 DEF Now, OnDisk
  <2>3. Stands(hdr, Now)' /\ \A h \in OnDisk' : ~h.inTx /\ Stands(h, Now)'
    BY <1>1, <1>3, <1>5, <2>1, <2>2 DEF Stands
  <2>4. Said(Now)'
    BY <1>5, <2>2 DEF Said
  <2>5. FreeInv'
    BY <1>1, <1>3, <2>1, <2>3, <2>4 DEF FreeInv
  <2> QED
    BY <1>2, <2>1, <2>5 DEF JournalInv, TxPc
<1> QED
  BY <1>6, <1>7

-----------------------------------------------------------------------------
(* The first state, and a step of any kind.                                 *)

(* As long as two_crashes stands a power failure is not combined with a     *)
(* process crash or an I/O error.                                           *)
OneKindStarts == \A s \in Starts : s.left["power"] > 0 => s.left["kill"] = 0 /\ s.left["fault"] = 0

LEMMA JournalInit ==
  ASSUME SizeAssumption, StartAssumption, FreeAssumption, OneKindStarts, TypeOK, Init
  PROVE  JournalInv
<1>1. PICK s \in Starts :
        /\ file = [b \in Block |-> IF b = 0
                                   THEN [inTx |-> FALSE, rollback |-> 0, free |-> s.free,
                                         super |-> s.super, number |-> 0]
                                   ELSE Old]
        /\ left = s.left
  BY DEF Init
<1>2. /\ pc = "idle" /\ stable = file /\ idx = 0 /\ result = "ok"
      /\ work = LiveData(file, file[0]) /\ before = work
  BY DEF Init
<1> DEFINE h == file[0]
<1>3. h = [inTx |-> FALSE, rollback |-> 0, free |-> s.free, super |-> s.super, number |-> 0]
  BY <1>1, BlockIs
<1>4. h.inTx = FALSE /\ h.rollback = 0 /\ h.free = s.free /\ h.super = s.super
  BY <1>3
<1>5. HeaderOK(h)
  BY <1>4 DEF HeaderOK, StartAssumption, TypeOK
<1> HIDE DEF h
<1>6. Intact(file, h) /\ Image(file, h) = LiveData(file, h)
  BY <1>4, <1>5, NoChain
<1>7. OneKind
  BY <1>1 DEF OneKindStarts, OneKind, Powered, PowerOnly
<1>8. Changed = LiveData(file, h)
  <2>1. \A b \in Block : work[b] = (IF b \in Live(h) THEN file[b] ELSE Free)
    BY <1>2 DEF LiveData, h
  <2>2. \A b \in Block : work[b] = Fresh => file[b] = work[b]
    BY <2>1 DEF FreeAssumption
  <2> QED
    BY <2>1, <2>2 DEF Changed, LiveData
<1>9. StandsFor(file, stable, Lasting, h, LiveData(file, h))
  BY <1>2, <1>6 DEF StandsFor
<1>10. Now = LiveData(file, h)
  BY <1>6 DEF Now, h
<1>11. Said(Now)
  BY <1>2, <1>4, <1>8, <1>10 DEF Said, h
<1>12. IdleInv
  BY <1>2, <1>9, <1>10, <1>11 DEF IdleInv, Stands, h
<1> QED
  BY <1>2, <1>7, <1>12 DEF JournalInv, TxPc

LEMMA StutterJournal ==
  ASSUME JournalInv, UNCHANGED vars
  PROVE  JournalInv'
BY DEF vars, disk, memory, flush, ghost, JournalInv, OneKind, Powered, IdleInv, UndoInv, UndoneInv,
       FreeInv, TxInv, CommitInv, Stands, Lasting, OnDisk, Said, Changed, Now, Journal, OldOnDisk,
       InUse, SpaceInv, InfoInv, DiskInv, DataInv, SavedInv, FlushInv, Pinned, Below, Dirty, Unsaved,
       ChunkHead, ChunkBlock, TxPc

LEMMA JournalStep ==
  ASSUME SizeAssumption, ValueAssumption, FreeAssumption, BufferAssumption,
         TypeInv, TypeInv', JournalInv, [Next]_vars
  PROVE  JournalInv'
<1> TypeOK /\ TypeOK'
  BY DEF TypeInv
<1>1. CASE Begin
  BY <1>1, BeginJournal
<1>2. CASE Command
  BY <1>2, AllocateJournal, OpenClearedJournal, OpenJournal, CloseJournal, DeallocateJournal,
     SetDirtyJournal
  DEF Command
<1>3. CASE CacheFull
  BY <1>3, CacheFullJournal
<1>4. CASE End \/ Rollback
  BY <1>4, EndJournal, CancelJournal DEF Rollback
<1>5. CASE Undo
  BY <1>5, UndoBlockJournal, UndoNextChunkJournal, UndoFlushJournal, UndoHeaderJournal, UndoEndJournal
  DEF Undo
<1>6. CASE FreeChain
  BY <1>6, FreeChunkJournal, FreeFlushJournal, FreeHeaderJournal, FreeEndJournal DEF FreeChain
<1>7. CASE FlushCache
  BY <1>7, CollectJournal, TailWriteJournal, TailDoneJournal, AddBufferJournal, LastChunkJournal,
     ChunkWriteJournal, ChunksDoneJournal, MarkFlushJournal, MarkHeaderJournal, MarkEndJournal,
     OverwriteJournal, FlushDoneJournal
  DEF FlushCache, WriteChunk, Mark
<1>8. CASE Commit
  BY <1>8, CommitFlushJournal, CommitHeaderJournal, CommitEndJournal DEF Commit
<1>9. CASE NoSpace \/ AllocateFails \/ Fault
  BY <1>9, FailuresJournal
<1>10. CASE Kill \/ PowerFailure
  BY <1>10, KillJournal, PowerFailureJournal
<1>11. CASE UNCHANGED vars
  BY <1>11, StutterJournal
<1> QED
  BY <1>1, <1>2, <1>3, <1>4, <1>5, <1>6, <1>7, <1>8, <1>9, <1>10, <1>11 DEF Next, Step

-----------------------------------------------------------------------------
(* The theorems.  The power fails or the process fails, in whatever order   *)
(* and however often, but not both in one history: that is OneKindStarts.   *)

(* Every reachable state has the journal that its headers on the disk need: *)
(* the steps of cache.c, transact.c and super.c keep the invariant.         *)
THEOREM JournalIsKept == OneKindStarts /\ Spec => []JournalInv
<1>1. OneKindStarts /\ TypeInv /\ Init => JournalInv
  BY JournalInit, SizeAssumption, StartAssumption, FreeAssumption DEF TypeInv
<1>2. TypeInv /\ TypeInv' /\ JournalInv /\ [Next]_vars => JournalInv'
  BY JournalStep, SizeAssumption, ValueAssumption, FreeAssumption, BufferAssumption
<1> QED
  BY <1>1, <1>2, TypeInvariant, PTL DEF Spec

LEMMA IdleDatabase ==
  ASSUME JournalInv, pc = "idle"
  PROVE  /\ Intact(file, file[0]) /\ Database(file) = Now /\ Said(Now)
         /\ Recovered(file)[0] = OldHeader(file, file[0])
<1>1. Intact(file, file[0]) /\ Said(Now)
  BY DEF JournalInv, IdleInv, Stands, StandsFor
<1> QED
  BY <1>1, SizeAssumption, DatabaseIs DEF Now

(* A command reads what the transaction wrote, else what was there at its   *)
(* begin (open_block after flush_cache_buffers).                            *)
THEOREM WritesAreRead == OneKindStarts /\ Spec => []ReadsOwnWrites
<1>1. JournalInv => ReadsOwnWrites
  BY DEF JournalInv, TxInv, TxPc, DataInv, InUse, ReadsOwnWrites
<1> QED
  BY <1>1, JournalIsKept, PTL

(* The live blocks, the free blocks and the blocks of the chain are         *)
(* disjoint: what allocate_block hands out is neither in use nor saved.     *)
THEOREM SpaceStaysDisjoint == OneKindStarts /\ Spec => []SpaceIsDisjoint
<1>1. ASSUME JournalInv, TypeOK, InTransaction, ~txErr
      PROVE  /\ HeaderOK(hdr) /\ Kept(file, Journal) \cap hdr.super = {}
             /\ {b \in Block : work[b] # Free} = Live(hdr) \ Kept(file, Journal)
             /\ \A b \in Kept(file, Journal) : b \in Nat /\ 1 <= b /\ b < hdr.free
  <2>1. CASE pc \in TxPc
    <3>1. SpaceInv
      BY <1>1, <2>1, TxOpen
    <3>2. \A b \in Kept(file, Journal) : b \in Nat /\ 1 <= b /\ b < hdr.free
      BY <1>1, <3>1, SizeAssumption, TxList
    <3> QED
      BY <3>1, <3>2 DEF SpaceInv
  <2>2. CASE pc \in {"commitHeader", "commitEnd"}
    <3>1. /\ ~hdr.inTx /\ Intact(file, hdr)
          /\ {b \in Block : work[b] # Free} = Live(hdr) \ Kept(file, Journal)
      BY <1>1, <2>2 DEF JournalInv, CommitInv, Stands, StandsFor
    <3>2. HeaderOK(hdr) /\ Kept(file, Journal) \cap hdr.super = {}
      BY <3>1 DEF Intact, IntactRest, Journal
    <3>3. /\ Kept(file, Journal) \subseteq Needed(file, hdr)
          /\ \A b \in Needed(file, hdr) : b \in Nat /\ 1 <= b /\ b < hdr.free
      BY <3>1, SizeAssumption, IntactFacts DEF Journal
    <3> QED
      BY <3>1, <3>2, <3>3
  <2>3. pc \in TxPc \cup {"commitHeader", "commitEnd"}
    BY <1>1 DEF InTransaction, TypeOK, TxPc
  <2> QED
    BY <2>1, <2>2, <2>3
<1>2. ASSUME JournalInv, TypeOK, InTransaction, ~txErr PROVE SpaceIsDisjoint
  <2>1. Journal = Chain(file, hdr.rollback)
    BY DEF Journal, ChainOf
  <2>2. hdr.free \in Nat
    BY <1>2, HeaderFields DEF TypeOK
  <2>3. \A b \in Kept(file, Journal) : b \in 1..hdr.free - 1
    BY <1>1, <1>2, <2>2
  <2>4. hdr.super \subseteq 1..hdr.free - 1
    BY <1>1, <1>2 DEF HeaderOK
  <2> QED
    BY <1>1, <1>2, <2>1, <2>3, <2>4 DEF SpaceIsDisjoint, Live
<1>3. JournalInv /\ TypeInv => SpaceIsDisjoint
  BY <1>2 DEF SpaceIsDisjoint, TypeInv
<1> QED
  BY <1>3, JournalIsKept, TypeInvariant, PTL

(* What a transaction that returned success has changed is in the file, as  *)
(* the next initialize_transaction will find it.                            *)
THEOREM CommitsAreDurable == OneKindStarts /\ Spec => []CommitIsDurable
<1>1. JournalInv => CommitIsDurable
  BY IdleDatabase DEF CommitIsDurable, Said
<1> QED
  BY <1>1, JournalIsKept, PTL

(* rollback_transaction gives back the database of the begin.               *)
THEOREM CancelsRestore == OneKindStarts /\ Spec => []CancelRestores
<1>1. JournalInv => CancelRestores
  <2> SUFFICES ASSUME JournalInv, pc = "idle", result = "cancelled"
               PROVE  Database(file) = before
    BY DEF CancelRestores
  <2>1. Database(file) = Now /\ Said(Now)
    BY IdleDatabase
  <2> QED
    BY <2>1 DEF Said
<1> QED
  BY <1>1, JournalIsKept, PTL

(* A transaction that a crash or an error has cut off has happened entirely *)
(* or not at all.                                                           *)
THEOREM CrashesAreAtomic == OneKindStarts /\ Spec => []CrashIsAtomic
<1>1. JournalInv => CrashIsAtomic
  <2> SUFFICES ASSUME JournalInv, pc = "idle"
               PROVE  Database(file) \in {before, Changed}
    BY DEF CrashIsAtomic
  <2>1. Database(file) = Now /\ Said(Now)
    BY IdleDatabase
  <2> QED
    BY <2>1 DEF Said
<1> QED
  BY <1>1, JournalIsKept, PTL

(* The chain that a header asks for is there and ends in the header of      *)
(* before the transaction.                                                  *)
THEOREM FileIsRecoverable == OneKindStarts /\ Spec => []Recoverable
<1>1. JournalInv => Recoverable
  <2> SUFFICES ASSUME JournalInv, pc = "idle"
               PROVE  Recovered(file)[0] \in Header /\ ~Recovered(file)[0].inTx
    BY DEF Recoverable
  <2>1. Intact(file, file[0]) /\ Recovered(file)[0] = OldHeader(file, file[0])
    BY IdleDatabase
  <2>2. HeaderOK(OldHeader(file, file[0])) /\ ~OldHeader(file, file[0]).inTx
    BY <2>1, SizeAssumption, IntactFacts
  <2> QED
    BY <2>1, <2>2 DEF HeaderOK
<1> QED
  BY <1>1, JournalIsKept, PTL

(* rollback_transaction (cache.c) never meets a block that is not a chunk   *)
(* nor leaves the file or overwrites the chain it still reads, and comes to *)
(* the header it is to restore; deallocate_rollback_chain (super.c) never   *)
(* gives back a block that is free.  So the tests for this that UndoBlock,  *)
(* UndoFlush and FreeChunk have are never what holds the recovery up.       *)
THEOREM RecoveryIsRead == OneKindStarts /\ Spec => []RecoveryReads
<1>1. ASSUME JournalInv, TypeOK, pc = "undo"
      PROVE  /\ FoundAt(walk) /\ idx <= Len(file[walk].target)
             /\ Targets(file[walk]) \cap Kept(file, Chain(file, hdr.rollback)) = {}
             /\ file[walk].next = 0 =>
                  LET h == file[walk + Len(file[walk].target) + 1] IN h \in Header /\ ~h.inTx
  <2> DEFINE S == ChainOf(file, hdr)
             g == OldHeader(file, hdr)
  <2>1. /\ hdr.inTx /\ Intact(file, hdr) /\ walk \in S /\ idx <= Len(file[walk].target)
        /\ g = SavedHeader(file, S)
    BY <1>1 DEF JournalInv, UndoInv, Journal, OldHeader
  <2>2. IntactJournal(file, hdr, S, g)
    BY <2>1 DEF Intact
  <2>3. S = Chain(file, hdr.rollback)
    BY DEF ChainOf
  <2> HIDE DEF S, g
  <2>4. /\ IsList(file, hdr.rollback, S) /\ g \in Header /\ ~g.inTx
        /\ Fits(file, S, g.free, hdr.free) /\ SavesBelow(file, S, g.free)
    BY <2>2 DEF IntactJournal, HeaderOK
  <2>5. g.free \in Nat /\ hdr.free \in Nat
    BY <1>1, <2>4, HeaderFields DEF TypeOK
  <2>6. FoundAt(walk)
    BY <2>1, <2>4, SizeAssumption, ListFacts DEF Fits, FoundAt
  <2>7. \A b \in Targets(file[walk]) : b < g.free
    <3>1. Targets(file[walk]) \subseteq 1..g.free - 1
      BY <2>1, <2>4 DEF SavesBelow
    <3> QED
      BY <2>5, <3>1
  <2>8. \A b \in Kept(file, S) : b \in Nat /\ g.free <= b
    BY <2>4, <2>5, SizeAssumption, FitsKept
  <2>9. Targets(file[walk]) \cap Kept(file, S) = {}
    <3>1. ASSUME NEW b \in Targets(file[walk]), b \in Kept(file, S) PROVE FALSE
      BY <2>5, <2>7, <2>8, <3>1
    <3> QED
      BY <3>1
  <2>10. ASSUME file[walk].next = 0
         PROVE  file[walk + Len(file[walk].target) + 1] = g
    <3>1. PICK c \in S : /\ \A e \in S : file[e].next = 0 => e = c
                         /\ SavedHeader(file, S) = file[c + Len(file[c].target) + 1]
      BY <2>1, <2>4, SizeAssumption, OldestIs
    <3>2. walk = c
      BY <2>1, <2>10, <3>1
    <3> QED
      BY <2>1, <3>1, <3>2
  <2> QED
    BY <2>1, <2>3, <2>4, <2>6, <2>9, <2>10
<1>2. ASSUME JournalInv, pc = "free"
      PROVE  /\ hdr.super \subseteq 1..hdr.free - 1
             /\ hdr.rollback # 0 => /\ FoundAt(hdr.rollback)
                                    /\ Segment(file, hdr.rollback) \cap hdr.super = {}
  <2> DEFINE S == ChainOf(file, hdr)
  <2>1. ~hdr.inTx /\ Intact(file, hdr)
    BY <1>2 DEF JournalInv, FreeInv, Stands, StandsFor
  <2>2. IntactRest(file, hdr, S)
    BY <2>1 DEF Intact
  <2> HIDE DEF S
  <2>3. /\ HeaderOK(hdr) /\ IsList(file, hdr.rollback, S)
        /\ Fits(file, S, 1, hdr.free) /\ Kept(file, S) \cap hdr.super = {}
    BY <2>2 DEF IntactRest
  <2>4. ASSUME hdr.rollback # 0 PROVE hdr.rollback \in S
    BY <2>3, <2>4 DEF IsList
  <2>5. ASSUME hdr.rollback # 0
        PROVE  FoundAt(hdr.rollback) /\ Segment(file, hdr.rollback) \cap hdr.super = {}
    <3>1. FoundAt(hdr.rollback)
      BY <2>3, <2>4, <2>5, SizeAssumption, ListFacts DEF Fits, FoundAt
    <3>2. Segment(file, hdr.rollback) \subseteq Kept(file, S)
      BY <2>4, <2>5 DEF Kept
    <3> QED
      BY <2>3, <3>1, <3>2
  <2> QED
    BY <2>3, <2>5 DEF HeaderOK
<1>3. JournalInv /\ TypeInv => RecoveryReads
  BY <1>1, <1>2 DEF RecoveryReads, TypeInv
<1> QED
  BY <1>3, JournalIsKept, TypeInvariant, PTL

(* The blocks before free_space_link are all that the database needs, its   *)
(* chain included: what backup.c copies is the database.                    *)
THEOREM BackupsAreComplete == OneKindStarts /\ Spec => []BackupIsComplete
<1>1. ASSUME JournalInv, TypeOK, pc = "idle" PROVE BackupIsComplete
  <2> DEFINE copy == [b \in Block |-> IF b < file[0].free THEN file[b] ELSE Fresh]
  <2>1. Intact(file, file[0]) /\ Database(file) = Image(file, file[0])
    BY <1>1, IdleDatabase DEF Now
  <2>2. \A b \in Needed(file, file[0]) : b \in Block /\ b < file[0].free
    BY <2>1, SizeAssumption, IntactFacts
  <2>3. copy[0] = file[0]
    <3>1. 0 \in Block
      BY SizeAssumption, BlockIs
    <3>2. file[0] \in Header
      BY <1>1 DEF TypeOK
    <3>3. file[0].free \in 1..NBlocks /\ NBlocks \in Nat
      BY <3>2, SizeAssumption, BlockIs, HeaderFields
    <3>4. 0 < file[0].free
      BY <3>3
    <3> QED
      BY <3>1, <3>4
  <2>4. \A b \in Needed(file, file[0]) : copy[b] = file[b]
    BY <2>2
  <2>5. BackupIsComplete <=> Database(copy) = Database(file)
    BY <1>1 DEF BackupIsComplete
  <2> HIDE DEF copy
  <2> DEFINE h == file[0]
  <2>6. Intact(file, h) /\ \A b \in Needed(file, h) : copy[b] = file[b]
    BY <2>1, <2>4
  <2> HIDE DEF h
  <2>7. Intact(copy, h) /\ Image(copy, h) = Image(file, h)
    BY <2>6, SizeAssumption, Frame
  <2>8. copy[0] = h
    BY <2>3 DEF h
  <2>9. Database(copy) = Image(copy, h)
    BY <2>7, <2>8, SizeAssumption, DatabaseIs
  <2> QED
    BY <2>1, <2>5, <2>7, <2>9 DEF h
<1>2. JournalInv /\ TypeInv => BackupIsComplete
  BY <1>1 DEF BackupIsComplete, TypeInv
<1> QED
  BY <1>2, JournalIsKept, TypeInvariant, PTL

(* Of the file x, whose header is h, block b comes back with the undo.      *)
LEMMA ComesBack ==
  ASSUME SizeAssumption, NEW f, NEW h, Intact(f, h), h.inTx, NEW x, x[0] = h,
         \A y \in Needed(f, h) : x[y] = f[y], NEW b \in Live(OldHeader(f, h))
  PROVE  Recovered(x)[b] = Image(f, h)[b]
<1>1. Intact(x, h) /\ Image(x, h) = Image(f, h) /\ OldHeader(x, h) = OldHeader(f, h)
  BY Frame
<1> QED
  BY <1>1, DatabaseIs

(* A block of the old database that has been overwritten in the file is     *)
(* saved by the chain that the header on the device asks for: what          *)
(* create_rollback_chunk and set_physical_file_in_transaction have flushed. *)
THEOREM JournalGoesFirst == OneKindStarts /\ Spec => []JournalFirst
<1>1. ASSUME JournalInv, TypeOK, InTransaction, pc # "commitEnd",
             NEW b \in Live(hdr0), file[b] # before[b]
      PROVE  Recovered([stable EXCEPT ![b] = file[b]])[b] = before[b]
  <2> DEFINE x == [stable EXCEPT ![b] = file[b]]
  <2>1. \E h : /\ Intact(file, h) /\ h.inTx /\ stable[0] = h /\ Image(file, h) = before
               /\ OldHeader(file, h) = hdr0 /\ \A y \in Needed(file, h) : stable[y] = file[y]
    <3>1. CASE pc \in TxPc
      <4>1. SpaceInv /\ DiskInv
        BY <1>1, <3>1, TxOpen
      <4>2. \A h \in OnDisk : Guards(file, h, b)
        BY <1>1, <4>1, SizeAssumption, TxDisk
      <4>3. file[0] \in OnDisk /\ file[0].inTx
        BY <4>2 DEF Guards, OnDisk
      <4>4. hdr.inTx
        BY <4>1, <4>3 DEF DiskInv, SpaceInv
      <4>5. Lasting /\ stable[0] \in OnDisk
        BY <3>1, <4>4 DEF Lasting, OnDisk
      <4>6. /\ StandsFor(file, stable, Lasting, stable[0], before)
            /\ OldHeader(file, stable[0]) = hdr0
        BY <1>1, <4>1, <4>5, SizeAssumption, TxDisk
      <4> QED
        BY <4>2, <4>5, <4>6 DEF StandsFor, Guards
    <3>2. CASE pc = "commitHeader"
      <4>1. /\ \A y \in Block : stable[y] = file[y]
            /\ Intact(file, file[0]) /\ Image(file, file[0]) = before
            /\ OldHeader(file, file[0]) = hdr0 /\ hdr0.rollback = 0
        BY <1>1, <3>2 DEF JournalInv, CommitInv, Stands, StandsFor
      <4>2. HeaderOK(hdr0) /\ ~hdr0.inTx
            /\ \A y \in Needed(file, file[0]) : y \in Block
        BY <4>1, SizeAssumption, IntactFacts
      <4>3. file[0].inTx
        <5> SUFFICES ASSUME ~file[0].inTx PROVE FALSE
          OBVIOUS
        <5>1. file[0] = hdr0
          BY <4>1 DEF OldHeader
        <5>2. before = LiveData(file, hdr0)
          BY <4>1, <4>2, <5>1, SizeAssumption, NoChain
        <5>3. b \in Block
          BY <1>1, SizeAssumption, LiveIs DEF TypeOK
        <5> QED
          BY <1>1, <5>2, <5>3 DEF LiveData
      <4>4. stable[0] = file[0]
        BY <4>1, SizeAssumption, BlockIs
      <4> QED
        BY <4>1, <4>2, <4>3, <4>4
    <3>3. pc \in TxPc \cup {"commitHeader"}
      BY <1>1 DEF InTransaction, TypeOK, TxPc
    <3> QED
      BY <3>1, <3>2, <3>3
  <2>2. PICK h : /\ Intact(file, h) /\ h.inTx /\ stable[0] = h /\ Image(file, h) = before
                 /\ OldHeader(file, h) = hdr0 /\ \A y \in Needed(file, h) : stable[y] = file[y]
    BY <2>1
  <2>3. b \in Block /\ b # 0 /\ 0 \in Block
    <3>1. hdr0 \in Header
      BY <1>1 DEF TypeOK
    <3>2. b \in Nat /\ 1 <= b /\ b \in Block
      BY <1>1, <3>1, SizeAssumption, LiveIs
    <3>3. 0 \in Block
      BY SizeAssumption, BlockIs
    <3> QED
      BY <3>2, <3>3
  <2>4. x[0] = h /\ \A y \in Needed(file, h) : x[y] = file[y]
    <3>1. \A y \in Needed(file, h) : y \in Block
      BY <2>2, SizeAssumption, IntactFacts
    <3>2. \A y \in Block : x[y] = IF y = b THEN file[b] ELSE stable[y]
      BY <1>1 DEF TypeOK
    <3> HIDE DEF x
    <3> QED
      BY <2>2, <2>3, <3>1, <3>2
  <2> HIDE DEF x
  <2>5. Recovered(x)[b] = before[b]
    <3>1. b \in Live(OldHeader(file, h))
      BY <2>2
    <3> QED
      BY <2>2, <2>4, <3>1, SizeAssumption, ComesBack
  <2> QED
    BY <2>5 DEF x
<1>2. JournalInv /\ TypeInv => JournalFirst
  BY <1>1 DEF JournalFirst, TypeInv
<1> QED
  BY <1>2, JournalIsKept, TypeInvariant, PTL

-----------------------------------------------------------------------------
(* The refinement: what the abstract store sees of the files, in every      *)
(* place the library can be in, and which kind of step each action is.      *)

LEMMA DatabaseUnder ==
  ASSUME SizeAssumption, NEW f, NEW h, Intact(f, h), NEW x, x[0] = h,
         \A y \in Needed(f, h) : x[y] = f[y]
  PROVE  Database(x) = Image(f, h)
<1>1. Intact(x, h) /\ Image(x, h) = Image(f, h)
  BY Frame
<1> QED
  BY <1>1, DatabaseIs

StoreDb   == Database(file)
StorePrev == Database([file EXCEPT ![0] = stable[0]])

UndoPc == {"undo", "undoHeader", "undoEnd"}
FreePc == {"free", "freeHeader", "freeEnd"}
WorkPc == TxPc \cup {"commitHeader"}

LEMMA StoreIs ==
  ASSUME SizeAssumption, TypeOK,
         NEW a, NEW b,
         StandsFor(file, stable, TRUE, file[0], a), StandsFor(file, stable, TRUE, stable[0], b)
  PROVE  StoreDb = a /\ StorePrev = b
<1>1. Intact(file, file[0]) /\ Image(file, file[0]) = a
  BY DEF StandsFor
<1>2. Intact(file, stable[0]) /\ Image(file, stable[0]) = b
  BY DEF StandsFor
<1>3. StoreDb = a
  BY <1>1, DatabaseIs DEF StoreDb
<1> DEFINE x == [file EXCEPT ![0] = stable[0]]
<1>4. x[0] = stable[0]
  <2>1. 0 \in Block
    BY BlockIs
  <2>2. file \in [Block -> Content]
    BY DEF TypeOK
  <2> QED
    BY <2>1, <2>2
<1>5. \A y \in Needed(file, stable[0]) : y \in Block /\ y # 0
  BY <1>2, IntactFacts
<1>6. \A y \in Needed(file, stable[0]) : x[y] = file[y]
  BY <1>5 DEF TypeOK
<1> HIDE DEF x
<1>7. Database(x) = b
  BY <1>2, <1>4, <1>6, DatabaseUnder
<1> QED
  BY <1>3, <1>7 DEF StorePrev, x

(* With nothing but power failures the header that the device holds stands  *)
(* for the database of the file, but for a commit that is not flushed yet.  *)
StoreSeen ==
  /\ StandsFor(file, stable, TRUE, file[0], StoreDb)
  /\ StandsFor(file, stable, TRUE, stable[0], StorePrev)
  /\ pc \in WorkPc \cup UndoPc => StoreDb = before /\ StorePrev = before
  /\ pc \in FreePc \cup {"idle"} => StorePrev = StoreDb
  /\ pc = "commitEnd" => StoreDb = Changed

LEMMA StoreValues ==
  ASSUME SizeAssumption, TypeOK, JournalInv, PowerOnly
  PROVE  StoreSeen
<1>1. Lasting /\ Powered
  BY DEF Lasting, Powered
<1>2. \E a, b : /\ StandsFor(file, stable, TRUE, file[0], a)
                /\ StandsFor(file, stable, TRUE, stable[0], b)
                /\ pc \in WorkPc \cup UndoPc => a = before /\ b = before
                /\ pc \in FreePc \cup {"idle"} => a = b
                /\ pc = "commitEnd" => a = Changed /\ b \in {Changed, before}
  <2>1. CASE pc = "idle"
    <3>1. StandsFor(file, stable, TRUE, file[0], Now) /\ stable[0] = file[0]
      BY <1>1, <2>1 DEF JournalInv, IdleInv, Stands
    <3> QED
      BY <2>1, <3>1 DEF WorkPc, TxPc, UndoPc
  <2>2. file[0] \in OnDisk /\ stable[0] \in OnDisk
    BY <1>1 DEF OnDisk
  <2>3. CASE pc \in UndoPc \cup TxPc
    <3>1. \A h \in OnDisk : StandsFor(file, stable, TRUE, h, before)
      <4>1. CASE pc = "undo"
        BY <1>1, <4>1 DEF JournalInv, UndoInv, OldOnDisk, OldDisk
      <4>2. CASE pc \in {"undoHeader", "undoEnd"}
        BY <1>1, <4>2 DEF JournalInv, UndoneInv, Stands
      <4>3. CASE pc \in TxPc
        <5>1. SpaceInv /\ DiskInv
          BY <4>3, TxOpen
        <5> QED
          BY <1>1, <5>1, TxDisk
      <4> QED
        BY <2>3, <4>1, <4>2, <4>3 DEF UndoPc
    <3> QED
      BY <2>2, <2>3, <3>1 DEF UndoPc, TxPc, FreePc
  <2>4. CASE pc \in FreePc
    <3>1. \A h \in OnDisk : StandsFor(file, stable, TRUE, h, Now)
      BY <1>1, <2>4 DEF JournalInv, FreeInv, Stands, FreePc
    <3> QED
      BY <2>2, <2>4, <3>1 DEF FreePc, WorkPc, UndoPc, TxPc
  <2>5. CASE pc = "commitHeader"
    <3>1. StandsFor(file, stable, TRUE, file[0], before) /\ stable[0] = file[0]
      BY <1>1, <2>5 DEF JournalInv, CommitInv, Stands
    <3> QED
      BY <2>5, <3>1 DEF FreePc
  <2>6. CASE pc = "commitEnd"
    <3>1. /\ StandsFor(file, stable, TRUE, file[0], Changed)
          /\ stable[0] = file[0] \/ StandsFor(file, stable, TRUE, stable[0], before)
      BY <1>1, <2>6 DEF JournalInv, CommitInv, Stands
    <3> QED
      BY <2>6, <3>1 DEF FreePc, WorkPc, UndoPc, TxPc
  <2> QED
    BY <2>1, <2>3, <2>4, <2>5, <2>6 DEF TypeOK, UndoPc, TxPc, FreePc
<1>3. PICK a, b : /\ StandsFor(file, stable, TRUE, file[0], a)
                  /\ StandsFor(file, stable, TRUE, stable[0], b)
                  /\ pc \in WorkPc \cup UndoPc => a = before /\ b = before
                  /\ pc \in FreePc \cup {"idle"} => a = b
                  /\ pc = "commitEnd" => a = Changed /\ b \in {Changed, before}
  BY <1>2
<1>4. StoreDb = a /\ StorePrev = b
  BY <1>3, StoreIs
<1> QED
  BY <1>3, <1>4 DEF StoreSeen

(* What a step can be for the store.                                        *)
ClosedStep ==
  \/ UNCHANGED disk \/ FlushFile \/ FreeHeader \/ PowerFailure
  \/ pc \in UndoPc /\ pc' \in UndoPc /\ before' = before

StepKind ==
  /\ Uncommitted /\ Uncommitted' => before' = before
  /\ Uncommitted /\ ~Uncommitted' => UNCHANGED disk \/ CommitHeader \/ PowerFailure
  /\ ~Uncommitted /\ Uncommitted' => file' = file /\ work' = before' /\ \E h : Enter(h)
  /\ ~Uncommitted /\ ~Uncommitted' => ClosedStep

LEMMA UncommittedIs ==
  ASSUME TypeOK
  PROVE  Uncommitted <=> pc \in WorkPc
BY DEF Uncommitted, InTransaction, TypeOK, WorkPc, TxPc

LEMMA EnterKind ==
  ASSUME TypeOK, TypeOK', ~Uncommitted, NEW h, Enter(h), file' = file
  PROVE  StepKind
<1>1. pc' = "open" /\ work' = before'
  BY DEF Enter
<1>2. Uncommitted'
  BY <1>1 DEF Uncommitted, InTransaction
<1> QED
  BY <1>1, <1>2 DEF StepKind

(* A step that leaves the files alone, and starts no transaction.           *)
LEMMA QuietKind ==
  ASSUME TypeOK, TypeOK', UNCHANGED disk, before' = before, Uncommitted' => Uncommitted
  PROVE  StepKind
BY DEF StepKind, ClosedStep

LEMMA OpenKind ==
  ASSUME TypeOK, TypeOK', before' = before, Uncommitted, Uncommitted'
  PROVE  StepKind
BY DEF StepKind

LEMMA ClosedKind ==
  ASSUME TypeOK, TypeOK', ClosedStep, ~Uncommitted, ~Uncommitted'
  PROVE  StepKind
BY DEF StepKind

LEMMA TerminateKind ==
  ASSUME TypeOK, TypeOK', UNCHANGED disk, before' = before, Terminate
  PROVE  StepKind
<1>1. ~Uncommitted'
  BY DEF Terminate, Uncommitted, InTransaction
<1> QED
  BY <1>1, QuietKind

LEMMA FailKind ==
  ASSUME TypeOK, TypeOK', Fail
  PROVE  StepKind
<1>1. UNCHANGED disk
  BY DEF Fail
<1>2. before' = before
  BY DEF Fail, ghost
<1>3. Terminate \/ (pc' = "open" /\ pc \in TxPc)
  BY DEF Fail, TxPc
<1>4. CASE pc' = "open" /\ pc \in TxPc
  <2>1. Uncommitted
    BY <1>4, UncommittedIs DEF WorkPc
  <2> QED
    BY <1>1, <1>2, <2>1, QuietKind
<1> QED
  BY <1>1, <1>2, <1>3, <1>4, TerminateKind

LEMMA CancelKind ==
  ASSUME TypeOK, TypeOK', NEW r, Cancel(r)
  PROVE  StepKind
<1>1. UNCHANGED disk /\ before' = before
  BY DEF Cancel
<1>2. Terminate \/ pc' = "undo"
  BY DEF Cancel
<1>3. ~Uncommitted'
  BY <1>2 DEF Terminate, Uncommitted, InTransaction
<1> QED
  BY <1>1, <1>3, QuietKind

(* A step of an open transaction after which it is still open.              *)
LEMMA WorkKind ==
  ASSUME TypeOK, TypeOK', pc \in WorkPc, pc' \in WorkPc, before' = before
  PROVE  StepKind
<1>1. Uncommitted /\ Uncommitted'
  BY UncommittedIs DEF Uncommitted, InTransaction, WorkPc, TxPc
<1> QED
  BY <1>1, OpenKind

LEMMA OutsideKind ==
  ASSUME TypeOK, TypeOK', pc \notin WorkPc, pc' \notin WorkPc, ClosedStep
  PROVE  StepKind
<1>1. ~Uncommitted
  BY UncommittedIs
<1>2. ~Uncommitted'
  BY DEF TypeOK, Uncommitted, InTransaction, WorkPc, TxPc
<1> QED
  BY <1>1, <1>2, ClosedKind

LEMMA BeginKind ==
  ASSUME TypeOK, TypeOK', Begin
  PROVE  StepKind
<1>1. pc = "idle" /\ UNCHANGED disk
  BY DEF Begin
<1>2. ~Uncommitted
  BY <1>1 DEF Uncommitted, InTransaction
<1>3. CASE Enter(file[0])
  BY <1>1, <1>2, <1>3, EnterKind DEF disk
<1>4. CASE ~Enter(file[0])
  <2>1. pc' \in {"undo", "free"} /\ before' = before
    BY <1>4 DEF Begin, ghost
  <2>2. ~Uncommitted'
    BY <2>1 DEF Uncommitted, InTransaction
  <2> QED
    BY <1>1, <2>1, <2>2, QuietKind
<1> QED
  BY <1>3, <1>4

LEMMA CommandKind ==
  ASSUME TypeOK, TypeOK', Command \/ CacheFull
  PROVE  StepKind
<1>1. CASE Command
  <2>1. Working
    BY <1>1 DEF Command, Allocate, OpenCleared, Open, Close, Deallocate, SetDirty
  <2>2. pc = "open" /\ pc' = "open" /\ before' = before
    BY <2>1 DEF Working, Running
  <2> QED
    BY <2>2, WorkKind DEF WorkPc, TxPc
<1>2. CASE CacheFull
  <2>1. pc = "open" /\ pc' \in {"open", "collect"} /\ before' = before
    BY <1>2 DEF CacheFull, Running, ghost
  <2> QED
    BY <2>1, WorkKind DEF WorkPc, TxPc
<1> QED
  BY <1>1, <1>2

LEMMA EndKind ==
  ASSUME TypeOK, TypeOK', End \/ Rollback
  PROVE  StepKind
<1>1. CASE Cancel("error") \/ Cancel("cancelled")
  BY <1>1, CancelKind
<1>2. CASE ~(Cancel("error") \/ Cancel("cancelled"))
  <2>1. pc = "open" /\ pc' = "collect" /\ before' = before
    BY <1>2 DEF End, Rollback, ghost
  <2> QED
    BY <2>1, WorkKind DEF WorkPc, TxPc
<1> QED
  BY <1>1, <1>2

LEMMA UndoKind ==
  ASSUME TypeOK, TypeOK', Undo
  PROVE  StepKind
<1>1. CASE UndoBlock \/ UndoNextChunk \/ UndoFlush
  <2>1. pc = "undo" /\ pc' \in {"undo", "undoHeader"} /\ before' = before
    BY <1>1 DEF UndoBlock, UndoNextChunk, UndoFlush, ghost
  <2> QED
    BY <2>1, OutsideKind DEF ClosedStep, UndoPc, WorkPc, TxPc
<1>2. CASE UndoHeader
  <2>1. pc = "undoHeader" /\ before' = before
    BY <1>2 DEF UndoHeader, ghost
  <2>2. CASE Terminate /\ UNCHANGED disk
    BY <2>1, <2>2, TerminateKind
  <2>3. CASE pc' = "undoEnd"
    BY <2>1, <2>3, OutsideKind DEF ClosedStep, UndoPc, WorkPc, TxPc
  <2> QED
    BY <1>2, <2>2, <2>3 DEF UndoHeader
<1>3. CASE UndoEnd
  <2>1. pc = "undoEnd" /\ FlushFile
    BY <1>3 DEF UndoEnd
  <2>2. CASE Enter(hdr)
    <3>1. file' = file /\ ~Uncommitted
      BY <2>1 DEF FlushFile, Uncommitted, InTransaction
    <3> QED
      BY <2>2, <3>1, EnterKind
  <2>3. CASE pc' \in {"idle", "free"}
    BY <2>1, <2>3, OutsideKind DEF ClosedStep, WorkPc, TxPc
  <2>4. Enter(hdr) \/ pc' \in {"idle", "free"}
    BY <1>3 DEF UndoEnd, Terminate
  <2> QED
    BY <2>2, <2>3, <2>4
<1> QED
  BY <1>1, <1>2, <1>3 DEF Undo

LEMMA FreeKind ==
  ASSUME TypeOK, TypeOK', FreeChain
  PROVE  StepKind
<1>1. CASE FreeChunk
  <2>1. pc = "free" /\ pc' = "free" /\ UNCHANGED disk
    BY <1>1 DEF FreeChunk
  <2> QED
    BY <2>1, OutsideKind DEF ClosedStep, WorkPc, TxPc
<1>2. CASE FreeFlush
  <2>1. pc = "free" /\ pc' = "freeHeader" /\ FlushFile
    BY <1>2 DEF FreeFlush
  <2> QED
    BY <2>1, OutsideKind DEF ClosedStep, WorkPc, TxPc
<1>3. CASE FreeHeader
  <2>1. pc = "freeHeader" /\ pc' = "freeEnd"
    BY <1>3 DEF FreeHeader
  <2> QED
    BY <1>3, <2>1, OutsideKind DEF ClosedStep, WorkPc, TxPc
<1>4. CASE FreeEnd
  <2>1. pc = "freeEnd" /\ FlushFile
    BY <1>4 DEF FreeEnd
  <2>2. CASE Enter(hdr)
    <3>1. file' = file /\ ~Uncommitted
      BY <2>1 DEF FlushFile, Uncommitted, InTransaction
    <3> QED
      BY <2>2, <3>1, EnterKind
  <2>3. CASE pc' = "idle"
    BY <2>1, <2>3, OutsideKind DEF ClosedStep, WorkPc, TxPc
  <2>4. Enter(hdr) \/ pc' = "idle"
    BY <1>4 DEF FreeEnd, Terminate
  <2> QED
    BY <2>2, <2>3, <2>4
<1> QED
  BY <1>1, <1>2, <1>3, <1>4 DEF FreeChain

LEMMA FlushKind ==
  ASSUME TypeOK, TypeOK', FlushCache
  PROVE  StepKind
<1>1. CASE ~FlushDone
  <2>1. pc \in TxPc /\ pc' \in TxPc /\ before' = before
    <3>1. CASE Collect \/ TailWrite \/ TailDone \/ Overwrite
      BY <3>1 DEF Collect, TailWrite, TailDone, Overwrite, ghost, TxPc
    <3>2. CASE AddBuffer \/ LastChunk \/ ChunkWrite \/ ChunksDone
      BY <3>2 DEF AddBuffer, LastChunk, ChunkWrite, ChunksDone, ghost, TxPc
    <3>3. CASE Mark
      BY <3>3 DEF Mark, MarkFlush, MarkHeader, MarkEnd, ghost, TxPc
    <3> QED
      BY <1>1, <3>1, <3>2, <3>3 DEF FlushCache, WriteChunk
  <2> QED
    BY <2>1, WorkKind DEF WorkPc
<1>2. CASE FlushDone
  <2>1. pc = "overwrite" /\ UNCHANGED disk /\ before' = before
    BY <1>2 DEF FlushDone, ghost
  <2>2. Uncommitted
    BY <2>1 DEF Uncommitted, InTransaction
  <2> QED
    BY <2>1, <2>2, QuietKind
<1> QED
  BY <1>1, <1>2

LEMMA CommitKind ==
  ASSUME TypeOK, TypeOK', Commit
  PROVE  StepKind
<1>1. CASE CommitFlush
  <2>1. pc = "commit" /\ pc' = "commitHeader" /\ before' = before
    BY <1>1 DEF CommitFlush, ghost
  <2> QED
    BY <2>1, WorkKind DEF WorkPc, TxPc
<1>2. CASE CommitHeader
  <2>1. pc = "commitHeader" /\ pc' = "commitEnd"
    BY <1>2 DEF CommitHeader
  <2>2. Uncommitted /\ ~Uncommitted'
    BY <2>1 DEF Uncommitted, InTransaction
  <2> QED
    BY <1>2, <2>2 DEF StepKind
<1>3. CASE CommitEnd
  <2>1. pc = "commitEnd" /\ FlushFile /\ pc' \in {"idle", "free"}
    BY <1>3 DEF CommitEnd, Terminate
  <2> QED
    BY <2>1, OutsideKind DEF ClosedStep, WorkPc, TxPc
<1> QED
  BY <1>1, <1>2, <1>3 DEF Commit

LEMMA CrashKind ==
  ASSUME TypeOK, TypeOK', Kill \/ PowerFailure
  PROVE  StepKind
<1>1. before' = before /\ Terminate
  BY DEF Kill, PowerFailure, Crashed
<1>2. CASE Kill
  <2>1. UNCHANGED disk
    BY <1>2 DEF Kill
  <2> QED
    BY <1>1, <2>1, TerminateKind
<1>3. CASE PowerFailure
  <2>1. ~Uncommitted'
    BY <1>1 DEF Terminate, Uncommitted, InTransaction
  <2> QED
    BY <1>3, <2>1 DEF StepKind, ClosedStep
<1> QED
  BY <1>2, <1>3

LEMMA KindOfStep ==
  ASSUME TypeOK, TypeOK', [Next]_vars
  PROVE  StepKind
<1>1. CASE UNCHANGED vars
  <2>1. UNCHANGED disk /\ pc' = pc /\ before' = before
    BY <1>1 DEF vars, ghost
  <2>2. Uncommitted' => Uncommitted
    BY <2>1 DEF Uncommitted, InTransaction
  <2> QED
    BY <2>1, <2>2, QuietKind
<1>2. CASE NoSpace \/ AllocateFails \/ Fault
  BY <1>2, FailKind DEF NoSpace, AllocateFails, Fault
<1> QED
  BY <1>1, <1>2, BeginKind, CommandKind, EndKind, UndoKind, FreeKind, FlushKind, CommitKind, CrashKind
  DEF Next, Step

LEMMA FlushedDb ==
  ASSUME TypeOK, FlushFile
  PROVE  StoreDb' = StoreDb /\ StorePrev' = StoreDb
<1>1. file' = file /\ stable' = file
  BY DEF FlushFile
<1>2. [file EXCEPT ![0] = file[0]] = file
  BY DEF TypeOK
<1> QED
  BY <1>1, <1>2 DEF StoreDb, StorePrev

LEMMA QuietDb ==
  ASSUME UNCHANGED disk
  PROVE  StoreDb' = StoreDb /\ StorePrev' = StorePrev
BY DEF disk, StoreDb, StorePrev

LEMMA PowerFailureDb ==
  ASSUME SizeAssumption, TypeOK, TypeOK', StoreSeen, PowerFailure
  PROVE  StoreDb' \in {StoreDb, StorePrev} /\ StorePrev' = StoreDb'
<1>1. stable' = file' /\ \A b \in Block : file'[b] = file[b] \/ file'[b] = stable[b]
  BY DEF PowerFailure
<1>2. 0 \in Block
  BY BlockIs
<1>3. ASSUME NEW h, NEW d, StandsFor(file, stable, TRUE, h, d), file'[0] = h
      PROVE  StoreDb' = d
  <2>1. /\ Intact(file, h) /\ Image(file, h) = d
        /\ \A b \in Needed(file, h) : stable[b] = file[b]
    BY <1>3 DEF StandsFor
  <2>2. \A b \in Needed(file, h) : b \in Block
    BY <2>1, IntactFacts
  <2>3. \A b \in Needed(file, h) : file'[b] = file[b]
    BY <1>1, <2>1, <2>2
  <2>4. Database(file') = d
    BY <1>3, <2>1, <2>3, DatabaseUnder
  <2> QED
    BY <2>4 DEF StoreDb
<1>4. StoreDb' \in {StoreDb, StorePrev}
  BY <1>1, <1>2, <1>3 DEF StoreSeen
<1>5. [file' EXCEPT ![0] = file'[0]] = file'
  BY DEF TypeOK
<1> QED
  BY <1>1, <1>4, <1>5 DEF StoreDb, StorePrev

(* The header goes to the file; what the device has is one or the other.    *)
LEMMA HeaderDb ==
  ASSUME SizeAssumption, TypeOK, TypeOK', StoreSeen, NEW h, NEW d, Write(0, h),
         Intact(file, h), Image(file, h) = d
  PROVE  StoreDb' = d /\ StorePrev' \in {StoreDb, StorePrev}
<1>1. 0 \in Block
  BY BlockIs
<1>2. /\ file'[0] = h /\ \A x \in Block : x # 0 => file'[x] = file[x]
      /\ stable'[0] = stable[0] \/ stable'[0] = file[0]
  BY <1>1, WriteIs
<1>3. ASSUME NEW g, Intact(file, g) PROVE \A b \in Needed(file, g) : b \in Block /\ b # 0
  BY <1>3, IntactFacts
<1>4. Database(file') = d
  <2>1. \A b \in Needed(file, h) : file'[b] = file[b]
    BY <1>2, <1>3
  <2> QED
    BY <1>2, <2>1, DatabaseUnder
<1> DEFINE x == [file' EXCEPT ![0] = stable'[0]]
<1>5. x[0] = stable'[0] /\ \A b \in Block : b # 0 => x[b] = file[b]
  <2>1. file' \in [Block -> Content]
    BY DEF TypeOK
  <2> QED
    BY <1>1, <1>2, <2>1
<1> HIDE DEF x
<1>6. ASSUME NEW g, NEW e, StandsFor(file, stable, TRUE, g, e), stable'[0] = g
      PROVE  Database(x) = e
  <2>1. Intact(file, g) /\ Image(file, g) = e
    BY <1>6 DEF StandsFor
  <2>2. \A b \in Needed(file, g) : x[b] = file[b]
    BY <1>3, <1>5, <2>1
  <2> QED
    BY <1>5, <1>6, <2>1, <2>2, DatabaseUnder
<1>7. Database(x) \in {StoreDb, StorePrev}
  BY <1>2, <1>6 DEF StoreSeen
<1> QED
  BY <1>4, <1>7 DEF StoreDb, StorePrev, x

LEMMA FreeHeaderDb ==
  ASSUME SizeAssumption, TypeOK, TypeOK', JournalInv, PowerOnly, StoreSeen, FreeHeader
  PROVE  StoreDb' = StoreDb /\ StorePrev' = StorePrev
<1>1. pc = "freeHeader" /\ Write(0, hdr)
  BY DEF FreeHeader
<1>2. Intact(file, hdr) /\ Image(file, hdr) = Now
  BY <1>1 DEF JournalInv, FreeInv, Stands, StandsFor
<1>3. StoreDb = Now
  BY DEF StoreSeen, StandsFor, Now
<1>4. StorePrev = StoreDb
  BY <1>1 DEF StoreSeen, FreePc
<1> QED
  BY <1>1, <1>2, <1>3, <1>4, HeaderDb

LEMMA CommitHeaderDb ==
  ASSUME SizeAssumption, FreeAssumption, TypeOK, TypeOK', JournalInv, StoreSeen, CommitHeader
  PROVE  StoreDb' = Changed /\ StorePrev' = StoreDb
<1>1. pc = "commitHeader" /\ Write(0, hdr)
  BY DEF CommitHeader
<1>2. Intact(file, hdr) /\ Image(file, hdr) = Changed
  BY <1>1 DEF JournalInv, CommitInv, Stands, StandsFor
<1>3. StorePrev = StoreDb
  BY <1>1 DEF StoreSeen, WorkPc
<1> QED
  BY <1>1, <1>2, <1>3, HeaderDb

-----------------------------------------------------------------------------
(* Every step is one of the abstract store, or none.                        *)

LEMMA StoreMoves ==
  ASSUME \/ /\ Uncommitted /\ Uncommitted' /\ StoreDb' = StoreDb /\ StorePrev' = StorePrev
            /\ Changed' \in [Block -> Content \cup {Free}]
         \/ /\ ~Uncommitted /\ Uncommitted'
            /\ StoreDb' = StoreDb /\ StorePrev' = StoreDb /\ Changed' = StoreDb
         \/ /\ Uncommitted /\ ~Uncommitted' /\ StoreDb' = StoreDb /\ StorePrev' = StorePrev
         \/ /\ Uncommitted /\ ~Uncommitted' /\ StoreDb' = Changed /\ StorePrev' = StoreDb
         \/ /\ ~Uncommitted /\ ~Uncommitted'
            /\ StoreDb' = StoreDb /\ StorePrev' \in {StoreDb, StorePrev}
         \/ ~Uncommitted' /\ StoreDb' \in {StoreDb, StorePrev} /\ StorePrev' = StoreDb'
  PROVE  [Store!Next]_(Store!vars)
<1>1. CASE /\ Uncommitted /\ Uncommitted' /\ StoreDb' = StoreDb /\ StorePrev' = StorePrev
           /\ Changed' \in [Block -> Content \cup {Free}]
  <2>1. Store!Change
    BY <1>1 DEF Store!Change, StoreDb, StorePrev
  <2> QED
    BY <2>1 DEF Store!Next
<1>2. CASE /\ ~Uncommitted /\ Uncommitted'
           /\ StoreDb' = StoreDb /\ StorePrev' = StoreDb /\ Changed' = StoreDb
  <2>1. Store!Begin
    BY <1>2 DEF Store!Begin, StoreDb, StorePrev
  <2> QED
    BY <2>1 DEF Store!Next
<1>3. CASE /\ Uncommitted /\ ~Uncommitted' /\ StoreDb' = StoreDb /\ StorePrev' = StorePrev
  <2>1. Store!Abort
    BY <1>3 DEF Store!Abort, StoreDb, StorePrev
  <2> QED
    BY <2>1 DEF Store!Next
<1>4. CASE /\ Uncommitted /\ ~Uncommitted' /\ StoreDb' = Changed /\ StorePrev' = StoreDb
  <2>1. Store!Commit
    BY <1>4 DEF Store!Commit, StoreDb, StorePrev
  <2> QED
    BY <2>1 DEF Store!Next
<1>5. CASE /\ ~Uncommitted /\ ~Uncommitted'
           /\ StoreDb' = StoreDb /\ StorePrev' \in {StoreDb, StorePrev}
  <2>1. Uncommitted' = Uncommitted
    BY <1>5 DEF Uncommitted
  <2>2. (IF Uncommitted THEN Changed ELSE Database(file))'
          = (IF Uncommitted THEN Changed ELSE Database(file))
    BY <1>5 DEF StoreDb
  <2>3. CASE StorePrev' = StoreDb
    <3>1. Store!Sync
      BY <1>5, <2>1, <2>2, <2>3 DEF Store!Sync, StoreDb, StorePrev
    <3> QED
      BY <3>1 DEF Store!Next
  <2>4. CASE StorePrev' = StorePrev
    <3>1. UNCHANGED Store!vars
      BY <1>5, <2>1, <2>2, <2>4 DEF Store!vars, StoreDb, StorePrev
    <3> QED
      BY <3>1
  <2> QED
    BY <1>5, <2>3, <2>4
<1>6. CASE ~Uncommitted' /\ StoreDb' \in {StoreDb, StorePrev} /\ StorePrev' = StoreDb'
  <2>1. Store!PowerFailure
    BY <1>6 DEF Store!PowerFailure, StoreDb, StorePrev
  <2> QED
    BY <2>1 DEF Store!Next
<1> QED
  BY <1>1, <1>2, <1>3, <1>4, <1>5, <1>6

LEMMA StoreInit ==
  ASSUME SizeAssumption, FreeAssumption, PowerOnly, TypeOK, JournalInv, StoreSeen, Init
  PROVE  Store!Init
<1>1. pc = "idle" /\ work = LiveData(file, file[0]) /\ before = work /\ result = "ok"
  BY DEF Init
<1>2. ~Uncommitted
  BY <1>1 DEF Uncommitted, InTransaction
<1>3. StorePrev = StoreDb
  BY <1>1 DEF StoreSeen
<1>4. StoreDb = Changed
  <2>1. Said(Now) /\ Database(file) = Now
    BY <1>1, IdleDatabase
  <2> QED
    BY <1>1, <2>1 DEF Said, StoreDb
<1>5. Changed \in [Block -> Content \cup {Free}]
  BY DEF Changed, TypeOK
<1> QED
  BY <1>2, <1>3, <1>4, <1>5 DEF Store!Init, StoreDb, StorePrev

LEMMA StoreStep ==
  ASSUME SizeAssumption, FreeAssumption, PowerOnly, TypeOK, TypeOK', JournalInv,
         StoreSeen, StoreSeen', [Next]_vars
  PROVE  [Store!Next]_(Store!vars)
<1>1. StepKind
  BY KindOfStep
<1>2. Changed' \in [Block -> Content \cup {Free}]
  BY DEF Changed, TypeOK
<1>3. Uncommitted => StoreDb = before /\ StorePrev = before
  BY UncommittedIs DEF StoreSeen
<1>4. Uncommitted' => StoreDb' = before' /\ StorePrev' = before'
  BY DEF StoreSeen, Uncommitted, InTransaction, TypeOK, WorkPc, TxPc
<1>5. CASE Uncommitted /\ Uncommitted'
  BY <1>1, <1>2, <1>3, <1>4, <1>5, StoreMoves DEF StepKind
<1>6. CASE ~Uncommitted /\ Uncommitted'
  <2>1. PICK h : Enter(h) /\ file' = file /\ work' = before'
    BY <1>1, <1>6 DEF StepKind
  <2>2. StoreDb' = StoreDb
    BY <2>1 DEF StoreDb
  <2>3. Changed' = before'
    <3>1. work' = LiveData(file, h)
      BY <2>1 DEF Enter
    <3>2. \A b \in Block : work'[b] # Fresh
      BY <3>1 DEF LiveData, TypeOK, FreeAssumption
    <3>3. before' \in [Block -> Content \cup {Free}]
      BY DEF TypeOK
    <3> QED
      BY <2>1, <3>2, <3>3 DEF Changed
  <2> QED
    BY <1>4, <1>6, <2>2, <2>3, StoreMoves
<1>7. CASE Uncommitted /\ ~Uncommitted'
  <2>1. CASE UNCHANGED disk
    BY <1>7, <2>1, QuietDb, StoreMoves
  <2>2. CASE CommitHeader
    BY <1>7, <2>2, CommitHeaderDb, StoreMoves
  <2>3. CASE PowerFailure
    BY <1>7, <2>3, PowerFailureDb, StoreMoves
  <2> QED
    BY <1>1, <1>7, <2>1, <2>2, <2>3 DEF StepKind
<1>8. CASE ~Uncommitted /\ ~Uncommitted'
  <2>1. CASE UNCHANGED disk
    BY <1>8, <2>1, QuietDb, StoreMoves
  <2>2. CASE FlushFile
    BY <1>8, <2>2, FlushedDb, StoreMoves
  <2>3. CASE FreeHeader
    BY <1>8, <2>3, FreeHeaderDb, StoreMoves
  <2>4. CASE PowerFailure
    BY <1>8, <2>4, PowerFailureDb, StoreMoves
  <2>5. CASE pc \in UndoPc /\ pc' \in UndoPc /\ before' = before
    <3>1. StoreDb' = StoreDb /\ StorePrev' = StorePrev
      BY <2>5 DEF StoreSeen
    <3> QED
      BY <1>8, <3>1, StoreMoves
  <2> QED
    BY <1>1, <1>8, <2>1, <2>2, <2>3, <2>4, <2>5 DEF StepKind, ClosedStep
<1> QED
  BY <1>5, <1>6, <1>7, <1>8

(* With power failures the transactions are the abstract store: a commit    *)
(* takes effect with the write of the header that ends it, until the flush  *)
(* after it (precommit_transaction) a power failure may take it back, and   *)
(* nothing else changes the database that the file stands for.              *)
THEOREM TransactionsAreAtomic == PowerOnly /\ Spec => ImplementsAtomicStore
<1> SUFFICES ASSUME PowerOnly PROVE Spec => ImplementsAtomicStore
  OBVIOUS
<1>1. JournalInv /\ TypeInv => StoreSeen
  BY StoreValues, SizeAssumption DEF TypeInv
<1>2. JournalInv /\ TypeInv /\ StoreSeen /\ Init => Store!Init
  BY StoreInit, SizeAssumption, FreeAssumption DEF TypeInv
<1>3. JournalInv /\ TypeInv /\ TypeInv' /\ StoreSeen /\ StoreSeen' /\ [Next]_vars
        => [Store!Next]_(Store!vars)
  BY StoreStep, SizeAssumption, FreeAssumption DEF TypeInv
<1>4. OneKindStarts
  BY DEF PowerOnly, OneKindStarts
<1>5. Spec => [](JournalInv /\ TypeInv)
  BY <1>4, JournalIsKept, TypeInvariant, PTL
<1> QED
  BY <1>1, <1>2, <1>3, <1>5, PTL DEF Spec, ImplementsAtomicStore, Store!Spec
=============================================================================
