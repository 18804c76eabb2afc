------------------------------- MODULE DbSuper -------------------------------
(***************************************************************************)
(* The free blocks of a database file (src/lib/db/super.c): a table of      *)
(* ranges in the header, and when that is full a chain of super blocks with *)
(* half a table each, which are free blocks themselves.                     *)
(*                                                                         *)
(* Between begin and end the table and the super blocks change in the cache *)
(* only: DbTransact says how a transaction reaches the file as a whole or   *)
(* not at all, so here a transaction is only what it does to the table, and *)
(* a database without a rollback chain may go on with the next one.  The    *)
(* chain is given back outside of any transaction, by writes to the file    *)
(* that a crash may cut off.                                                *)
(***************************************************************************)
EXTENDS Integers, Sequences, FiniteSets, SequencesExt

CONSTANTS
  NBlocks,     \* largest value of free_space_link (LINK'max in the code)
  Half,        \* HALF_MAX_FREE_BLOCK_RANGES (12 in the code)
  MaxSaved,    \* MAX_SAVED_BLOCKS_PER_ROLLBACK_BLOCK (61 in the code)
  MaxAlign,    \* largest alignment a caller asks for
  MaxChunks    \* rollback chunks that a transaction leaves

ASSUME SizeAssumption == /\ NBlocks \in Nat \ {0} /\ Half \in Nat \ {0}
                         /\ MaxSaved \in Nat /\ MaxAlign \in Nat /\ MaxChunks \in Nat

MaxRanges == 2 * Half          \* MAX_FREE_BLOCK_RANGES
Block     == 0..NBlocks - 1

(* Blocks that are neither super blocks nor the head of a rollback chunk    *)
(* hold Other; the code leaves stale contents there and in freed ones.      *)
FreeRange == [first: Nat, count: Nat]
Header == [free: 1..NBlocks, link: Block, range: Seq(FreeRange), rollback: Block]
Super  == [next: Block, range: Seq(FreeRange)]
Chunk  == [next: Block, saved: 0..MaxSaved]
Other  == [other |-> TRUE]
Content == Super \cup Chunk \cup {Other}

VARIABLES
  phase,    \* "open": in a transaction; "commit": cutting off the chunks of
            \* the last flush; "free": giving the chain back
  hdr,      \* p.db_header
  block,    \* the blocks as the cache shows them, or as the release leaves them
  stored,   \* while phase = "free": the header in the file
  stable,   \* while phase = "free": the blocks in the file
  unsynced, \* the blocks written and not flushed, while phase = "free"
  live,     \* ghost: the blocks handed out and not given back
  status    \* what the last call returned

file == <<stored, stable>>
vars == <<phase, hdr, block, file, unsynced, live, status>>

NoHeader == [free |-> 1, link |-> 0, range |-> <<>>, rollback |-> 0]
NoFile   == [b \in Block |-> Other]

Init ==
  /\ phase = "open" /\ hdr = NoHeader /\ block = NoFile
  /\ stored = NoHeader /\ stable = NoFile /\ unsynced = {}
  /\ live = {} /\ status = "ok"

-----------------------------------------------------------------------------
(* insert_range_in_super_table.                                             *)

InsertedAt(range, i, r) ==
  IF Len(range) = MaxRanges
  THEN [code |-> "full", range |-> range]
  ELSE [code |-> "ok", range |-> InsertAt(range, i, r)]

(* Faulty: grows the range and does not merge it with the next one.         *)
AppendedApart(range, i, n) ==
  [code |-> "ok", range |-> [range EXCEPT ![i].count = @ + n]]

Appended(range, i, n) ==
  LET grown == [range EXCEPT ![i].count = @ + n]
      r     == grown[i]
  IN  [code  |-> "ok",
       range |-> IF i < Len(range) /\ r.first + r.count = range[i + 1].first
                 THEN RemoveAt([grown EXCEPT ![i].count = @ + range[i + 1].count], i + 1)
                 ELSE grown]

Inserted(range, b, n) ==
  LET i == SelectInSeq(range, LAMBDA r : b <= r.first + r.count)
  IN  CASE i = 0 ->
             InsertedAt(range, Len(range) + 1, [first |-> b, count |-> n])
        [] i > 0 /\ b + n < range[i].first ->
             InsertedAt(range, i, [first |-> b, count |-> n])
        [] i > 0 /\ b + n = range[i].first ->
             [code  |-> "ok",
              range |-> [range EXCEPT ![i] = [first |-> b, count |-> @.count + n]]]
        [] i > 0 /\ b + n > range[i].first /\ b = range[i].first + range[i].count ->
             Appended(range, i, n)
        [] OTHER -> [code |-> "overlap", range |-> range]   \* the assertion fails

-----------------------------------------------------------------------------
(* Transactions.                                                            *)

(* write_rollback_chunk: the chunks stay at what is then the end of the     *)
(* file, whatever is allocated behind them.                                 *)
Size(c) == c.saved + 1 + (IF c.next = 0 THEN 1 ELSE 0)

(* The n blocks from a on leave the chain: what they hold has no meaning.    *)
Cleared(a, n) == [b \in Block |-> IF b \in a..a + n - 1 THEN Other ELSE block[b]]

(* precommit_transaction: before it writes the header, it cuts off the      *)
(* chunks of the last flush if they end the file.  The code drops them at   *)
(* once, by ROLLBACK_CHUNK_INFO; here they go one by one, and any number of *)
(* them, in memory.  A transaction without a chain may go on with the next. *)
DropChunk ==
  /\ phase \in {"open", "commit"} /\ hdr.rollback # 0
  /\ LET c == block[hdr.rollback]
     IN  /\ hdr.rollback + Size(c) = hdr.free
         /\ hdr' = [hdr EXCEPT !.free = hdr.rollback, !.rollback = c.next]
         /\ block' = Cleared(hdr.rollback, Size(c))
         /\ phase' = IF c.next = 0 THEN "open" ELSE "commit"
  /\ status' = "ok" /\ UNCHANGED <<file, unsynced, live>>

(* precommit_transaction: header and blocks are in the file.                *)
Commit ==
  /\ phase \in {"open", "commit"} /\ hdr.rollback # 0 /\ phase' = "free"
  /\ stored' = hdr /\ stable' = block /\ status' = "ok"
  /\ UNCHANGED <<hdr, block, unsynced, live>>

(* Faulty: does not test for the end of the file.                           *)
WriteChunkAnyway(n) ==
  LET c == [next |-> hdr.rollback, saved |-> n]
  IN  /\ phase = "open" /\ (n = 0 => hdr.rollback = 0)
      /\ Cardinality({b \in Block : block[b] \in Chunk}) < MaxChunks
      /\ hdr.free < NBlocks
      /\ block' = [block EXCEPT ![hdr.free] = c]
      /\ hdr' = [hdr EXCEPT !.rollback = hdr.free, !.free = @ + Size(c)]
      /\ status' = "ok"
      /\ UNCHANGED <<phase, file, unsynced, live>>

WriteChunk(n) ==
  LET c == [next |-> hdr.rollback, saved |-> n]
  IN  /\ phase = "open" /\ (n = 0 => hdr.rollback = 0)
      /\ Cardinality({b \in Block : block[b] \in Chunk}) < MaxChunks
      /\ hdr.free < NBlocks - Size(c)
      /\ block' = [block EXCEPT ![hdr.free] = c]
      /\ hdr' = [hdr EXCEPT !.rollback = hdr.free, !.free = @ + Size(c)]
      /\ status' = "ok"
      /\ UNCHANGED <<phase, file, unsynced, live>>

-----------------------------------------------------------------------------
(* allocate_block.                                                          *)

(* At the end of the file, if there is no range and no super block.         *)
Extend ==
  /\ phase = "open" /\ hdr.range = <<>> /\ hdr.link = 0
  /\ IF hdr.free = NBlocks
     THEN status' = "E_NOSPC" /\ UNCHANGED <<hdr, live>>
     ELSE /\ hdr' = [hdr EXCEPT !.free = @ + 1]
          /\ live' = live \cup {hdr.free} /\ status' = "ok"
  /\ UNCHANGED <<phase, block, file, unsynced>>

(* Faulty: loses the super block that it has read.                          *)
LoadedWithout(h) ==
  [code |-> "ok",
   header |-> [h EXCEPT !.link = block[h.link].next, !.range = block[h.link].range]]

(* The header with the table of the first super block and that block itself.*)
Loaded(h) ==
  LET s == block[h.link]
      t == Inserted(s.range, h.link, 1)
  IN  [code |-> t.code, header |-> [h EXCEPT !.link = s.next, !.range = t.range]]

(* The range to take a block from.                                          *)
Advised(range, advised) ==
  CHOOSE i \in DOMAIN range :
    /\ i = Len(range) \/ advised > range[i].first
    /\ \A j \in 1..i - 1 : advised <= range[j].first

Aligned(range, i, alignment) ==
  LET Fits(j) == j \in DOMAIN range /\ range[j].count >= alignment
  IN  IF Fits(i) \/ ~(Fits(i + 1) \/ Fits(i - 1)) THEN i
      ELSE IF Fits(i + 1) THEN i + 1 ELSE i - 1

TakenFrom(range, i) ==
  IF range[i].count = 1
  THEN RemoveAt(range, i)
  ELSE [range EXCEPT ![i] = [first |-> @.first + 1, count |-> @.count - 1]]

Allocate(advised, alignment) ==
  /\ phase = "open" /\ (hdr.range # <<>> \/ hdr.link # 0)
  /\ LET load == hdr.range = <<>>
         l == IF load THEN Loaded(hdr) ELSE [code |-> "ok", header |-> hdr]
     IN  IF l.code # "ok"
         THEN status' = "E_INTERN_13" /\ UNCHANGED <<hdr, block, live>>
         ELSE LET range == l.header.range
                  i == Aligned(range, Advised(range, advised), alignment)
              IN  /\ hdr' = [l.header EXCEPT !.range = TakenFrom(range, i)]
                  /\ block' = IF load THEN [block EXCEPT ![hdr.link] = Other] ELSE block
                  /\ live' = live \cup {range[i].first}
                  /\ status' = "ok"
  /\ UNCHANGED <<phase, file, unsynced>>

-----------------------------------------------------------------------------
(* deallocate_block.                                                        *)

Lower(range) == SubSeq(range, 1, Half)
Upper(range) == SubSeq(range, Half + 1, MaxRanges)

(* Faulty: the freed block does not link to the older super blocks.         *)
SpilledUnlinked(b) ==
  /\ block' = [block EXCEPT ![b] = [next |-> 0, range |-> Upper(hdr.range)]]
  /\ hdr' = [hdr EXCEPT !.link = b, !.range = Lower(hdr.range)]

(* The freed block becomes a super block with the upper half of the table.  *)
Spilled(b) ==
  /\ block' = [block EXCEPT ![b] = [next |-> hdr.link, range |-> Upper(hdr.range)]]
  /\ hdr' = [hdr EXCEPT !.link = b, !.range = Lower(hdr.range)]

Deallocate(b) ==
  LET t == Inserted(hdr.range, b, 1)
  IN  /\ phase = "open" /\ b \in live
      /\ live' = live \ {b}
      /\ \/ t.code = "full" /\ Spilled(b) /\ status' = "ok"
         \/ /\ t.code # "full"
            /\ hdr' = [hdr EXCEPT !.range = t.range] /\ status' = t.code
            /\ UNCHANGED block
      /\ UNCHANGED <<phase, file, unsynced>>

-----------------------------------------------------------------------------
(* deallocate_rollback_chain: the blocks go to the file at once, the header *)
(* when the whole chain is given back.                                      *)

(* Faulty: the range before the chunk stays in the table.                   *)
CutOffKept(h) ==
  LET last == h.range[Len(h.range)]
  IN  IF h.range # <<>> /\ last.first + last.count = h.rollback
      THEN [h EXCEPT !.free = last.first]
      ELSE [h EXCEPT !.free = h.rollback]

(* At the end of the file: the chunk is cut off, and the last range with it *)
(* if that ends where the chunk began.                                      *)
CutOff(h) ==
  LET last == h.range[Len(h.range)]
  IN  IF h.range # <<>> /\ last.first + last.count = h.rollback
      THEN [h EXCEPT !.free = last.first, !.range = Front(h.range)]
      ELSE [h EXCEPT !.free = h.rollback]

(* Faulty: the super block goes to the first block of the chunk.            *)
FirstOf(c) == hdr.rollback

LastOf(c) == hdr.rollback + Size(c) - 1

FreeChunk ==
  /\ phase = "free" /\ hdr.rollback # 0 /\ stable[hdr.rollback] \in Chunk
  /\ LET c == stable[hdr.rollback]
         s == LastOf(c)
         super == [next |-> hdr.link, range |-> Upper(hdr.range)]
         t == Inserted(hdr.range, hdr.rollback, Size(c))
         u == Inserted(Lower(hdr.range), hdr.rollback, Size(c) - 1)
         rest == [hdr EXCEPT !.rollback = c.next]
         cleared == Cleared(hdr.rollback, Size(c))
     IN  CASE hdr.rollback + Size(c) = hdr.free ->
                /\ hdr' = [CutOff(hdr) EXCEPT !.rollback = c.next]
                /\ status' = "ok" /\ block' = cleared /\ UNCHANGED <<stable, unsynced>>
           [] hdr.rollback + Size(c) # hdr.free /\ t.code # "full" ->
                /\ hdr' = [rest EXCEPT !.range = t.range]
                /\ status' = t.code /\ block' = cleared /\ UNCHANGED <<stable, unsynced>>
           [] OTHER ->
                /\ hdr' = [rest EXCEPT !.link = s, !.range = u.range]
                /\ stable' = [stable EXCEPT ![s] = super]
                /\ block' = [cleared EXCEPT ![s] = super]
                /\ unsynced' = unsynced \cup {s}
                /\ status' = IF u.code = "ok" THEN "ok" ELSE "E_INTERN_15"
  /\ UNCHANGED <<phase, stored, live>>

(* The blocks are flushed, the header is written and flushed.  The caller   *)
(* then begins the transaction or has ended it.                             *)
FreeHeader ==
  /\ phase = "free" /\ hdr.rollback = 0
  /\ phase' = "open" /\ status' = "ok"
  /\ stored' = NoHeader /\ stable' = NoFile /\ unsynced' = {}
  /\ UNCHANGED <<hdr, block, live>>

(* A crash or an I/O error: the memory is lost, and after a power failure   *)
(* also any of the writes that were not flushed.  Begin reads the header.   *)
Crash ==
  /\ phase = "free"
  /\ \E lost \in SUBSET unsynced :
       stable' = [b \in Block |-> IF b \in lost THEN Other ELSE stable[b]]
  /\ hdr' = stored /\ block' = stable' /\ unsynced' = {}
  /\ status' = "ok" /\ UNCHANGED <<phase, stored, live>>

-----------------------------------------------------------------------------
Transact == DropChunk \/ Commit \/ \E n \in 0..MaxSaved : WriteChunk(n)

Use == \/ Extend
       \/ \E b \in Block, a \in 0..MaxAlign : Allocate(b, a)
       \/ \E b \in Block : Deallocate(b)

Release == FreeChunk \/ FreeHeader \/ Crash

Next == Transact \/ Use \/ Release

Spec == Init /\ [][Next]_vars

-----------------------------------------------------------------------------
(* Every variable has its type.                                             *)
TypeOK ==
  /\ phase \in {"open", "commit", "free"}
  /\ hdr \in Header /\ stored \in Header
  /\ block \in [Block -> Content] /\ block[0] = Other
  /\ stable \in [Block -> Content] /\ stable[0] = Other
  /\ unsynced \subseteq Block /\ live \subseteq Block
  /\ status \in {"ok", "overlap", "E_NOSPC", "E_INTERN_13", "E_INTERN_15"}

InOrder(range) ==
  /\ \A i \in DOMAIN range : range[i].first >= 1 /\ range[i].count >= 1
  /\ \A i, j \in DOMAIN range : i < j => range[i].first + range[i].count < range[j].first

(* Header and super blocks list their ranges in the order of the blocks,    *)
(* none empty and none next to another one, which the insertion and the cut *)
(* at the end of the file rely on; a super block has exactly half a table.  *)
TablesInOrder ==
  /\ InOrder(hdr.range) /\ Len(hdr.range) <= MaxRanges
  /\ \A b \in Block : block[b] \in Super =>
       InOrder(block[b].range) /\ Len(block[b].range) = Half

(* super.c:67-88, 189-191, 383-387: no two ranges overlap, a super block has *)
(* room for itself when it is loaded, and half a table for a chunk.         *)
NoInternalError == status \in {"ok", "E_NOSPC"}

-----------------------------------------------------------------------------
(* Where the blocks of a file f with the header h are.                      *)

Covered(range) == UNION {r.first..r.first + r.count - 1 : r \in ToSet(range)}

Heads(f)        == {b \in Block : f[b] \in Chunk}
Segment(f, c)   == c..c + Size(f[c]) - 1
Kept(f)         == UNION {Segment(f, c) : c \in Heads(f)}
SuperBlocks(f)  == {b \in Block : f[b] \in Super} \ Kept(f)
Table(h, f, b)  == IF b = 0 THEN h.range ELSE f[b].range
Claimed(h, f, b) == Covered(Table(h, f, b)) \cup ({b} \ {0})

(* Link a and the next fields of the blocks in S make one list of all of S. *)
Linked(a, S, f) ==
  /\ a \in S \cup {0} /\ \A b \in S : f[b].next \in S \cup {0}
  /\ \A b \in S : f[b].next # 0 =>
       f[b].next # a /\ \A c \in S \ {b} : f[c].next # f[b].next
  /\ \A T \in SUBSET S :
       (a # 0 => a \in T) /\ (\A b \in T : f[b].next \in T \cup {0}) => T = S

(* Each block before the end of the file is in one place and in one only: a *)
(* block in use, a block of one range, a super block, a block of a chunk;   *)
(* and the two lists lead to all super blocks and to all chunks.            *)
Accounted(h, f, used) ==
  LET tables == SuperBlocks(f) \cup {0}
      free   == UNION {Claimed(h, f, b) : b \in tables}
      kept   == Kept(f)
  IN  /\ Linked(h.link, SuperBlocks(f), f) /\ Linked(h.rollback, Heads(f), f)
      /\ \A b \in tables : InOrder(Table(h, f, b)) /\ b \notin Covered(Table(h, f, b))
      /\ \A b, c \in tables : b # c => Claimed(h, f, b) \cap Claimed(h, f, c) = {}
      /\ \A c, d \in Heads(f) : c # d => Segment(f, c) \cap Segment(f, d) = {}
      /\ used \cap free = {} /\ used \cap kept = {} /\ free \cap kept = {}
      /\ used \cup free \cup kept = 1..h.free - 1

(* allocate_block hands out no block twice, and no block is lost, through   *)
(* every spill to a super block and every reload of one, and while the      *)
(* chain is given back.                                                     *)
NoBlockTwice == Accounted(hdr, block, live)

(* The file keeps every block accounted for while the chain is given back,  *)
(* so that a crash may cut the release off anywhere: the next begin finds   *)
(* the whole chain and the old table.                                       *)
ReleaseRestarts == phase = "free" => Accounted(stored, stable, live)
=============================================================================
