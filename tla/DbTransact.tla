----------------------------- MODULE DbTransact -----------------------------
(***************************************************************************)
(* The crash-safe transactions of the ISAM database: cache.c, transact.c    *)
(* and the rollback-chain part of super.c (src/lib/db).                     *)
(*                                                                         *)
(* One process works on one database file.  Every block of the file has    *)
(* the content the operating system returns when it is read (file) and     *)
(* the content the device holds (stable); a write reaches the device at    *)
(* the latest at the next flush.  A process crash loses the memory, a      *)
(* power failure loses the memory and any of the unflushed writes.         *)
(*                                                                         *)
(* The free-block table of the header and its super blocks are a set here, *)
(* the logging file is left out, and the header lock makes the             *)
(* transactions of several processes a sequence, which is why one process  *)
(* is enough.                                                              *)
(***************************************************************************)
EXTENDS Integers, Sequences, FiniteSets

CONSTANTS
  NBlocks,     \* largest value of free_space_link (LINK'max in the code)
  MaxSaved,    \* MAX_SAVED_BLOCKS_PER_ROLLBACK_BLOCK (61 in the code)
  Value,       \* contents of a data block
  Zero,        \* the content of a cleared block
  Old,         \* the content of the blocks of the database at the start
  Free, Fresh, \* not a live block; allocated and not yet opened
  NoBuffer,    \* no cache buffer for a block
  MaxPins,     \* buffers a command holds open at a time
  Starts       \* the databases at the start: free_space_link, free blocks, and
               \* how many operations, flushes, faults and crashes happen

Block == 0..NBlocks - 1
Event == {"op", "flush", "fault", "kill", "power"}

ASSUME SizeAssumption == /\ NBlocks \in Nat \ {0} /\ MaxSaved \in Nat \ {0}
                         /\ MaxPins \in Nat
ASSUME ValueAssumption == Zero \in Value /\ Old \in Value
ASSUME StartAssumption ==
  \A s \in Starts : /\ s.free \in 1..NBlocks /\ s.super \subseteq 1..s.free - 1
                     /\ s.left \in [Event -> Nat]

-----------------------------------------------------------------------------
(* What a block of the file holds.                                          *)

Header == [inTx: BOOLEAN, rollback: Block, free: 1..NBlocks,
           super: SUBSET Nat, number: Nat]
Chunk  == [target: Seq(Block \ {0}), next: Block]
Content == Value \cup Header \cup Chunk

Buffer == [data: Content, orig: Content, dirty: BOOLEAN,
           saved: BOOLEAN, loaded: BOOLEAN, pins: Nat]

ASSUME FreeAssumption == Free \notin Content /\ Fresh \notin Content /\ Free # Fresh
ASSUME BufferAssumption == NoBuffer \notin Buffer

VARIABLES
  file,      \* the blocks as the operating system returns them
  stable,    \* the blocks as the device holds them
  pc,        \* where the library is
  why,       \* on whose behalf the undo or the chain deallocation runs
  hdr,       \* p.db_header
  hdr0,      \* p.initial_db_header; its free field is p.initial_free_space_link
  hdrDirty,  \* p.db_header_dirty
  cache,     \* the cache buffers, by block
  txErr,     \* p.transaction_error # 0
  final,     \* final_flush
  targets,   \* target_link of the rollback block being written
  info,      \* the chunks this flush wrote (ROLLBACK_CHUNK_INFO)
  walk,      \* rollback_block_nr of the undo
  idx,       \* next block of the chunk to write or to restore
  work,      \* ghost: the database as the open transaction has changed it
  before,    \* ghost: the database when the transaction began
  result,    \* ghost: what the last transaction returned to its caller
  left       \* what remains of the bounds

disk   == <<file, stable>>
memory == <<hdr, hdr0, hdrDirty, cache, txErr>>
flush  == <<final, targets, info, walk, idx, why>>
ghost  == <<work, before, result>>
vars   == <<disk, pc, memory, flush, ghost, left>>

-----------------------------------------------------------------------------
(* Input and output.                                                        *)

Write(b, c) ==
  /\ file' = [file EXCEPT ![b] = c]
  /\ \/ stable' = stable
     \/ stable' = [stable EXCEPT ![b] = file[b]]

FlushFile == stable' = file /\ file' = file

Spend(e) == left[e] > 0 /\ left' = [left EXCEPT ![e] = @ - 1]

(* What is not in use holds these values; the code leaves stale ones there. *)
NoHeader == [inTx |-> FALSE, rollback |-> 0, free |-> 1, super |-> {}, number |-> 0]
NoInfo   == [first |-> 0, next |-> 0, count |-> 0]
EmptyCache == [b \in Block |-> NoBuffer]

Least(b, S) == b \in S /\ \A c \in S : b <= c

Chunked(c) == Len(c.target) + 1 + (IF c.next = 0 THEN 1 ELSE 0)

Live(h) == (1..h.free - 1) \ h.super

(* The live blocks with their contents, for a header without a chain.       *)
LiveData(f, h) == [b \in Block |-> IF b \in Live(h) THEN f[b] ELSE Free]

Forget ==
  /\ hdr' = NoHeader /\ hdr0' = NoHeader /\ hdrDirty' = FALSE
  /\ cache' = EmptyCache /\ txErr' = FALSE
  /\ final' = FALSE /\ targets' = <<>> /\ info' = NoInfo
  /\ walk' = 0 /\ idx' = 0 /\ why' = "none"

Terminate == pc' = "idle" /\ Forget

Init ==
  /\ \E s \in Starts :
       /\ file = [b \in Block |-> IF b = 0
                                  THEN [inTx |-> FALSE, rollback |-> 0, free |-> s.free,
                                        super |-> s.super, number |-> 0]
                                  ELSE Old]
       /\ left = s.left
  /\ stable = file
  /\ pc = "idle"
  /\ hdr = NoHeader /\ hdr0 = NoHeader /\ hdrDirty = FALSE
  /\ cache = EmptyCache /\ txErr = FALSE
  /\ final = FALSE /\ targets = <<>> /\ info = NoInfo
  /\ walk = 0 /\ idx = 0 /\ why = "none"
  /\ work = LiveData(file, file[0]) /\ before = work /\ result = "ok"

-----------------------------------------------------------------------------
(* initialize_transaction: lock and read the header, undo an interrupted    *)
(* transaction, give back its chain, then enter the transaction.            *)

Enter(h) ==
  /\ pc' = "open"
  /\ hdr' = h /\ hdr0' = h /\ hdrDirty' = FALSE
  /\ cache' = EmptyCache /\ txErr' = FALSE
  /\ final' = FALSE /\ targets' = <<>> /\ info' = NoInfo
  /\ walk' = 0 /\ idx' = 0 /\ why' = "none"
  /\ before' = LiveData(file, h) /\ work' = LiveData(file, h) /\ result' = "none"

Begin ==
  /\ pc = "idle"
  /\ UNCHANGED <<disk, left>>
  /\ IF ~file[0].inTx /\ file[0].rollback = 0
     THEN Enter(file[0])
     ELSE /\ hdr' = file[0] /\ walk' = file[0].rollback /\ why' = "begin"
          /\ pc' = IF file[0].inTx THEN "undo" ELSE "free"
          /\ UNCHANGED <<hdr0, hdrDirty, cache, txErr, final, targets, info, idx, ghost>>

-----------------------------------------------------------------------------
(* rollback_transaction: the chunks from the newest to the oldest, which    *)
(* also holds the header of before the transaction.                         *)

UndoBlock ==
  /\ pc = "undo" /\ file[walk] \in Chunk /\ idx < Len(file[walk].target)
  /\ walk + 1 + idx \in Block
  /\ Write(file[walk].target[idx + 1], file[walk + 1 + idx])
  /\ idx' = idx + 1
  /\ UNCHANGED <<pc, memory, final, targets, info, walk, why, ghost, left>>

(* Faulty: starts the same chunk again.                                     *)
UndoSameChunk ==
  /\ pc = "undo" /\ file[walk] \in Chunk /\ idx = Len(file[walk].target)
  /\ file[walk].next # 0
  /\ idx' = 0
  /\ UNCHANGED <<disk, pc, memory, final, targets, info, walk, why, ghost, left>>

UndoNextChunk ==
  /\ pc = "undo" /\ file[walk] \in Chunk /\ idx = Len(file[walk].target)
  /\ file[walk].next # 0
  /\ walk' = file[walk].next /\ idx' = 0
  /\ UNCHANGED <<disk, pc, memory, final, targets, info, why, ghost, left>>

(* Faulty: the restored blocks are not flushed before the header.           *)
UndoUnflushed ==
  /\ pc = "undo" /\ file[walk] \in Chunk /\ idx = Len(file[walk].target)
  /\ file[walk].next = 0 /\ walk + 1 + idx \in Block
  /\ hdr' = file[walk + 1 + idx] /\ pc' = "undoHeader"
  /\ UNCHANGED <<disk, hdr0, hdrDirty, cache, txErr, flush, ghost, left>>

UndoFlush ==
  /\ pc = "undo" /\ file[walk] \in Chunk /\ idx = Len(file[walk].target)
  /\ file[walk].next = 0
  /\ walk + 1 + idx \in Block /\ file[walk + 1 + idx] \in Header
  /\ FlushFile
  /\ hdr' = file[walk + 1 + idx] /\ pc' = "undoHeader"
  /\ UNCHANGED <<hdr0, hdrDirty, cache, txErr, flush, ghost, left>>

UndoHeader ==
  /\ pc = "undoHeader"
  /\ IF hdr.inTx                               \* E_INTERN_25
     THEN Terminate /\ UNCHANGED disk
     ELSE Write(0, hdr) /\ pc' = "undoEnd" /\ UNCHANGED <<memory, flush>>
  /\ UNCHANGED <<ghost, left>>

UndoEnd ==
  /\ pc = "undoEnd"
  /\ FlushFile
  /\ CASE why = "cancel" -> Terminate /\ UNCHANGED ghost
       [] why # "cancel" /\ hdr.rollback # 0 ->
            pc' = "free" /\ UNCHANGED <<memory, flush, ghost>>
       [] OTHER -> Enter(hdr)
  /\ UNCHANGED left

-----------------------------------------------------------------------------
(* deallocate_rollback_chain: in memory, then the header to the file.       *)

(* A chunk that ends the file is cut off, with free blocks before it, as     *)
(* many as the last range of the table has; another one joins the free ones.*)
FreeChunk ==
  /\ pc = "free" /\ hdr.rollback # 0 /\ file[hdr.rollback] \in Chunk
  /\ LET c   == file[hdr.rollback]
         end == hdr.rollback + Chunked(c)
     IN  IF end = hdr.free
         THEN \E e \in 1..hdr.rollback :
                /\ e..hdr.rollback - 1 \subseteq hdr.super
                /\ hdr' = [hdr EXCEPT !.free = e, !.rollback = c.next,
                                      !.super = @ \ (e..hdr.rollback - 1)]
         ELSE hdr' = [hdr EXCEPT !.rollback = c.next,
                                 !.super = @ \cup (hdr.rollback..end - 1)]
  /\ UNCHANGED <<disk, pc, hdr0, hdrDirty, cache, txErr, flush, ghost, left>>

FreeFlush ==
  /\ pc = "free" /\ hdr.rollback = 0
  /\ FlushFile /\ pc' = "freeHeader"
  /\ UNCHANGED <<memory, flush, ghost, left>>

FreeHeader ==
  /\ pc = "freeHeader"
  /\ Write(0, hdr) /\ pc' = "freeEnd"
  /\ UNCHANGED <<memory, flush, ghost, left>>

FreeEnd ==
  /\ pc = "freeEnd"
  /\ FlushFile
  /\ IF why = "commit" THEN Terminate /\ UNCHANGED ghost ELSE Enter(hdr)
  /\ UNCHANGED left

-----------------------------------------------------------------------------
(* The commands between begin and end.  A command works on the cache: it    *)
(* opens blocks, changes them while they are open, closes them.             *)

Pinned == {b \in Block : cache[b] # NoBuffer /\ cache[b].pins > 0}

Running == pc = "open" /\ ~txErr

Working == /\ Running
           /\ UNCHANGED <<disk, pc, hdr0, txErr, flush, before, result>>

(* allocate_block: a block of the free-block table, else one at the end.    *)
Allocate(b) ==
  /\ Working /\ Spend("op")
  /\ \/ b \in hdr.super /\ hdr' = [hdr EXCEPT !.super = @ \ {b}]
     \/ /\ hdr.super = {} /\ b = hdr.free
        /\ hdr' = [hdr EXCEPT !.free = @ + 1]
  /\ hdrDirty' = TRUE
  /\ work' = [work EXCEPT ![b] = Fresh]
  /\ UNCHANGED cache

CanOpen(b) == b \in 1..hdr.free - 1 /\ Cardinality(Pinned) < MaxPins

(* open_block with clear_data: the callers do it to a block they have just  *)
(* allocated.                                                               *)
Cleared(b) ==
  IF cache[b] = NoBuffer
  THEN [data |-> Zero, orig |-> Zero, dirty |-> TRUE,
        saved |-> FALSE, loaded |-> FALSE, pins |-> 1]
  ELSE [cache[b] EXCEPT !.data = Zero, !.dirty = TRUE, !.pins = @ + 1]

OpenCleared(b) ==
  /\ Working /\ work[b] = Fresh /\ CanOpen(b)
  /\ cache' = [cache EXCEPT ![b] = Cleared(b)]
  /\ work' = [work EXCEPT ![b] = Zero]
  /\ UNCHANGED <<hdr, hdrDirty, left>>

(* open_block without: from the cache, or read from the file.               *)
Opened(b) ==
  IF cache[b] = NoBuffer
  THEN [data |-> file[b], orig |-> file[b], dirty |-> FALSE,
        saved |-> FALSE, loaded |-> TRUE, pins |-> 1]
  ELSE [cache[b] EXCEPT !.pins = @ + 1]

Open(b) ==
  /\ Working /\ work[b] \notin {Free, Fresh} /\ CanOpen(b)
  /\ cache' = [cache EXCEPT ![b] = Opened(b)]
  /\ UNCHANGED <<work, hdr, hdrDirty, left>>

(* set_dirty, and the change of the open buffer it goes with.               *)
SetDirty(b, v) ==
  /\ Working /\ Spend("op") /\ b \in Pinned
  /\ cache' = [cache EXCEPT ![b].data = v, ![b].dirty = TRUE]
  /\ work' = [work EXCEPT ![b] = v]
  /\ UNCHANGED <<hdr, hdrDirty>>

(* Faulty: closes a block that is not open.                                 *)
CloseAgain(b) ==
  /\ Working /\ cache[b] # NoBuffer
  /\ cache' = [cache EXCEPT ![b].pins = @ - 1]
  /\ UNCHANGED <<work, hdr, hdrDirty, left>>

Close(b) ==
  /\ Working /\ b \in Pinned
  /\ cache' = [cache EXCEPT ![b].pins = @ - 1]
  /\ UNCHANGED <<work, hdr, hdrDirty, left>>

(* invalidate_buffer: a buffer whose change is not to be written any more.  *)
Invalidated(buf) ==
  CASE buf = NoBuffer           -> buf
    [] buf # NoBuffer /\ ~buf.dirty -> buf
    [] buf # NoBuffer /\ buf.dirty /\ buf.loaded ->
         [buf EXCEPT !.data = buf.orig, !.dirty = FALSE]
    [] OTHER -> NoBuffer

(* deallocate_block; free_space_link never decreases inside a transaction.  *)
Deallocate(b) ==
  /\ Working /\ Spend("op")
  /\ work[b] # Free /\ b \notin Pinned
  /\ cache' = [cache EXCEPT ![b] = Invalidated(@)]
  /\ hdr' = [hdr EXCEPT !.super = @ \cup {b}] /\ hdrDirty' = TRUE
  /\ work' = [work EXCEPT ![b] = Free]

-----------------------------------------------------------------------------
(* flush_cache_buffers: when the cache is full, and at the end of the       *)
(* transaction.  Buffers that a command holds open are left alone.          *)

Dirty   == {b \in Block : cache[b] # NoBuffer /\ cache[b].dirty /\ cache[b].pins = 0}

(* Faulty: frees changed buffers too.                                       *)
CleanOrDirty == {b \in Block : cache[b] # NoBuffer /\ cache[b].pins = 0}

Clean   == {b \in Block : cache[b] # NoBuffer /\ ~cache[b].dirty /\ cache[b].pins = 0}
Below   == 0..hdr0.free - 1                \* the blocks below L, which need a copy
Unsaved == {b \in Dirty \cap Below : ~cache[b].saved}

(* recursive_soft_flush frees the clean buffers that are old enough.        *)
Evict(S) == cache' = [b \in Block |-> IF b \in S THEN NoBuffer ELSE cache[b]]

(* The cache is full in open_block: evict, and if that does not free enough *)
(* write out what can be.                                                   *)
CacheFull ==
  /\ Running /\ Spend("flush")
  /\ \E S \in SUBSET Clean : Evict(S)
  /\ \/ pc' = "open"
     \/ pc' = "collect"
  /\ UNCHANGED <<disk, hdr, hdr0, hdrDirty, txErr, flush, ghost>>

Collect ==
  /\ pc = "collect"
  /\ cache' = [b \in Block |->
       IF b \in Unsaved /\ ~cache[b].loaded
       THEN [cache[b] EXCEPT !.orig = file[b], !.loaded = TRUE]
       ELSE cache[b]]
  /\ pc' = "tail"
  /\ UNCHANGED <<disk, hdr, hdr0, hdrDirty, txErr, flush, ghost, left>>

TailWrite ==
  /\ pc = "tail"
  /\ \E b \in Block :
       /\ Least(b, Dirty \ Below) /\ b < NBlocks - 1
       /\ Write(b, cache[b].data)
       /\ cache' = [cache EXCEPT ![b].dirty = FALSE]
  /\ UNCHANGED <<pc, hdr, hdr0, hdrDirty, txErr, flush, ghost, left>>

TailDone ==
  /\ pc = "tail" /\ Dirty \ Below = {}
  /\ pc' = "chunk"
  /\ UNCHANGED <<disk, memory, flush, ghost, left>>

(* add_rollback_buffer, in the order of the block numbers.                  *)
AddBuffer ==
  /\ pc = "chunk"
  /\ \E b \in Block :
       /\ Least(b, Unsaved)
       /\ targets' = Append(targets, b)
       /\ cache' = [cache EXCEPT ![b].saved = TRUE]
  /\ pc' = IF Len(targets') = MaxSaved THEN "chunkIO" ELSE "chunk"
  /\ UNCHANGED <<disk, hdr, hdr0, hdrDirty, txErr, final, info, walk, idx, why, ghost, left>>

(* The last chunk, and the one that only saves the header.                  *)
LastChunk ==
  /\ pc = "chunk" /\ Unsaved = {}
  /\ targets # <<>> \/ (hdrDirty /\ hdr.rollback = 0)
  /\ pc' = "chunkIO"
  /\ UNCHANGED <<disk, memory, flush, ghost, left>>

(* Faulty: marks the header only if it does not say in-transaction yet.     *)
ChunksDoneMarkOnce ==
  /\ pc = "chunk" /\ Unsaved = {} /\ targets = <<>>
  /\ ~(hdrDirty /\ hdr.rollback = 0)
  /\ pc' = IF hdrDirty /\ ~hdr.inTx THEN "markFlush" ELSE "overwrite"
  /\ UNCHANGED <<disk, memory, flush, ghost, left>>

(* Faulty: never marks it.                                                  *)
ChunksDoneUnmarked ==
  /\ pc = "chunk" /\ Unsaved = {} /\ targets = <<>>
  /\ ~(hdrDirty /\ hdr.rollback = 0)
  /\ pc' = "overwrite"
  /\ UNCHANGED <<disk, memory, flush, ghost, left>>

ChunksDone ==
  /\ pc = "chunk" /\ Unsaved = {} /\ targets = <<>>
  /\ ~(hdrDirty /\ hdr.rollback = 0)
  /\ pc' = IF hdrDirty THEN "markFlush" ELSE "overwrite"
  /\ UNCHANGED <<disk, memory, flush, ghost, left>>

(* write_rollback_chunk: the rollback block first, then the saved blocks,   *)
(* and in the first chunk of a transaction the header of before it.         *)
ChunkHead == [target |-> targets, next |-> hdr.rollback]

(* Faulty: saves the new content.                                           *)
ChunkBlockNew(i) ==
  CASE i = 0 -> ChunkHead
    [] i \in DOMAIN targets -> cache[targets[i]].data
    [] OTHER -> hdr0

ChunkBlock(i) ==
  CASE i = 0 -> ChunkHead
    [] i \in DOMAIN targets -> cache[targets[i]].orig
    [] OTHER -> hdr0

ChunkFits == hdr.free < NBlocks - Chunked(ChunkHead)

(* Faulty: the end of the file does not count the saved header.             *)
ChunkWriteShort ==
  /\ pc = "chunkIO" /\ ChunkFits
  /\ Write(hdr.free + idx, ChunkBlock(idx))
  /\ IF idx + 1 < Chunked(ChunkHead)
     THEN /\ idx' = idx + 1
          /\ UNCHANGED <<pc, hdr, hdrDirty, targets, info>>
     ELSE /\ idx' = 0 /\ pc' = "chunk" /\ targets' = <<>>
          /\ info' = [first |-> IF info.first = 0 THEN hdr.free ELSE info.first,
                      next  |-> IF info.first = 0 THEN hdr.rollback ELSE info.next,
                      count |-> info.count + Len(targets) + 1]
          /\ hdr' = [hdr EXCEPT !.rollback = hdr.free, !.free = @ + Len(targets) + 1]
          /\ hdrDirty' = TRUE
  /\ UNCHANGED <<hdr0, cache, txErr, final, walk, why, ghost, left>>

ChunkWrite ==
  /\ pc = "chunkIO" /\ ChunkFits
  /\ Write(hdr.free + idx, ChunkBlock(idx))
  /\ IF idx + 1 < Chunked(ChunkHead)
     THEN /\ idx' = idx + 1
          /\ UNCHANGED <<pc, hdr, hdrDirty, targets, info>>
     ELSE /\ idx' = 0 /\ pc' = "chunk" /\ targets' = <<>>
          /\ info' = [first |-> IF info.first = 0 THEN hdr.free ELSE info.first,
                      next  |-> IF info.first = 0 THEN hdr.rollback ELSE info.next,
                      count |-> info.count + Chunked(ChunkHead)]
          /\ hdr' = [hdr EXCEPT !.rollback = hdr.free,
                                !.free = @ + Chunked(ChunkHead)]
          /\ hdrDirty' = TRUE
  /\ UNCHANGED <<hdr0, cache, txErr, final, walk, why, ghost, left>>

(* Faulty: the chain is not flushed before the header is written.           *)
MarkUnflushed ==
  /\ pc = "markFlush"
  /\ hdr' = [hdr EXCEPT !.inTx = TRUE] /\ pc' = "markHeader"
  /\ UNCHANGED <<disk, hdr0, hdrDirty, cache, txErr, flush, ghost, left>>

(* set_physical_file_in_transaction: the chain reaches the device before    *)
(* the header that needs it, the header before any block it protects.       *)
MarkFlush ==
  /\ pc = "markFlush"
  /\ FlushFile
  /\ hdr' = [hdr EXCEPT !.inTx = TRUE] /\ pc' = "markHeader"
  /\ UNCHANGED <<hdr0, hdrDirty, cache, txErr, flush, ghost, left>>

MarkHeader ==
  /\ pc = "markHeader"
  /\ Write(0, hdr) /\ pc' = "markEnd"
  /\ UNCHANGED <<memory, flush, ghost, left>>

(* Faulty: the header is not flushed before the blocks are overwritten.     *)
MarkEndUnflushed ==
  /\ pc = "markEnd" /\ pc' = "overwrite"
  /\ UNCHANGED <<disk, memory, flush, ghost, left>>

MarkEnd ==
  /\ pc = "markEnd"
  /\ FlushFile /\ pc' = "overwrite"
  /\ UNCHANGED <<memory, flush, ghost, left>>

Overwrite ==
  /\ pc = "overwrite"
  /\ \E b \in Block :
       /\ Least(b, Dirty \cap Below)
       /\ Write(b, cache[b].data)
       /\ cache' = [cache EXCEPT ![b].dirty = FALSE, ![b].orig = cache[b].data]
  /\ UNCHANGED <<pc, hdr, hdr0, hdrDirty, txErr, flush, ghost, left>>

FlushDone ==
  /\ pc = "overwrite" /\ Dirty \cap Below = {}
  /\ UNCHANGED <<disk, left>>
  /\ CASE ~final ->
            /\ pc' = "open" /\ \E S \in SUBSET Clean : Evict(S)
            /\ info' = NoInfo
            /\ UNCHANGED <<hdr, hdr0, hdrDirty, txErr, final, targets, walk, idx, why, ghost>>
       [] final /\ (hdrDirty \/ hdr.inTx) ->
            pc' = "commit" /\ UNCHANGED <<memory, flush, ghost>>
       [] OTHER ->                             \* a read-only transaction
            Terminate /\ result' = "ok" /\ UNCHANGED <<work, before>>

-----------------------------------------------------------------------------
(* precommit_transaction after the flush, precancel and terminate.          *)

(* The chunks of the last flush are dropped at once if they end the file.   *)
Committed(h) ==
  LET g == [h EXCEPT !.number = @ + 1, !.inTx = FALSE]
  IN  IF info.first # 0 /\ info.first + info.count = h.free
      THEN [g EXCEPT !.rollback = info.next, !.free = @ - info.count]
      ELSE g

(* Faulty: the blocks are not flushed before the header.                    *)
CommitUnflushed ==
  /\ pc = "commit"
  /\ hdr' = Committed(hdr) /\ pc' = "commitHeader"
  /\ UNCHANGED <<disk, hdr0, hdrDirty, cache, txErr, flush, ghost, left>>

CommitFlush ==
  /\ pc = "commit"
  /\ FlushFile
  /\ hdr' = Committed(hdr) /\ pc' = "commitHeader"
  /\ UNCHANGED <<hdr0, hdrDirty, cache, txErr, flush, ghost, left>>

CommitHeader ==
  /\ pc = "commitHeader"
  /\ Write(0, hdr) /\ pc' = "commitEnd"
  /\ UNCHANGED <<memory, flush, ghost, left>>

(* Faulty: success is reported before the header is flushed.                *)
CommitEndUnflushed ==
  /\ pc = "commitEnd"
  /\ result' = "ok"
  /\ IF hdr.rollback = 0
     THEN Terminate
     ELSE pc' = "free" /\ why' = "commit"
          /\ UNCHANGED <<memory, final, targets, info, walk, idx>>
  /\ UNCHANGED <<disk, work, before, left>>

CommitEnd ==
  /\ pc = "commitEnd"
  /\ FlushFile
  /\ result' = "ok"
  /\ IF hdr.rollback = 0
     THEN Terminate
     ELSE pc' = "free" /\ why' = "commit"
          /\ UNCHANGED <<memory, final, targets, info, walk, idx>>
  /\ UNCHANGED <<work, before, left>>

(* precancel_transaction, then terminate_transaction.                       *)
Cancel(r) ==
  /\ result' = r
  /\ IF hdr.inTx
     THEN /\ pc' = "undo" /\ why' = "cancel" /\ walk' = hdr.rollback /\ idx' = 0
          /\ UNCHANGED <<memory, final, targets, info>>
     ELSE Terminate
  /\ UNCHANGED <<disk, work, before, left>>

(* The callers close every block they open (free_all_tree aborts else); a   *)
(* block they allocate may stay unwritten, like the locking block of a table.*)
CommandsDone == Pinned = {}

End ==
  /\ pc = "open"
  /\ \/ /\ ~txErr /\ CommandsDone
        /\ pc' = "collect" /\ final' = TRUE
        /\ UNCHANGED <<disk, memory, targets, info, walk, idx, why, ghost, left>>
     \/ txErr /\ Cancel("error")

Rollback == pc = "open" /\ Cancel("cancelled")

-----------------------------------------------------------------------------
(* Errors and crashes.                                                      *)

(* What a failed call leads to: a command marks the transaction as failed,  *)
(* the end of a transaction gives up without cancelling, an error of the    *)
(* undo or of the chain deallocation is an error of begin only.             *)
Fail ==
  /\ UNCHANGED disk
  /\ CASE pc \in {"open", "collect", "tail", "chunkIO", "markFlush", "markHeader",
                  "markEnd", "overwrite"} /\ ~final ->
            /\ pc' = "open" /\ txErr' = TRUE
            /\ targets' = <<>> /\ idx' = 0
            /\ UNCHANGED <<hdr, hdr0, hdrDirty, cache, final, info, walk, why, ghost>>
       [] why # "none" -> Terminate /\ UNCHANGED ghost
       [] OTHER -> Terminate /\ result' = "error" /\ UNCHANGED <<work, before>>

(* A read, a write or a flush returns an error and has had no effect.       *)
Fault ==
  /\ pc \notin {"idle", "chunk"} /\ (pc = "open" => ~txErr)
  /\ Spend("fault") /\ Fail

(* E_NOSPC: free_space_link is near the largest link.  The same test before *)
(* an overwrite cannot fail: the chunk that saves the block did fit.        *)
NoSpace ==
  /\ \/ pc = "chunkIO" /\ ~ChunkFits
     \/ pc = "tail" /\ NBlocks - 1 \in Dirty /\ Dirty \ Below = {NBlocks - 1}
  /\ Fail /\ UNCHANGED left

(* The same error of allocate_block: the command fails.                     *)
AllocateFails ==
  /\ Running /\ hdr.super = {} /\ hdr.free = NBlocks
  /\ Fail /\ UNCHANGED left

(* The process is killed: what it has written stays with the system.        *)
Crashed ==
  /\ Terminate
  /\ result' = IF pc = "idle" \/ why # "none" THEN result ELSE "crash"
  /\ UNCHANGED <<work, before>>

Kill == pc # "idle" /\ Spend("kill") /\ Crashed /\ UNCHANGED disk

(* Power failure: each unflushed write is kept or lost.                     *)
PowerFailure ==
  /\ Spend("power") /\ Crashed
  /\ \E lost \in SUBSET {b \in Block : file[b] # stable[b]} :
       file' = [b \in Block |-> IF b \in lost THEN stable[b] ELSE file[b]]
  /\ stable' = file'

-----------------------------------------------------------------------------
Command ==
  \E b \in Block :
    \/ Allocate(b) \/ OpenCleared(b) \/ Open(b) \/ Close(b) \/ Deallocate(b)
    \/ \E v \in Value : SetDirty(b, v)

Undo       == UndoBlock \/ UndoNextChunk \/ UndoFlush \/ UndoHeader \/ UndoEnd
FreeChain  == FreeChunk \/ FreeFlush \/ FreeHeader \/ FreeEnd
WriteChunk == AddBuffer \/ LastChunk \/ ChunkWrite \/ ChunksDone
Mark       == MarkFlush \/ MarkHeader \/ MarkEnd
FlushCache == Collect \/ TailWrite \/ TailDone \/ WriteChunk \/ Mark
              \/ Overwrite \/ FlushDone
Commit     == CommitFlush \/ CommitHeader \/ CommitEnd

Step == Undo \/ FreeChain \/ FlushCache \/ Commit \/ NoSpace
Next == Begin \/ Command \/ CacheFull \/ End \/ Rollback \/ Step
        \/ AllocateFails \/ Fault \/ Kill \/ PowerFailure

Spec == Init /\ [][Next]_vars

-----------------------------------------------------------------------------
InTransaction == pc \notin {"idle", "undo", "undoHeader", "undoEnd",
                            "free", "freeHeader", "freeEnd"}

(* Every variable has its type.                                             *)
TypeOK ==
  /\ file \in [Block -> Content] /\ file[0] \in Header
  /\ stable \in [Block -> Content] /\ stable[0] \in Header
  /\ pc \in {"idle", "undo", "undoHeader", "undoEnd", "free", "freeHeader",
             "freeEnd", "open", "collect", "tail", "chunk", "chunkIO", "markFlush",
             "markHeader", "markEnd", "overwrite", "commit", "commitHeader", "commitEnd"}
  /\ why \in {"none", "begin", "cancel", "commit"}
  /\ hdr \in Header /\ hdr0 \in Header
  /\ hdrDirty \in BOOLEAN /\ txErr \in BOOLEAN /\ final \in BOOLEAN
  /\ cache \in [Block -> Buffer \cup {NoBuffer}] /\ cache[0] = NoBuffer
  /\ targets \in Seq(Block \ {0})
  /\ info \in [first: Nat, next: Block, count: Nat]
  /\ walk \in Block /\ idx \in Nat
  /\ work \in [Block -> Content \cup {Free, Fresh}]
  /\ before \in [Block -> Content \cup {Free}]
  /\ result \in {"none", "ok", "error", "cancelled", "crash"}
  /\ left \in [Event -> Nat]

(* A block of the old database is overwritten only when the file and the    *)
(* device hold a header that asks for recovery.                             *)
HeaderFirst ==
  InTransaction /\ pc # "commitEnd" =>
    \A b \in Live(hdr0) :
      file[b] # before[b] => file[0].inTx /\ stable[0].inTx
=============================================================================
