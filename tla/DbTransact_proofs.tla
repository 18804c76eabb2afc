------------------------- MODULE DbTransact_proofs -------------------------
(***************************************************************************)
(* What holds of DbTransact for every size of the file, of a chunk and of   *)
(* the budget.                                                              *)
(***************************************************************************)
EXTENDS DbTransact, TLAPS

(* A chunk is being put together only between two blocks of cache flushing, *)
(* and the blocks it saves are in the cache.                                *)
TargetsCached ==
  /\ pc \notin {"chunk", "chunkIO"} => targets = <<>>
  /\ \A i \in DOMAIN targets : cache[targets[i]] # NoBuffer

TypeInv == TypeOK /\ TargetsCached

-----------------------------------------------------------------------------
(* The memory of a process that has none, of one that has just begun, and   *)
(* of one that has written a block.                                         *)

LEMMA NoneTyped ==
  ASSUME SizeAssumption
  PROVE  NoHeader \in Header /\ 0 \in Block /\ EmptyCache \in [Block -> {NoBuffer}]
BY SMT DEF SizeAssumption, NoHeader, Header, Block, EmptyCache

LEMMA HeaderFields ==
  ASSUME NEW h \in Header
  PROVE  /\ h.inTx \in BOOLEAN /\ h.rollback \in Block /\ h.free \in 1..NBlocks
         /\ h.super \in SUBSET Nat /\ h.number \in Nat
BY DEF Header

LEMMA HeaderUpdate ==
  ASSUME NEW h \in Header
  PROVE  /\ \A b \in BOOLEAN : [h EXCEPT !.inTx = b] \in Header
         /\ \A r \in Block : [h EXCEPT !.rollback = r] \in Header
         /\ \A e \in 1..NBlocks : [h EXCEPT !.free = e] \in Header
         /\ \A S \in SUBSET Nat : [h EXCEPT !.super = S] \in Header
         /\ \A n \in Nat : [h EXCEPT !.number = n] \in Header
BY DEF Header

LEMMA ChunkFields ==
  ASSUME NEW c \in Chunk
  PROVE  /\ c.next \in Block /\ c.target \in Seq(Block \ {0})
         /\ Chunked(c) \in Nat /\ Chunked(c) >= 1
<1>1. c.next \in Block /\ c.target \in Seq(Block \ {0})
  BY DEF Chunk
<1>2. Len(c.target) \in Nat
  BY <1>1
<1>3. CASE c.next = 0
  <2>1. Chunked(c) = Len(c.target) + 1 + 1
    BY <1>3 DEF Chunked
  <2> QED
    BY <1>1, <1>2, <2>1
<1>4. CASE c.next # 0
  <2>1. Chunked(c) = Len(c.target) + 1 + 0
    BY <1>4 DEF Chunked
  <2> QED
    BY <1>1, <1>2, <2>1
<1> QED
  BY <1>3, <1>4

LEMMA BufferUpdate ==
  ASSUME NEW u \in Buffer
  PROVE  /\ u.data \in Content /\ u.orig \in Content /\ u.pins \in Nat
         /\ \A c \in Content : [u EXCEPT !.data = c] \in Buffer
         /\ \A c \in Content : [u EXCEPT !.orig = c] \in Buffer
         /\ \A d \in BOOLEAN : [u EXCEPT !.dirty = d] \in Buffer
         /\ \A d \in BOOLEAN : [u EXCEPT !.saved = d] \in Buffer
         /\ \A d \in BOOLEAN : [u EXCEPT !.loaded = d] \in Buffer
         /\ \A n \in Nat : [u EXCEPT !.pins = n] \in Buffer
BY DEF Buffer

LEMMA CacheUpdate ==
  ASSUME SizeAssumption, cache \in [Block -> Buffer \cup {NoBuffer}], cache[0] = NoBuffer,
         NEW b \in Block \ {0}, NEW u \in Buffer \cup {NoBuffer},
         cache' = [cache EXCEPT ![b] = u]
  PROVE  cache' \in [Block -> Buffer \cup {NoBuffer}] /\ cache'[0] = NoBuffer
BY NoneTyped

LEMMA ForgetTyped ==
  ASSUME SizeAssumption, Forget
  PROVE  /\ hdr' \in Header /\ hdr0' \in Header
         /\ hdrDirty' \in BOOLEAN /\ txErr' \in BOOLEAN /\ final' \in BOOLEAN
         /\ cache' \in [Block -> Buffer \cup {NoBuffer}] /\ cache'[0] = NoBuffer
         /\ targets' = <<>> /\ targets' \in Seq(Block \ {0})
         /\ info' \in [first: Nat, next: Block, count: Nat]
         /\ walk' \in Block /\ idx' \in Nat
         /\ why' \in {"none", "begin", "cancel", "commit"}
BY NoneTyped, SMT DEF Forget, NoInfo, EmptyCache

LEMMA LiveDataTyped ==
  ASSUME NEW f \in [Block -> Content], NEW h \in Header
  PROVE  LiveData(f, h) \in [Block -> Content \cup {Free}]
BY DEF LiveData

LEMMA EnterTyped ==
  ASSUME SizeAssumption, TypeOK, NEW h \in Header, Enter(h)
  PROVE  /\ pc' = "open" /\ hdr' \in Header /\ hdr0' \in Header
         /\ hdrDirty' \in BOOLEAN /\ txErr' \in BOOLEAN /\ final' \in BOOLEAN
         /\ cache' \in [Block -> Buffer \cup {NoBuffer}] /\ cache'[0] = NoBuffer
         /\ targets' = <<>> /\ targets' \in Seq(Block \ {0})
         /\ info' \in [first: Nat, next: Block, count: Nat]
         /\ walk' \in Block /\ idx' \in Nat
         /\ why' \in {"none", "begin", "cancel", "commit"}
         /\ work' \in [Block -> Content \cup {Free, Fresh}]
         /\ before' \in [Block -> Content \cup {Free}]
         /\ result' \in {"none", "ok", "error", "cancelled", "crash"}
<1>1. LiveData(file, h) \in [Block -> Content \cup {Free}]
  BY LiveDataTyped DEF TypeOK
<1>2. work' = LiveData(file, h) /\ before' = LiveData(file, h) /\ result' = "none"
  BY DEF Enter
<1>3. work' \in [Block -> Content \cup {Free, Fresh}]
  BY <1>1, <1>2
<1>4. cache' \in [Block -> Buffer \cup {NoBuffer}] /\ cache'[0] = NoBuffer
  BY NoneTyped DEF Enter, EmptyCache
<1> QED
  BY NoneTyped, <1>1, <1>2, <1>3, <1>4, SMT DEF Enter, NoInfo

LEMMA WriteTyped ==
  ASSUME SizeAssumption, TypeOK, NEW b, NEW c \in Content, Write(b, c),
         b = 0 => c \in Header
  PROVE  /\ file' \in [Block -> Content] /\ file'[0] \in Header
         /\ stable' \in [Block -> Content] /\ stable'[0] \in Header
BY NoneTyped DEF Write, TypeOK

LEMMA FlushFileTyped ==
  ASSUME TypeOK, FlushFile
  PROVE  /\ file' \in [Block -> Content] /\ file'[0] \in Header
         /\ stable' \in [Block -> Content] /\ stable'[0] \in Header
BY DEF FlushFile, TypeOK

-----------------------------------------------------------------------------
(* Every action keeps the types.                                            *)

LEMMA TypeInit ==
  ASSUME SizeAssumption, ValueAssumption, StartAssumption, Init
  PROVE  TypeInv
<1>1. PICK s \in Starts :
        /\ file = [b \in Block |-> IF b = 0
                                   THEN [inTx |-> FALSE, rollback |-> 0, free |-> s.free,
                                         super |-> s.super, number |-> 0]
                                   ELSE Old]
        /\ left = s.left
  BY DEF Init
<1>11. /\ s.free \in 1..NBlocks /\ s.super \subseteq 1..s.free - 1
       /\ s.left \in [Event -> Nat]
  BY DEF StartAssumption
<1>2. [inTx |-> FALSE, rollback |-> 0, free |-> s.free, super |-> s.super, number |-> 0]
        \in Header
  BY <1>11, NoneTyped, SMT DEF SizeAssumption, Header
<1>3. file \in [Block -> Content] /\ file[0] \in Header
  BY <1>1, <1>2, NoneTyped DEF ValueAssumption, Content
<1>4. LiveData(file, file[0]) \in [Block -> Content \cup {Free}]
  BY <1>3, LiveDataTyped
<1>5. cache \in [Block -> Buffer \cup {NoBuffer}] /\ cache[0] = NoBuffer
  BY NoneTyped DEF Init, EmptyCache
<1>6. work \in [Block -> Content \cup {Free, Fresh}] /\ before \in [Block -> Content \cup {Free}]
  BY <1>4 DEF Init
<1>7. targets = <<>> /\ targets \in Seq(Block \ {0})
  BY SMT DEF Init
<1>8. info \in [first: Nat, next: Block, count: Nat] /\ idx \in Nat
  BY NoneTyped, SMT DEF Init, NoInfo
<1>9. stable \in [Block -> Content] /\ stable[0] \in Header
  BY <1>3 DEF Init
<1>10. /\ pc = "idle" /\ why = "none" /\ result = "ok" /\ left \in [Event -> Nat]
       /\ hdr \in Header /\ hdr0 \in Header /\ walk \in Block
       /\ hdrDirty \in BOOLEAN /\ txErr \in BOOLEAN /\ final \in BOOLEAN
  BY <1>1, <1>11, NoneTyped DEF Init
<1> QED
  BY <1>3, <1>5, <1>6, <1>7, <1>8, <1>9, <1>10 DEF TypeInv, TypeOK, TargetsCached

LEMMA BeginType ==
  ASSUME SizeAssumption, TypeInv, Begin
  PROVE  TypeInv'
<1>1. CASE Enter(file[0]) /\ UNCHANGED <<disk, left>>
  <2>1. file[0] \in Header
    BY DEF TypeInv, TypeOK
  <2> QED
    BY <1>1, <2>1, EnterTyped DEF TypeInv, TypeOK, TargetsCached, disk
<1>2. CASE ~(~file[0].inTx /\ file[0].rollback = 0)
  <2>1. file[0] \in Header /\ file[0].rollback \in Block
    BY HeaderFields DEF TypeInv, TypeOK
  <2> QED
    BY <1>2, <2>1 DEF Begin, TypeInv, TypeOK, TargetsCached, disk, ghost
<1> QED
  BY <1>1, <1>2 DEF Begin

LEMMA UndoBlockType ==
  ASSUME SizeAssumption, TypeInv, UndoBlock
  PROVE  TypeInv'
<1>1. /\ file[walk].target \in Seq(Block \ {0}) /\ idx \in Nat
      /\ idx + 1 \in DOMAIN file[walk].target
  BY SMT DEF UndoBlock, Chunk, TypeInv, TypeOK
<1>2. file[walk].target[idx + 1] \in Block \ {0} /\ file[walk + 1 + idx] \in Content
  BY <1>1, SMT DEF UndoBlock, TypeInv, TypeOK
<1>3. /\ file' \in [Block -> Content] /\ file'[0] \in Header
      /\ stable' \in [Block -> Content] /\ stable'[0] \in Header
  BY <1>2, WriteTyped DEF UndoBlock, TypeInv
<1> QED
  BY <1>3, SMT DEF UndoBlock, TypeInv, TypeOK, TargetsCached, memory, ghost

LEMMA UndoNextChunkType ==
  ASSUME SizeAssumption, TypeInv, UndoNextChunk
  PROVE  TypeInv'
<1>1. file[walk].next \in Block
  BY DEF UndoNextChunk, Chunk
<1> QED
  BY <1>1 DEF UndoNextChunk, TypeInv, TypeOK, TargetsCached, disk, memory, ghost

LEMMA UndoFlushType ==
  ASSUME SizeAssumption, TypeInv, UndoFlush
  PROVE  TypeInv'
BY FlushFileTyped DEF UndoFlush, TypeInv, TypeOK, TargetsCached, flush, ghost

LEMMA UndoHeaderType ==
  ASSUME SizeAssumption, TypeInv, UndoHeader
  PROVE  TypeInv'
<1>1. CASE Terminate /\ UNCHANGED <<disk, ghost, left>>
  BY <1>1, ForgetTyped DEF Terminate, TypeInv, TypeOK, TargetsCached, disk, ghost
<1>2. CASE Write(0, hdr) /\ pc' = "undoEnd" /\ UNCHANGED <<memory, flush>>
  <2>1. hdr \in Content /\ hdr \in Header
    BY DEF TypeInv, TypeOK, Content
  <2> QED
    BY <1>2, <2>1, WriteTyped
    DEF UndoHeader, TypeInv, TypeOK, TargetsCached, memory, flush, ghost
<1> QED
  BY <1>1, <1>2 DEF UndoHeader

LEMMA UndoEndType ==
  ASSUME SizeAssumption, TypeInv, UndoEnd
  PROVE  TypeInv'
<1>1. CASE Terminate /\ UNCHANGED <<ghost, left>>
  BY <1>1, ForgetTyped, FlushFileTyped
  DEF UndoEnd, Terminate, TypeInv, TypeOK, TargetsCached, ghost
<1>2. CASE pc' = "free" /\ UNCHANGED <<memory, flush, ghost, left>>
  BY <1>2, FlushFileTyped
  DEF UndoEnd, TypeInv, TypeOK, TargetsCached, memory, flush, ghost
<1>3. CASE Enter(hdr) /\ UNCHANGED left
  BY <1>3, EnterTyped, FlushFileTyped DEF UndoEnd, TypeInv, TypeOK, TargetsCached
<1> QED
  BY <1>1, <1>2, <1>3 DEF UndoEnd

LEMMA FreeChunkType ==
  ASSUME SizeAssumption, TypeInv, FreeChunk
  PROVE  TypeInv'
<1> DEFINE c == file[hdr.rollback]
           end == hdr.rollback + Chunked(c)
<1>1. /\ hdr \in Header /\ c.next \in Block /\ hdr.rollback \in 1..NBlocks
      /\ hdr.super \in SUBSET Nat /\ end \in Nat
  <2>1. hdr \in Header
    BY DEF TypeInv, TypeOK
  <2>2. hdr.rollback \in Block /\ hdr.super \in SUBSET Nat /\ hdr.rollback # 0
    BY <2>1, HeaderFields DEF FreeChunk
  <2>3. c.next \in Block /\ Chunked(c) \in Nat
    BY ChunkFields DEF FreeChunk
  <2>4. hdr.rollback \in 1..NBlocks
    BY <2>2, SMT DEF Block, SizeAssumption
  <2> QED
    BY <2>1, <2>2, <2>3, <2>4, SMT DEF SizeAssumption
<1>2. CASE end = hdr.free
  <2>1. PICK e \in 1..hdr.rollback :
          hdr' = [hdr EXCEPT !.free = e, !.rollback = c.next,
                             !.super = @ \ (e..hdr.rollback - 1)]
    BY <1>2 DEF FreeChunk
  <2>2. e \in 1..NBlocks
    BY <1>1, SMT DEF SizeAssumption
  <2> DEFINE g == [hdr EXCEPT !.free = e]
             h == [g EXCEPT !.rollback = c.next]
  <2>3. h \in Header
    BY <1>1, <2>2, HeaderUpdate
  <2>4. [h EXCEPT !.super = h.super \ (e..hdr.rollback - 1)] \in Header
    BY <2>3, HeaderFields, HeaderUpdate
  <2>5. hdr' \in Header
    BY <2>1, <2>4, <1>1, SMT DEF Header
  <2> QED
    BY <2>5 DEF FreeChunk, TypeInv, TypeOK, TargetsCached, disk, flush, ghost
<1>3. CASE end # hdr.free
  <2>1. hdr' = [hdr EXCEPT !.rollback = c.next, !.super = @ \cup (hdr.rollback..end - 1)]
    BY <1>3 DEF FreeChunk
  <2>2. hdr.super \cup (hdr.rollback..end - 1) \in SUBSET Nat
    BY <1>1, SMT DEF SizeAssumption
  <2> DEFINE g == [hdr EXCEPT !.rollback = c.next]
  <2>3. g \in Header /\ g.super = hdr.super
    BY <1>1, HeaderUpdate DEF Header
  <2>4. [g EXCEPT !.super = hdr.super \cup (hdr.rollback..end - 1)] \in Header
    BY <2>2, <2>3, HeaderUpdate
  <2>5. hdr' \in Header
    BY <2>1, <2>3, <2>4
  <2> QED
    BY <2>5 DEF FreeChunk, TypeInv, TypeOK, TargetsCached, disk, flush, ghost
<1> QED
  BY <1>2, <1>3

LEMMA FreeFlushType ==
  ASSUME SizeAssumption, TypeInv, FreeFlush
  PROVE  TypeInv'
BY FlushFileTyped DEF FreeFlush, TypeInv, TypeOK, TargetsCached, memory, flush, ghost

LEMMA WriteHeaderTyped ==
  ASSUME SizeAssumption, TypeOK, Write(0, hdr)
  PROVE  /\ file' \in [Block -> Content] /\ file'[0] \in Header
         /\ stable' \in [Block -> Content] /\ stable'[0] \in Header
<1>1. hdr \in Content /\ hdr \in Header
  BY DEF TypeOK, Content
<1> QED
  BY <1>1, WriteTyped

LEMMA FreeHeaderType ==
  ASSUME SizeAssumption, TypeInv, FreeHeader
  PROVE  TypeInv'
BY WriteHeaderTyped DEF FreeHeader, TypeInv, TypeOK, TargetsCached, memory, flush, ghost

LEMMA FreeEndType ==
  ASSUME SizeAssumption, TypeInv, FreeEnd
  PROVE  TypeInv'
<1>1. CASE Terminate /\ UNCHANGED <<ghost, left>>
  BY <1>1, ForgetTyped, FlushFileTyped
  DEF FreeEnd, Terminate, TypeInv, TypeOK, TargetsCached, ghost
<1>2. CASE Enter(hdr) /\ UNCHANGED left
  BY <1>2, EnterTyped, FlushFileTyped DEF FreeEnd, TypeInv, TypeOK, TargetsCached
<1> QED
  BY <1>1, <1>2 DEF FreeEnd

LEMMA WorkingTyped ==
  ASSUME TypeInv, Working
  PROVE  /\ file' \in [Block -> Content] /\ file'[0] \in Header
         /\ stable' \in [Block -> Content] /\ stable'[0] \in Header
         /\ pc' = "open" /\ why' = why /\ hdr0' = hdr0 /\ txErr' = txErr
         /\ final' = final /\ targets' = <<>> /\ info' = info
         /\ walk' = walk /\ idx' = idx /\ before' = before /\ result' = result
         /\ targets' \in Seq(Block \ {0}) /\ \A i \in DOMAIN targets' : FALSE
BY DEF Working, Running, TypeInv, TypeOK, TargetsCached, disk, flush

(* The steps of a command keep the type of what they may change.            *)
LEMMA CommandTyped ==
  ASSUME TypeInv, Working, hdr' \in Header, hdrDirty' \in BOOLEAN,
         cache' \in [Block -> Buffer \cup {NoBuffer}], cache'[0] = NoBuffer,
         work' \in [Block -> Content \cup {Free, Fresh}],
         left' \in [Event -> Nat]
  PROVE  TypeInv'
BY WorkingTyped DEF TypeInv, TypeOK, TargetsCached

LEMMA SpendTyped ==
  ASSUME left \in [Event -> Nat], NEW e \in Event, Spend(e)
  PROVE  left' \in [Event -> Nat]
BY SMT DEF Spend

LEMMA AllocateType ==
  ASSUME SizeAssumption, TypeInv, NEW b \in Block, Allocate(b)
  PROVE  TypeInv'
<1>1. hdr' \in Header
  <2>1. hdr \in Header
    BY DEF TypeInv, TypeOK
  <2>2. CASE hdr' = [hdr EXCEPT !.super = @ \ {b}]
    BY <2>1, <2>2, HeaderUpdate, HeaderFields
  <2>3. CASE b = hdr.free /\ hdr' = [hdr EXCEPT !.free = @ + 1]
    <3>1. hdr.free + 1 \in 1..NBlocks
      BY <2>1, <2>3, HeaderFields, SMT DEF Block, SizeAssumption
    <3> QED
      BY <2>1, <2>3, <3>1, HeaderUpdate
  <2> QED
    BY <2>2, <2>3 DEF Allocate
<1>2. left' \in [Event -> Nat]
  BY SpendTyped DEF Allocate, TypeInv, TypeOK, Event
<1> QED
  BY <1>1, <1>2, CommandTyped DEF Allocate, TypeInv, TypeOK

LEMMA ClearedTyped ==
  ASSUME ValueAssumption, TypeOK, NEW b \in Block
  PROVE  Cleared(b) \in Buffer
<1>1. Zero \in Content
  BY DEF ValueAssumption, Content
<1>2. CASE cache[b] = NoBuffer
  BY <1>1, <1>2 DEF Cleared, Buffer
<1>3. CASE cache[b] # NoBuffer
  <2> DEFINE u == [cache[b] EXCEPT !.data = Zero]
             w == [u EXCEPT !.dirty = TRUE]
  <2>1. cache[b] \in Buffer
    BY <1>3 DEF TypeOK
  <2>2. u \in Buffer /\ w \in Buffer
    BY <2>1, <1>1, BufferUpdate
  <2>3. w.pins = cache[b].pins /\ cache[b].pins + 1 \in Nat
    BY <2>1, BufferUpdate DEF Buffer
  <2>4. [w EXCEPT !.pins = cache[b].pins + 1] \in Buffer
    BY <2>2, <2>3, BufferUpdate
  <2> QED
    BY <1>3, <2>3, <2>4 DEF Cleared
<1> QED
  BY <1>2, <1>3

LEMMA OpenedTyped ==
  ASSUME TypeOK, NEW b \in Block
  PROVE  Opened(b) \in Buffer
<1>1. file[b] \in Content
  BY DEF TypeOK
<1>2. CASE cache[b] = NoBuffer
  BY <1>1, <1>2 DEF Opened, Buffer
<1>3. CASE cache[b] # NoBuffer
  <2>1. cache[b] \in Buffer
    BY <1>3 DEF TypeOK
  <2>2. cache[b].pins + 1 \in Nat
    BY <2>1, BufferUpdate
  <2>3. [cache[b] EXCEPT !.pins = cache[b].pins + 1] \in Buffer
    BY <2>1, <2>2, BufferUpdate
  <2> QED
    BY <1>3, <2>3 DEF Opened
<1> QED
  BY <1>2, <1>3

LEMMA OpenClearedType ==
  ASSUME SizeAssumption, ValueAssumption, TypeInv, NEW b \in Block, OpenCleared(b)
  PROVE  TypeInv'
<1>1. b # 0 /\ Zero \in Content
  BY SMT DEF OpenCleared, CanOpen, ValueAssumption, Content
<1>2. cache' \in [Block -> Buffer \cup {NoBuffer}] /\ cache'[0] = NoBuffer
  BY <1>1, ClearedTyped, CacheUpdate DEF OpenCleared, TypeInv, TypeOK
<1>3. work' \in [Block -> Content \cup {Free, Fresh}]
  BY <1>1 DEF OpenCleared, TypeInv, TypeOK
<1> QED
  BY <1>2, <1>3, CommandTyped DEF OpenCleared, TypeInv, TypeOK

LEMMA OpenType ==
  ASSUME SizeAssumption, TypeInv, NEW b \in Block, Open(b)
  PROVE  TypeInv'
<1>1. b # 0
  BY SMT DEF Open, CanOpen
<1>2. cache' \in [Block -> Buffer \cup {NoBuffer}] /\ cache'[0] = NoBuffer
  BY <1>1, OpenedTyped, CacheUpdate DEF Open, TypeInv, TypeOK
<1> QED
  BY <1>2, CommandTyped DEF Open, TypeInv, TypeOK

LEMMA SetDirtyType ==
  ASSUME SizeAssumption, TypeInv, NEW b \in Block, NEW v \in Value, SetDirty(b, v)
  PROVE  TypeInv'
<1>1. cache \in [Block -> Buffer \cup {NoBuffer}] /\ cache[0] = NoBuffer
  BY DEF TypeInv, TypeOK
<1>2. cache[b] \in Buffer /\ b # 0 /\ v \in Content
  BY <1>1 DEF SetDirty, Pinned, Content
<1>3. [[cache[b] EXCEPT !.data = v] EXCEPT !.dirty = TRUE] \in Buffer
  BY <1>2 DEF Buffer
<1>4. cache' = [cache EXCEPT ![b] = [[cache[b] EXCEPT !.data = v] EXCEPT !.dirty = TRUE]]
  BY <1>1 DEF SetDirty
<1>5. cache' \in [Block -> Buffer \cup {NoBuffer}] /\ cache'[0] = NoBuffer
  BY <1>1, <1>2, <1>3, <1>4, NoneTyped
<1>6. work' \in [Block -> Content \cup {Free, Fresh}]
  BY <1>2 DEF SetDirty, TypeInv, TypeOK
<1>7. left' \in [Event -> Nat]
  BY SpendTyped DEF SetDirty, TypeInv, TypeOK, Event
<1> QED
  BY <1>5, <1>6, <1>7, CommandTyped DEF SetDirty, TypeInv, TypeOK

LEMMA CloseType ==
  ASSUME SizeAssumption, TypeInv, NEW b \in Block, Close(b)
  PROVE  TypeInv'
<1>1. cache[b] \in Buffer /\ cache[b].pins > 0 /\ b # 0
  BY DEF Close, Pinned, TypeInv, TypeOK
<1>2. cache[b].pins - 1 \in Nat
  BY <1>1, BufferUpdate
<1>3. [cache[b] EXCEPT !.pins = cache[b].pins - 1] \in Buffer
  BY <1>1, <1>2, BufferUpdate
<1>4. cache' = [cache EXCEPT ![b] = [cache[b] EXCEPT !.pins = cache[b].pins - 1]]
  BY DEF Close, TypeInv, TypeOK
<1>5. cache' \in [Block -> Buffer \cup {NoBuffer}] /\ cache'[0] = NoBuffer
  BY <1>1, <1>3, <1>4, CacheUpdate DEF TypeInv, TypeOK
<1> QED
  BY <1>5, CommandTyped DEF Close, TypeInv, TypeOK

LEMMA InvalidatedTyped ==
  ASSUME NEW u \in Buffer \cup {NoBuffer}
  PROVE  Invalidated(u) \in Buffer \cup {NoBuffer}
<1>1. CASE u = NoBuffer \/ (u # NoBuffer /\ ~u.dirty)
  BY <1>1 DEF Invalidated
<1>2. CASE u # NoBuffer /\ u.dirty /\ u.loaded
  <2>1. u \in Buffer
    BY <1>2
  <2> DEFINE w == [u EXCEPT !.data = u.orig]
  <2>2. w \in Buffer /\ [w EXCEPT !.dirty = FALSE] \in Buffer
    BY <2>1, BufferUpdate
  <2> QED
    BY <1>2, <2>2 DEF Invalidated
<1>3. CASE u # NoBuffer /\ u.dirty /\ ~u.loaded
  BY <1>3 DEF Invalidated
<1> QED
  BY <1>1, <1>2, <1>3

LEMMA DeallocateType ==
  ASSUME SizeAssumption, TypeInv, NEW b \in Block, Deallocate(b)
  PROVE  TypeInv'
<1>1. cache \in [Block -> Buffer \cup {NoBuffer}] /\ cache[0] = NoBuffer
  BY DEF TypeInv, TypeOK
<1>2. cache' \in [Block -> Buffer \cup {NoBuffer}] /\ cache'[0] = NoBuffer
  <2>1. cache' = [cache EXCEPT ![b] = Invalidated(cache[b])]
    BY DEF Deallocate
  <2>2. Invalidated(NoBuffer) = NoBuffer
    BY DEF Invalidated
  <2> QED
    BY <1>1, <2>1, <2>2, InvalidatedTyped, NoneTyped
<1>3. hdr' \in Header
  <2>1. hdr \in Header /\ hdr.super \cup {b} \in SUBSET Nat
    BY HeaderFields, SMT DEF TypeInv, TypeOK, Block, SizeAssumption
  <2> QED
    BY <2>1, HeaderUpdate DEF Deallocate
<1>4. left' \in [Event -> Nat]
  BY SpendTyped DEF Deallocate, TypeInv, TypeOK, Event
<1>5. work' \in [Block -> Content \cup {Free, Fresh}]
  BY DEF Deallocate, TypeInv, TypeOK
<1> QED
  BY <1>2, <1>3, <1>4, <1>5, CommandTyped DEF Deallocate

LEMMA EvictTyped ==
  ASSUME SizeAssumption, TypeOK, NEW S \in SUBSET Clean, Evict(S)
  PROVE  cache' \in [Block -> Buffer \cup {NoBuffer}] /\ cache'[0] = NoBuffer
BY NoneTyped DEF Evict, TypeOK

LEMMA NoTargets ==
  ASSUME TypeInv, pc \notin {"chunk", "chunkIO"}
  PROVE  targets = <<>> /\ \A i \in DOMAIN targets : FALSE
<1>1. targets = <<>>
  BY DEF TypeInv, TargetsCached
<1> QED
  BY <1>1, SMT

LEMMA CacheFullType ==
  ASSUME SizeAssumption, TypeInv, CacheFull
  PROVE  TypeInv'
<1>1. cache' \in [Block -> Buffer \cup {NoBuffer}] /\ cache'[0] = NoBuffer
  BY EvictTyped DEF CacheFull, TypeInv
<1>2. left' \in [Event -> Nat]
  BY SpendTyped DEF CacheFull, TypeInv, TypeOK, Event
<1>3. targets = <<>> /\ \A i \in DOMAIN targets : FALSE
  BY NoTargets DEF CacheFull, Running
<1> QED
  BY <1>1, <1>2, <1>3 DEF CacheFull, Running, TypeInv, TypeOK, TargetsCached, disk, flush, ghost

LEMMA CollectType ==
  ASSUME SizeAssumption, TypeInv, Collect
  PROVE  TypeInv'
<1> DEFINE Read(b) == b \in Unsaved /\ ~cache[b].loaded
           Loaded(b) == [cache[b] EXCEPT !.orig = file[b], !.loaded = TRUE]
<1>1. cache \in [Block -> Buffer \cup {NoBuffer}] /\ cache[0] = NoBuffer
  BY DEF TypeInv, TypeOK
<1>2. ASSUME NEW b \in Block, Read(b)
      PROVE  Loaded(b) \in Buffer /\ b # 0
  <2>1. cache[b] \in Buffer /\ b # 0
    BY <1>1, <1>2 DEF Unsaved, Dirty
  <2> DEFINE u == [cache[b] EXCEPT !.orig = file[b]]
  <2>2. file[b] \in Content
    BY DEF TypeInv, TypeOK
  <2>3. u \in Buffer
    BY <2>1, <2>2, BufferUpdate
  <2>4. [u EXCEPT !.loaded = TRUE] \in Buffer
    BY <2>3, BufferUpdate
  <2> QED
    BY <2>1, <2>4
<1>3. cache' = [b \in Block |-> IF Read(b) THEN Loaded(b) ELSE cache[b]]
  BY DEF Collect
<1>4. cache' \in [Block -> Buffer \cup {NoBuffer}] /\ cache'[0] = NoBuffer
  <2> HIDE DEF Read, Loaded
  <2> QED
    BY <1>1, <1>2, <1>3, NoneTyped
<1>5. targets = <<>> /\ \A i \in DOMAIN targets : FALSE
  BY NoTargets DEF Collect
<1> QED
  BY <1>4, <1>5 DEF Collect, TypeInv, TypeOK, TargetsCached, disk, flush, ghost

LEMMA TailWriteType ==
  ASSUME SizeAssumption, TypeInv, TailWrite
  PROVE  TypeInv'
<1>1. PICK b \in Block :
        /\ Least(b, Dirty \ Below) /\ b < NBlocks - 1
        /\ Write(b, cache[b].data)
        /\ cache' = [cache EXCEPT ![b].dirty = FALSE]
  BY DEF TailWrite
<1>2. cache[b] \in Buffer /\ b # 0
  BY <1>1 DEF Least, Dirty, TypeInv, TypeOK
<1>3. /\ file' \in [Block -> Content] /\ file'[0] \in Header
      /\ stable' \in [Block -> Content] /\ stable'[0] \in Header
  BY <1>1, <1>2, WriteTyped, BufferUpdate DEF TypeInv
<1>4. cache' = [cache EXCEPT ![b] = [cache[b] EXCEPT !.dirty = FALSE]]
  BY <1>1 DEF TypeInv, TypeOK
<1>5. cache' \in [Block -> Buffer \cup {NoBuffer}] /\ cache'[0] = NoBuffer
  BY <1>2, <1>4, BufferUpdate, CacheUpdate DEF TypeInv, TypeOK
<1>6. targets = <<>> /\ \A i \in DOMAIN targets : FALSE
  BY NoTargets DEF TailWrite
<1> QED
  BY <1>3, <1>5, <1>6 DEF TailWrite, TypeInv, TypeOK, TargetsCached, flush, ghost

LEMMA TailDoneType ==
  ASSUME SizeAssumption, TypeInv, TailDone
  PROVE  TypeInv'
BY DEF TailDone, TypeInv, TypeOK, TargetsCached, disk, memory, flush, ghost

LEMMA AddBufferType ==
  ASSUME SizeAssumption, BufferAssumption, TypeInv, AddBuffer
  PROVE  TypeInv'
<1>1. PICK b \in Block : /\ Least(b, Unsaved)
                         /\ targets' = Append(targets, b)
                         /\ cache' = [cache EXCEPT ![b].saved = TRUE]
  BY DEF AddBuffer
<1>2. cache[b] \in Buffer /\ b # 0 /\ cache[b] # NoBuffer
  BY <1>1 DEF Least, Unsaved, Dirty, TypeInv, TypeOK
<1> DEFINE u == [cache[b] EXCEPT !.saved = TRUE]
<1>3. cache' = [cache EXCEPT ![b] = u] /\ u \in Buffer
  BY <1>1, <1>2, BufferUpdate DEF TypeInv, TypeOK
<1>4. cache' \in [Block -> Buffer \cup {NoBuffer}] /\ cache'[0] = NoBuffer
  BY <1>2, <1>3, CacheUpdate DEF TypeInv, TypeOK
<1>5. targets' \in Seq(Block \ {0})
  BY <1>1, <1>2 DEF TypeInv, TypeOK
<1>6. \A c \in Block : cache[c] # NoBuffer => cache'[c] # NoBuffer
  <2> HIDE DEF u
  <2> QED
    BY <1>3 DEF BufferAssumption, TypeInv, TypeOK
<1>7. \A i \in DOMAIN targets' : cache'[targets'[i]] # NoBuffer
  <2> TAKE i \in DOMAIN targets'
  <2>1. targets \in Seq(Block \ {0}) /\ i \in 1..Len(targets) + 1
    BY <1>1 DEF TypeInv, TypeOK
  <2>2. CASE i \in 1..Len(targets)
    <3>1. targets'[i] = targets[i] /\ targets[i] \in Block /\ i \in DOMAIN targets
      BY <1>1, <2>1, <2>2
    <3> QED
      BY <1>6, <3>1 DEF TypeInv, TargetsCached
  <2>3. CASE i = Len(targets) + 1
    <3>1. targets'[i] = b
      BY <1>1, <2>1, <2>3
    <3> QED
      BY <1>2, <1>6, <3>1
  <2> QED
    BY <2>1, <2>2, <2>3
<1>8. pc = "chunk" /\ pc' \in {"chunk", "chunkIO"}
  BY DEF AddBuffer
<1> QED
  BY <1>4, <1>5, <1>7, <1>8 DEF AddBuffer, TypeInv, TypeOK, TargetsCached, disk, ghost

LEMMA LastChunkType ==
  ASSUME SizeAssumption, TypeInv, LastChunk
  PROVE  TypeInv'
BY DEF LastChunk, TypeInv, TypeOK, TargetsCached, disk, memory, flush, ghost

LEMMA ChunksDoneType ==
  ASSUME SizeAssumption, TypeInv, ChunksDone
  PROVE  TypeInv'
BY DEF ChunksDone, TypeInv, TypeOK, TargetsCached, disk, memory, flush, ghost

LEMMA ChunkWriteTyped ==
  ASSUME SizeAssumption, TypeInv, ChunkWrite
  PROVE  /\ ChunkHead \in Chunk /\ hdr.free \in 1..NBlocks
         /\ hdr.free \in Block /\ hdr.free + Chunked(ChunkHead) \in 1..NBlocks
         /\ file' \in [Block -> Content] /\ file'[0] \in Header
         /\ stable' \in [Block -> Content] /\ stable'[0] \in Header
<1>1. hdr \in Header /\ hdr0 \in Header /\ idx \in Nat
  BY DEF TypeInv, TypeOK
<1>2. ChunkHead \in Chunk
  BY <1>1, HeaderFields DEF ChunkHead, Chunk, TypeInv, TypeOK
<1>3. hdr.free \in 1..NBlocks /\ Chunked(ChunkHead) \in Nat /\ Chunked(ChunkHead) >= 1
  BY <1>1, <1>2, HeaderFields, ChunkFields
<1>4. hdr.free < NBlocks - Chunked(ChunkHead)
  BY DEF ChunkWrite, ChunkFits
<1>5. hdr.free \in Block /\ hdr.free + Chunked(ChunkHead) \in 1..NBlocks
  BY <1>3, <1>4, SMT DEF SizeAssumption, Block
<1>6. ChunkBlock(idx) \in Content
  <2>1. \A i \in DOMAIN targets : cache[targets[i]].orig \in Content
    <3> TAKE i \in DOMAIN targets
    <3>1. targets[i] \in Block
      BY DEF TypeInv, TypeOK
    <3> QED
      BY <3>1, BufferUpdate DEF TypeInv, TypeOK, TargetsCached
  <2>2. hdr0 \in Content /\ ChunkHead \in Content
    BY <1>1, <1>2 DEF Content
  <2> QED
    BY <2>1, <2>2 DEF ChunkBlock
<1>7. hdr.free + idx # 0
  BY <1>1, <1>3, SMT
<1> QED
  BY <1>2, <1>3, <1>5, <1>6, <1>7, WriteTyped DEF ChunkWrite, TypeInv

LEMMA ChunkWriteType ==
  ASSUME SizeAssumption, TypeInv, ChunkWrite
  PROVE  TypeInv'
<1>1. CASE idx + 1 < Chunked(ChunkHead)
  <2>1. idx' \in Nat
    BY <1>1, SMT DEF ChunkWrite, TypeInv, TypeOK
  <2> QED
    BY <1>1, <2>1, ChunkWriteTyped DEF ChunkWrite, TypeInv, TypeOK, TargetsCached, ghost
<1>2. CASE ~(idx + 1 < Chunked(ChunkHead))
  <2>1. targets' = <<>> /\ targets' \in Seq(Block \ {0}) /\ \A i \in DOMAIN targets' : FALSE
    <3>1. targets' = <<>>
      BY <1>2 DEF ChunkWrite
    <3> QED
      BY <3>1, SMT
  <2>2. hdr' \in Header
    <3> DEFINE g == [hdr EXCEPT !.rollback = hdr.free]
    <3>1. hdr \in Header
      BY DEF TypeInv, TypeOK
    <3>2. g \in Header /\ g.free = hdr.free
      BY <3>1, ChunkWriteTyped, HeaderUpdate DEF Header
    <3>3. [g EXCEPT !.free = hdr.free + Chunked(ChunkHead)] \in Header
      BY <3>2, ChunkWriteTyped, HeaderUpdate
    <3>4. hdr' = [g EXCEPT !.free = g.free + Chunked(ChunkHead)]
      BY <1>2, <3>1, <3>2 DEF ChunkWrite, Header
    <3> QED
      BY <3>2, <3>3, <3>4
  <2>3. info' \in [first: Nat, next: Block, count: Nat]
    <3>1. /\ info.first \in Nat /\ info.next \in Block /\ info.count \in Nat
          /\ hdr.rollback \in Block
      BY HeaderFields DEF TypeInv, TypeOK
    <3>2. hdr.free \in Nat /\ info.count + Chunked(ChunkHead) \in Nat
      BY <3>1, ChunkWriteTyped, ChunkFields, SMT
    <3> QED
      BY <1>2, <3>1, <3>2 DEF ChunkWrite
  <2> QED
    BY <1>2, <2>1, <2>2, <2>3, ChunkWriteTyped
    DEF ChunkWrite, TypeInv, TypeOK, TargetsCached, ghost
<1> QED
  BY <1>1, <1>2

LEMMA MarkFlushType ==
  ASSUME SizeAssumption, TypeInv, MarkFlush
  PROVE  TypeInv'
<1>1. hdr' \in Header
  BY HeaderUpdate DEF MarkFlush, TypeInv, TypeOK
<1> QED
  BY <1>1, FlushFileTyped DEF MarkFlush, TypeInv, TypeOK, TargetsCached, flush, ghost

LEMMA MarkHeaderType ==
  ASSUME SizeAssumption, TypeInv, MarkHeader
  PROVE  TypeInv'
BY WriteHeaderTyped DEF MarkHeader, TypeInv, TypeOK, TargetsCached, memory, flush, ghost

LEMMA MarkEndType ==
  ASSUME SizeAssumption, TypeInv, MarkEnd
  PROVE  TypeInv'
BY FlushFileTyped DEF MarkEnd, TypeInv, TypeOK, TargetsCached, memory, flush, ghost

LEMMA OverwriteType ==
  ASSUME SizeAssumption, TypeInv, Overwrite
  PROVE  TypeInv'
<1>1. PICK b \in Block :
        /\ Least(b, Dirty \cap Below)
        /\ Write(b, cache[b].data)
        /\ cache' = [cache EXCEPT ![b].dirty = FALSE, ![b].orig = cache[b].data]
  BY DEF Overwrite
<1>2. cache[b] \in Buffer /\ b # 0
  BY <1>1 DEF Least, Dirty, TypeInv, TypeOK
<1>3. /\ file' \in [Block -> Content] /\ file'[0] \in Header
      /\ stable' \in [Block -> Content] /\ stable'[0] \in Header
  BY <1>1, <1>2, WriteTyped, BufferUpdate DEF TypeInv
<1> DEFINE u == [cache[b] EXCEPT !.dirty = FALSE]
           w == [u EXCEPT !.orig = cache[b].data]
<1>4. w \in Buffer
  BY <1>2, BufferUpdate
<1>5. cache' = [cache EXCEPT ![b] = w]
  BY <1>1 DEF TypeInv, TypeOK
<1>6. cache' \in [Block -> Buffer \cup {NoBuffer}] /\ cache'[0] = NoBuffer
  BY <1>2, <1>4, <1>5, CacheUpdate DEF TypeInv, TypeOK
<1>7. targets = <<>> /\ \A i \in DOMAIN targets : FALSE
  BY NoTargets DEF Overwrite
<1> QED
  BY <1>3, <1>6, <1>7 DEF Overwrite, TypeInv, TypeOK, TargetsCached, flush, ghost

LEMMA TerminateType ==
  ASSUME SizeAssumption, TypeInv, Terminate,
         file' \in [Block -> Content], file'[0] \in Header,
         stable' \in [Block -> Content], stable'[0] \in Header,
         work' = work, before' = before, left' \in [Event -> Nat],
         result' \in {"none", "ok", "error", "cancelled", "crash"}
  PROVE  TypeInv'
BY ForgetTyped DEF Terminate, TypeInv, TypeOK, TargetsCached

LEMMA FlushDoneType ==
  ASSUME SizeAssumption, TypeInv, FlushDone
  PROVE  TypeInv'
<1>1. targets = <<>> /\ \A i \in DOMAIN targets : FALSE
  BY NoTargets DEF FlushDone
<1>2. CASE ~final
  <2>1. cache' \in [Block -> Buffer \cup {NoBuffer}] /\ cache'[0] = NoBuffer
    BY <1>2, EvictTyped DEF FlushDone, TypeInv
  <2>2. info' \in [first: Nat, next: Block, count: Nat]
    BY <1>2, NoneTyped DEF FlushDone, NoInfo
  <2> QED
    BY <1>1, <1>2, <2>1, <2>2 DEF FlushDone, TypeInv, TypeOK, TargetsCached, disk, ghost
<1>3. CASE final /\ (hdrDirty \/ hdr.inTx)
  BY <1>1, <1>3 DEF FlushDone, TypeInv, TypeOK, TargetsCached, disk, memory, flush, ghost
<1>4. CASE final /\ ~(hdrDirty \/ hdr.inTx)
  BY <1>4, TerminateType DEF FlushDone, TypeInv, TypeOK, disk
<1> QED
  BY <1>2, <1>3, <1>4 DEF TypeInv, TypeOK

LEMMA CommitFlushType ==
  ASSUME SizeAssumption, TypeInv, CommitFlush
  PROVE  TypeInv'
<1> DEFINE n == [hdr EXCEPT !.number = hdr.number + 1]
           g == [n EXCEPT !.inTx = FALSE]
           r == [g EXCEPT !.rollback = info.next]
<1>1. /\ hdr \in Header /\ hdr.number + 1 \in Nat /\ hdr.free \in 1..NBlocks
      /\ info.first \in Nat /\ info.next \in Block /\ info.count \in Nat
  BY HeaderFields, SMT DEF TypeInv, TypeOK
<1>2. n \in Header /\ g \in Header /\ g.free = hdr.free
  BY <1>1, HeaderUpdate DEF Header
<1>3. r \in Header /\ r.free = hdr.free
  BY <1>1, <1>2, HeaderUpdate DEF Header
<1>4. CASE info.first # 0 /\ info.first + info.count = hdr.free
  <2>1. hdr.free - info.count \in 1..NBlocks
    BY <1>1, <1>4, SMT DEF SizeAssumption
  <2>2. [r EXCEPT !.free = hdr.free - info.count] \in Header
    BY <1>3, <2>1, HeaderUpdate
  <2>3. Committed(hdr) = [r EXCEPT !.free = r.free - info.count]
    BY <1>4, <1>2, <1>3 DEF Committed
  <2> QED
    BY <1>3, <2>2, <2>3, FlushFileTyped
    DEF CommitFlush, TypeInv, TypeOK, TargetsCached, flush, ghost
<1>5. CASE ~(info.first # 0 /\ info.first + info.count = hdr.free)
  <2>1. Committed(hdr) = g
    BY <1>5 DEF Committed
  <2> QED
    BY <1>2, <2>1, FlushFileTyped DEF CommitFlush, TypeInv, TypeOK, TargetsCached, flush, ghost
<1> QED
  BY <1>4, <1>5

LEMMA CommitHeaderType ==
  ASSUME SizeAssumption, TypeInv, CommitHeader
  PROVE  TypeInv'
BY WriteHeaderTyped DEF CommitHeader, TypeInv, TypeOK, TargetsCached, memory, flush, ghost

LEMMA CommitEndType ==
  ASSUME SizeAssumption, TypeInv, CommitEnd
  PROVE  TypeInv'
<1>1. CASE hdr.rollback = 0
  BY <1>1, FlushFileTyped, TerminateType DEF CommitEnd, TypeInv, TypeOK
<1>2. CASE hdr.rollback # 0
  BY <1>2, FlushFileTyped DEF CommitEnd, TypeInv, TypeOK, TargetsCached, memory
<1> QED
  BY <1>1, <1>2

LEMMA CancelType ==
  ASSUME SizeAssumption, TypeInv, pc = "open", NEW r \in {"error", "cancelled"}, Cancel(r)
  PROVE  TypeInv'
<1>1. CASE hdr.inTx
  <2>1. hdr.rollback \in Block /\ 0 \in Nat
    BY HeaderFields, SMT DEF TypeInv, TypeOK
  <2>2. /\ pc' = "undo" /\ why' = "cancel" /\ walk' = hdr.rollback /\ idx' = 0
        /\ UNCHANGED <<memory, final, targets, info, disk, work, before, left>>
        /\ result' = r
    BY <1>1 DEF Cancel
  <2>3. result' \in {"none", "ok", "error", "cancelled", "crash"}
    BY <2>2
  <2> QED
    BY <2>1, <2>2, <2>3 DEF TypeInv, TypeOK, TargetsCached, disk, memory
<1>2. CASE ~hdr.inTx
  BY <1>2, TerminateType DEF Cancel, TypeInv, TypeOK, disk
<1> QED
  BY <1>1, <1>2

LEMMA EndType ==
  ASSUME SizeAssumption, TypeInv, End
  PROVE  TypeInv'
<1>1. CASE pc' = "collect" /\ final' = TRUE
           /\ UNCHANGED <<disk, memory, targets, info, walk, idx, why, ghost, left>>
  BY <1>1 DEF End, TypeInv, TypeOK, TargetsCached, disk, memory, ghost
<1>2. CASE Cancel("error")
  BY <1>2, CancelType DEF End
<1> QED
  BY <1>1, <1>2 DEF End

LEMMA FailType ==
  ASSUME SizeAssumption, TypeInv, Fail, left' \in [Event -> Nat]
  PROVE  TypeInv'
<1>1. CASE Terminate /\ UNCHANGED ghost
  BY <1>1, TerminateType DEF Fail, TypeInv, TypeOK, disk, ghost
<1>2. CASE Terminate /\ result' = "error" /\ UNCHANGED <<work, before>>
  BY <1>2, TerminateType DEF Fail, TypeInv, TypeOK, disk
<1>3. CASE /\ pc' = "open" /\ txErr' = TRUE
           /\ targets' = <<>> /\ idx' = 0
           /\ UNCHANGED <<hdr, hdr0, hdrDirty, cache, final, info, walk, why, ghost>>
  <2>1. targets' \in Seq(Block \ {0}) /\ \A i \in DOMAIN targets' : FALSE
    <3>1. targets' = <<>>
      BY <1>3
    <3> QED
      BY <3>1, SMT
  <2> QED
    BY <1>3, <2>1 DEF Fail, TypeInv, TypeOK, TargetsCached, disk, ghost
<1> QED
  BY <1>1, <1>2, <1>3 DEF Fail

LEMMA CrashType ==
  ASSUME SizeAssumption, TypeInv, Kill \/ PowerFailure
  PROVE  TypeInv'
<1>1. left' \in [Event -> Nat]
  BY SpendTyped DEF Kill, PowerFailure, TypeInv, TypeOK, Event
<1>2. /\ file' \in [Block -> Content] /\ file'[0] \in Header
      /\ stable' \in [Block -> Content] /\ stable'[0] \in Header
  <2>1. CASE Kill
    BY <2>1 DEF Kill, TypeInv, TypeOK, disk
  <2>2. CASE PowerFailure
    BY <2>2, NoneTyped DEF PowerFailure, TypeInv, TypeOK
  <2> QED
    BY <2>1, <2>2
<1>3. Terminate /\ work' = work /\ before' = before
      /\ result' \in {"none", "ok", "error", "cancelled", "crash"}
  BY DEF Kill, PowerFailure, Crashed, TypeInv, TypeOK
<1> QED
  BY <1>1, <1>2, <1>3, TerminateType

LEMMA StutterType ==
  ASSUME TypeInv, UNCHANGED vars
  PROVE  TypeInv'
BY DEF vars, disk, memory, flush, ghost, TypeInv, TypeOK, TargetsCached

LEMMA TypeStep ==
  ASSUME SizeAssumption, ValueAssumption, BufferAssumption, TypeInv, [Next]_vars
  PROVE  TypeInv'
<1>1. CASE Begin
  BY <1>1, BeginType
<1>2. CASE Command
  BY <1>2, AllocateType, OpenClearedType, OpenType, CloseType, DeallocateType, SetDirtyType
  DEF Command
<1>3. CASE CacheFull
  BY <1>3, CacheFullType
<1>4. CASE End
  BY <1>4, EndType
<1>5. CASE Rollback
  BY <1>5, CancelType DEF Rollback
<1>6. CASE Undo
  BY <1>6, UndoBlockType, UndoNextChunkType, UndoFlushType, UndoHeaderType, UndoEndType
  DEF Undo
<1>7. CASE FreeChain
  BY <1>7, FreeChunkType, FreeFlushType, FreeHeaderType, FreeEndType DEF FreeChain
<1>8. CASE FlushCache
  <2>1. CASE WriteChunk
    BY <2>1, AddBufferType, LastChunkType, ChunkWriteType, ChunksDoneType DEF WriteChunk
  <2>2. CASE Mark
    BY <2>2, MarkFlushType, MarkHeaderType, MarkEndType DEF Mark
  <2> QED
    BY <1>8, <2>1, <2>2, CollectType, TailWriteType, TailDoneType, OverwriteType,
       FlushDoneType DEF FlushCache
<1>9. CASE Commit
  BY <1>9, CommitFlushType, CommitHeaderType, CommitEndType DEF Commit
<1>10. CASE NoSpace
  BY <1>10, FailType DEF NoSpace, TypeInv, TypeOK
<1>11. CASE AllocateFails
  BY <1>11, FailType, SpendTyped DEF AllocateFails, TypeInv, TypeOK, Event
<1>12. CASE Fault
  BY <1>12, FailType, SpendTyped DEF Fault, TypeInv, TypeOK, Event
<1>13. CASE Kill \/ PowerFailure
  BY <1>13, CrashType
<1>14. CASE UNCHANGED vars
  BY <1>14, StutterType
<1> QED
  BY <1>1, <1>2, <1>3, <1>4, <1>5, <1>6, <1>7, <1>8, <1>9, <1>10, <1>11, <1>12, <1>13, <1>14
  DEF Next, Step

THEOREM TypeInvariant == Spec => []TypeInv
<1>1. Init => TypeInv
  BY TypeInit, SizeAssumption, ValueAssumption, StartAssumption
<1>2. TypeInv /\ [Next]_vars => TypeInv'
  BY TypeStep, SizeAssumption, ValueAssumption, BufferAssumption
<1> QED
  BY <1>1, <1>2, PTL DEF Spec

(* Every variable keeps its type; in particular block 0 is always a header,  *)
(* on the device too, and the header block never enters the cache.          *)
THEOREM TypeCorrect == Spec => []TypeOK
<1>1. TypeInv => TypeOK
  BY DEF TypeInv
<1> QED
  BY <1>1, TypeInvariant, PTL

-----------------------------------------------------------------------------
(* Why HeaderFirst holds: a block below L is only overwritten after a chunk *)
(* that saves some block was written, the chunk makes the header dirty, and *)
(* a dirty header is marked and flushed before the first overwrite.         *)

Marked == file[0].inTx /\ stable[0].inTx

MarkOrder ==
  /\ InTransaction /\ pc \notin {"commitHeader", "commitEnd"} => hdr0.free <= hdr.free
  /\ InTransaction /\ txErr => pc = "open"
  /\ pc = "markHeader" => hdr.inTx
  /\ pc = "markEnd" => file[0].inTx
  /\ InTransaction /\ ~txErr =>
       \A b \in Block :
         cache[b] # NoBuffer /\ cache[b].saved => hdrDirty \/ targets # <<>>
  /\ pc = "overwrite" /\ Dirty \cap Below # {} => Marked

MarkInv == MarkOrder /\ HeaderFirst

LEMMA OutsideMark ==
  ASSUME ~InTransaction'
  PROVE  MarkInv'
BY DEF InTransaction, MarkInv, MarkOrder, HeaderFirst

LEMMA EnterMark ==
  ASSUME SizeAssumption, NEW h \in Header, Enter(h), file' = file
  PROVE  MarkInv'
<1>1. /\ pc' = "open" /\ hdr' = h /\ hdr0' = h /\ ~txErr'
      /\ cache' = EmptyCache /\ before' = LiveData(file, h)
  BY DEF Enter
<1>2. h.free \in 1..NBlocks
  BY HeaderFields
<1>3. \A b \in Block : cache'[b] = NoBuffer
  BY <1>1 DEF EmptyCache
<1>4. \A b \in Live(h) : file'[b] = before'[b]
  <2> TAKE b \in Live(h)
  <2>1. b \in Block
    BY <1>2, SMT DEF Live, Block, SizeAssumption
  <2> QED
    BY <1>1, <2>1 DEF LiveData
<1>5. MarkOrder'
  BY <1>1, <1>2, <1>3 DEF MarkOrder
<1>6. HeaderFirst'
  BY <1>1, <1>4 DEF HeaderFirst
<1> QED
  BY <1>5, <1>6 DEF MarkInv

(* Three ways a step keeps the blocks of the old database.                  *)
LEMMA SameDisk ==
  ASSUME HeaderFirst, InTransaction, pc # "commitEnd", UNCHANGED <<disk, hdr0, before>>
  PROVE  HeaderFirst'
BY DEF HeaderFirst, disk

LEMMA FlushedDisk ==
  ASSUME HeaderFirst, InTransaction, pc # "commitEnd", FlushFile, UNCHANGED <<hdr0, before>>
  PROVE  HeaderFirst'
BY DEF HeaderFirst, FlushFile

LEMMA TailOfDisk ==
  ASSUME SizeAssumption, TypeOK, HeaderFirst, InTransaction, pc # "commitEnd",
         NEW b, NEW c, b # 0,
         b \notin Live(hdr0), Write(b, c), UNCHANGED <<hdr0, before>>
  PROVE  HeaderFirst'
<1>1. file'[0] = file[0] /\ stable'[0] = stable[0]
  BY NoneTyped DEF Write, TypeOK
<1>2. \A x \in Live(hdr0) : file'[x] = file[x]
  BY DEF Write, TypeOK
<1> QED
  BY <1>1, <1>2 DEF HeaderFirst

LEMMA CommandMark ==
  ASSUME TypeInv, MarkInv, Working, hdr.free <= hdr'.free,
         hdr' \in Header, hdrDirty => hdrDirty',
         \A b \in Block : cache'[b] # NoBuffer /\ cache'[b].saved =>
           hdrDirty' \/ (cache[b] # NoBuffer /\ cache[b].saved)
  PROVE  MarkInv'
<1>1. /\ pc = "open" /\ ~txErr /\ pc' = "open" /\ ~txErr' /\ hdr0' = hdr0
      /\ targets = <<>> /\ targets' = <<>> /\ UNCHANGED <<disk, before>>
  BY DEF Working, Running, TypeInv, TargetsCached, flush
<1>2. InTransaction
  BY <1>1 DEF InTransaction
<1>3. HeaderFirst'
  BY <1>1, <1>2, SameDisk DEF MarkInv
<1>4. hdr0'.free <= hdr'.free
  <2>1. hdr0.free <= hdr.free
    BY <1>1, <1>2 DEF MarkInv, MarkOrder
  <2>2. hdr0.free \in Nat /\ hdr.free \in Nat /\ hdr'.free \in Nat
    BY HeaderFields, SMT DEF TypeInv, TypeOK
  <2> QED
    BY <1>1, <2>1, <2>2
<1>5. \A b \in Block : cache'[b] # NoBuffer /\ cache'[b].saved => hdrDirty'
  BY <1>1, <1>2 DEF MarkInv, MarkOrder
<1> QED
  BY <1>1, <1>3, <1>4, <1>5 DEF MarkInv, MarkOrder

LEMMA AllocateMark ==
  ASSUME SizeAssumption, TypeInv, MarkInv, TypeInv', NEW b \in Block, Allocate(b)
  PROVE  MarkInv'
<1>1. hdr \in Header /\ hdr' \in Header
  BY DEF TypeInv, TypeOK
<1>2. hdr.free <= hdr'.free
  <2>1. hdr.free \in Nat
    BY <1>1, HeaderFields
  <2>2. hdr'.free = hdr.free \/ hdr'.free = hdr.free + 1
    BY <1>1 DEF Allocate, Header
  <2> QED
    BY <2>1, <2>2
<1> QED
  BY <1>1, <1>2, CommandMark DEF Allocate

LEMMA OpenClearedMark ==
  ASSUME SizeAssumption, TypeInv, MarkInv, TypeInv', NEW b \in Block, OpenCleared(b)
  PROVE  MarkInv'
<1>1. hdr \in Header /\ hdr.free \in Nat /\ hdr' = hdr /\ hdrDirty' = hdrDirty
  BY HeaderFields DEF OpenCleared, TypeInv, TypeOK
<1>2. CASE cache[b] = NoBuffer
  <2>1. ~Cleared(b).saved
    BY <1>2 DEF Cleared
  <2>2. \A x \in Block : cache'[x] = IF x = b THEN Cleared(b) ELSE cache[x]
    BY DEF OpenCleared, TypeInv, TypeOK
  <2> QED
    BY <1>1, <2>1, <2>2, CommandMark DEF OpenCleared
<1>3. CASE cache[b] # NoBuffer
  <2>1. Cleared(b).saved = cache[b].saved
    BY <1>3 DEF Cleared, TypeInv, TypeOK, Buffer
  <2>2. \A x \in Block : cache'[x] = IF x = b THEN Cleared(b) ELSE cache[x]
    BY DEF OpenCleared, TypeInv, TypeOK
  <2> QED
    BY <1>1, <1>3, <2>1, <2>2, CommandMark DEF OpenCleared
<1> QED
  BY <1>2, <1>3

LEMMA OpenMark ==
  ASSUME SizeAssumption, TypeInv, MarkInv, TypeInv', NEW b \in Block, Open(b)
  PROVE  MarkInv'
<1>1. hdr \in Header /\ hdr.free \in Nat /\ hdr' = hdr /\ hdrDirty' = hdrDirty
  BY HeaderFields DEF Open, TypeInv, TypeOK
<1>2. \A x \in Block : cache'[x] = IF x = b THEN Opened(b) ELSE cache[x]
  BY DEF Open, TypeInv, TypeOK
<1>3. CASE cache[b] = NoBuffer
  <2>1. ~Opened(b).saved
    BY <1>3 DEF Opened
  <2> QED
    BY <1>1, <1>2, <2>1, CommandMark DEF Open
<1>4. CASE cache[b] # NoBuffer
  <2>1. Opened(b).saved = cache[b].saved
    BY <1>4 DEF Opened, TypeInv, TypeOK, Buffer
  <2> QED
    BY <1>1, <1>2, <1>4, <2>1, CommandMark DEF Open
<1> QED
  BY <1>3, <1>4

LEMMA SetDirtyMark ==
  ASSUME SizeAssumption, TypeInv, MarkInv, TypeInv', NEW b \in Block, NEW v \in Value,
         SetDirty(b, v)
  PROVE  MarkInv'
<1>1. hdr \in Header /\ hdr.free \in Nat /\ hdr' = hdr /\ hdrDirty' = hdrDirty
  BY HeaderFields DEF SetDirty, TypeInv, TypeOK
<1> DEFINE u == [cache[b] EXCEPT !.data = v]
           w == [u EXCEPT !.dirty = TRUE]
<1>2. cache[b] \in Buffer /\ cache[b] # NoBuffer
  BY DEF SetDirty, Pinned, TypeInv, TypeOK
<1>3. w.saved = cache[b].saved
  BY <1>2 DEF Buffer
<1>4. cache' = [cache EXCEPT ![b] = w]
  BY DEF SetDirty, TypeInv, TypeOK
<1>5. \A x \in Block : cache'[x] = IF x = b THEN w ELSE cache[x]
  BY <1>4 DEF TypeInv, TypeOK
<1> HIDE DEF w
<1>6. \A x \in Block : cache'[x] # NoBuffer /\ cache'[x].saved
                          => cache[x] # NoBuffer /\ cache[x].saved
  BY <1>2, <1>3, <1>5
<1>7. Working /\ hdr.free <= hdr'.free /\ hdr' \in Header
  BY <1>1 DEF SetDirty
<1> QED
  BY <1>1, <1>6, <1>7, CommandMark

LEMMA CloseMark ==
  ASSUME SizeAssumption, TypeInv, MarkInv, TypeInv', NEW b \in Block, Close(b)
  PROVE  MarkInv'
<1>1. hdr \in Header /\ hdr.free \in Nat /\ hdr' = hdr /\ hdrDirty' = hdrDirty
  BY HeaderFields DEF Close, TypeInv, TypeOK
<1> DEFINE w == [cache[b] EXCEPT !.pins = cache[b].pins - 1]
<1>2. cache[b] \in Buffer /\ cache[b] # NoBuffer
  BY DEF Close, Pinned, TypeInv, TypeOK
<1>3. w.saved = cache[b].saved
  BY <1>2 DEF Buffer
<1>4. cache' = [cache EXCEPT ![b] = w]
  BY DEF Close, TypeInv, TypeOK
<1>5. \A x \in Block : cache'[x] = IF x = b THEN w ELSE cache[x]
  BY <1>4 DEF TypeInv, TypeOK
<1> HIDE DEF w
<1>6. \A x \in Block : cache'[x] # NoBuffer /\ cache'[x].saved
                          => cache[x] # NoBuffer /\ cache[x].saved
  BY <1>2, <1>3, <1>5
<1>7. Working /\ hdr.free <= hdr'.free /\ hdr' \in Header
  BY <1>1 DEF Close
<1> QED
  BY <1>1, <1>6, <1>7, CommandMark

LEMMA DeallocateMark ==
  ASSUME SizeAssumption, TypeInv, MarkInv, TypeInv', NEW b \in Block, Deallocate(b)
  PROVE  MarkInv'
<1>1. hdr \in Header /\ hdr.free \in Nat /\ hdr' \in Header
  BY HeaderFields DEF TypeInv, TypeOK
<1>2. hdr'.free = hdr.free
  BY <1>1 DEF Deallocate, Header
<1>3. hdrDirty' /\ Working
  BY DEF Deallocate
<1>4. hdr.free <= hdr'.free
  BY <1>1, <1>2
<1>5. hdrDirty => hdrDirty'
  BY <1>3
<1>6. \A x \in Block : cache'[x] # NoBuffer /\ cache'[x].saved =>
        hdrDirty' \/ (cache[x] # NoBuffer /\ cache[x].saved)
  <2> TAKE x \in Block
  <2> HAVE cache'[x] # NoBuffer /\ cache'[x].saved
  <2> QED
    BY <1>3
<1> QED
  BY <1>1, <1>3, <1>4, <1>5, <1>6, CommandMark

LEMMA CacheFullMark ==
  ASSUME SizeAssumption, TypeInv, MarkInv, CacheFull
  PROVE  MarkInv'
<1>1. /\ pc = "open" /\ ~txErr /\ pc' \in {"open", "collect"} /\ ~txErr'
      /\ UNCHANGED <<disk, hdr, hdr0, hdrDirty, targets, before>>
  BY DEF CacheFull, Running, flush, ghost
<1>2. InTransaction
  BY <1>1 DEF InTransaction
<1>3. HeaderFirst'
  BY <1>1, <1>2, SameDisk DEF MarkInv
<1>4. \A b \in Block : cache'[b] # NoBuffer => cache'[b] = cache[b]
  BY DEF CacheFull, Evict
<1> QED
  BY <1>1, <1>2, <1>3, <1>4 DEF MarkInv, MarkOrder

LEMMA CollectMark ==
  ASSUME SizeAssumption, TypeInv, MarkInv, Collect
  PROVE  MarkInv'
<1>1. /\ pc = "collect" /\ pc' = "tail" /\ txErr' = txErr
      /\ UNCHANGED <<disk, hdr, hdr0, hdrDirty, targets, before>>
  BY DEF Collect, flush, ghost
<1>2. InTransaction
  BY <1>1 DEF InTransaction
<1>3. HeaderFirst'
  BY <1>1, <1>2, SameDisk DEF MarkInv
<1>4. \A b \in Block : cache'[b] # NoBuffer /\ cache'[b].saved
                          => cache[b] # NoBuffer /\ cache[b].saved
  BY DEF Collect, Unsaved, Dirty, TypeInv, TypeOK, Buffer
<1> QED
  BY <1>1, <1>2, <1>3, <1>4 DEF MarkInv, MarkOrder

LEMMA TailWriteMark ==
  ASSUME SizeAssumption, TypeInv, MarkInv, TailWrite
  PROVE  MarkInv'
<1>1. PICK b \in Block :
        /\ Least(b, Dirty \ Below) /\ b < NBlocks - 1
        /\ Write(b, cache[b].data)
        /\ cache' = [cache EXCEPT ![b].dirty = FALSE]
  BY DEF TailWrite
<1>2. b \in Dirty /\ b \notin Below /\ b # 0 /\ cache[b] \in Buffer
  BY <1>1 DEF Least, Dirty, TypeInv, TypeOK
<1>3. b \notin Live(hdr0)
  BY <1>2, HeaderFields, SMT DEF Live, Below, TypeInv, TypeOK
<1>4. /\ pc = "tail" /\ pc' = "tail"
      /\ UNCHANGED <<hdr, hdr0, hdrDirty, txErr, targets, before>>
  BY DEF TailWrite, flush, ghost
<1>5. InTransaction
  BY <1>4 DEF InTransaction
<1>6. HeaderFirst'
  BY <1>1, <1>2, <1>3, <1>4, <1>5, TailOfDisk DEF MarkInv, TypeInv
<1>7. \A x \in Block : cache'[x] # NoBuffer /\ cache'[x].saved
                          => cache[x] # NoBuffer /\ cache[x].saved
  BY <1>1, <1>2 DEF Dirty, TypeInv, TypeOK, Buffer
<1> QED
  BY <1>4, <1>5, <1>6, <1>7 DEF MarkInv, MarkOrder

(* The steps that only move on.                                             *)
LEMMA MoveMark ==
  ASSUME MarkInv, InTransaction, pc \notin {"commitHeader", "commitEnd"}, ~txErr, ~txErr',
         UNCHANGED <<disk, hdr, hdr0, hdrDirty, cache, targets, before>>,
         pc' \in {"collect", "tail", "chunk", "chunkIO", "markFlush", "commit"}
  PROVE  MarkInv'
BY SameDisk DEF MarkInv, MarkOrder

LEMMA AddBufferMark ==
  ASSUME SizeAssumption, TypeInv, MarkInv, AddBuffer
  PROVE  MarkInv'
<1>1. /\ pc = "chunk" /\ pc' \in {"chunk", "chunkIO"} /\ txErr' = txErr
      /\ UNCHANGED <<disk, hdr, hdr0, hdrDirty, before>>
  BY DEF AddBuffer, ghost
<1>2. InTransaction
  BY <1>1 DEF InTransaction
<1>3. HeaderFirst'
  BY <1>1, <1>2, SameDisk DEF MarkInv
<1>4. targets' # <<>>
  BY DEF AddBuffer, TypeInv, TypeOK
<1> QED
  BY <1>1, <1>2, <1>3, <1>4 DEF MarkInv, MarkOrder

LEMMA ChunksDoneMark ==
  ASSUME SizeAssumption, TypeInv, MarkInv, ChunksDone
  PROVE  MarkInv'
<1>1. /\ pc = "chunk" /\ InTransaction /\ Unsaved = {} /\ targets = <<>>
      /\ UNCHANGED <<disk, memory, targets, before>>
  BY DEF ChunksDone, InTransaction, flush, ghost
<1>2. ~txErr
  BY <1>1 DEF MarkInv, MarkOrder
<1>3. CASE hdrDirty
  <2>1. pc' = "markFlush"
    BY <1>3 DEF ChunksDone
  <2> QED
    BY <1>1, <1>2, <2>1, MoveMark DEF memory
<1>4. CASE ~hdrDirty
  <2>1. pc' = "overwrite"
    BY <1>4 DEF ChunksDone
  <2>2. \A b \in Block : cache[b] # NoBuffer => ~cache[b].saved
    BY <1>1, <1>2, <1>4 DEF MarkInv, MarkOrder
  <2>3. Dirty \cap Below = {}
    BY <1>1, <2>2 DEF Unsaved, Dirty
  <2>4. (Dirty \cap Below)' = {}
    BY <1>1, <2>3 DEF Dirty, Below, memory
  <2>5. HeaderFirst'
    BY <1>1, SameDisk DEF MarkInv, memory
  <2> QED
    BY <1>1, <1>2, <2>1, <2>2, <2>4, <2>5 DEF MarkInv, MarkOrder, memory
<1> QED
  BY <1>3, <1>4

LEMMA ChunkWriteMark ==
  ASSUME SizeAssumption, TypeInv, MarkInv, ChunkWrite
  PROVE  MarkInv'
<1>1. /\ pc = "chunkIO" /\ pc' \in {"chunkIO", "chunk"} /\ InTransaction
      /\ Write(hdr.free + idx, ChunkBlock(idx))
      /\ UNCHANGED <<hdr0, cache, txErr, before>>
  BY DEF ChunkWrite, InTransaction, ghost
<1>2. hdr0.free \in 1..NBlocks /\ hdr.free \in 1..NBlocks /\ idx \in Nat
  BY HeaderFields DEF TypeInv, TypeOK
<1>3. hdr0.free <= hdr.free
  BY <1>1 DEF MarkInv, MarkOrder
<1>4. hdr.free + idx # 0 /\ hdr.free + idx \notin Live(hdr0)
  BY <1>2, <1>3, SMT DEF Live, SizeAssumption
<1>5. HeaderFirst'
  BY <1>1, <1>4, TailOfDisk DEF MarkInv, TypeInv
<1>6. CASE idx + 1 < Chunked(ChunkHead)
  <2>1. UNCHANGED <<pc, hdr, hdrDirty, targets>>
    BY <1>6 DEF ChunkWrite
  <2> QED
    BY <1>1, <1>5, <2>1 DEF MarkInv, MarkOrder, InTransaction
<1>7. CASE ~(idx + 1 < Chunked(ChunkHead))
  <2>1. hdrDirty' /\ pc' = "chunk"
    BY <1>7 DEF ChunkWrite
  <2>2. hdr'.free = hdr.free + Chunked(ChunkHead)
    BY <1>7 DEF ChunkWrite, TypeInv, TypeOK, Header
  <2>3. hdr0'.free <= hdr'.free
    BY <1>1, <1>2, <1>3, <2>2, ChunkWriteTyped, ChunkFields, SMT DEF SizeAssumption
  <2> QED
    BY <1>1, <1>5, <2>1, <2>3 DEF MarkInv, MarkOrder, InTransaction
<1> QED
  BY <1>6, <1>7

LEMMA MarkFlushMark ==
  ASSUME SizeAssumption, TypeInv, MarkInv, MarkFlush
  PROVE  MarkInv'
<1>1. /\ pc = "markFlush" /\ pc' = "markHeader" /\ InTransaction
      /\ UNCHANGED <<hdr0, hdrDirty, cache, txErr, targets, before>>
  BY DEF MarkFlush, InTransaction, flush, ghost
<1>2. HeaderFirst'
  BY <1>1, FlushedDisk DEF MarkFlush, MarkInv
<1>3. hdr'.inTx /\ hdr'.free = hdr.free
  BY DEF MarkFlush, TypeInv, TypeOK, Header
<1> QED
  BY <1>1, <1>2, <1>3 DEF MarkInv, MarkOrder, InTransaction

LEMMA MarkHeaderMark ==
  ASSUME SizeAssumption, TypeInv, MarkInv, MarkHeader
  PROVE  MarkInv'
<1>1. /\ pc = "markHeader" /\ pc' = "markEnd" /\ InTransaction
      /\ UNCHANGED <<hdr, hdr0, hdrDirty, cache, txErr, targets, before>>
  BY DEF MarkHeader, InTransaction, memory, flush, ghost
<1>2. hdr.inTx
  BY <1>1 DEF MarkInv, MarkOrder
<1>3. file'[0] = hdr /\ (stable'[0] = stable[0] \/ stable'[0] = file[0])
  BY NoneTyped DEF MarkHeader, Write, TypeInv, TypeOK
<1>4. \A b \in Live(hdr0) : file'[b] = file[b]
  <2> TAKE b \in Live(hdr0)
  <2>1. b # 0
    BY HeaderFields, SMT DEF Live, TypeInv, TypeOK
  <2> QED
    BY <2>1 DEF MarkHeader, Write, TypeInv, TypeOK
<1>5. HeaderFirst'
  BY <1>1, <1>2, <1>3, <1>4 DEF MarkInv, HeaderFirst
<1> QED
  BY <1>1, <1>2, <1>3, <1>5 DEF MarkInv, MarkOrder, InTransaction

LEMMA MarkEndMark ==
  ASSUME SizeAssumption, TypeInv, MarkInv, MarkEnd
  PROVE  MarkInv'
<1>1. /\ pc = "markEnd" /\ pc' = "overwrite" /\ InTransaction
      /\ UNCHANGED <<hdr, hdr0, hdrDirty, cache, txErr, targets, before>>
  BY DEF MarkEnd, InTransaction, memory, flush, ghost
<1>2. HeaderFirst'
  BY <1>1, FlushedDisk DEF MarkEnd, MarkInv
<1>3. Marked'
  BY <1>1 DEF MarkEnd, FlushFile, MarkInv, MarkOrder, Marked
<1> QED
  BY <1>1, <1>2, <1>3 DEF MarkInv, MarkOrder, InTransaction

LEMMA OverwriteMark ==
  ASSUME SizeAssumption, TypeInv, MarkInv, Overwrite
  PROVE  MarkInv'
<1>1. PICK b \in Block :
        /\ Least(b, Dirty \cap Below)
        /\ Write(b, cache[b].data)
        /\ cache' = [cache EXCEPT ![b].dirty = FALSE, ![b].orig = cache[b].data]
  BY DEF Overwrite
<1>2. b \in Dirty \cap Below /\ b # 0 /\ cache[b] \in Buffer /\ cache[b] # NoBuffer
  BY <1>1 DEF Least, Dirty, TypeInv, TypeOK
<1>3. /\ pc = "overwrite" /\ pc' = "overwrite" /\ InTransaction
      /\ UNCHANGED <<hdr, hdr0, hdrDirty, txErr, targets, before>>
  BY DEF Overwrite, InTransaction, flush, ghost
<1>4. Marked
  BY <1>2, <1>3 DEF MarkInv, MarkOrder
<1>5. file'[0] = file[0] /\ stable'[0] = stable[0]
  BY <1>1, <1>2, NoneTyped DEF Write, TypeInv, TypeOK
<1>6. HeaderFirst' /\ Marked'
  BY <1>4, <1>5 DEF HeaderFirst, Marked
<1> DEFINE u == [cache[b] EXCEPT !.dirty = FALSE]
           w == [u EXCEPT !.orig = cache[b].data]
<1>7. cache' = [cache EXCEPT ![b] = w] /\ w.saved = cache[b].saved
  BY <1>1, <1>2 DEF TypeInv, TypeOK, Buffer
<1>8. \A x \in Block : cache'[x] # NoBuffer /\ cache'[x].saved
                          => cache[x] # NoBuffer /\ cache[x].saved
  <2> HIDE DEF w
  <2> QED
    BY <1>2, <1>7 DEF TypeInv, TypeOK
<1> QED
  BY <1>3, <1>6, <1>8 DEF MarkInv, MarkOrder, InTransaction

LEMMA FlushDoneMark ==
  ASSUME SizeAssumption, TypeInv, MarkInv, FlushDone
  PROVE  MarkInv'
<1>1. pc = "overwrite" /\ InTransaction /\ UNCHANGED disk
  BY DEF FlushDone, InTransaction
<1>2. CASE ~final
  <2>1. /\ pc' = "open" /\ InTransaction'
        /\ UNCHANGED <<hdr, hdr0, hdrDirty, txErr, targets, before>>
    BY <1>2 DEF FlushDone, InTransaction, ghost
  <2>2. \A b \in Block : cache'[b] # NoBuffer => cache'[b] = cache[b]
    BY <1>2 DEF FlushDone, Evict
  <2>3. HeaderFirst'
    BY <1>1, <2>1, SameDisk DEF MarkInv
  <2> QED
    BY <1>1, <2>1, <2>2, <2>3 DEF MarkInv, MarkOrder
<1>3. CASE final /\ (hdrDirty \/ hdr.inTx)
  <2>1. pc' = "commit" /\ UNCHANGED <<hdr, hdr0, hdrDirty, cache, txErr, targets, before>>
    BY <1>3 DEF FlushDone, memory, flush, ghost
  <2>2. ~txErr
    BY <1>1 DEF MarkInv, MarkOrder
  <2> QED
    BY <1>1, <2>1, <2>2, MoveMark
<1>4. CASE final /\ ~(hdrDirty \/ hdr.inTx)
  <2>1. ~InTransaction'
    BY <1>4 DEF FlushDone, Terminate, InTransaction
  <2> QED
    BY <2>1, OutsideMark
<1> QED
  BY <1>2, <1>3, <1>4 DEF TypeInv, TypeOK

LEMMA CommitMark ==
  ASSUME SizeAssumption, TypeInv, MarkInv, Commit
  PROVE  MarkInv'
<1>1. CASE CommitFlush
  <2>1. /\ pc = "commit" /\ pc' = "commitHeader" /\ InTransaction /\ FlushFile
        /\ UNCHANGED <<hdr0, hdrDirty, cache, txErr, targets, before>>
    BY <1>1 DEF CommitFlush, InTransaction, flush, ghost
  <2>2. HeaderFirst'
    BY <2>1, FlushedDisk DEF MarkInv
  <2> QED
    BY <2>1, <2>2 DEF MarkInv, MarkOrder, InTransaction
<1>2. CASE CommitHeader
  <2>1. /\ pc = "commitHeader" /\ pc' = "commitEnd" /\ InTransaction
        /\ UNCHANGED <<hdr0, hdrDirty, cache, txErr, targets, before>>
    BY <1>2 DEF CommitHeader, InTransaction, memory, flush, ghost
  <2> QED
    BY <2>1 DEF MarkInv, MarkOrder, InTransaction, HeaderFirst
<1>3. CASE CommitEnd
  <2>1. ~InTransaction'
    BY <1>3 DEF CommitEnd, Terminate, InTransaction
  <2> QED
    BY <2>1, OutsideMark
<1> QED
  BY <1>1, <1>2, <1>3 DEF Commit

LEMMA UndoMark ==
  ASSUME SizeAssumption, TypeInv, MarkInv, Undo \/ FreeChain
  PROVE  MarkInv'
<1>1. CASE Enter(hdr) /\ FlushFile
  BY <1>1, EnterMark DEF FlushFile, TypeInv, TypeOK
<1>2. CASE ~InTransaction'
  BY <1>2, OutsideMark
<1>3. ~InTransaction' \/ (Enter(hdr) /\ FlushFile)
  <2> DEFINE Out == pc' \in {"idle", "undo", "undoHeader", "undoEnd", "free",
                              "freeHeader", "freeEnd"}
  <2>1. ASSUME UndoBlock \/ UndoNextChunk \/ UndoFlush PROVE Out
    BY <2>1 DEF UndoBlock, UndoNextChunk, UndoFlush
  <2>2. ASSUME UndoHeader PROVE Out
    BY <2>2 DEF UndoHeader, Terminate
  <2>3. ASSUME UndoEnd PROVE Out \/ (Enter(hdr) /\ FlushFile)
    BY <2>3 DEF UndoEnd, Terminate
  <2>4. ASSUME FreeChunk \/ FreeFlush \/ FreeHeader PROVE Out
    BY <2>4 DEF FreeChunk, FreeFlush, FreeHeader
  <2>5. ASSUME FreeEnd PROVE Out \/ (Enter(hdr) /\ FlushFile)
    BY <2>5 DEF FreeEnd, Terminate
  <2>6. Out => ~InTransaction'
    BY DEF InTransaction
  <2> HIDE DEF Out
  <2>7. Out \/ (Enter(hdr) /\ FlushFile)
    BY <2>1, <2>2, <2>3, <2>4, <2>5, Zenon DEF Undo, FreeChain
  <2> QED
    BY <2>6, <2>7
<1> QED
  BY <1>1, <1>2, <1>3

LEMMA BeginMark ==
  ASSUME SizeAssumption, TypeInv, MarkInv, Begin
  PROVE  MarkInv'
<1>1. CASE Enter(file[0])
  BY <1>1, EnterMark DEF Begin, TypeInv, TypeOK, disk
<1>2. CASE ~InTransaction'
  BY <1>2, OutsideMark
<1> QED
  BY <1>1, <1>2 DEF Begin, InTransaction

LEMMA CancelMark ==
  ASSUME NEW r, Cancel(r)
  PROVE  MarkInv'
<1>1. ~InTransaction'
  BY DEF Cancel, Terminate, InTransaction
<1> QED
  BY <1>1, OutsideMark

LEMMA EndMark ==
  ASSUME SizeAssumption, TypeInv, MarkInv, End
  PROVE  MarkInv'
<1>1. CASE ~txErr /\ pc' = "collect"
           /\ UNCHANGED <<disk, memory, targets, info, walk, idx, why, ghost, left>>
  <2>1. InTransaction /\ pc = "open"
    BY DEF End, InTransaction
  <2> QED
    BY <1>1, <2>1, MoveMark DEF memory, ghost
<1>2. CASE Cancel("error")
  BY <1>2, CancelMark
<1> QED
  BY <1>1, <1>2 DEF End

LEMMA FailMark ==
  ASSUME SizeAssumption, TypeInv, MarkInv, Fail
  PROVE  MarkInv'
<1>1. CASE Terminate
  BY <1>1, OutsideMark DEF Terminate, InTransaction
<1>2. CASE /\ pc \in {"open", "collect", "tail", "chunkIO", "markFlush", "markHeader",
                      "markEnd", "overwrite"}
           /\ pc' = "open" /\ txErr' = TRUE
           /\ UNCHANGED <<hdr, hdr0, hdrDirty, cache, final, info, walk, why, ghost>>
  <2>1. InTransaction /\ pc \notin {"commitHeader", "commitEnd"} /\ InTransaction'
    BY <1>2 DEF InTransaction
  <2>2. HeaderFirst'
    BY <1>2, <2>1, SameDisk DEF Fail, MarkInv, ghost
  <2> QED
    BY <1>2, <2>1, <2>2 DEF MarkInv, MarkOrder
<1> QED
  BY <1>1, <1>2 DEF Fail

LEMMA StutterMark ==
  ASSUME MarkInv, UNCHANGED vars
  PROVE  MarkInv'
BY DEF vars, disk, memory, flush, ghost, MarkInv, MarkOrder, HeaderFirst, Marked,
   InTransaction, Dirty, Below

LEMMA MarkStep ==
  ASSUME SizeAssumption, BufferAssumption, TypeInv, TypeInv', MarkInv, [Next]_vars
  PROVE  MarkInv'
<1>1. CASE Begin
  BY <1>1, BeginMark
<1>2. CASE Command
  BY <1>2, AllocateMark, OpenClearedMark, OpenMark, CloseMark, DeallocateMark, SetDirtyMark
  DEF Command
<1>3. CASE CacheFull
  BY <1>3, CacheFullMark
<1>4. CASE End \/ Rollback
  BY <1>4, EndMark, CancelMark DEF Rollback
<1>5. CASE Undo \/ FreeChain
  BY <1>5, UndoMark
<1>6. CASE FlushCache
  <2>1. CASE TailDone \/ LastChunk
    <3>1. /\ pc \in {"tail", "chunk"} /\ pc' \in {"chunk", "chunkIO"}
          /\ UNCHANGED <<disk, memory, targets, before>>
      BY <2>1 DEF TailDone, LastChunk, flush, ghost
    <3>2. InTransaction /\ ~txErr /\ ~txErr'
      BY <3>1 DEF InTransaction, MarkInv, MarkOrder, memory
    <3> QED
      BY <3>1, <3>2, MoveMark DEF memory
  <2> QED
    BY <1>6, <2>1, CollectMark, TailWriteMark, AddBufferMark, ChunkWriteMark, ChunksDoneMark,
       MarkFlushMark, MarkHeaderMark, MarkEndMark, OverwriteMark, FlushDoneMark
    DEF FlushCache, WriteChunk, Mark
<1>7. CASE Commit
  BY <1>7, CommitMark
<1>8. CASE NoSpace \/ AllocateFails \/ Fault
  BY <1>8, FailMark DEF NoSpace, AllocateFails, Fault
<1>9. CASE Kill \/ PowerFailure
  BY <1>9, OutsideMark DEF Kill, PowerFailure, Crashed, Terminate, InTransaction
<1>10. CASE UNCHANGED vars
  BY <1>10, StutterMark
<1> QED
  BY <1>1, <1>2, <1>3, <1>4, <1>5, <1>6, <1>7, <1>8, <1>9, <1>10 DEF Next, Step

(* A block of the old database is overwritten only when the file and the    *)
(* device hold a header that asks for recovery: the order of                *)
(* create_rollback_chunk, set_physical_file_in_transaction and              *)
(* recursive_write_dirty_blocks, whatever fails or crashes in between.      *)
THEOREM HeaderGoesFirst == Spec => []HeaderFirst
<1>1. Init => MarkInv
  BY OutsideMark DEF Init, MarkInv, MarkOrder, HeaderFirst, InTransaction
<1>2. TypeInv /\ TypeInv' /\ MarkInv /\ [Next]_vars => MarkInv'
  BY MarkStep, SizeAssumption, BufferAssumption
<1>3. MarkInv => HeaderFirst
  BY DEF MarkInv
<1> QED
  BY <1>1, <1>2, <1>3, TypeInvariant, PTL DEF Spec
=============================================================================
