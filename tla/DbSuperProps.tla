----------------------------- MODULE DbSuperProps -----------------------------
(***************************************************************************)
(* The set of free blocks and the chunks that the tables of DbSuper stand   *)
(* for.                                                                     *)
(***************************************************************************)
EXTENDS DbSuper

FreeBlocks(h, f) ==
  Covered(h.range) \cup UNION {{b} \cup Covered(f[b].range) : b \in SuperBlocks(f)}

Chunks(f) == {[first |-> c, size |-> Size(f[c])] : c \in Heads(f)}

(* The tables implement a set of free blocks.                               *)
Mapped(h, f) == [top |-> h.free, free |-> FreeBlocks(h, f), chunks |-> Chunks(f)]

Space == INSTANCE FreeSpace WITH
  Limit  <- NBlocks,
  None   <- <<>>,
  top    <- hdr.free, free <- FreeBlocks(hdr, block), chunks <- Chunks(block),
  before <- IF phase = "free" THEN Mapped(stored, stable) ELSE <<>>,
  full   <- status = "E_NOSPC"

(* To the transactions the tables are a set of free blocks, as DbTransact   *)
(* has them: a free block is found if there is one, the end of the file is  *)
(* used only if there is none.                                              *)
ImplementsFreeSpace == Space!Spec
=============================================================================
