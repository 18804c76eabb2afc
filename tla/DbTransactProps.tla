--------------------------- MODULE DbTransactProps ---------------------------
(***************************************************************************)
(* What the transactions of DbTransact guarantee.  The properties look at   *)
(* the file the way the next initialize_transaction would find it: undone   *)
(* if the header says so, without the blocks of a chain that is pending.    *)
(***************************************************************************)
EXTENDS DbTransact

Targets(c) == {c.target[i] : i \in DOMAIN c.target}

(* The chain of the chunk at a: a chunk points to one below it, or to none. *)
Chunks(f, a) == {c \in 1..a : /\ f[c] \in Chunk /\ f[c].next < c
                              /\ c + Chunked(f[c]) <= NBlocks}

Linked(f, a, S) ==
  /\ a \in S
  /\ \A c \in S : c = a \/ \E d \in S : f[d].next = c
  /\ \A c \in S : f[c].next \in S \cup {0}

(* The set of all x of a set that has one, or which one does not matter.    *)
Only(S) == CHOOSE x \in S : TRUE

Chains(f, a) ==
  LET linked == {S \in SUBSET Chunks(f, a) : Linked(f, a, S)}
  IN  IF a = 0 \/ linked = {} THEN {{}} ELSE linked

Chain(f, a) == Only(Chains(f, a))

Segment(f, c) == c..c + Chunked(f[c]) - 1
Kept(f, S)    == UNION {Segment(f, c) : c \in S}

(* The undo goes from the newest chunk to the oldest: of the copies of a    *)
(* block the one of the oldest chunk is what remains.  The header is behind *)
(* the copies of the first chunk of the transaction.                        *)
Savers(f, S, b) == {c \in S : b \in Targets(f[c])}
IndexOf(c, b)   == CHOOSE i \in DOMAIN c.target : c.target[i] = b
CopyOf(f, c, b) == f[c + IndexOf(f[c], b)]

Restored(f, S, b) ==
  IF Savers(f, S, b) = {} THEN f[b]
  ELSE CopyOf(f, CHOOSE c \in S : Least(c, Savers(f, S, b)), b)

SavedHeader(f, S) ==
  LET c == CHOOSE c \in S : f[c].next = 0 IN f[c + Len(f[c].target) + 1]

(* The file f with the chunks in S written back; f itself if there are none.*)
Undone(f, S) ==
  IF S = {} THEN f
  ELSE [b \in Block |-> IF b = 0 THEN SavedHeader(f, S) ELSE Restored(f, S, b)]

Recoveries(f) ==
  IF f[0].inTx THEN {Undone(f, S) : S \in Chains(f, f[0].rollback)} ELSE {f}

Recovered(f) == Only(Recoveries(f))

(* The database a file stands for: the live blocks that are not part of a   *)
(* chain, and their contents.                                               *)
Contents(f, h, S) ==
  [b \in Block |-> IF b \in Live(h) \ Kept(f, S) THEN f[b] ELSE Free]

Data(f) ==
  IF f[0] \in Header
  THEN Only({Contents(f, f[0], S) : S \in Chains(f, f[0].rollback)})
  ELSE EmptyCache                                \* no database at all

Database(f) == Only({Data(r) : r \in Recoveries(f)})

(* The database as the transaction leaves it: a block that it has allocated *)
(* and never written holds what the file held there.                        *)
Changed == [b \in Block |-> IF work[b] = Fresh THEN file[b] ELSE work[b]]

-----------------------------------------------------------------------------
(* A transaction reads what it wrote and otherwise what was there when it   *)
(* began, whatever the cache has written, evicted, reloaded or invalidated  *)
(* in between (open_block after flush_cache_buffers).                       *)
ReadsOwnWrites ==
  pc = "open" /\ ~txErr =>
    \A b \in Block : work[b] \notin {Free, Fresh} =>
      work[b] = IF cache[b] = NoBuffer THEN file[b] ELSE cache[b].data

(* Once the end of a transaction has returned success its changes are       *)
(* there, all of them, also after any later power failure or process crash. *)
CommitIsDurable == pc = "idle" /\ result = "ok" => Database(file) = Changed

(* A transaction that was rolled back, by its caller or after an error of   *)
(* one of its commands, leaves the database as it was.                      *)
CancelRestores == pc = "idle" /\ result = "cancelled" => Database(file) = before

(* A transaction cut off by a crash has happened entirely or not at all.    *)
CrashIsAtomic ==
  pc = "idle" /\ result \in {"crash", "error"} => Database(file) \in {before, Changed}

(* A header that asks for recovery comes with the chain that makes it       *)
(* possible: db-manual.txt:37-38, "the integrity of the database is         *)
(* guaranteed against power failures or process crashes".                   *)
Recoverable ==
  pc = "idle" => LET h == Recovered(file)[0] IN h \in Header /\ ~h.inTx

(* The blocks of the open transaction, the free blocks and the blocks of    *)
(* the rollback chain are disjoint: nothing is allocated twice, and no      *)
(* saved block is handed out while it may still be needed.                  *)
SpaceIsDisjoint ==
  InTransaction /\ ~txErr =>
    LET live  == {b \in Block : work[b] # Free}
        chain == Kept(file, Chain(file, hdr.rollback))
    IN  /\ live \cap hdr.super = {} /\ live \cap chain = {}
        /\ hdr.super \cap chain = {}
        /\ live \cup hdr.super \cup chain \subseteq 1..hdr.free - 1

(* backup.c copies the blocks before free_space_link, between two           *)
(* transactions: the copy is the same database, and if the header asks for  *)
(* recovery the copy holds the chain.                                       *)
BackupIsComplete ==
  pc = "idle" =>
    Database([b \in Block |-> IF b < file[0].free THEN file[b] ELSE Fresh]) = Database(file)

(* The undo finds a chunk at each block the chain leads it to, inside of    *)
(* the file, restores blocks that hold no part of the chain and finds the   *)
(* header of before the transaction behind the last copy; the release finds *)
(* a chunk none of whose blocks is free already.                            *)
FoundAt(c) == file[c] \in Chunk /\ c + Chunked(file[c]) <= hdr.free

RecoveryReads ==
  /\ pc = "undo" =>
       /\ FoundAt(walk) /\ idx <= Len(file[walk].target)
       /\ Targets(file[walk]) \cap Kept(file, Chain(file, hdr.rollback)) = {}
       /\ file[walk].next = 0 =>
            LET h == file[walk + Len(file[walk].target) + 1] IN h \in Header /\ ~h.inTx
  /\ pc = "free" =>
       /\ hdr.super \subseteq 1..hdr.free - 1
       /\ hdr.rollback # 0 => /\ FoundAt(hdr.rollback)
                              /\ Segment(file, hdr.rollback) \cap hdr.super = {}

(* Write-ahead: as long as the transaction is not committed, a block of the *)
(* old database that the transaction has overwritten comes back, even if    *)
(* that block is the only unflushed write that reached the device.          *)
JournalFirst ==
  InTransaction /\ pc # "commitEnd" =>
    \A b \in Live(hdr0) : file[b] # before[b] =>
      Recovered([stable EXCEPT ![b] = file[b]])[b] = before[b]

-----------------------------------------------------------------------------
(* From the begin to the write of the header that ends the transaction.     *)
Uncommitted == InTransaction /\ pc # "commitEnd"

Store == INSTANCE AtomicStore WITH
  State <- [Block -> Content \cup {Free}],
  db   <- Database(file),
  prev <- Database([file EXCEPT ![0] = stable[0]]),
  work <- IF Uncommitted THEN Changed ELSE Database(file),
  open <- Uncommitted

(* The transactions implement the abstract store, a commit being the write  *)
(* of the header that ends it (precommit_transaction): no other write, no   *)
(* flush, undo or power failure changes the database in another way.        *)
ImplementsAtomicStore == Store!Spec

(* An interrupted transaction is undone once a process begins a transaction *)
(* on the database and is left to work.                                     *)
Fairness == WF_vars(Begin) /\ WF_vars(Step) /\ WF_vars(End \/ Rollback)
FairSpec == Spec /\ Fairness

RecoveryCompletes == file[0].inTx ~> ~file[0].inTx
=============================================================================
