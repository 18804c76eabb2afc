------------------------------ MODULE DbJournal ------------------------------
(***************************************************************************)
(* Why the transactions of DbTransact survive what happens to them: the     *)
(* inductive invariant behind the properties of DbTransactProps.            *)
(*                                                                         *)
(* The first half says of a file and of one header when the two stand for   *)
(* a database and which blocks that depends on; it has no variables, so     *)
(* that what a write, a flush or a crash does to it are facts about         *)
(* functions.  The second half says, for each place the library can be in,  *)
(* which database each header on the disk stands for.                       *)
(***************************************************************************)
EXTENDS DbTransactProps

(* The chain of chunks at a is S: from the newest at the end of the file    *)
(* down to the first of the transaction, each chunk below the one before.   *)
IsList(f, a, S) ==
  /\ S \subseteq 1..NBlocks - 1
  /\ a = 0 => S = {}
  /\ a # 0 => a \in S /\ \A c \in S : c <= a
  /\ \A c \in S : /\ f[c] \in Chunk /\ f[c].next \in S \cup {0}
                  /\ f[c].next < c /\ c + Chunked(f[c]) <= NBlocks
  /\ \A c, e \in S : e < c => e <= f[c].next /\ e + Chunked(f[e]) <= c

Fits(f, S, low, high) == \A c \in S : low <= c /\ c + Chunked(f[c]) <= high

AllTargets(f, S) == UNION {Targets(f[c]) : c \in S}

(* The chunks save blocks below high, each chunk a block at most once.      *)
SavesBelow(f, S, high) ==
  \A c \in S : /\ Targets(f[c]) \subseteq 1..high - 1
               /\ \A i, j \in DOMAIN f[c].target :
                    f[c].target[i] = f[c].target[j] => i = j

-----------------------------------------------------------------------------
(* A file f whose header is h: f[0] is of no interest here.                 *)

HeaderOK(h)  == h \in Header /\ h.super \subseteq 1..h.free - 1
ChainOf(f, h) == Chain(f, h.rollback)

(* The header the file has once the transaction is undone.                  *)
OldHeader(f, h) == IF h.inTx THEN SavedHeader(f, ChainOf(f, h)) ELSE h

Guards(f, h, b) == h.inTx /\ b \in AllTargets(f, ChainOf(f, h))

IntactJournal(f, h, S, g) ==
  /\ h \in Header /\ h.rollback # 0 /\ IsList(f, h.rollback, S)
  /\ HeaderOK(g) /\ ~g.inTx /\ g.rollback = 0
  /\ Fits(f, S, g.free, h.free) /\ SavesBelow(f, S, g.free)

IntactRest(f, h, S) ==
  /\ HeaderOK(h) /\ IsList(f, h.rollback, S)
  /\ Fits(f, S, 1, h.free) /\ Kept(f, S) \cap h.super = {}

Intact(f, h) ==
  /\ h.inTx  => IntactJournal(f, h, ChainOf(f, h), OldHeader(f, h))
  /\ ~h.inTx => IntactRest(f, h, ChainOf(f, h))

Needed(f, h) ==
  IF h.inTx THEN Kept(f, ChainOf(f, h))
                 \cup {b \in Live(OldHeader(f, h)) : ~Guards(f, h, b)}
            ELSE Live(h)

Image(f, h) ==
  IF h.inTx THEN [b \in Block |-> IF b \in Live(OldHeader(f, h))
                                  THEN Restored(f, ChainOf(f, h), b) ELSE Free]
            ELSE Contents(f, h, ChainOf(f, h))

(* The blocks f, of which the device holds s, stand for db under header h,  *)
(* on the device too if lasting.                                            *)
StandsFor(f, s, lasting, h, db) ==
  /\ Intact(f, h) /\ Image(f, h) = db
  /\ lasting => \A b \in Needed(f, h) : s[b] = f[b]

(* A header on the disk while the chunks in S are what a transaction has    *)
(* written, and g was its header: what the chain of h does not save is      *)
(* saved as it was, if at all.                                              *)
OldDisk(f, s, lasting, S, g, h, db) ==
  /\ StandsFor(f, s, lasting, h, db)
  /\ h = g \/ (h.inTx /\ h.rollback \in S)
  /\ \A c \in S : \A b \in Targets(f[c]) :
       b \in Live(g) /\ ~Guards(f, h, b) => CopyOf(f, c, b) = db[b]

(* What rollback_transaction has written back when it is at block i of      *)
(* chunk w: the copies that no later step writes back again.                *)
RestoredTo(f, S, w, i) ==
  \A c \in S : \A b \in Targets(f[c]) :
    /\ c > w \/ (c = w /\ IndexOf(f[c], b) <= i)
    /\ \A e \in S : b \in Targets(f[e]) => c <= e
    => f[b] = CopyOf(f, c, b)

-----------------------------------------------------------------------------
(* The power can fail only if no process is killed and no I/O fails, as     *)
(* long as two_crashes stands.                                              *)
PowerOnly == \A s \in Starts : s.left["kill"] = 0 /\ s.left["fault"] = 0
Powered == left["power"] > 0 \/ PowerOnly
OneKind == Powered => left["kill"] = 0 /\ left["fault"] = 0

TxPc == {"open", "collect", "tail", "chunk", "chunkIO", "markFlush", "markHeader",
         "markEnd", "overwrite", "commit"}

(* What is on the device matters if the power can fail, and in a            *)
(* transaction that has flushed its chain.                                  *)
Lasting == Powered \/ (pc \in TxPc /\ hdr.inTx)
OnDisk  == {file[0]} \cup (IF Lasting THEN {stable[0]} ELSE {})

Stands(h, db) == StandsFor(file, stable, Lasting, h, db)

(* What the last transaction returned fits the database db.                 *)
Said(db) ==
  \/ db = before /\ result \in {"cancelled", "crash", "error"}
  \/ db = Changed /\ ~file[0].inTx /\ result \in {"ok", "crash", "error"}

Now == Image(file, file[0])

IdleInv ==
  /\ Stands(file[0], Now) /\ Said(Now) /\ idx = 0
  /\ Powered => stable[0] = file[0]

Journal   == ChainOf(file, hdr)
OldOnDisk(g) == \A h \in OnDisk : OldDisk(file, stable, Lasting, Journal, g, h, before)

UndoInv ==
  /\ why \in {"begin", "cancel"} /\ result \in {"cancelled", "crash", "error"}
  /\ hdr.inTx /\ Intact(file, hdr) /\ Image(file, hdr) = before
  /\ walk \in Journal /\ idx <= Len(file[walk].target)
  /\ RestoredTo(file, Journal, walk, idx)
  /\ OldOnDisk(OldHeader(file, hdr))
  /\ Powered => stable[0] = file[0]

UndoneInv ==
  /\ why \in {"begin", "cancel"} /\ result \in {"cancelled", "crash", "error"}
  /\ ~hdr.inTx /\ hdr.rollback = 0 /\ Stands(hdr, before)
  /\ \A h \in OnDisk : Stands(h, before)
  /\ pc = "undoEnd" => file[0] = hdr
  /\ pc = "undoHeader" /\ Powered => stable[0] = file[0]

FreeInv ==
  /\ why \in {"begin", "commit"} /\ Said(Now)
  /\ ~hdr.inTx /\ Stands(hdr, Now)
  /\ \A h \in OnDisk : ~h.inTx /\ Stands(h, Now)
  /\ pc # "free" => hdr.rollback = 0
  /\ pc = "freeEnd" => file[0] = hdr
  /\ pc # "freeEnd" /\ Powered => stable[0] = file[0]

-----------------------------------------------------------------------------
(* Inside a transaction.                                                    *)

InUse(b) == work[b] \notin {Free, Fresh}

(* Every block below free_space_link is live, free or part of the chain.    *)
SpaceInv ==
  /\ HeaderOK(hdr0) /\ ~hdr0.inTx /\ hdr0.rollback = 0
  /\ HeaderOK(hdr) /\ hdr0.free <= hdr.free
  /\ IsList(file, hdr.rollback, Journal) /\ Fits(file, Journal, hdr0.free, hdr.free)
  /\ SavesBelow(file, Journal, hdr0.free)
  /\ Journal # {} => SavedHeader(file, Journal) = hdr0
  /\ Kept(file, Journal) \cap hdr.super = {}
  /\ {b \in Block : work[b] # Free} = Live(hdr) \ Kept(file, Journal)
  /\ hdr.inTx => hdr.rollback # 0
  /\ ~hdrDirty => hdr = hdr0

(* The chunks of the flush that is going on are the newest ones.            *)
InfoInv ==
  /\ pc \in {"open", "collect", "tail"} => info.first = 0
  /\ info.first = 0 => info.count = 0
  /\ info.first # 0 =>
       /\ info.first \in Journal /\ info.next = file[info.first].next
       /\ info.first + info.count = hdr.free
       /\ info.first..hdr.free - 1 = Kept(file, {c \in Journal : c >= info.first})

DiskInv ==
  /\ OldOnDisk(hdr0)
  /\ \A h \in OnDisk : h.free <= hdr.free /\ (h = hdr0 \/ (hdr.inTx /\ h.inTx))
  /\ pc # "markEnd" /\ Powered => stable[0] = file[0]
  /\ pc = "markFlush" => hdr.rollback # 0
  /\ pc \in {"markHeader", "markEnd"} => hdr.inTx /\ \A b \in Block \ {0} : stable[b] = file[b]
  /\ pc = "markHeader" => stable[0] = file[0]
  /\ pc = "markEnd" => file[0] = hdr

(* The cache, and below it the file, hold the database of the transaction.  *)
DataInv ==
  /\ \A b \in Block : InUse(b) =>
       work[b] = IF cache[b] = NoBuffer THEN file[b] ELSE cache[b].data
  /\ \A b \in Block : cache[b] # NoBuffer =>
       /\ InUse(b) /\ ~cache[b].dirty => cache[b].data = file[b]
       /\ cache[b].dirty \/ cache[b].pins > 0 => InUse(b)
  /\ final => Pinned = {}

(* A buffer that is not saved yet holds what the block was at the start.    *)
SavedInv ==
  /\ \A b \in Below : cache[b] # NoBuffer =>
       /\ cache[b].loaded /\ b \in Live(hdr0) =>
            \A h \in OnDisk : ~Guards(file, h, b) => cache[b].orig = before[b]
       /\ cache[b].saved =>
            b \in AllTargets(file, Journal) \/ \E i \in DOMAIN targets : targets[i] = b
  /\ \A i \in DOMAIN targets :
       /\ targets[i] \in Below /\ cache[targets[i]].loaded /\ cache[targets[i]].saved
       /\ \A j \in DOMAIN targets : targets[i] = targets[j] => i = j

(* How far the flush is.                                                    *)
FlushInv ==
  /\ pc \in {"tail", "chunk", "chunkIO"} => \A b \in Unsaved : cache[b].loaded
  /\ pc \in {"chunk", "chunkIO", "markFlush", "markHeader", "markEnd", "overwrite", "commit"} =>
       Dirty \ Below = {}
  /\ pc \in {"markFlush", "markHeader", "markEnd", "overwrite", "commit"} => Unsaved = {}
  /\ pc = "commit" => Dirty = {} /\ final
  /\ pc = "overwrite" /\ hdrDirty => file[0] = hdr /\ stable[0] = hdr /\ hdr.inTx
  /\ pc = "chunkIO" => /\ idx < Chunked(ChunkHead)
                       /\ \A i \in 0..idx - 1 : file[hdr.free + i] = ChunkBlock(i)
  /\ pc # "chunkIO" => idx = 0

TxInv ==
  /\ why = "none" /\ (txErr => pc = "open") /\ (pc = "open" => ~final)
  /\ SpaceInv /\ DiskInv
  /\ ~txErr => InfoInv /\ DataInv /\ SavedInv /\ FlushInv

CommitInv ==
  /\ why = "none" /\ ~hdr.inTx /\ Stands(hdr, Changed)
  /\ {b \in Block : work[b] # Free} = Live(hdr) \ Kept(file, Journal)
  /\ \A b \in Block \ {0} : stable[b] = file[b]
  /\ pc = "commitHeader" => /\ stable[0] = file[0] /\ Stands(file[0], before)
                            /\ OldHeader(file, file[0]) = hdr0 /\ hdr0.rollback = 0
  /\ pc = "commitEnd" => /\ file[0] = hdr
                         /\ Powered => stable[0] = hdr \/ Stands(stable[0], before)

JournalInv ==
  /\ OneKind
  /\ pc = "idle" => IdleInv
  /\ pc = "undo" => UndoInv
  /\ pc \in {"undoHeader", "undoEnd"} => UndoneInv
  /\ pc \in {"free", "freeHeader", "freeEnd"} => FreeInv
  /\ pc \in TxPc => TxInv
  /\ pc \in {"commitHeader", "commitEnd"} => CommitInv
=============================================================================
