# Verification of the Safe-C database library

Safe-C is a language with a compiler (`src/compiler`) and a standard library
(`src/lib`). Almost all of it is sequential translation, formatting, codecs and
bindings of system calls. The part whose correctness depends on the order of
steps, on crashes and on several threads and processes is the ISAM database,
`src/lib/db.c` and `src/lib/db/*`: transactions with a rollback journal, a
block cache, a free-space table, file locks, an online backup, a logging file
with recovery, B-trees and tables. This directory models that part.

## 1. Inventory

| component | state | operations | what makes it correct |
|---|---|---|---|
| cache and journal (`cache.c`) | buffers by block (data, original data, dirty, saved, loaded, locks), header in memory, chunks at the end of the file | open, set dirty, close, invalidate, soft flush, hard flush (collect, write after L, chunks, mark the header, overwrite), undo | a transaction reads its own writes; nothing of the old database is overwritten before the chain and the header that asks for its undo are on the device; the undo restores exactly the old database |
| transactions (`transact.c`) | `transaction_open`, `inside_explicit_transaction`, `transaction_error`, header lock count | begin (with recovery), end, rollback, the implicit transaction of a command, close | all or nothing across I/O errors, killed processes and power failures; what was reported as committed stays |
| free space (`super.c`) | 24 ranges in the header, super blocks, `free_space_link` | allocate, deallocate, give back a chain | no block is in two of: live, free, chain |
| backup (`backup.c`) | set of intervals still to copy, `waiting`, `error`, `page0` | backup, `backup_block` before each write of a transaction | the copy is the file of one moment |
| file access (`dbport.c`) | critical section, file locks | read, write, flush, exclusive and share locks | header lock: one transaction at a time among all processes; share locks of open tables |
| logging and recovery (`dbfile.c`, `writelog.c`) | log header (`first`, `butlast`, `last`), records | log, replay, start logging | the log and the database match after a crash; the replay gives the same database |
| record commands (`cmd.c`) | several indexes and a chain of data blocks per record | insert, delete, update, retrieve | all indexes of a table hold the same records, also after a duplicate key in the last one |
| B-trees (`badd.c`, `bdelete.c`, `bsearch.c`) | nodes with keys and links | insert with splits, delete with merges, search | sorted, balanced, half full, same keys as the reference set |
| tables, indexes, handles (`table.c`, `index.c`, `open.c`) | table descriptions, open handles with their own copy | create, delete, open, close | a handle refers to a table that exists and has the layout it remembers |
| queries (`query.c`) | cursors | open, next, close | every record once, in order |
| defragmentation (`defrag.c`) | two files | copy, delete, rename | one of the two files is always complete |
| interval sets (`set.c`), critical sections (`thread.c`), containers | | | used by the above |

How they interact: a command of `cmd.c`, `table.c` or `index.c` calls
`open_command`, which begins an implicit transaction unless one is open, works
on B-trees and data blocks through `open_block`, `allocate_block` and
`deallocate_block`, and calls `close_command`. A transaction holds two locks
for all its life: the critical section of the library (`ENTER`/`LEAVE`, against
the other threads) and the lock on the header of the file (against other
processes). The backup thread shares `bi.so` with the transactions, which save
a block to the backup before they overwrite it. A crash is met by the next
`initialize_transaction` of any process.

Hard behaviour: the order of writes and flushes; failures in the middle of a
flush, of a commit, of an undo, of the deallocation of a chain; several flushes
in one transaction; blocks freed and used again in one transaction; two crashes
in a row; the backup against transactions and against the close of the
database; locks with timeouts; logical errors in the middle of a command. The
list, each at its line, is in `PROJECT.json` under `hazards`.

The rest of the repository is listed under `components` with the reason why it
is not modelled.

## 2. Modules

| module | what it is |
|---|---|
| `DbTransact` | cache, journal, transactions, recovery and the deallocation of the chain, one action per write, flush and operation |
| `DbTransactProps` | its properties; what a recovery makes of a given file, written with sets of chunks instead of recursion along the chain |
| `AtomicStore` | the abstract specification: a database that changes in one step |
| `DbTransact_proofs` | the types of `DbTransact`, and that the header goes to the device first |
| `DbJournal` | the inductive invariant behind the properties of `DbTransactProps` |
| `DbJournal_proofs` | its proof, the safety properties and the refinement of `AtomicStore` |
| `MCDbTransact` | the budgets of its runs |
| `DbBackup` | the backup, the transactions' part in it, the locks and the close of the database |
| `DbBackup_proofs` | the theorems about `DbBackup`: a successful backup is exact, the locks follow the transactions |
| `MCDbBackup` | the budgets and the symmetry of its runs |
| `DbSuper` | the table of free ranges, super blocks, and the return of the rollback chain |
| `DbSuperProps` | the set of free blocks that its tables stand for, and the refinement of `FreeSpace` |
| `FreeSpace` | the abstract specification: a set of free blocks, as `DbTransact` has it |
| `DbSuper_proofs` | the theorems about `DbSuper`: every block is in one place, through spills, reloads, releases and crashes; it implements `FreeSpace`, step by step |
| `MCDbSuper` | its run |
| `DbNode` | the nodes of a B-tree of keys with different sizes: their bytes, and nodes made of others |
| `DbTree` | insertion, deletion and search in the tree, one step for what a function does with a node |
| `DbNode_proofs` | what the operators of `DbNode` do with order and bytes; a node that is too large can be split |
| `DbTree_proofs` | the structure of the tree in the middle of a call, all properties of `DbTree` and the refinement of `OrderedIndex` |
| `OrderedIndex` | the abstract specification: a set of keys, as `DbTable` has it |
| `MCDbTree` | sizes of keys and the trees to begin with |
| `DbTable` | tables, indexes, handles, locks of open tables and the record commands, for several processes |
| `DbTable_proofs` | a handle stays fresh, all indexes of a table agree and a record command is all or nothing, for any number of processes, tables and records |
| `MCDbTable` | its databases and its symmetry |
| `DbLog` | the logging file with commits, crashes and `db_recover` |
| `DbLog_proofs` | the log matches the database and brings it back, for a log of any size |

How they fit together:

```
DbTable      tables, indexes, records         a tree is a set of entries, a
   |  |                                       transaction is all or nothing
   |  +--- OrderedIndex <= DbTree             (<= is implemented by)
   +------ AtomicStore  <= DbTransact --- FreeSpace <= DbSuper
                            |     |
                       DbBackup  DbLog
```

`FreeSpace` is what `DbTransact` assumes of the free blocks (`Allocate`,
`Deallocate`, `FreeChunk`, the cut of `Committed`), `OrderedIndex` what `DbTable` assumes of a tree, and
`AtomicStore` what `DbTable` and `DbLog` assume of a transaction. The three
refinements are checked by runs and proved. That the users take no more than the abstract
specifications say is read off their definitions; the modules are not composed
in one state space, which would be too large to be checked.

A definition whose comment says "Faulty:" is a plausible bug of the action or
helper after it; no specification uses it. Each shows that a property notices.

### DbTransact

The state has the file twice: `file`, what the operating system returns, and
`stable`, what the device holds. A write changes `file` and may or may not reach
`stable`; `__db_flush_file` makes them equal; a power failure takes back any
subset of the unflushed writes. `hdr`, `hdr0`, `hdrDirty`, `txErr` and `cache` are the fields
`db_header`, `initial_db_header`, `db_header_dirty`, `transaction_error` and
`cache` of `DB_INFO`. `pc` is the place in the code between two accesses to the
file. A block holds a data value, a header or a rollback block (`Chunk`).

| code | actions |
|---|---|
| `initialize_transaction` | `Begin`, `Enter`; with an undo and a chain in between |
| `rollback_transaction` | `UndoBlock`, `UndoNextChunk`, `UndoFlush`, `UndoHeader`, `UndoEnd` |
| `deallocate_rollback_chain` | `FreeChunk`, `FreeFlush`, `FreeHeader`, `FreeEnd` |
| `allocate_block`, `deallocate_block`, `invalidate_buffer` | `Allocate`, `AllocateFails`, `Deallocate`, `Invalidated` |
| `open_block`, `set_dirty`, `close_block` | `OpenCleared`, `Open`, `SetDirty`, `Close` |
| `flush_cache_buffers` | `CacheFull` or `End`, then `Collect`, `TailWrite`, `TailDone`, `AddBuffer`, `LastChunk`, `ChunkWrite`, `ChunksDone`, `MarkFlush`, `MarkHeader`, `MarkEnd`, `Overwrite`, `FlushDone` |
| `precommit_transaction` | the same, then `CommitFlush`, `CommitHeader`, `CommitEnd` |
| `precancel_transaction`, `terminate_transaction` | `Cancel`, `Terminate` |
| `db_end_transaction`, `db_rollback_transaction`, `close_command`, close with an open transaction | `End`, `Rollback` |
| an error returned by a read, a write or a flush | `Fault`, `Fail`; `NoSpace` for E_NOSPC |

A command is any sequence of the block operations, which is what every command
of `cmd.c`, `table.c` and `index.c` is. `MaxPins` bounds the blocks it holds
open at a time.

Abstractions, and why they lose nothing the properties could see:

- one process and one thread: the header lock and the critical section make
  transactions a sequence, and a process begins with nothing in memory
  (`Enter` clears all of it);
- the free blocks are a set; which of them `allocate_block` takes is left open;
  a chunk that ends the file is cut off together with the free blocks just
  before it. With several free ranges before the end the code cuts off the last
  range of its ordered table, the same blocks. The range table itself is `DbSuper`;
- a block write is atomic (blocks have a checksum; a torn block is an error at
  the next read and not a state the code recovers from);
- a call that fails has had no effect;
- the age of a clean buffer decides whether the soft flush frees it: any subset
  of the clean buffers that nobody holds open;
- the undo reads all blocks of a chunk before it writes the first; reading each
  just before its write is the same, the targets lie before L and the chunks
  after it;
- `__db_extend_file` is part of the write after it;
- the logging file, which a commit writes between the flush and the header, is
  `DbLog`.

### DbBackup

The file is a header (its `free_space_link`) and blocks, which transactions
write as they like: what they write is the subject of `DbTransact`. Threads run
`Begin`, writes and `End`, the backup, and the close. `depth` counts how often a
thread is in the critical section: a call enters and leaves it, and a
transaction enters it once more at its beginning and leaves it at its end. `lock`
and `count` are the file lock of the header and `header_lock_count`; `OtherLock`,
`OtherWrite` and `OtherUnlock` are another process, or another handle, that has
the header locked. `so` is the owner of `bi.so`. Under `bi.so` a copy is a read
and a write with the same buffer on both sides, as in the code. The backup of
one thread may still write its header (`WritePage0`) when another one begins.
Left out: the size estimate before the backup, which only preallocates the
output; the callback; `free_backup_info` and the deletion of the output file,
which end with the call.

### DbSuper

`hdr.range` and `hdr.link` are `super.range` (up to its last range that is not
empty) and `super.super_link` of the header, `hdr.free` and `hdr.rollback`
`free_space_link` and `rollback_link`, and a block holds a super block, the head of a rollback chunk, or something else.
The header has 24 ranges in the code and 2 * `Half` here.

| code | definitions |
|---|---|
| `insert_range_in_super_table` | `Inserted`, `InsertedAt`, `Appended` |
| `allocate_block` | `Extend`, `Allocate` with `Loaded` (the table of a super block), `Advised`, `Aligned`, `TakenFrom` |
| `deallocate_block` | `Deallocate`, `Spilled` |
| `write_rollback_chunk` | `WriteChunk`: where the chunks lie |
| `precommit_transaction` | `DropChunk` for the chunks of the last flush, then `Commit` |
| `deallocate_rollback_chain` | `FreeChunk`, `CutOff`, `FreeHeader`; `Crash` at any point of it |

When the table is full, the block that is freed becomes a super block and takes
half of the ranges; an allocation that finds the table empty loads the super
block, which is then a free block of its own table. A chunk that is given back
to a full table puts the super block into its last block and writes it to the
file at once, before the header is written. A flush writes all its chunks and the code
cuts off those at the end of the file at once; here they are cut off one by one
(phase `commit`), any number of them, since `rollback_chunk_info` is not in this model. Abstractions: a
transaction is what it does to the table, since it reaches the file as a whole
(`DbTransact`); a transaction without a chain goes straight on with the next
one; what a block holds besides is left out.

### DbNode and DbTree

`node` maps blocks to nodes: the first child and a sequence of items with a key
and the child behind it. `root` is `index_root_link`. A key is stored without
the bytes that it shares with the one before, so the size of an item depends on
its neighbour: `First[k]` and `Behind[<<j, k>>]`. That is what makes a
deletion difficult: the item behind the deleted one may grow, and what
takes the place of a key further up may be larger than it (`replace_by_smallest`).

`recursive_add`, `recursive_delete` and `extract_smallest` call themselves for the child of
a node. The stack of these calls is state: `path` has the nodes that are open, each with the
place where the call went on (`insertion_point`); `found` is the one of them that
`replace_by_smallest` runs for. On the way down a step opens one node; at the end a key is
found, taken out of a leaf, or becomes the item that comes up; on the way up a step
is what the function does with its node after the call, and `back` is what the call
returned: `fits`, `small` (`underflow`) or `split` (`overflow`, with `item` as `emergeant`).

| code | definitions |
|---|---|
| `read_item`, `write_item`, `node_underflows` | `Offset`, `ItemSize`, `Bytes`, `Underflows` |
| `copy_node_and_insert_items`, `delete_item_in_node`, `catenate_node_item_node`, `split_node` | `Inserted`, `Deleted`, `Catenated`, `Split` with `Place` |
| `insert_item_in_node` | `Stored`, `Parted` |
| `recursive_add`, `add_btree` | `Add`, `Descend`, `AddExists`, `AddHere`, `PassItem`, `Done`, `NewRoot` |
| `handle_underflow` | `HandleUnderflow`, `Merged`, `Rebalanced` |
| `recursive_delete`, `delete_btree` | `Delete`, `Descend`, `DeleteMissing`, `DeleteHere`, `DeleteInner`, `PassItem`, `PassSmall`, `Done`, `NewRoot`, `SmallRoot` |
| `extract_smallest`, `replace_by_smallest` | `ExtractDeeper`, `ExtractHere`, `PassItem`, `PassSmall`, `PassUp`; `Replace` with `ReplaceBySmallest`, `Replaced`, `Fitted` |
| `search_btree` | `Search` in the five modes, one round for a node |

No other call comes in between the steps of one, since the lock of the database is held; the
steps are there because the interesting states are those in the middle. An error ends the
call and the transaction, `before` is what the rollback restores. A function that only
hands a result on (`fits` while no key is to be replaced) is not a step: `Done` ends the
call at once. `replace_by_smallest` deletes its item in the node before it looks for the
smallest key; nothing reads the node until it has found it, and both are `Replace`. The sequence
of items of `read_item` and `write_item` is the sequence itself. Blocks are as many
as needed, the least free one is taken; what `allocate_block` does is `DbSuper`. `ItemSize` takes
the exact common prefix of an item and the one before it; `delete_item_in_node` keeps the smaller
of two stored prefixes, so that an item may take some more bytes than in the model until it is
written again. The inequalities of `SizeAssumption` hold of those sizes too; the model has only the exact ones. `compress_key`
and `uncompress_key` are the reason for the sizes and are not modelled, the record that
belongs to a key is part of it.

### DbTable

`tables` has for each table block a name, index descriptions and the roots of
their trees, each a set of entries (a key and the block of a record); `data` the
records. `committed` is what a cancelled transaction goes back to. A process is
a `db_handle`; `handles` are its open tables with their copy of the index
descriptions, `bytes` the share locks on the locking block of each table.

| code | actions |
|---|---|
| `open_command`, `close_command` | `MayCommand`, `Begun`, `Closed`, `Performed` |
| `db_begin_transaction`, `db_end_transaction`, `db_rollback_transaction`, errors, close or end of a process | `Begin`, `End`, `Rollback`, `Fault`, `Stop` |
| `__db_lock_share`, `__db_unlock`, `try_exclusive_lock` | `ByteFor`, `OpenTable`, `CloseTable`, `Unlocked` |
| `db_create_table`, `db_rename_table`, `db_delete_table` | `CreateTable`, `RenameTable`, `DeleteTable` |
| `db_create_index`, `db_rename_index`, `db_delete_index` | `CreateIndex`, `BuildKey`, `BuildEnd`, `RenameIndex`, `DeleteIndex` |
| `db_insert` | `InsertBegin`, `InsertKey`, `InsertData`, `InsertUndo`, `InsertUndone` |
| `db_delete` | `DeleteBegin`, `DeleteKey`, `DeleteData` |
| `db_update` | `UpdateBegin`, `UpdateKey`, `UpdateAdded`, `UpdateDrop`, `UpdateData`, `UpdateUndo`, `UpdateUndone` |

A command over several trees is a step per tree, so that an error, a duplicate
key or the end of the process can come between any two. Commands that cannot
stop half way are one step. Abstractions: a record is one block, whose chain in
the code is changed as a whole; names are checked, field lists are not; a lock
that is not free is a command that does not happen, which leaves the waiting out;
a failed call that has changed nothing is left out too.

Two switches exclude what the code does not guard against. `OpensChanged`: a table may be opened
after a change of its definition in the same transaction (section 6).
`ManyOpens`: more opens of a table than there are bytes, 511, where
`__db_lock_share` does not notice that it found none free. Both are false in the run
`tables`; `tables_rollback` sets the first.

### DbLog

`db` is the number of the last transaction of the database and the list of all
changes ever made to it; `log` a header with two points (`butlast`, `last`: a
transaction number and an offset) and the records. Each file exists twice, as
written and as its disk has it.

| code | actions |
|---|---|
| `initialize_transaction` | `Begin`: which of the two points the database has |
| `write_logging_data` | `Write` |
| `precommit_transaction` | `Commit`, `CommitFlushLog`, `CommitWriteLog`, `CommitSyncLog`, `CommitWriteDb`, `CommitSyncDb` |
| rollback, an error, a killed process | `Cancel`, `Stop` |
| `db_recover` | `RecoverReplay`, `RecoverHeader`, interrupted by `RecoverAgain` |
| the power, the disk | `PowerFailure`, `Lose` |

A record takes one place, and `MaxLog` places are the 2 GB of the code: a full log is
a transaction that is cancelled. The contents of the records, which `db_recover` parses
and replays as commands, are numbers. `LosesInDoubt` allows the loss of the
database while the log ends with a transaction that the database does not have;
what happens then is one of the disagreements.

## 3. Runs

Where a specification would go on for ever, counters of events are budgets:
`op`, `flush`, `fault`, `kill`, `power` in DbTransact, `begin`, `write`,
`backup`, `other`, `fault`, `close` in DbBackup, `left` (changes of definitions) in
DbTable, `MaxChange` and `MaxLog` in DbLog, `MaxChunks` in DbSuper. Transactions of
DbTransact, DbSuper and DbTable, and record commands of DbTable, are not
counted: the bounds on blocks, keys and tables do not cut off any of their histories.

| run | bounds | question |
|---|---|---|
| `failures` | 2 changes and 2 cache-full flushes with either 1 power failure or 1 I/O error and 1 killed process; or a file of 9 blocks that is almost full, so that nothing or only the first chunk of a flush fits; 1 saved block to a chunk, so that two changes make a chain | atomicity, durability, recoverability, write order, disjoint space, complete backup |
| `recovery` | 2 changes, 1 flush, 2 power failures, fairness | the recovery is interrupted, goes on and ends; refinement of `AtomicStore` |
| `backup` | 3 threads, 3 data blocks; 2 transactions with 2 writes and another process; 2 backups; or a close | a successful backup is exact, the locks follow the transactions, nothing is freed under the backup |
| `backup_ends` | 2 threads, 2 data blocks, 1 I/O error on either side; fairness, no close | the backup ends, and an error is never a success |
| `space` | 9 blocks, 2 ranges in a table, chunks of up to 2 saved blocks, 2 chunks, alignment up to 2 | no block is lost or handed out twice over spills, reloads, the return of chunks and crashes; refinement of `FreeSpace` |
| `trees` | 30 keys; 5 beginnings: an empty tree with 8 keys to insert and delete in any order, or the 30 keys inserted in one of four orders and then 4 or 5 of them | sorted, on one level, no block lost, no internal error, every search right; refinement of `OrderedIndex` |
| `tables` | 2 processes with 1 handle each, 2 tables, up to 3 indexes over 2 fields, 2 records, 2 bytes of locks, 1 change of a definition | handles stay fresh, indexes agree, a command is all or nothing |
| `log` | 6 changes, 5 places in the log | the log has a point for the database after every crash; recovery is exact |
| `two_crashes`, `close_in_transaction`, `tables_rollback`, `log_doubt` | | the disagreements of section 6 |

The bounds are enough for the cases that matter because each of them needs few
events:

- `failures`, `recovery`: a second chunk needs two changed old blocks and
  `MaxSaved = 1`; a block saved twice needs a change, a flush with eviction and a
  change; a lost header needs one power failure; two old blocks, `free = 3`,
  and every set of free blocks at the start put free blocks before, between and
  after live ones; of the two files that are almost full (`Full`, `HalfFull`)
  the first meets E_NOSPC in `allocate_block` and at the first chunk of a flush, the
  second after a chunk of the same flush has been written, in a flush with eviction and in
  the last one, and in a second flush, when the header on the file already asks for recovery.
- `backup`: the copy is interrupted in an interval with at least two blocks and
  leaves two intervals with three.
- `space`: three ranges that do not touch need five blocks and overfill a table of
  two; eight blocks leave room for a second spill, and for a chunk between live
  blocks that is given back to a full table.
- `trees`: with `Capacity` 41 and items of up to 10 bytes thirty keys are trees
  of three levels, and capacity and sizes are as tight as `SizeAssumption`, which the
  sizes of the code satisfy (505, 8 and at most 124 bytes), allows. Insertion orders and pools are chosen so
  that a deletion merges, rebalances, and makes a node too large at every place
  where that can happen in three levels, also after a merge (`Fitted`).
- `tables`: the undo after a duplicate in the third index has to take out two;
  two records are needed for a duplicate, two processes for a lock, a free slot
  between two used ones for an index that is not the last. The database with
  three indexes has only record commands.
- `log`: three committed transactions, one cut off between the headers and one over its
  records, with changes left after a recovery, fit in six changes.

CHECK_DEADLOCK is off in the runs of DbBackup: their budgets end, and a closed
database stays closed.

### Properties

Each has a comment where it is defined. Those of DbTransact (`ReadsOwnWrites`, `CommitIsDurable`, `CancelRestores`,
`CrashIsAtomic`, `Recoverable`, `SpaceIsDisjoint`, `JournalFirst`,
`HeaderFirst`, `BackupIsComplete`, the refinement `ImplementsAtomicStore`, the
liveness `RecoveryCompletes`) speak of `Database(file)`, the database that the
next `initialize_transaction` would see: the file after the undo its header asks
for, without the chain. `work` and `before` are ghosts: what the transaction did
and what it found. In `AtomicStore` a commit is the write of the header that ends the
transaction. `prev` is what a power failure may bring back: between that write
and its flush the old database may still return, afterwards not. The mapping takes
`prev` from the file with the header of the device; `work` is the database as the
transaction has changed it, and the database itself while none is open. The run and the
theorem of this refinement have power failures only: after a kill or an I/O error the
device may keep a header that nobody has flushed, and what it stands for while the next
transaction works is the disagreement `two_crashes`.

A recovery is described by sets. `Chain(f, a)` is the set of chunks that contains a, is
closed under `next` and has a predecessor for each chunk but a; there is one, because
links go down. The undo writes the chunks back from the newest to the oldest, so
that what remains in a block is its copy in the oldest chunk that has one
(`Restored`), and the header is the one behind the first chunk.

Those of DbSuper speak of the blocks that a header with its super blocks and
chunks accounts for: `Accounted` puts every block before the end of the file
in exactly one place, and its two lists lead to all super blocks and all
chunks. A list is not followed block by block: `Linked` says that the blocks of a set
are one list, since no proper subset of them contains the first block and is closed
under `next`, and since no block has two predecessors. `NoBlockTwice` says it of
what is in memory, in a transaction and in a release, `ReleaseRestarts` of what
the file would give after a crash in a release. `TablesInOrder` is what
insertion and cut rely on.

Those of DbTree compare the tree with the set of its keys; `WellFormed` and
`NoNodeLost` are the structure, `NoInternalError` that the errors and assertions of
`badd.c` and `bdelete.c` are not reached, `SearchesAgree` compares each search with its
definition on the set. The structure is stated between two calls; in between, a node may be without
items or an item without a node. The refinement maps the keys of a running call to those
of the tree it began with, so that its last step is the insertion or the removal.

`HandlesFresh` relates a handle, made in one process, to the tables as all others
have changed them. `IndexesAgree` holds between two commands, `CommandIsWhole`
compares the state before a command with the one after it, also in an explicit
transaction where nothing rolls a failed command back.

`LogMatches` is about each pair of files, written or on disk, that a crash may
leave; `RecoveryIsExact` about `db_recover`.

### Fairness

DbTransact: `Begin` (some process begins a transaction), every step of the library
once it has begun, and `End` or `Rollback` (the application ends its transactions). Nothing is
assumed of errors, crashes or changes. DbBackup: a thread inside a call goes
on, the application ends its transactions, other processes release the lock,
and a thread that waits for a lock which is free again and again gets it
(strong fairness on `TakeLock`: Windows critical sections, and a close that
sleeps 0.25 s between its attempts). The other modules state no liveness: their
calls are sequential and end by themselves, and how long they wait for
a lock is the operating system's matter.

## 4. Proofs

All for every value of the constants that satisfies the assumptions named.

`DbTransact_proofs`:

- `TypeCorrect == Spec => []TypeOK`. TypeOK is not inductive: `ChunkWrite` writes the
  original of each buffer that the chunk saves, and is typed only if there is one.
  `TypeInv` adds `TargetsCached`: the target list is empty outside of the writing of a
  chunk, and every block in it has a buffer. It says no more than that; what the recovery
  reads is `RecoveryIsRead` below.
- `HeaderGoesFirst == Spec => []HeaderFirst`: no block of the old database
  differs from what it was unless `file` and `stable` both hold a header that
  asks for recovery. The induction needs `MarkOrder`: from `markHeader` on the header in
  memory says in-transaction, from `markEnd` on the file's does, from
  `overwrite` with dirty old blocks on the device's does, and a header with
  `inTx` is never taken back inside the transaction; together with the fact that
  chunks and the tail are written after L.

`DbJournal_proofs`, for files and chunks of any size and any number of operations, flushes
and failures, from `SizeAssumption`, `ValueAssumption`, `StartAssumption`,
`FreeAssumption` (the marks `Free` and `Fresh` of the ghosts are no contents of a block) and
`BufferAssumption`, all from one inductive invariant `JournalInv`:

- `WritesAreRead`, `SpaceStaysDisjoint`, `CommitsAreDurable`, `CancelsRestore`,
  `CrashesAreAtomic`, `FileIsRecoverable`, `BackupsAreComplete`, `JournalGoesFirst`
  (`ReadsOwnWrites`, `SpaceIsDisjoint`, `CommitIsDurable`, `CancelRestores`,
  `CrashIsAtomic`, `Recoverable`, `BackupIsComplete`, `JournalFirst`), each as
  `OneKindStarts /\ Spec => []...`.
- `RecoveryIsRead == OneKindStarts /\ Spec => []RecoveryReads`: whenever the undo or the
  release reads a block as a chunk there is a chunk, and where the undo reads the initial header
  there is one. `UndoBlock`, `UndoFlush` and `FreeChunk` have that as a guard, where the code takes
  what it reads for what it has to be; the theorem says that the guards never keep back a step
  that the code would take. TLC agrees in `failures` and `recovery`; no run repeats it.
- `TransactionsAreAtomic == PowerOnly /\ Spec => ImplementsAtomicStore`.

`OneKindStarts` is a hypothesis about the budgets: in one history the power fails, or
processes are killed and I/O fails, each as often as the budget says, but not both.
It cannot be dropped: with both `Recoverable` is false, which is what the run `two_crashes` shows.
`PowerOnly` leaves out the second kind; the run `recovery` satisfies it.

What the properties say of a file between two transactions is not inductive, because nothing
in it says why an undo that is cut off, a header that is lost, or a chunk
that is half written does no harm. `JournalInv` says, place by place, which database each
header stands for that a crash can leave on the disk (`OnDisk`: that of the file,
and that of the device where it matters):

- `Intact(f, h)`: the chain of header h is there, its chunks do not overlap, lie before
  `free` of h and, in a transaction, after `free` of the old header, which is behind the first chunk.
- `Needed(f, h)` are the blocks that the database of h depends on, `Image(f, h)` is
  that database. The lemma `Frame` carries the proof: what is written to blocks that are not
  needed changes nothing. A block of the old database is not needed once the chain saves it
  (`Guards`), which is why it may be overwritten, restored, and restored again.
- In a transaction (`TxInv`) every header on the disk is the old one, or one of this transaction
  that asks for recovery, possibly an older one with fewer chunks; each stands for
  `before`, and for those chunks that it does not have yet the copies in them
  are those of `before` (`OldDisk`), so that a longer chain gives the same database. A
  block that a flush has overwritten and a command has changed again is saved a second time, with a copy
  that is not the old one: the oldest chunk counts.
- In the undo (`UndoInv`) the blocks that have been written back so far hold what they have to,
  unless an older chunk is still to come (`RestoredTo`). In a commit (`CommitInv`) the
  new header stands for `Changed` and the one on the device for `before`. While
  the chain is given back (`FreeInv`) all headers stand for the same database.
- With killed processes the contents of the device do not matter and the file decides. With power
  failures, in a transaction that has flushed its chain, both must do (`Lasting`).
- The cache, if it has a buffer, holds the database of the transaction, else the file does
  (`DataInv`), and the original of a buffer that is not saved yet is the block of
  `before` (`SavedInv`): what `AddBuffer` puts into a chunk is worth saving.

TLC has found no state of `failures` and `recovery` without `JournalInv`; no run repeats that,
since it takes as long as all other properties together and is proved.

In the refinement a step outside the transaction leaves `Database(file)` alone: what
it writes is not needed by either header. `CommitHeader` is the commit, a flush
after it the `Sync`, and a power failure chooses one of the two headers, which
stand for `db` and `prev`.

`DbBackup_proofs`, for any number of threads, blocks and values, all from one
inductive invariant `Inv`:

- `BackupIsExact == Spec => []SnapshotExact`. Why it holds: a block that is still
  to copy has the content of the start, the others are in the backup
  (`HalfCopied`); the part of an interval before `ofs` is in the backup although
  the set still has it (`IntervalCopied`); a block that is about to be written is not
  to copy any more, because `backup_block` has run under `bi.so` (`SavedInv`). That
  rests on who holds what: `pbackup` names the thread between `Prepared` and
  `Finish`, and `bi.so` lets one side at a time touch the buffer (`OwnerInv`).
- `HeaderIsHeld`, `TransactionIsAlone`, `BackupStaysAlive` (`HeaderHeld`,
  `TransactionAlone`, `BackupAlive`): from `LockInv`, how often a thread is in the
  critical section is a function of where it is, and at most one thread is in it.
- `BackupTypes == Spec => []TypeOK`, which needs `LockInv` for the bounds of
  `depth` and `count`.

`DbLog_proofs`, for a log of any size and any number of changes, from
`LogAssumption` and `~LosesInDoubt`:

- `LogIsRight == Spec => []LogMatches`. LogMatches is not inductive: whether a new header may be
  written over the old one depends on the records that are on the disk, and
  whether an old record may be overwritten on the point the database has. `FilesInv`
  adds that two points with one number are one point (`Ordered`), that the disk
  has the database as it is or exactly one transaction behind, and then the log has finished that
  transaction (`DiskBehind`), and that the log is on its disk up to the last
  point once the database has it (`LogSafe`). `RunInv` says where the records of the
  running transaction are and, place by place of the commit, which of the files agree with their
  disks.
- `RecoveryIsRight == Spec => RecoveryIsExact`: `RecoveryInv` carries the lost
  changes from `Lose`, where they are those of the log by `GoesOn`, through
  repeated replays. Without `~LosesInDoubt` it is false.
- `LogTypes == Spec => []TypeOK`.

`DbTable_proofs`, for any number of processes, handles, tables, indexes, records and
bytes, from `TableAssumption`, `StartAssumption`, `~OpensChanged` and `~ManyOpens`:

- `OpenTablesStay == Spec => []HandlesFresh`. A commit or rollback may change every
  table at once, so that the invariant has to hold of the committed tables as well: a
  table that is open is the same, with regard to its definition, in `tables` and in
  `committed` and in the copy of the handle (`HandlesInv`). A definition is changed only where no
  byte is locked, and every handle has its byte, of its own process (`BytesInv`), which no
  other handle has. An index that is being built is on a table without locks, and stays so, since
  its command has the header lock (`BuildsFree`, `OwnerInv`).

The records, from the same assumptions:

- `IndexesStayRight == Spec => []IndexesAgree`: whenever no command is running, each
  index of a table that has been built has exactly one entry for each record, and
  no other.
- `CommandsAreWhole == Spec => [][CommandIsWhole]_vars`: an insertion, an update or a
  deletion has changed all indexes and the record, or has left the tables as they were.

Neither is inductive, since a command goes through the indexes one by one. `CommandInv` is
what the tables are in the middle of it, as a function of the command, its phase and
the index it has reached: the indexes before that one are those after the command, the
others those before it, and the undo after a duplicate walks this boundary back. That
the entries to take out are there, and that a key put back is not a duplicate, follows
from the agreement of the indexes before the command (`DataInv`). `committed`, to
which a rollback returns, agrees as well (`TxInv`); `StartAssumption` says it of the
tables to begin with.

`DbSuper_proofs`, for files, tables, chunks and alignments of any size, from
`SizeAssumption`; all from one inductive invariant `SpaceInv`:

- `NoBlockIsTwice == Spec => []NoBlockTwice`, `TablesStayInOrder`, `NoInternalErrors`
  (no overlap on insertion, and room in every table that is loaded or halved), `SpaceTypes`.
- `ReleaseMayRestart == Spec => []ReleaseRestarts`.

`SpaceInv` says that the file in memory is `Sound`: what its blocks hold is `Formed`
(super blocks with exactly half a table, chunks of two blocks or more), and its blocks
are `Split` into the ranges of the header, the super blocks with theirs, the chunks and the
blocks in use. An insertion into a super block's table when it is loaded has room because
of the half; an aligned or advised range is one of the table because the table
is not empty then; a super block may be put into the last block of a chunk because
that is not its head. `ReleaseInv` adds, for a release, that the file is `Sound` with its old
header, that it has the same chunk heads as memory, and that all writes which
are not flushed lie inside of chunks and on no head: so it does not matter which of them
a power failure takes. The lemmas about `Inserted`, `TakenFrom`, `Aligned` and
`CutOff` say what each does to the set of blocks of a table. Lists grow and shrink at
their heads only, which `Linked` survives without induction (`LinkedPush`, `LinkedPop`).

The refinement, from the same:

- `TablesAreASet == Spec => ImplementsFreeSpace`. By the invariant the free blocks are
  those before the end that are neither in use nor in a chunk (`FreeIs`), so each
  action is known from what it does to `live`, the chunks and the end of the file. That
  the chunk the release takes is the last one of the file (`FirstIsNewest`) needs one
  more part of `Formed`: a chunk lies behind the one it links to. That a file
  with an empty table and no link has no free block at all, so that `Extend` is
  right, follows from `Linked`.

`DbNode_proofs`, for nodes, keys and blocks of any size, from `SizeAssumption`:

- `SplitFits`: a node that takes more than a block, but less than two blocks without an item, has
  three items and a place to be split, and both halves fit. `Place` is the first place
  from `FirstPlace` on with a right half that fits and is not the larger one; that there is one
  before the last item follows from `4 * MaxItem <= Capacity - Link`. The assumption says
  that four items fit, which is what 116 bytes of a key, a link of 8 and 505 bytes of data give,
  and that the bytes two keys share with a third they share with each other: without
  an item a node takes no more (`FewerBytes`). The bytes before a change stay what they were
  (`HeadBytes`), and so do those behind the item after it (`TailBytes`).

`DbTree_proofs`, for trees of any size and depth, from `SizeAssumption` and
`StartAssumption` (the keys that a run begins with are keys), all from the
inductive invariant `IInv`:

- `AlwaysFormed == Spec => []IInv`.
- `NeverInternalError`, `AlwaysWellFormed`, `NeverNodeLost`, `TreeTypes` (`NoInternalError`,
  `WellFormed`, `NoNodeLost`, `TypeOK`) and `SearchesFind` (`SearchesAgree`).
- `IndexImplemented == Spec => ImplementsIndex`.

The properties of a tree speak of what is reached from the root by recursion, which no
induction of the provers can follow. `Formed` says the same of neighbours only: there are three functions on the
blocks, the level above the leaves, the block of the father, and a set that the keys of the node and of all
below it are in, such that every node agrees with its children (`Linked`, `Leveled`) and each block
but the root has a father (`Owned`). What a split, a merge, a new key or a new root does is then a
change of the three functions at a few blocks, and one lemma for each says so. From the levels and the fathers follows
that a tree that is `Formed` is what the recursive definitions of the properties reach (`Iterates` turns a recursive function
into its rounds).

Between the calls the tree is `Resting`: formed, and each node with an item and not more than a block.
In the middle of a call neither holds. `Calling` says what does: the tree is formed as soon as the item
that is on its way up is put where the next function will put it (`WholeTree`), the open nodes are a way from the root
(`Way`) that goes where the key belongs (`Aimed`), only the node below the last of them may be without items, and then it is `small`.
What the keys of the tree are depends on the place (`Made`, `Taken`): those of the beginning on the way
down; those of the end on the way up; and between `ExtractHere` and `Replace` those of
the beginning without the smallest key behind the one that goes, while the key itself is still in its node.
That it may be put there (`Follows`: no key lies between) is what keeps the order.
For the bytes the induction needs that a node that is `small` fits together with an item and any sibling into
twice a block, that a father gets at most one item more than it had or one item replaced, and that half of a
node that is too large is never empty.

Only model-checked: liveness (`RecoveryCompletes`, `BackupEnds`), which the proof system cannot
do. All other properties of the passing runs have a theorem.

## 5. Plan

Done: the core (DbTransact, AtomicStore), the backup (DbBackup), free space
(DbSuper, FreeSpace), trees (DbNode, DbTree, OrderedIndex), tables, handles and record
commands (DbTable), the log (DbLog). What is left, in this order:

1. `DbDefrag`: two files, a deletion and a rename, cut off between any two steps
   (`defrag.c`).
2. `DbQuery`: a cursor that keeps a key between two calls while other commands insert
   and delete; every record that stays is returned once and in order (`query.c`).
3. `SharedObject` of `thread.c` (lazy initialisation by several threads) and the
   interval sets of `set.c` against sets, which `DbBackup` uses.
4. The 120 seconds of the locks of `dbport.c` as an event.

The theorems of these modules come with them.

## 6. Disagreements met

Each of the first four is a run that ends with a counterexample:

- `two_crashes`: a header that is written and not flushed when its process ends, and a
  power failure in the next transaction, leave a database that cannot be recovered.
- `close_in_transaction`: closing the database during a backup with a transaction open never
  returns.
- `tables_rollback`: a definition is changed and the table opened in one transaction; after the
  rollback the handle has an index that the table does not have, and
  another process may give its name and slot to something else.
- `log_doubt`: a power failure between the header of the log and that of the
  database, and a cancelled transaction after it. Its records lie over those of the first,
  and the header of the log still counts them: the database that the log makes
  then has changes of a transaction that was cancelled. If the database is
  lost at this moment, `db_recover` makes that database.

Two more were seen in the code and have no run:

- `transact.c:446`: an error of the last flush of a commit is returned after the header has been
  written; the transaction is committed, while the manual (885-889) says that it is
  cancelled.
- `transact.c:518`: two threads that close one database during a backup; the second goes
  on with a `DB_INFO` that the first has released, while the manual (991) calls the library
  thread-safe.

## 7. Not modelled

The repository has 366,935 lines, of which the database has about one in twenty-five. Most of the others are
tables and data (bitmaps of fonts, keyboards, instruction encodings), a compiler,
codecs, a GUI and bindings of system calls. They are sequential and convert data to data:
a model of them would be a second implementation, with nothing for an interleaving or a
crash to disturb, and their reference definitions are language and format
standards of their own size. For this reason the share of all lines that the modules
cover is small and cannot be large; of `src/lib/db` they cover the part that
changes state.

Within the database, left out are: queries and defragmentation (section 5);
argument checks and the conversion of field values; the compression of key bytes
beyond its effect on sizes; the chain of blocks of a long record; the comparison of the field list
when a table is opened; the parsing of log records; checksums, which make a torn block an
error of a read; timeouts. For each of the hazards of `PROJECT.json` without a property
its note says why there is none.
