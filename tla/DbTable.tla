------------------------------- MODULE DbTable -------------------------------
(***************************************************************************)
(* Tables, indexes, open tables and records (src/lib/db/table.c, index.c,   *)
(* index2.c, open.c, cmd.c) of one database file that several processes     *)
(* use, with the locks of dbport.c that keep the definition of an open      *)
(* table unchanged.                                                         *)
(*                                                                         *)
(* A B-tree is a set of entries, a key and the first block of a record:     *)
(* DbTree is about the trees.  A transaction is an all or nothing change of *)
(* the file that has it for itself from begin to end: DbTransact is about   *)
(* that.  The locks of open tables are no part of it, they are taken and    *)
(* freed at once.                                                           *)
(***************************************************************************)
EXTENDS Integers, FiniteSets

CONSTANTS
  Process,       \* a db_handle, with a file handle of its own
  TableBlock,    \* blocks for table descriptions, each with its locking block
  DataBlock,     \* blocks for records
  Name,          \* table names
  IndexName,
  Field, Value,
  MaxIndexes,    \* MAX_INDEXES_PER_TABLE
  MaxOpen,       \* MAX_OPEN_TABLES
  MaxByte,       \* last byte of a locking block (511 in the code)
  Blank,         \* in a record's block that is allocated, not yet written
  None,          \* no table, no index, no handle, nobody
  Starts,        \* the databases at the beginning, and how many commands may
                 \* change definitions
  OpensChanged,  \* a table may be opened after its definition was changed in
                 \* the same transaction
  ManyOpens      \* a table may be open more often than there are bytes

ASSUME TableAssumption ==
  /\ MaxIndexes \in Nat \ {0} /\ MaxOpen \in Nat \ {0} /\ MaxByte \in Nat \ {0}
  /\ OpensChanged \in BOOLEAN /\ ManyOpens \in BOOLEAN
  /\ None \notin Process \cup Name

Slot   == 1..MaxIndexes
Byte   == 1..MaxByte
Record == [Field -> Value]

KeyOf(f, r) == [x \in f |-> r[x]]
Key   == UNION {[f -> Value] : f \in SUBSET Field}
Entry == [key: Key, block: DataBlock]
Index == [name: IndexName, fields: SUBSET Field \ {{}}]
Indexes == [Slot -> Index \cup {None}]

ASSUME NoneAssumption ==
  /\ None \notin Index \cup Record /\ Blank \notin Record \cup {None}

Table == [name: Name \cup {None}, index: Indexes, root: [Slot -> SUBSET Entry]]

VARIABLES
  tables,     \* table descriptions and their trees, as the cache shows them
  data,       \* the records
  committed,  \* what a cancelled transaction goes back to
  tx,         \* owner of the header lock, inside_explicit_transaction, transaction_error
  cmd,        \* the command that runs
  reply,      \* what the last command returned
  handles,    \* p->table of each process
  bytes,      \* the locked bytes of the locking blocks
  left        \* changes of definitions that are left

vars == <<tables, data, committed, tx, cmd, reply, handles, bytes, left>>

NoTx      == [owner |-> None, explicit |-> FALSE, error |-> FALSE]
NoCommand == [step |-> "none"]
NoIndexes == [i \in Slot |-> None]
NoRoots   == [i \in Slot |-> {}]
NoTable   == [name |-> None, index |-> NoIndexes, root |-> NoRoots]
Database  == [tables: [TableBlock -> Table],
              data: [DataBlock -> Record \cup {None, Blank}]]

Least(S)    == CHOOSE i \in S : \A j \in S : i <= j
Greatest(S) == CHOOSE i \in S : \A j \in S : i >= j
Defined(index)  == {i \in Slot : index[i] # None}
Lookup(n)       == {t \in TableBlock : tables[t].name = n}
Found(t, i, k)  == {e \in tables[t].root[i] : e.key = k}
Added(t, i, k, b)  == [tables EXCEPT ![t].root[i] = @ \cup {[key |-> k, block |-> b]}]
Removed(t, i, k)   == [tables EXCEPT ![t].root[i] = {e \in @ : e.key # k}]

(* The entries of the first index that is not empty: the code finds the     *)
(* records of a table through it.                                           *)
Entries(T) ==
  LET full == {i \in Slot : T.root[i] # {}}
  IN  IF full = {} THEN {} ELSE T.root[Least(full)]

-----------------------------------------------------------------------------
(* A database with tables T and records D that no command works on: every   *)
(* record of a table is in each of its indexes exactly once, under its own  *)
(* key, the trees hold nothing else, no block is a record of two tables or  *)
(* lost to all or not yet written, and no two tables have one name.         *)
Live(T)      == {t \in TableBlock : T[t].name # None}
Blocks(T, t) == {e.block : e \in Entries(T[t])}

TreesAgree(T, D, t) ==
  \A i \in Slot :
    /\ T[t].root[i] =
         IF T[t].index[i] = None THEN {}
         ELSE {[key |-> KeyOf(T[t].index[i].fields, D[b]), block |-> b] : b \in Blocks(T, t)}
    /\ \A d, e \in T[t].root[i] : d.key = e.key => d = e

Agree(T, D) ==
  /\ \A t \in Live(T) : TreesAgree(T, D, t)
  /\ {b \in DataBlock : D[b] # None} = UNION {Blocks(T, t) : t \in Live(T)}
  /\ \A b \in DataBlock : D[b] # Blank
  /\ \A t, u \in Live(T) : t # u => /\ Blocks(T, t) \cap Blocks(T, u) = {}
                                   /\ T[t].name # T[u].name

ASSUME StartAssumption ==
  \A s \in Starts : /\ [tables |-> s.tables, data |-> s.data] \in Database
                    /\ Agree(s.tables, s.data) /\ s.left \in Nat

Init ==
  /\ \E s \in Starts : tables = s.tables /\ data = s.data /\ left = s.left
  /\ committed = [tables |-> tables, data |-> data]
  /\ tx = NoTx /\ cmd = NoCommand /\ reply = "ok"
  /\ handles = [p \in Process |-> [s \in 1..MaxOpen |-> None]]
  /\ bytes = [t \in TableBlock |-> [b \in Byte |-> None]]

-----------------------------------------------------------------------------
(* Transactions and the frame of a command.                                 *)

(* open_command: a process that has no transaction open waits for the lock  *)
(* of the header; one whose transaction has failed gets its error again.    *)
MayCommand(p) ==
  /\ cmd = NoCommand
  /\ \/ tx.owner = None
     \/ tx.owner = p /\ ~tx.error

(* A command that goes on in further steps, c says with what.               *)
Begun(p, c) ==
  /\ MayCommand(p)
  /\ cmd' = [c EXCEPT !.before = [tables |-> tables, data |-> data]]
  /\ tx' = IF tx.owner = p THEN tx ELSE [NoTx EXCEPT !.owner = p]

Commit(T, D) == committed' = [tables |-> T, data |-> D]

(* Faulty: a command that stopped half way is not undone.                   *)
ClosedHalfWay(rc, T, D) ==
  /\ cmd' = NoCommand /\ reply' = rc
  /\ tables' = T /\ data' = D
  /\ \/ tx.explicit /\ committed' = committed /\ tx' = [tx EXCEPT !.error = rc = "fatal"]
     \/ ~tx.explicit /\ rc # "ok" /\ committed' = committed /\ tx' = NoTx
     \/ ~tx.explicit /\ rc = "ok" /\ Commit(T, D) /\ tx' = NoTx
  /\ UNCHANGED <<handles, bytes, left>>

(* close_command at the end of such a command, which leaves T and D.        *)
Closed(rc, T, D) ==
  /\ cmd' = NoCommand /\ reply' = rc
  /\ \/ /\ tx.explicit
        /\ tables' = T /\ data' = D /\ committed' = committed
        /\ tx' = [tx EXCEPT !.error = (rc \in {"fatal", "internal"})]
     \/ /\ ~tx.explicit /\ rc = "ok"
        /\ tables' = T /\ data' = D /\ Commit(T, D) /\ tx' = NoTx
     \/ /\ ~tx.explicit /\ rc # "ok"
        /\ tables' = committed.tables /\ data' = committed.data
        /\ committed' = committed /\ tx' = NoTx
  /\ UNCHANGED <<handles, bytes, left>>

(* A command that succeeds and is one step here.                            *)
Performed(p, T, D) ==
  /\ MayCommand(p)
  /\ tables' = T /\ data' = D /\ reply' = "ok"
  /\ IF tx.owner = p THEN committed' = committed ELSE Commit(T, D)
  /\ UNCHANGED <<tx, cmd>>

(* A step inside a command, which leaves T.                                 *)
Stepped(T, c) ==
  /\ tables' = T /\ cmd' = c
  /\ UNCHANGED <<data, committed, tx, reply, handles, bytes, left>>

Begin(p) ==
  /\ cmd = NoCommand /\ tx.owner = None
  /\ tx' = [owner |-> p, explicit |-> TRUE, error |-> FALSE]
  /\ UNCHANGED <<tables, data, committed, cmd, reply, handles, bytes, left>>

InTransaction(p) == cmd = NoCommand /\ tx.owner = p

End(p) ==
  /\ InTransaction(p)
  /\ \/ /\ ~tx.error /\ Commit(tables, data) /\ reply' = "ok"
        /\ UNCHANGED <<tables, data>>
     \/ /\ tx.error /\ reply' = "fatal"
        /\ tables' = committed.tables /\ data' = committed.data
        /\ UNCHANGED committed
  /\ tx' = NoTx
  /\ UNCHANGED <<cmd, handles, bytes, left>>

Rollback(p) ==
  /\ InTransaction(p)
  /\ tables' = committed.tables /\ data' = committed.data
  /\ tx' = NoTx /\ reply' = "ok"
  /\ UNCHANGED <<committed, cmd, handles, bytes, left>>

(* A read, a write or an allocation fails: the command gives up where it is.*)
Fault(p) ==
  \/ /\ cmd # NoCommand /\ tx.owner = p
     /\ Closed("fatal", tables, data)
  \/ /\ InTransaction(p)
     /\ tx' = [tx EXCEPT !.error = TRUE] /\ reply' = "fatal"
     /\ UNCHANGED <<tables, data, committed, cmd, handles, bytes, left>>

(* db_close_database, or the end of the process: its locks go.              *)
Stop(p) ==
  /\ handles' = [handles EXCEPT ![p] = [s \in 1..MaxOpen |-> None]]
  /\ bytes' = [t \in TableBlock |->
                 [b \in Byte |-> IF bytes[t][b] = p THEN None ELSE bytes[t][b]]]
  /\ \/ /\ tx.owner = p
        /\ tables' = committed.tables /\ data' = committed.data
        /\ tx' = NoTx /\ cmd' = NoCommand /\ reply' = "stopped"
     \/ tx.owner # p /\ UNCHANGED <<tables, data, tx, cmd, reply>>
  /\ UNCHANGED <<committed, left>>

-----------------------------------------------------------------------------
(* Open tables.                                                             *)

(* Faulty: only the first byte is looked at.                                *)
UnlockedAtFirst(t) == bytes[t][1] = None

(* __db_lock_exclusive succeeds: nobody has a byte of the block.  The lock  *)
(* is freed at once (try_exclusive_lock); byte 0 is locked only inside      *)
(* db_open_table, whose transaction keeps other processes out.              *)
Unlocked(t) == \A b \in Byte : bytes[t][b] = None

(* __db_lock_share: the first free byte, and the last one, without a lock,  *)
(* if none is free.                                                         *)
ByteFor(t) ==
  LET free == {b \in Byte : bytes[t][b] = None}
  IN  IF free = {} THEN MaxByte ELSE Least(free)

SameDefinition(t) ==
  committed.tables[t].name # None /\ committed.tables[t].index = tables[t].index

OpenTable(p, s, n) ==
  /\ MayCommand(p) /\ handles[p][s] = None
  /\ \E t \in Lookup(n) :
       LET b == ByteFor(t)
       IN  /\ OpensChanged \/ SameDefinition(t)
           /\ ManyOpens \/ bytes[t][b] = None
           /\ bytes' = IF bytes[t][b] = None THEN [bytes EXCEPT ![t][b] = p] ELSE bytes
           /\ handles' = [handles EXCEPT ![p][s] =
                            [table |-> t, byte |-> b, index |-> tables[t].index]]
  /\ reply' = "ok"
  /\ UNCHANGED <<tables, data, committed, tx, cmd, left>>

(* No transaction: the lock goes at once.  Freeing a byte that the process  *)
(* has not locked is an error, and the table stays open.                    *)
CloseTable(p, s) ==
  /\ handles[p][s] # None
  /\ cmd # NoCommand => tx.owner # p
  /\ LET h == handles[p][s]
     IN  /\ bytes[h.table][h.byte] = p
         /\ bytes' = [bytes EXCEPT ![h.table][h.byte] = None]
  /\ handles' = [handles EXCEPT ![p][s] = None]
  /\ UNCHANGED <<tables, data, committed, tx, cmd, reply, left>>

-----------------------------------------------------------------------------
(* Definitions.                                                             *)

Define == left > 0 /\ left' = left - 1 /\ UNCHANGED <<handles, bytes>>

CreateTable(p, n, t) ==
  /\ Lookup(n) = {} /\ tables[t].name = None
  /\ Performed(p, [tables EXCEPT ![t] =
                     [name |-> n, index |-> NoIndexes, root |-> NoRoots]], data)
  /\ Define

RenameTable(p, n, m) ==
  /\ m = n \/ Lookup(m) = {}
  /\ \E t \in Lookup(n) :
       /\ Unlocked(t)
       /\ Performed(p, [tables EXCEPT ![t].name = m], data)
  /\ Define

(* The records go with the first tree that is not empty.                    *)
DeleteTable(p, n) ==
  /\ \E t \in Lookup(n) :
       /\ Unlocked(t)
       /\ Performed(p, [tables EXCEPT ![t] = NoTable],
                    [b \in DataBlock |->
                       IF \E e \in Entries(tables[t]) : e.block = b
                       THEN None ELSE data[b]])
  /\ Define

IndexNamed(t, i) == {j \in Defined(tables[t].index) : tables[t].index[j].name = i}

RenameIndex(p, n, i, k) ==
  /\ \E t \in Lookup(n) :
       /\ Unlocked(t)
       /\ k = i \/ IndexNamed(t, k) = {}
       /\ \E j \in IndexNamed(t, i) :
            Performed(p, [tables EXCEPT ![t].index[j].name = k], data)
  /\ Define

(* Faulty: the last index goes although the table has records.              *)
DeleteAnyIndex(p, n, i) ==
  /\ \E t \in Lookup(n) :
       /\ Unlocked(t)
       /\ \E j \in IndexNamed(t, i) :
            Performed(p, [tables EXCEPT ![t].index[j] = None, ![t].root[j] = {}], data)
  /\ Define

DeleteIndex(p, n, i) ==
  /\ \E t \in Lookup(n) :
       /\ Unlocked(t)
       /\ \E j \in IndexNamed(t, i) :
            /\ Cardinality(Defined(tables[t].index)) # 1 \/ tables[t].root[j] = {}
            /\ Performed(p, [tables EXCEPT ![t].index[j] = None, ![t].root[j] = {}], data)
  /\ Define

CreateIndex(p, n, i, f) ==
  /\ left > 0 /\ left' = left - 1
  /\ \E t \in Lookup(n) :
       /\ Unlocked(t) /\ IndexNamed(t, i) = {}
       /\ Slot \ Defined(tables[t].index) # {}
       /\ Begun(p, [step |-> "build", table |-> t, todo |-> Entries(tables[t]),
                    slot |-> Least(Slot \ Defined(tables[t].index)),
                    new |-> [name |-> i, fields |-> f], before |-> None])
  /\ UNCHANGED <<tables, data, committed, reply, handles, bytes>>

(* recursive_build_index: one record of the old index.  A key that is there *)
(* already ends the command, without the tree that was begun.               *)
BuildKey ==
  /\ cmd.step = "build"
  /\ \E e \in cmd.todo :
       LET k == KeyOf(cmd.new.fields, data[e.block])
       IN  \/ /\ Found(cmd.table, cmd.slot, k) = {}
              /\ Stepped(Added(cmd.table, cmd.slot, k, e.block),
                         [cmd EXCEPT !.todo = @ \ {e}])
           \/ /\ Found(cmd.table, cmd.slot, k) # {}
              /\ Closed("logical",
                        [tables EXCEPT ![cmd.table].root[cmd.slot] = {}], data)

BuildEnd ==
  /\ cmd.step = "build" /\ cmd.todo = {}
  /\ Closed("ok", [tables EXCEPT ![cmd.table].index[cmd.slot] = cmd.new], data)

-----------------------------------------------------------------------------
(* Records.  A command works with the copy of the indexes that the open of  *)
(* the table made; the roots of their trees are in the table description.   *)
(* What it does through a handle of a table that is gone is left out.       *)

Uses(p, s) == handles[p][s] # None /\ tables[handles[p][s].table].name # None

RecordCommand(p, s, step, block, old, new, todo, T, D) ==
  /\ Begun(p, [step |-> step, table |-> handles[p][s].table,
               index |-> handles[p][s].index, todo |-> todo,
               block |-> block, old |-> old, new |-> new, before |-> None])
  /\ tables' = T /\ data' = D
  /\ UNCHANGED <<committed, reply, handles, bytes, left>>

KeyIn(i, r) == KeyOf(cmd.index[i].fields, r)
Further(c)  == [c EXCEPT !.todo = @ \ {Least(@)}]

(* Faulty: takes the duplicate out too, which is another record's.          *)
EarlierOrSame(S, i) == {j \in S : j <= i}

(* Those of the indexes S in which a command has added its key before i.    *)
Earlier(S, i) == {j \in S : j < i}

InsertBegin(p, s, r, b) ==
  /\ Uses(p, s) /\ Defined(handles[p][s].index) # {} /\ data[b] = None
  /\ RecordCommand(p, s, "insert", b, None, r, Defined(handles[p][s].index),
                   tables, [data EXCEPT ![b] = Blank])

InsertKey ==
  /\ cmd.step = "insert" /\ cmd.todo # {}
  /\ LET i == Least(cmd.todo)
         k == KeyIn(i, cmd.new)
     IN  \/ /\ Found(cmd.table, i, k) = {}
            /\ Stepped(Added(cmd.table, i, k, cmd.block), Further(cmd))
         \/ /\ Found(cmd.table, i, k) # {}
            /\ Stepped(tables, [cmd EXCEPT !.step = "insertUndo",
                                           !.todo = Earlier(Defined(cmd.index), i)])

InsertUndo ==
  /\ cmd.step = "insertUndo" /\ cmd.todo # {}
  /\ LET i == Least(cmd.todo)
         k == KeyIn(i, cmd.new)
     IN  \/ Found(cmd.table, i, k) = {} /\ Closed("internal", tables, data)
         \/ /\ Found(cmd.table, i, k) # {}
            /\ Stepped(Removed(cmd.table, i, k), Further(cmd))

InsertUndone ==
  /\ cmd.step = "insertUndo" /\ cmd.todo = {}
  /\ Closed("logical", tables, [data EXCEPT ![cmd.block] = None])

InsertData ==
  /\ cmd.step = "insert" /\ cmd.todo = {}
  /\ Closed("ok", tables, [data EXCEPT ![cmd.block] = cmd.new])

(* The record with the key that r has in the index j of the handle.        *)
Reached(p, s, j, r) ==
  IF Uses(p, s) /\ j \in Defined(handles[p][s].index)
  THEN Found(handles[p][s].table, j, KeyOf(handles[p][s].index[j].fields, r))
  ELSE {}

DeleteBegin(p, s, j, r) ==
  \E e \in Reached(p, s, j, r) :
    RecordCommand(p, s, "delete", e.block, data[e.block], None,
                  Defined(handles[p][s].index) \ {j},
                  Removed(handles[p][s].table, j, e.key), data)

(* Takes the old key of the record out of the next index.                   *)
Drop ==
  LET i == Least(cmd.todo)
      k == KeyIn(i, cmd.old)
  IN  \/ /\ \A e \in Found(cmd.table, i, k) : e.block # cmd.block
         /\ Closed("internal", tables, data)
      \/ /\ \E e \in Found(cmd.table, i, k) : e.block = cmd.block
         /\ Stepped(Removed(cmd.table, i, k), Further(cmd))

DeleteKey == cmd.step = "delete" /\ cmd.todo # {} /\ Drop

DeleteData ==
  /\ cmd.step = "delete" /\ cmd.todo = {}
  /\ Closed("ok", tables, [data EXCEPT ![cmd.block] = None])

(* The indexes in which the two records have different keys.  The current   *)
(* index is none of them, the record was found by its key there.            *)
Changed(index, old, new) ==
  {i \in Defined(index) : KeyOf(index[i].fields, old) # KeyOf(index[i].fields, new)}

UpdateBegin(p, s, j, r) ==
  \E e \in Reached(p, s, j, r) :
    RecordCommand(p, s, "update", e.block, data[e.block], r,
                  Changed(handles[p][s].index, data[e.block], r), tables, data)

UpdateKey ==
  /\ cmd.step = "update" /\ cmd.todo # {}
  /\ LET i == Least(cmd.todo)
         k == KeyIn(i, cmd.new)
     IN  \/ /\ Found(cmd.table, i, k) = {}
            /\ Stepped(Added(cmd.table, i, k, cmd.block), Further(cmd))
         \/ /\ Found(cmd.table, i, k) # {}
            /\ Stepped(tables,
                       [cmd EXCEPT !.step = "updateUndo",
                          !.todo = Earlier(Changed(cmd.index, cmd.old, cmd.new), i)])

UpdateUndo ==
  /\ cmd.step = "updateUndo" /\ cmd.todo # {}
  /\ LET i == Greatest(cmd.todo)
         k == KeyIn(i, cmd.new)
     IN  \/ /\ \A e \in Found(cmd.table, i, k) : e.block # cmd.block
            /\ Closed("internal", tables, data)
         \/ /\ \E e \in Found(cmd.table, i, k) : e.block = cmd.block
            /\ Stepped(Removed(cmd.table, i, k), [cmd EXCEPT !.todo = @ \ {i}])

UpdateUndone ==
  /\ cmd.step = "updateUndo" /\ cmd.todo = {}
  /\ Closed("logical", tables, data)

UpdateAdded ==
  /\ cmd.step = "update" /\ cmd.todo = {}
  /\ Stepped(tables, [cmd EXCEPT !.step = "updateDrop",
                                 !.todo = Changed(cmd.index, cmd.old, cmd.new)])

UpdateDrop == cmd.step = "updateDrop" /\ cmd.todo # {} /\ Drop

UpdateData ==
  /\ cmd.step = "updateDrop" /\ cmd.todo = {}
  /\ Closed("ok", tables, [data EXCEPT ![cmd.block] = cmd.new])

-----------------------------------------------------------------------------
Transaction(p) == Begin(p) \/ End(p) \/ Rollback(p) \/ Fault(p) \/ Stop(p)

Definition(p) ==
  \E n \in Name :
    \/ \E t \in TableBlock : CreateTable(p, n, t)
    \/ \E m \in Name : RenameTable(p, n, m)
    \/ DeleteTable(p, n)
    \/ \E i \in IndexName :
         \/ \E k \in IndexName : RenameIndex(p, n, i, k)
         \/ DeleteIndex(p, n, i)
         \/ \E f \in SUBSET Field \ {{}} : CreateIndex(p, n, i, f)

HandleCall(p) ==
  \E s \in 1..MaxOpen :
    \/ \E n \in Name : OpenTable(p, s, n)
    \/ CloseTable(p, s)
    \/ \E r \in Record :
         \/ \E b \in DataBlock : InsertBegin(p, s, r, b)
         \/ \E j \in Slot : DeleteBegin(p, s, j, r) \/ UpdateBegin(p, s, j, r)

Going == \/ BuildKey \/ BuildEnd
         \/ InsertKey \/ InsertUndo \/ InsertUndone \/ InsertData
         \/ DeleteKey \/ DeleteData
         \/ UpdateKey \/ UpdateUndo \/ UpdateUndone \/ UpdateAdded
         \/ UpdateDrop \/ UpdateData

Next == Going \/ \E p \in Process : Transaction(p) \/ Definition(p) \/ HandleCall(p)

Spec == Init /\ [][Next]_vars

-----------------------------------------------------------------------------
CommandType ==
  LET Todo == SUBSET Slot IN
  {NoCommand}
  \cup [step: {"build"}, table: TableBlock, slot: Slot, new: Index,
        todo: SUBSET Entry, before: Database]
  \cup [step: {"insert", "insertUndo"}, table: TableBlock, index: Indexes, todo: Todo,
        block: DataBlock, old: {None}, new: Record, before: Database]
  \cup [step: {"delete"}, table: TableBlock, index: Indexes, todo: Todo,
        block: DataBlock, old: Record, new: {None}, before: Database]
  \cup [step: {"update", "updateUndo", "updateDrop"}, table: TableBlock, index: Indexes,
        todo: Todo, block: DataBlock, old: Record, new: Record, before: Database]

(* Types of the variables; a running command belongs to a transaction, and  *)
(* without one the tables are the committed ones.                           *)
TypeOK ==
  /\ [tables |-> tables, data |-> data] \in Database
  /\ committed \in Database
  /\ tx \in [owner: Process \cup {None}, explicit: BOOLEAN, error: BOOLEAN]
  /\ cmd \in CommandType
  /\ reply \in {"ok", "logical", "fatal", "internal", "stopped"}
  /\ handles \in [Process -> [1..MaxOpen ->
                    [table: TableBlock, byte: Byte, index: Indexes] \cup {None}]]
  /\ bytes \in [TableBlock -> [Byte -> Process \cup {None}]]
  /\ left \in Nat
  /\ cmd # NoCommand => tx.owner # None
  /\ tx.owner = None => committed = [tables |-> tables, data |-> data]

(* An open table exists and has the indexes that the handle remembers       *)
(* (open.c, the copy of the index descriptions; the locks of dbport.c are   *)
(* there for this): otherwise a record would miss in an index, or be        *)
(* written into the blocks of something else.                               *)
HandlesFresh ==
  \A p \in Process, s \in 1..MaxOpen :
    LET h == handles[p][s] IN
    h # None => tables[h.table].name # None /\ tables[h.table].index = h.index

(* Between two commands every record of a table is in each of its indexes   *)
(* exactly once, under its own key (cmd.c, index2.c), and no block is lost  *)
(* or in two tables: nothing that an error, a duplicate key or a rollback   *)
(* leaves behind makes an index and a record disagree.                      *)
IndexesAgree == (cmd = NoCommand /\ ~tx.error) => Agree(tables, data)

Records(db, t) == {db.data[e.block] : e \in Entries(db.tables[t])}

(* What a command that succeeds has done to the records of its table.       *)
Effect(c, T, D) ==
  LET now == Records([tables |-> T, data |-> D], c.table)
      old == Records(c.before, c.table)
  IN  CASE c.step = "insert"     -> now = old \cup {c.new} /\ c.new \notin old
        [] c.step = "delete"     -> now = old \ {c.old} /\ c.old \in old
        [] c.step = "updateDrop" -> now = (old \ {c.old}) \cup {c.new}
        [] c.step = "build"      -> now = old

(* A command is all or nothing also where nothing rolls it back: when it    *)
(* meets a duplicate key in one of several indexes it leaves everything as  *)
(* it was, in an explicit transaction too (cmd.c:210-255, :810-890,         *)
(* index.c:300-320), when it succeeds the table has exactly the change, and *)
(* none of the E_INTERN errors happens.                                     *)
CommandIsWhole ==
  [][(cmd # NoCommand /\ cmd' = NoCommand) =>
       /\ reply' # "internal"
       /\ reply' = "logical" => [tables |-> tables', data |-> data'] = cmd.before
       /\ reply' = "ok" => Effect(cmd, tables', data')]_vars
=============================================================================
