---------------------------- MODULE DbTable_proofs ----------------------------
(***************************************************************************)
(* What holds of DbTable for every set of processes, tables, records and    *)
(* indexes, when no table is opened in the transaction that changed its     *)
(* definition and none is open more often than its locking block has bytes. *)
(***************************************************************************)
EXTENDS DbTable, WellFoundedInduction, FiniteSetTheorems, TLAPS

(* A table description has its three parts.                                 *)
Described(T) ==
  /\ DOMAIN T = TableBlock
  /\ \A t \in TableBlock : DOMAIN T[t] = {"name", "index", "root"}

ShapeInv ==
  /\ Described(tables) /\ Described(committed.tables)
  /\ bytes \in [TableBlock -> [Byte -> Process \cup {None}]]
  /\ DOMAIN handles = Process /\ \A p \in Process : DOMAIN handles[p] = 1..MaxOpen
  /\ "owner" \in DOMAIN tx

(* Without a transaction no command runs, and the tables are committed.     *)
OwnerInv == tx.owner = None => tables = committed.tables /\ cmd = NoCommand

Same(T, U, t) == T[t].name = U[t].name /\ T[t].index = U[t].index

(* The table of a handle is there and as it was opened.                     *)
HasTable(T, h) == T[h.table].name # None /\ T[h.table].index = h.index

(* The process of a handle holds its byte; no change that waits for the end *)
(* of the transaction touches the table, so that nothing that ends it does. *)
HandlesInv ==
  \A p \in Process, s \in 1..MaxOpen :
    LET h == handles[p][s] IN
    h # None =>
      /\ h.table \in TableBlock /\ h.byte \in Byte /\ bytes[h.table][h.byte] = p
      /\ HasTable(tables, h) /\ HasTable(committed.tables, h)

(* Two handles of a process never share a byte: closing one of them would   *)
(* free the table of the other.                                             *)
BytesInv ==
  \A p \in Process : \A r, s \in 1..MaxOpen :
    handles[p][r] # None /\ handles[p][s] # None
    /\ handles[p][r].table = handles[p][s].table
    /\ handles[p][r].byte = handles[p][s].byte => r = s

(* Nobody has the table open of which an index is built.                    *)
BuildsFree(c) ==
  /\ "step" \in DOMAIN c
  /\ c.step = "build" => "table" \in DOMAIN c /\ c.table \in TableBlock /\ Unlocked(c.table)

Inv == ShapeInv /\ OwnerInv /\ HandlesInv /\ BytesInv /\ BuildsFree(cmd)

(* Tables that may take the place of the tables, or of the committed ones.  *)
Open(t) == \E p \in Process, s \in 1..MaxOpen : handles[p][s] # None /\ handles[p][s].table = t

Kept(T) ==
  /\ Described(T)
  /\ \A t \in TableBlock : Open(t) => Same(T, tables, t) \/ Same(T, committed.tables, t)

-----------------------------------------------------------------------------
LEMMA LeastIn ==
  ASSUME NEW S \in SUBSET Nat, S # {}
  PROVE  Least(S) \in S /\ \A j \in S : Least(S) <= j
<1> DEFINE R == OpToRel(<, Nat)
<1>1. IsWellFoundedOn(R, Nat)
  BY NatLessThanWellFounded
<1>2. \A x, y \in Nat : <<x, y>> \in R <=> x < y
  BY DEF OpToRel
<1> HIDE DEF R
<1>3. PICK x \in S : \A y \in S : ~ (<<y, x>> \in R)
  <2>1. S \subseteq Nat
    OBVIOUS
  <2> QED
    BY <1>1, <2>1, WFMin, Zenon
<1>4. \A y \in S : x <= y
  <2> SUFFICES ASSUME NEW y \in S PROVE x <= y
    OBVIOUS
  <2>1. x \in Nat /\ y \in Nat
    OBVIOUS
  <2>2. ~(<<y, x>> \in R)
    BY <1>3
  <2>3. ~(y < x)
    BY <1>2, <2>1, <2>2, Zenon
  <2> QED
    BY <2>1, <2>3
<1> QED
  BY <1>3, <1>4 DEF Least

LEMMA UnlockedClosed ==
  ASSUME TableAssumption, Inv, NEW t \in TableBlock,
         Unlocked(t) \/ tables[t].name = None
  PROVE  ~Open(t)
<1> SUFFICES ASSUME NEW p \in Process, NEW s \in 1..MaxOpen,
                    handles[p][s] # None, handles[p][s].table = t
             PROVE  FALSE
  BY DEF Open
<1>1. handles[p][s].byte \in Byte /\ bytes[t][handles[p][s].byte] = p /\ tables[t].name # None
  BY DEF Inv, HandlesInv, HasTable
<1>2. p # None
  BY DEF TableAssumption
<1> QED
  BY <1>1, <1>2 DEF Unlocked

LEMMA KeptAsIs ==
  ASSUME Inv
  PROVE  Kept(tables) /\ Kept(committed.tables)
BY DEF Inv, ShapeInv, Kept, Same

LEMMA KeptRoot ==
  ASSUME Inv, NEW t, NEW i, NEW e
  PROVE  Kept([tables EXCEPT ![t].root[i] = e])
<1> DEFINE T == [tables EXCEPT ![t].root[i] = e]
<1>1. Described(tables)
  BY DEF Inv, ShapeInv
<1>2. Described(T)
  BY <1>1 DEF Described
<1>3. \A u \in TableBlock : Same(T, tables, u)
  BY <1>1 DEF Same, Described
<1> QED
  BY <1>2, <1>3 DEF Kept

LEMMA KeptEntries ==
  ASSUME Inv, NEW t, NEW i, NEW k
  PROVE  /\ \A b : Kept(Added(t, i, k, b))
         /\ Kept(Removed(t, i, k))
BY KeptRoot DEF Added, Removed

LEMMA KeptElse ==
  ASSUME Inv, NEW t \in TableBlock, ~Open(t), NEW T, Described(T),
         \A u \in TableBlock \ {t} : T[u] = tables[u]
  PROVE  Kept(T)
BY DEF Kept, Same

(* What a step does that touches no handle.                                 *)
LEMMA HandlesStay ==
  ASSUME Inv, UNCHANGED <<handles, bytes>>, Kept(tables'), Kept(committed'.tables)
  PROVE  HandlesInv' /\ BytesInv'
<1>1. BytesInv'
  BY DEF Inv, BytesInv
<1>2. HandlesInv'
  <2> SUFFICES ASSUME NEW p \in Process, NEW s \in 1..MaxOpen, handles[p][s] # None
               PROVE  LET h == handles[p][s] IN
                      /\ h.table \in TableBlock /\ h.byte \in Byte /\ bytes[h.table][h.byte] = p
                      /\ HasTable(tables', h) /\ HasTable(committed'.tables, h)
    BY DEF HandlesInv, HasTable
  <2> DEFINE h == handles[p][s]
  <2>1. /\ h.table \in TableBlock /\ h.byte \in Byte /\ bytes[h.table][h.byte] = p
        /\ HasTable(tables, h) /\ HasTable(committed.tables, h)
    BY DEF Inv, HandlesInv
  <2>2. Open(h.table)
    BY DEF Open
  <2>3. HasTable(tables', h) /\ HasTable(committed'.tables, h)
    BY <2>1, <2>2 DEF Kept, Same, HasTable
  <2> QED
    BY <2>1, <2>3
<1> QED
  BY <1>1, <1>2

LEMMA ShapeStays ==
  ASSUME Inv, UNCHANGED <<handles, bytes>>, Kept(tables'), Kept(committed'.tables),
         "owner" \in DOMAIN tx'
  PROVE  ShapeInv'
BY DEF Inv, ShapeInv, Kept, Described

-----------------------------------------------------------------------------
(* The frame of a command.                                                  *)

LEMMA NoCommandFree ==
  BuildsFree(NoCommand) /\ NoCommand.step = "none"
BY DEF BuildsFree, NoCommand

LEMMA FreeStays ==
  ASSUME NEW c, BuildsFree(c), UNCHANGED bytes, cmd' = c
  PROVE  BuildsFree(cmd)'
BY DEF BuildsFree, Unlocked

LEMMA NoTxOwner ==
  /\ "owner" \in DOMAIN NoTx
  /\ \A p : LET x == [NoTx EXCEPT !.owner = p] IN x.owner = p /\ "owner" \in DOMAIN x
BY DEF NoTx

LEMMA ErrorSet ==
  ASSUME NEW x, "owner" \in DOMAIN x
  PROVE  \A e : [x EXCEPT !.error = e].owner = x.owner /\ "owner" \in DOMAIN [x EXCEPT !.error = e]
OBVIOUS

LEMMA ClosedStep ==
  ASSUME TableAssumption, Inv, NEW rc, NEW T, NEW D, cmd # NoCommand, Kept(T), Closed(rc, T, D)
  PROVE  Inv'
<1>1. cmd' = NoCommand /\ UNCHANGED <<handles, bytes>> /\ tx.owner # None
  BY DEF Closed, Inv, OwnerInv
<1>2. "owner" \in DOMAIN tx
  BY DEF Inv, ShapeInv
<1>3. /\ Kept(tables') /\ Kept(committed'.tables) /\ OwnerInv'
      /\ "owner" \in DOMAIN tx'
  <2>1. CASE /\ tables' = T /\ committed' = committed
             /\ tx' = [tx EXCEPT !.error = (rc \in {"fatal", "internal"})]
    <3>1. /\ tx'.owner = tx.owner
          /\ "owner" \in DOMAIN tx'
      BY <1>2, <2>1, ErrorSet, Zenon
    <3> QED
      BY <1>1, <2>1, <3>1, KeptAsIs DEF OwnerInv
  <2>2. CASE tables' = T /\ Commit(T, D) /\ tx' = NoTx
    <3>1. committed'.tables = T
      BY <2>2 DEF Commit
    <3> QED
      BY <1>1, <2>2, <3>1, NoTxOwner DEF OwnerInv
  <2>3. CASE tables' = committed.tables /\ committed' = committed /\ tx' = NoTx
    <3>1. tables' = committed'.tables
      BY <2>3
    <3> QED
      BY <1>1, <2>3, <3>1, NoTxOwner, KeptAsIs DEF OwnerInv
  <2> QED
    BY <2>1, <2>2, <2>3 DEF Closed
<1>4. BuildsFree(cmd)'
  BY <1>1, NoCommandFree, FreeStays
<1> QED
  BY <1>1, <1>3, <1>4, ShapeStays, HandlesStay DEF Inv

LEMMA SteppedStep ==
  ASSUME TableAssumption, Inv, NEW T, NEW c, cmd # NoCommand, Kept(T), Stepped(T, c),
         BuildsFree(c)
  PROVE  Inv'
<1>1. /\ cmd' = c /\ tables' = T /\ tx.owner # None
      /\ UNCHANGED <<committed, tx, handles, bytes>>
  BY DEF Stepped, Inv, OwnerInv
<1>2. Kept(tables') /\ Kept(committed'.tables) /\ OwnerInv'
  BY <1>1, KeptAsIs DEF OwnerInv
<1>3. BuildsFree(cmd)'
  BY <1>1, FreeStays
<1>4. "owner" \in DOMAIN tx'
  BY <1>1 DEF Inv, ShapeInv
<1> QED
  BY <1>1, <1>2, <1>3, <1>4, ShapeStays, HandlesStay DEF Inv

LEMMA PerformedStep ==
  ASSUME TableAssumption, Inv, NEW p \in Process, NEW T, NEW D, Kept(T), Performed(p, T, D),
         UNCHANGED <<handles, bytes>>
  PROVE  Inv'
<1>1. /\ cmd = NoCommand /\ tables' = T /\ UNCHANGED <<tx, cmd>> /\ tx.owner \in {None, p}
  BY DEF Performed, MayCommand
<1>2. p # None
  BY DEF TableAssumption
<1>3. Kept(tables') /\ Kept(committed'.tables) /\ OwnerInv'
  <2>1. CASE tx.owner = p /\ committed' = committed
    BY <1>1, <1>2, <2>1, KeptAsIs DEF OwnerInv
  <2>2. CASE tx.owner # p /\ Commit(T, D)
    <3>1. committed'.tables = T
      BY <2>2 DEF Commit
    <3> QED
      BY <1>1, <3>1 DEF OwnerInv
  <2> QED
    BY <2>1, <2>2 DEF Performed
<1>4. BuildsFree(cmd)'
  BY <1>1, NoCommandFree, FreeStays
<1>5. "owner" \in DOMAIN tx'
  BY <1>1 DEF Inv, ShapeInv
<1> QED
  BY <1>3, <1>4, <1>5, ShapeStays, HandlesStay DEF Inv

LEMMA BegunStep ==
  ASSUME TableAssumption, Inv, NEW p \in Process, NEW c, Begun(p, c),
         Kept(tables'), UNCHANGED <<committed, handles, bytes>>,
         BuildsFree([c EXCEPT !.before = [tables |-> tables, data |-> data]])
  PROVE  Inv'
<1>1. /\ cmd' = [c EXCEPT !.before = [tables |-> tables, data |-> data]]
      /\ tx' = IF tx.owner = p THEN tx ELSE [NoTx EXCEPT !.owner = p]
  BY DEF Begun
<1>2. /\ "owner" \in DOMAIN tx'
      /\ tx'.owner = p /\ p # None
  BY <1>1, NoTxOwner DEF Inv, ShapeInv, NoTx, TableAssumption
<1>3. Kept(committed'.tables) /\ OwnerInv'
  BY <1>2, KeptAsIs DEF OwnerInv
<1>4. BuildsFree(cmd)'
  BY <1>1, FreeStays
<1> QED
  BY <1>2, <1>3, <1>4, ShapeStays, HandlesStay DEF Inv

-----------------------------------------------------------------------------
(* Transactions.                                                            *)

(* A step after which no command runs and a transaction is open or not.     *)
LEMMA TransactionStep ==
  ASSUME TableAssumption, Inv, cmd' = NoCommand, "owner" \in DOMAIN tx',
         UNCHANGED <<handles, bytes>>, Kept(tables'), Kept(committed'.tables),
         tx'.owner = None => tables' = committed'.tables
  PROVE  Inv'
<1>1. BuildsFree(cmd)'
  BY NoCommandFree, FreeStays
<1> QED
  BY <1>1, ShapeStays, HandlesStay DEF Inv, OwnerInv

LEMMA BeginStep ==
  ASSUME TableAssumption, Inv, NEW p \in Process, Begin(p)
  PROVE  Inv'
<1>1. /\ cmd' = NoCommand /\ tx' = [owner |-> p, explicit |-> TRUE, error |-> FALSE]
      /\ UNCHANGED <<tables, committed, handles, bytes>> /\ p # None
  BY DEF Begin, TableAssumption
<1> QED
  BY <1>1, KeptAsIs, TransactionStep

LEMMA EndStep ==
  ASSUME TableAssumption, Inv, NEW p \in Process, End(p) \/ Rollback(p)
  PROVE  Inv'
<1>1. cmd' = NoCommand /\ tx' = NoTx /\ UNCHANGED <<handles, bytes>>
  BY DEF End, Rollback, InTransaction
<1>2. /\ tables' = committed'.tables
      /\ committed'.tables = tables \/ committed'.tables = committed.tables
  BY DEF End, Rollback, Commit
<1>3. Kept(tables') /\ Kept(committed'.tables)
  BY <1>2, KeptAsIs
<1> QED
  BY <1>1, <1>2, <1>3, NoTxOwner, TransactionStep

LEMMA FaultStep ==
  ASSUME TableAssumption, Inv, NEW p \in Process, Fault(p)
  PROVE  Inv'
<1>1. CASE cmd # NoCommand /\ Closed("fatal", tables, data)
  BY <1>1, KeptAsIs, ClosedStep
<1>2. CASE /\ InTransaction(p) /\ tx' = [tx EXCEPT !.error = TRUE]
           /\ UNCHANGED <<tables, committed, cmd, handles, bytes>>
  <2>1. "owner" \in DOMAIN tx' /\ tx'.owner = p /\ p # None /\ cmd' = NoCommand
    BY <1>2, ErrorSet DEF InTransaction, Inv, ShapeInv, TableAssumption
  <2> QED
    BY <1>2, <2>1, KeptAsIs, TransactionStep
<1> QED
  BY <1>1, <1>2 DEF Fault

(* The process loses its handles with its bytes.                            *)
LEMMA StopStep ==
  ASSUME TableAssumption, Inv, NEW p \in Process, Stop(p)
  PROVE  Inv'
<1>1. /\ handles' = [handles EXCEPT ![p] = [s \in 1..MaxOpen |-> None]]
      /\ bytes' = [t \in TableBlock |->
                     [b \in Byte |-> IF bytes[t][b] = p THEN None ELSE bytes[t][b]]]
      /\ committed' = committed /\ p # None
  BY DEF Stop, TableAssumption
<1>2. /\ DOMAIN handles' = Process /\ \A q \in Process : DOMAIN handles'[q] = 1..MaxOpen
      /\ \A s \in 1..MaxOpen : handles'[p][s] = None
      /\ \A q \in Process \ {p} : handles'[q] = handles[q]
  BY <1>1 DEF Inv, ShapeInv
<1>3. bytes' \in [TableBlock -> [Byte -> Process \cup {None}]]
  BY <1>1 DEF Inv, ShapeInv
<1>4. tables' \in {tables, committed.tables}
  BY DEF Stop
<1>5. "owner" \in DOMAIN tx' /\ OwnerInv'
  <2>1. CASE /\ tx.owner = p /\ tables' = committed.tables /\ tx' = NoTx /\ cmd' = NoCommand
    BY <1>1, <2>1, NoTxOwner DEF OwnerInv
  <2>2. CASE UNCHANGED <<tables, tx, cmd>>
    BY <1>1, <2>2 DEF Inv, OwnerInv, ShapeInv
  <2> QED
    BY <2>1, <2>2 DEF Stop
<1>6. ShapeInv'
  BY <1>1, <1>2, <1>3, <1>4, <1>5 DEF Inv, ShapeInv
<1>7. HandlesInv'
  <2> SUFFICES ASSUME NEW q \in Process, NEW s \in 1..MaxOpen, handles'[q][s] # None
               PROVE  LET h == handles'[q][s] IN
                      /\ h.table \in TableBlock /\ h.byte \in Byte /\ bytes'[h.table][h.byte] = q
                      /\ HasTable(tables', h) /\ HasTable(committed'.tables, h)
    BY DEF HandlesInv, HasTable
  <2> DEFINE h == handles[q][s]
  <2>1. q # p /\ handles'[q][s] = h
    BY <1>2
  <2>2. /\ h.table \in TableBlock /\ h.byte \in Byte /\ bytes[h.table][h.byte] = q
        /\ HasTable(tables, h) /\ HasTable(committed.tables, h)
    BY <2>1 DEF Inv, HandlesInv
  <2>3. bytes'[h.table][h.byte] = q
    BY <1>1, <2>1, <2>2
  <2> QED
    BY <1>1, <1>4, <2>1, <2>2, <2>3
<1>8. BytesInv'
  BY <1>2 DEF Inv, BytesInv
<1>9. BuildsFree(cmd)'
  <2>1. CASE cmd' = NoCommand
    BY <2>1 DEF BuildsFree, NoCommand
  <2>2. CASE cmd' = cmd
    BY <1>1, <2>2 DEF Inv, BuildsFree, Unlocked
  <2> QED
    BY <2>1, <2>2 DEF Stop
<1> QED
  BY <1>5, <1>6, <1>7, <1>8, <1>9 DEF Inv

-----------------------------------------------------------------------------
(* Open tables.                                                             *)

LEMMA OpenTableStep ==
  ASSUME TableAssumption, ~OpensChanged, ~ManyOpens, Inv,
         NEW p \in Process, NEW s \in 1..MaxOpen, NEW n \in Name, OpenTable(p, s, n)
  PROVE  Inv'
<1>1. PICK t \in TableBlock :
        /\ tables[t].name = n /\ SameDefinition(t) /\ bytes[t][ByteFor(t)] = None
        /\ bytes' = [bytes EXCEPT ![t][ByteFor(t)] = p]
        /\ handles' = [handles EXCEPT ![p][s] =
                         [table |-> t, byte |-> ByteFor(t), index |-> tables[t].index]]
  BY DEF OpenTable, Lookup
<1> DEFINE b == ByteFor(t)
           new == [table |-> t, byte |-> b, index |-> tables[t].index]
<1>2. /\ MayCommand(p) /\ handles[p][s] = None
      /\ UNCHANGED <<tables, committed, tx, cmd>>
  BY DEF OpenTable
<1>3. b \in Byte
  <2>1. {c \in Byte : bytes[t][c] = None} \in SUBSET Nat
    BY DEF Byte, TableAssumption
  <2>2. MaxByte \in Byte
    BY DEF Byte, TableAssumption
  <2> QED
    BY <2>1, <2>2, LeastIn DEF ByteFor
<1> HIDE DEF b
<1>4. /\ bytes' \in [TableBlock -> [Byte -> Process \cup {None}]]
      /\ bytes[t][b] = None /\ bytes'[t][b] = p
      /\ \A u \in TableBlock, c \in Byte : u # t \/ c # b => bytes'[u][c] = bytes[u][c]
  BY <1>1, <1>3 DEF b, Inv, ShapeInv
<1>5. /\ DOMAIN handles' = Process /\ \A q \in Process : DOMAIN handles'[q] = 1..MaxOpen
      /\ handles'[p][s] = new
      /\ \A q \in Process, r \in 1..MaxOpen :
           q # p \/ r # s => handles'[q][r] = handles[q][r]
  BY <1>1 DEF b, Inv, ShapeInv
<1>6. new.table = t /\ new.byte = b /\ new.index = tables[t].index
  OBVIOUS
<1>7. HasTable(tables, new) /\ HasTable(committed.tables, new)
  BY <1>1, <1>6 DEF HasTable, SameDefinition, TableAssumption
<1> HIDE DEF new
<1>8. p # None
  BY DEF TableAssumption
<1>9. ASSUME NEW q \in Process, NEW r \in 1..MaxOpen, q # p \/ r # s, handles[q][r] # None
      PROVE  LET h == handles[q][r] IN
             /\ h.table \in TableBlock /\ h.byte \in Byte
             /\ bytes'[h.table][h.byte] = q
             /\ h.table # t \/ h.byte # b
             /\ HasTable(tables, h) /\ HasTable(committed.tables, h)
  <2> DEFINE h == handles[q][r]
  <2>1. /\ h.table \in TableBlock /\ h.byte \in Byte /\ bytes[h.table][h.byte] = q
        /\ HasTable(tables, h) /\ HasTable(committed.tables, h)
    BY <1>9 DEF Inv, HandlesInv
  <2>2. q # None
    BY DEF TableAssumption
  <2>3. h.table # t \/ h.byte # b
    BY <1>4, <2>1, <2>2
  <2> QED
    BY <1>4, <2>1, <2>3
<1>10. HandlesInv'
  <2> SUFFICES ASSUME NEW q \in Process, NEW r \in 1..MaxOpen, handles'[q][r] # None
               PROVE  LET h == handles'[q][r] IN
                      /\ h.table \in TableBlock /\ h.byte \in Byte /\ bytes'[h.table][h.byte] = q
                      /\ HasTable(tables', h) /\ HasTable(committed'.tables, h)
    BY DEF HandlesInv, HasTable
  <2>1. CASE q = p /\ r = s
    BY <1>2, <1>3, <1>4, <1>5, <1>6, <1>7, <2>1
  <2>2. CASE q # p \/ r # s
    BY <1>2, <1>5, <1>9, <2>2
  <2> QED
    BY <2>1, <2>2
<1>11. BytesInv'
  <2> SUFFICES ASSUME NEW q \in Process, NEW r \in 1..MaxOpen, NEW v \in 1..MaxOpen,
                      handles'[q][r] # None, handles'[q][v] # None,
                      handles'[q][r].table = handles'[q][v].table,
                      handles'[q][r].byte = handles'[q][v].byte
               PROVE  r = v
    BY DEF BytesInv
  <2>1. CASE q = p /\ (r = s \/ v = s)
    BY <1>5, <1>6, <1>9, <2>1
  <2>2. CASE ~(q = p /\ (r = s \/ v = s))
    BY <1>5, <2>2 DEF Inv, BytesInv
  <2> QED
    BY <2>1, <2>2
<1>12. ShapeInv' /\ OwnerInv'
  BY <1>2, <1>4, <1>5 DEF Inv, ShapeInv, OwnerInv
<1>13. BuildsFree(cmd)'
  BY <1>2 DEF MayCommand, BuildsFree, NoCommand
<1> QED
  BY <1>10, <1>11, <1>12, <1>13 DEF Inv

LEMMA CloseTableStep ==
  ASSUME TableAssumption, Inv, NEW p \in Process, NEW s \in 1..MaxOpen, CloseTable(p, s)
  PROVE  Inv'
<1> DEFINE g == handles[p][s]
<1>1. /\ g # None /\ bytes[g.table][g.byte] = p
      /\ bytes' = [bytes EXCEPT ![g.table][g.byte] = None]
      /\ handles' = [handles EXCEPT ![p][s] = None]
      /\ UNCHANGED <<tables, committed, tx, cmd>>
  BY DEF CloseTable
<1>2. g.table \in TableBlock /\ g.byte \in Byte
  BY <1>1 DEF Inv, HandlesInv
<1> HIDE DEF g
<1>3. /\ bytes' \in [TableBlock -> [Byte -> Process \cup {None}]]
      /\ bytes'[g.table][g.byte] = None
      /\ \A u \in TableBlock, c \in Byte :
           u # g.table \/ c # g.byte => bytes'[u][c] = bytes[u][c]
  BY <1>1, <1>2 DEF Inv, ShapeInv
<1>4. /\ DOMAIN handles' = Process /\ \A q \in Process : DOMAIN handles'[q] = 1..MaxOpen
      /\ handles'[p][s] = None
      /\ \A q \in Process, r \in 1..MaxOpen :
           q # p \/ r # s => handles'[q][r] = handles[q][r]
  BY <1>1 DEF Inv, ShapeInv
<1>5. HandlesInv'
  <2> SUFFICES ASSUME NEW q \in Process, NEW r \in 1..MaxOpen, handles'[q][r] # None
               PROVE  LET h == handles'[q][r] IN
                      /\ h.table \in TableBlock /\ h.byte \in Byte /\ bytes'[h.table][h.byte] = q
                      /\ HasTable(tables', h) /\ HasTable(committed'.tables, h)
    BY DEF HandlesInv, HasTable
  <2> DEFINE h == handles[q][r]
  <2>1. (q # p \/ r # s) /\ handles'[q][r] = h
    BY <1>4
  <2>2. /\ h.table \in TableBlock /\ h.byte \in Byte /\ bytes[h.table][h.byte] = q
        /\ HasTable(tables, h) /\ HasTable(committed.tables, h)
    BY <2>1 DEF Inv, HandlesInv
  <2>3. h.table # g.table \/ h.byte # g.byte
    <3>1. CASE q = p
      BY <1>1, <2>1, <3>1 DEF Inv, BytesInv, g
    <3>2. CASE q # p
      BY <1>1, <2>2, <3>2
    <3> QED
      BY <3>1, <3>2
  <2> QED
    BY <1>1, <1>3, <2>1, <2>2, <2>3
<1>6. BytesInv'
  BY <1>4 DEF Inv, BytesInv
<1>7. ShapeInv' /\ OwnerInv'
  BY <1>1, <1>3, <1>4 DEF Inv, ShapeInv, OwnerInv
<1>8. BuildsFree(cmd)'
  <2>1. \A t \in TableBlock : Unlocked(t) => Unlocked(t)'
    BY <1>2, <1>3 DEF Unlocked
  <2> QED
    BY <1>1, <2>1 DEF Inv, BuildsFree
<1> QED
  BY <1>5, <1>6, <1>7, <1>8 DEF Inv

-----------------------------------------------------------------------------
(* Definitions: each changes a table that is free or not there.             *)

LEMMA DefinitionStep ==
  ASSUME TableAssumption, Inv, NEW p \in Process, NEW t \in TableBlock, NEW T, NEW D,
         Unlocked(t) \/ tables[t].name = None,
         Described(T), \A u \in TableBlock \ {t} : T[u] = tables[u],
         Performed(p, T, D), Define
  PROVE  Inv'
<1>1. Kept(T)
  BY UnlockedClosed, KeptElse
<1>2. UNCHANGED <<handles, bytes>>
  BY DEF Define
<1> QED
  BY <1>1, <1>2, PerformedStep

LEMMA TablesChanged ==
  ASSUME Inv, NEW t \in TableBlock
  PROVE  /\ \A r : DOMAIN r = {"name", "index", "root"} =>
              /\ Described([tables EXCEPT ![t] = r])
              /\ \A u \in TableBlock \ {t} : [tables EXCEPT ![t] = r][u] = tables[u]
         /\ \A n : /\ Described([tables EXCEPT ![t].name = n])
                   /\ \A u \in TableBlock \ {t} : [tables EXCEPT ![t].name = n][u] = tables[u]
         /\ \A i, x : /\ Described([tables EXCEPT ![t].index[i] = x])
                      /\ \A u \in TableBlock \ {t} :
                           [tables EXCEPT ![t].index[i] = x][u] = tables[u]
         /\ \A i, k : /\ Described([tables EXCEPT ![t].index[i].name = k])
                      /\ \A u \in TableBlock \ {t} :
                           [tables EXCEPT ![t].index[i].name = k][u] = tables[u]
         /\ \A i, x, y : /\ Described([tables EXCEPT ![t].index[i] = x, ![t].root[i] = y])
                         /\ \A u \in TableBlock \ {t} :
                              [tables EXCEPT ![t].index[i] = x, ![t].root[i] = y][u] = tables[u]
BY DEF Inv, ShapeInv, Described

LEMMA CreateTableStep ==
  ASSUME TableAssumption, Inv, NEW p \in Process, NEW n \in Name, NEW t \in TableBlock,
         CreateTable(p, n, t)
  PROVE  Inv'
<1> DEFINE r == [name |-> n, index |-> NoIndexes, root |-> NoRoots]
<1>1. tables[t].name = None /\ Performed(p, [tables EXCEPT ![t] = r], data) /\ Define
  BY DEF CreateTable
<1>2. DOMAIN r = {"name", "index", "root"}
  OBVIOUS
<1> HIDE DEF r
<1> QED
  BY <1>1, <1>2, TablesChanged, DefinitionStep

LEMMA RenameTableStep ==
  ASSUME TableAssumption, Inv, NEW p \in Process, NEW n \in Name, NEW m \in Name,
         RenameTable(p, n, m)
  PROVE  Inv'
<1>1. PICK t \in TableBlock :
        Unlocked(t) /\ Performed(p, [tables EXCEPT ![t].name = m], data) /\ Define
  BY DEF RenameTable, Lookup
<1> QED
  BY <1>1, TablesChanged, DefinitionStep

LEMMA DeleteTableStep ==
  ASSUME TableAssumption, Inv, NEW p \in Process, NEW n \in Name, DeleteTable(p, n)
  PROVE  Inv'
<1>1. PICK t \in TableBlock :
        /\ Unlocked(t) /\ Define
        /\ Performed(p, [tables EXCEPT ![t] = NoTable],
                     [b \in DataBlock |->
                        IF \E e \in Entries(tables[t]) : e.block = b
                        THEN None ELSE data[b]])
  BY DEF DeleteTable, Lookup
<1>2. DOMAIN NoTable = {"name", "index", "root"}
  BY DEF NoTable
<1> QED
  BY <1>1, <1>2, TablesChanged, DefinitionStep

LEMMA RenameIndexStep ==
  ASSUME TableAssumption, Inv, NEW p \in Process, NEW n \in Name,
         NEW i \in IndexName, NEW k \in IndexName, RenameIndex(p, n, i, k)
  PROVE  Inv'
<1>1. PICK t \in TableBlock : \E j \in IndexNamed(t, i) :
        Unlocked(t) /\ Performed(p, [tables EXCEPT ![t].index[j].name = k], data) /\ Define
  BY DEF RenameIndex, Lookup
<1> QED
  BY <1>1, TablesChanged, DefinitionStep

LEMMA DeleteIndexStep ==
  ASSUME TableAssumption, Inv, NEW p \in Process, NEW n \in Name, NEW i \in IndexName,
         DeleteIndex(p, n, i)
  PROVE  Inv'
<1>1. PICK t \in TableBlock : \E j \in IndexNamed(t, i) :
        /\ Unlocked(t) /\ Define
        /\ Performed(p, [tables EXCEPT ![t].index[j] = None, ![t].root[j] = {}], data)
  BY DEF DeleteIndex, Lookup
<1> QED
  BY <1>1, TablesChanged, DefinitionStep

LEMMA CreateIndexStep ==
  ASSUME TableAssumption, Inv, NEW p \in Process, NEW n \in Name, NEW i \in IndexName,
         NEW f \in SUBSET Field \ {{}}, CreateIndex(p, n, i, f)
  PROVE  Inv'
<1>1. PICK t \in TableBlock :
        /\ Unlocked(t)
        /\ Begun(p, [step |-> "build", table |-> t, todo |-> Entries(tables[t]),
                     slot |-> Least(Slot \ Defined(tables[t].index)),
                     new |-> [name |-> i, fields |-> f], before |-> None])
  BY DEF CreateIndex, Lookup
<1> DEFINE c == [step |-> "build", table |-> t, todo |-> Entries(tables[t]),
                 slot |-> Least(Slot \ Defined(tables[t].index)),
                 new |-> [name |-> i, fields |-> f], before |-> None]
<1>2. UNCHANGED <<tables, committed, handles, bytes>>
  BY DEF CreateIndex
<1>3. \A x : BuildsFree([c EXCEPT !.before = x])
  BY <1>1 DEF BuildsFree
<1> HIDE DEF c
<1>4. Begun(p, c)
  BY <1>1 DEF c
<1> QED
  BY <1>2, <1>3, <1>4, KeptAsIs, BegunStep

LEMMA BuildStep ==
  ASSUME TableAssumption, Inv, BuildKey \/ BuildEnd
  PROVE  Inv'
<1>1. /\ cmd.step = "build" /\ cmd # NoCommand /\ cmd.table \in TableBlock
      /\ Unlocked(cmd.table) /\ ~Open(cmd.table)
  BY NoCommandFree, UnlockedClosed DEF BuildKey, BuildEnd, Inv, BuildsFree
<1>2. CASE BuildEnd
  <2>1. Closed("ok", [tables EXCEPT ![cmd.table].index[cmd.slot] = cmd.new], data)
    BY <1>2 DEF BuildEnd
  <2>2. Kept([tables EXCEPT ![cmd.table].index[cmd.slot] = cmd.new])
    <3> DEFINE T == [tables EXCEPT ![cmd.table].index[cmd.slot] = cmd.new]
    <3>1. Described(T) /\ \A u \in TableBlock \ {cmd.table} : T[u] = tables[u]
      BY <1>1 DEF Inv, ShapeInv, Described
    <3> HIDE DEF T
    <3>2. Kept(T)
      BY <1>1, <3>1, KeptElse
    <3> QED
      BY <3>2 DEF T
  <2> QED
    BY <1>1, <2>1, <2>2, ClosedStep
<1>3. CASE BuildKey
  <2>1. PICK e \in cmd.todo :
          LET k == KeyOf(cmd.new.fields, data[e.block])
          IN  \/ Stepped(Added(cmd.table, cmd.slot, k, e.block), [cmd EXCEPT !.todo = @ \ {e}])
              \/ Closed("logical", [tables EXCEPT ![cmd.table].root[cmd.slot] = {}], data)
    BY <1>3 DEF BuildKey
  <2> DEFINE k == KeyOf(cmd.new.fields, data[e.block])
  <2>2. BuildsFree([cmd EXCEPT !.todo = @ \ {e}])
    BY <1>1 DEF Inv, BuildsFree
  <2>3. CASE Stepped(Added(cmd.table, cmd.slot, k, e.block), [cmd EXCEPT !.todo = @ \ {e}])
    BY <1>1, <2>2, <2>3, KeptEntries, SteppedStep
  <2>4. CASE Closed("logical", [tables EXCEPT ![cmd.table].root[cmd.slot] = {}], data)
    BY <1>1, <2>4, KeptRoot, ClosedStep
  <2> QED
    BY <2>1, <2>3, <2>4
<1> QED
  BY <1>2, <1>3

-----------------------------------------------------------------------------
(* Records: only the trees change.                                          *)

LEMMA RecordCommandStep ==
  ASSUME TableAssumption, Inv, NEW p \in Process, NEW s \in 1..MaxOpen,
         NEW step \in {"insert", "delete", "update"},
         NEW block, NEW old, NEW new, NEW todo, NEW T, NEW D,
         RecordCommand(p, s, step, block, old, new, todo, T, D), Kept(T)
  PROVE  Inv'
<1> DEFINE c == [step |-> step, table |-> handles[p][s].table,
                 index |-> handles[p][s].index, todo |-> todo,
                 block |-> block, old |-> old, new |-> new, before |-> None]
<1>1. Begun(p, c) /\ Kept(tables') /\ UNCHANGED <<committed, handles, bytes>>
  BY DEF RecordCommand
<1>2. \A x : BuildsFree([c EXCEPT !.before = x])
  BY DEF BuildsFree
<1> HIDE DEF c
<1> QED
  BY <1>1, <1>2, BegunStep

LEMMA RecordBeginStep ==
  ASSUME TableAssumption, Inv, NEW p \in Process, NEW s \in 1..MaxOpen, NEW r \in Record,
         \/ \E b \in DataBlock : InsertBegin(p, s, r, b)
         \/ \E j \in Slot : DeleteBegin(p, s, j, r) \/ UpdateBegin(p, s, j, r)
  PROVE  Inv'
<1>1. ASSUME NEW b \in DataBlock, InsertBegin(p, s, r, b) PROVE Inv'
  BY <1>1, KeptAsIs, RecordCommandStep DEF InsertBegin
<1>2. ASSUME NEW j \in Slot, DeleteBegin(p, s, j, r) PROVE Inv'
  <2>1. PICK e \in Reached(p, s, j, r) :
          RecordCommand(p, s, "delete", e.block, data[e.block], None,
                        Defined(handles[p][s].index) \ {j},
                        Removed(handles[p][s].table, j, e.key), data)
    BY <1>2 DEF DeleteBegin
  <2> QED
    BY <2>1, KeptEntries, RecordCommandStep
<1>3. ASSUME NEW j \in Slot, UpdateBegin(p, s, j, r) PROVE Inv'
  BY <1>3, KeptAsIs, RecordCommandStep DEF UpdateBegin
<1> QED
  BY <1>1, <1>2, <1>3

(* A command on a record stays one.                                         *)
LEMMA StillRecord ==
  ASSUME Inv, cmd.step # "build"
  PROVE  /\ \A S : BuildsFree([cmd EXCEPT !.todo = S])
         /\ \A S, step : step # "build" => BuildsFree([cmd EXCEPT !.step = step, !.todo = S])
         /\ BuildsFree(Further(cmd))
BY DEF Inv, BuildsFree, Further

LEMMA DropStep ==
  ASSUME TableAssumption, Inv, cmd # NoCommand, cmd.step # "build", Drop
  PROVE  Inv'
<1> DEFINE i == Least(cmd.todo)
           k == KeyIn(i, cmd.old)
<1>1. CASE Closed("internal", tables, data)
  BY <1>1, KeptAsIs, ClosedStep
<1>2. CASE Stepped(Removed(cmd.table, i, k), Further(cmd))
  BY <1>2, KeptEntries, StillRecord, SteppedStep
<1> QED
  BY <1>1, <1>2 DEF Drop

LEMMA RecordStep ==
  ASSUME TableAssumption, Inv,
         \/ InsertKey \/ InsertUndo \/ InsertUndone \/ InsertData
         \/ DeleteKey \/ DeleteData
         \/ UpdateKey \/ UpdateUndo \/ UpdateUndone \/ UpdateAdded
         \/ UpdateDrop \/ UpdateData
  PROVE  Inv'
<1>1. cmd # NoCommand /\ cmd.step # "build"
  BY NoCommandFree DEF InsertKey, InsertUndo, InsertUndone, InsertData, DeleteKey, DeleteData,
     UpdateKey, UpdateUndo, UpdateUndone, UpdateAdded, UpdateDrop, UpdateData
<1>2. ASSUME NEW rc, NEW D, Closed(rc, tables, D) PROVE Inv'
  BY <1>1, <1>2, KeptAsIs, ClosedStep
<1>3. ASSUME NEW S, NEW step, step # "build",
             Stepped(tables, [cmd EXCEPT !.step = step, !.todo = S])
      PROVE  Inv'
  BY <1>1, <1>3, KeptAsIs, StillRecord, SteppedStep
<1>4. ASSUME NEW i, NEW k, NEW b, NEW S,
             \/ Stepped(Added(cmd.table, i, k, b), Further(cmd))
             \/ Stepped(Removed(cmd.table, i, k), Further(cmd))
             \/ Stepped(Removed(cmd.table, i, k), [cmd EXCEPT !.todo = S])
      PROVE  Inv'
  BY <1>1, <1>4, KeptEntries, StillRecord, SteppedStep
<1>5. CASE InsertKey
  BY <1>3, <1>4, <1>5 DEF InsertKey
<1>6. CASE InsertUndo
  BY <1>2, <1>4, <1>6 DEF InsertUndo
<1>7. CASE InsertUndone \/ InsertData \/ DeleteData \/ UpdateUndone \/ UpdateData
  BY <1>2, <1>7 DEF InsertUndone, InsertData, DeleteData, UpdateUndone, UpdateData
<1>8. CASE DeleteKey \/ UpdateDrop
  BY <1>1, <1>8, DropStep DEF DeleteKey, UpdateDrop
<1>9. CASE UpdateKey
  BY <1>3, <1>4, <1>9 DEF UpdateKey
<1>10. CASE UpdateUndo
  BY <1>2, <1>4, <1>10 DEF UpdateUndo
<1>11. CASE UpdateAdded
  BY <1>3, <1>11 DEF UpdateAdded
<1> QED
  BY <1>5, <1>6, <1>7, <1>8, <1>9, <1>10, <1>11

-----------------------------------------------------------------------------
LEMMA InvInit ==
  ASSUME TableAssumption, StartAssumption, Init
  PROVE  Inv
<1>1. /\ Described(tables) /\ committed.tables = tables /\ tx = NoTx /\ cmd = NoCommand
      /\ handles = [p \in Process |-> [s \in 1..MaxOpen |-> None]]
      /\ bytes = [t \in TableBlock |-> [b \in Byte |-> None]]
  <2>1. \A st \in Starts : st.tables \in [TableBlock -> Table]
    BY DEF StartAssumption, Database
  <2>2. \A T \in [TableBlock -> Table] : Described(T)
    BY DEF Described, Table
  <2> QED
    BY <2>1, <2>2 DEF Init
<1>2. ShapeInv
  BY <1>1, NoTxOwner DEF ShapeInv
<1>3. \A p \in Process, s \in 1..MaxOpen : handles[p][s] = None
  BY <1>1
<1> QED
  BY <1>1, <1>2, <1>3, NoCommandFree DEF Inv, OwnerInv, HandlesInv, BytesInv

LEMMA InvStep ==
  ASSUME TableAssumption, ~OpensChanged, ~ManyOpens, Inv, [Next]_vars
  PROVE  Inv'
<1>1. CASE UNCHANGED vars
  <2>1. UNCHANGED <<tables, committed, tx, cmd, handles, bytes>>
    BY <1>1 DEF vars
  <2>2. OwnerInv' /\ "owner" \in DOMAIN tx' /\ Kept(tables') /\ Kept(committed'.tables)
    BY <2>1, KeptAsIs DEF Inv, OwnerInv, ShapeInv
  <2>3. BuildsFree(cmd)'
    BY <2>1, FreeStays DEF Inv
  <2> QED
    BY <2>1, <2>2, <2>3, ShapeStays, HandlesStay DEF Inv
<1>2. CASE Going
  BY <1>2, BuildStep, RecordStep DEF Going
<1>3. ASSUME NEW p \in Process, Transaction(p)
      PROVE  Inv'
  BY <1>3, BeginStep, EndStep, FaultStep, StopStep DEF Transaction
<1>4. ASSUME NEW p \in Process, Definition(p)
      PROVE  Inv'
  BY <1>4, CreateTableStep, RenameTableStep, DeleteTableStep, RenameIndexStep,
     DeleteIndexStep, CreateIndexStep DEF Definition
<1>5. ASSUME NEW p \in Process, HandleCall(p)
      PROVE  Inv'
  BY <1>5, OpenTableStep, CloseTableStep, RecordBeginStep DEF HandleCall
<1> QED
  BY <1>1, <1>2, <1>3, <1>4, <1>5 DEF Next

LEMMA Invariance ==
  ASSUME TableAssumption, StartAssumption, ~OpensChanged, ~ManyOpens
  PROVE  Spec => []Inv
<1>1. Init => Inv
  BY InvInit
<1>2. Inv /\ [Next]_vars => Inv'
  BY InvStep
<1> QED
  BY <1>1, <1>2, PTL DEF Spec

(* An open table stays as it was opened, whatever commands, transactions    *)
(* and rollbacks of any number of processes come between: the locks of      *)
(* dbport.c are enough for that, unless a table is opened whose definition  *)
(* the same transaction has changed or a byte of the lock is used twice.    *)
THEOREM OpenTablesStay ==
  ASSUME TableAssumption, StartAssumption, ~OpensChanged, ~ManyOpens
  PROVE  Spec => []HandlesFresh
<1>1. Inv => HandlesFresh
  BY DEF Inv, HandlesInv, HasTable, HandlesFresh
<1> QED
  BY <1>1, Invariance, PTL

-----------------------------------------------------------------------------
(* The records: every index of a table has each record under its key, and a *)
(* command that a duplicate key stops takes back what it did, in any number *)
(* of tables, indexes and records.                                          *)
(*                                                                         *)
(* While a command runs, its trees are those of the database it began with, *)
(* some of them without the old key of its record and some of them with the *)
(* new one: which ones follows from the step it is in.                      *)

(* The entry of the record r in block b in an index x, and all entries of   *)
(* the records that D has in the blocks B.                                  *)
EntryOf(x, r, b)   == [key |-> KeyOf(x.fields, r), block |-> b]
EntriesOf(x, D, B) == {EntryOf(x, D[b], b) : b \in B}

UniqueIn(x, D, B) ==
  \A b, c \in B : KeyOf(x.fields, D[b]) = KeyOf(x.fields, D[c]) => b = c

(* The table description T has the records in the blocks B, and no others.  *)
Holds(T, D, B) ==
  /\ \A i \in Slot :
       T.root[i] = IF T.index[i] = None THEN {} ELSE EntriesOf(T.index[i], D, B)
  /\ \A i \in Defined(T.index) : UniqueIn(T.index[i], D, B)
  /\ B # {} => Defined(T.index) # {}

(* The database with the owners f of its blocks.                            *)
DbIs(T, D, f) ==
  /\ T \in [TableBlock -> Table] /\ D \in [DataBlock -> Record \cup {None}]
  /\ f \in [TableBlock -> SUBSET DataBlock]
  /\ \A t \in TableBlock : IF t \in Live(T) THEN Holds(T[t], D, f[t]) ELSE f[t] = {}
  /\ \A b \in DataBlock : D[b] # None <=> \E t \in TableBlock : b \in f[t]
  /\ \A t, u \in TableBlock : t # u => f[t] \cap f[u] = {}
  /\ \A t, u \in Live(T) : t # u => T[t].name # T[u].name

-----------------------------------------------------------------------------
(* The state of a running command.                                          *)

Old(c, i) == EntryOf(c.index[i], c.old, c.block)
New(c, i) == EntryOf(c.index[i], c.new, c.block)

(* T has the trees that c began with, those in R without the old entry of   *)
(* its record and those in A with the new one.                              *)
RootsAre(T, c, A, R) ==
  LET U == c.before.tables
      t == c.table
  IN  /\ T \in [TableBlock -> Table]
      /\ \A u \in TableBlock \ {t} : T[u] = U[u]
      /\ T[t].name = U[t].name /\ T[t].index = U[t].index
      /\ \A i \in Slot :
           T[t].root[i] = {e \in U[t].root[i] : i \in R => e # Old(c, i)}
                          \cup (IF i \in A THEN {New(c, i)} ELSE {})

Inserts(c) == c.step \in {"insert", "insertUndo"}
Updates(c) == c.step \in {"update", "updateUndo", "updateDrop"}

(* The indexes a command changes, those that have the new entry, and those  *)
(* that have lost the old one.                                              *)
Touched(c) == IF Updates(c) THEN Changed(c.index, c.old, c.new) ELSE Defined(c.index)

Adds(c) == CASE c.step \in {"insert", "update"}         -> Touched(c) \ c.todo
             [] c.step \in {"insertUndo", "updateUndo"} -> c.todo
             [] c.step = "updateDrop"                   -> Touched(c)
             [] c.step = "delete"                       -> {}
Drops(c) == IF c.step \in {"delete", "updateDrop"} THEN Touched(c) \ c.todo ELSE {}

NewFree(c, i) == \A e \in c.before.tables[c.table].root[i] : e.key # New(c, i).key

RecordInv(c, T, D) ==
  /\ c.todo \subseteq Touched(c)
  /\ c.step \in {"insert", "update"} => \A i \in Adds(c), j \in c.todo : i < j
  /\ \A i \in Adds(c) : NewFree(c, i)
  /\ RootsAre(T, c, Adds(c), Drops(c))
  /\ c.index = c.before.tables[c.table].index
  /\ Inserts(c) => /\ Touched(c) # {} /\ c.before.data[c.block] = None
                   /\ D = [c.before.data EXCEPT ![c.block] = Blank]
  /\ ~Inserts(c) => /\ c.block \in Blocks(c.before.tables, c.table)
                    /\ c.before.data[c.block] = c.old
                    /\ D = c.before.data

(* The tree that is being built has the records that are done.              *)
BuildInv(c, T, D) ==
  LET U == c.before.tables
      t == c.table
      done == {e.block : e \in Entries(U[t]) \ c.todo}
  IN  /\ c.todo \subseteq Entries(U[t])
      /\ c.slot \notin Defined(U[t].index)
      /\ D = c.before.data
      /\ T \in [TableBlock -> Table]
      /\ \A u \in TableBlock \ {t} : T[u] = U[u]
      /\ T[t].name = U[t].name /\ T[t].index = U[t].index
      /\ \A i \in Slot : T[t].root[i] =
           IF i = c.slot THEN EntriesOf(c.new, D, done) ELSE U[t].root[i]
      /\ UniqueIn(c.new, D, done)

(* A command runs on a database that was right, and if it is a transaction  *)
(* of its own, on the committed one.                                        *)
CommandInv ==
  cmd # NoCommand =>
    /\ ~tx.error /\ (~tx.explicit => cmd.before = committed)
    /\ Agree(cmd.before.tables, cmd.before.data)
    /\ cmd.table \in Live(cmd.before.tables)
    /\ IF cmd.step = "build" THEN BuildInv(cmd, tables, data) ELSE RecordInv(cmd, tables, data)

(* Between two commands only an explicit transaction is open.               *)
TxInv == cmd = NoCommand /\ tx.owner # None => tx.explicit

DataInv == /\ TypeOK /\ TxInv /\ CommandInv /\ IndexesAgree
           /\ Agree(committed.tables, committed.data)

RecordsInv == Inv /\ DataInv

Whole ==
  (cmd # NoCommand /\ cmd' = NoCommand) =>
    /\ reply' # "internal"
    /\ reply' = "logical" => [tables |-> tables', data |-> data'] = cmd.before
    /\ reply' = "ok" => Effect(cmd, tables', data')

-----------------------------------------------------------------------------
(* Trees and the blocks of their records.                                   *)

LEMMA KeyType ==
  ASSUME NEW f \in SUBSET Field, NEW r \in Record
  PROVE  KeyOf(f, r) \in Key
BY DEF KeyOf, Key, Record

LEMMA EntryType ==
  ASSUME NEW x \in Index, NEW r \in Record, NEW b \in DataBlock
  PROVE  EntryOf(x, r, b) \in Entry
BY KeyType DEF EntryOf, Entry, Index

LEMMA EntriesBlocks ==
  ASSUME NEW x, NEW D, NEW B
  PROVE  /\ {e.block : e \in EntriesOf(x, D, B)} = B
         /\ \A e \in EntriesOf(x, D, B) : e = EntryOf(x, D[e.block], e.block)
         /\ (EntriesOf(x, D, B) = {}) <=> (B = {})
<1>1. \A b : EntryOf(x, D[b], b).block = b
  BY DEF EntryOf
<1>2. \A e : e \in EntriesOf(x, D, B) <=> \E b \in B : e = EntryOf(x, D[b], b)
  BY DEF EntriesOf
<1>3. \A e \in EntriesOf(x, D, B) : e.block \in B /\ e = EntryOf(x, D[e.block], e.block)
  BY <1>1, <1>2
<1>4. \A b \in B : EntryOf(x, D[b], b) \in EntriesOf(x, D, B)
  BY <1>2
<1>5. {e.block : e \in EntriesOf(x, D, B)} = B
  BY <1>1, <1>3, <1>4
<1> QED
  BY <1>3, <1>4, <1>5

LEMMA SlotLeast ==
  ASSUME TableAssumption, NEW S \in SUBSET Slot, S # {}
  PROVE  Least(S) \in S /\ \A j \in S : Least(S) <= j
<1>1. Slot \subseteq Nat
  BY DEF Slot, TableAssumption
<1> QED
  BY <1>1, LeastIn

LEMMA SlotGreatest ==
  ASSUME TableAssumption, NEW S \in SUBSET Slot, S # {}
  PROVE  Greatest(S) \in S
<1> DEFINE M == {MaxIndexes - j : j \in S}
<1>1. MaxIndexes \in Nat /\ \A j \in S : j \in Nat /\ j <= MaxIndexes
  BY DEF Slot, TableAssumption
<1>2. M \in SUBSET Nat /\ M # {}
  BY <1>1
<1>3. Least(M) \in M /\ \A m \in M : Least(M) <= m
  BY <1>2, LeastIn
<1>4. PICK i \in S : Least(M) = MaxIndexes - i
  BY <1>3
<1>5. \A j \in S : i >= j
  <2> SUFFICES ASSUME NEW j \in S PROVE i >= j
    OBVIOUS
  <2>1. MaxIndexes - j \in M
    OBVIOUS
  <2> HIDE DEF M
  <2>2. MaxIndexes - i <= MaxIndexes - j
    BY <1>3, <1>4, <2>1
  <2> QED
    BY <1>1, <2>2
<1> QED
  BY <1>5 DEF Greatest

LEMMA HoldsEntries ==
  ASSUME TableAssumption, NEW T, NEW D, NEW B, Holds(T, D, B)
  PROVE  /\ {e.block : e \in Entries(T)} = B
         /\ B # {} => \E i \in Defined(T.index) : Entries(T) = EntriesOf(T.index[i], D, B)
         /\ B = {} => Entries(T) = {} /\ \A i \in Slot : T.root[i] = {}
<1> DEFINE full == {i \in Slot : T.root[i] # {}}
<1>1. CASE B = {}
  <2>1. \A i \in Slot : T.root[i] = {}
    BY <1>1, EntriesBlocks DEF Holds
  <2>2. Entries(T) = {}
    BY <2>1 DEF Entries
  <2> QED
    BY <1>1, <2>1, <2>2
<1>2. CASE B # {}
  <2>1. PICK j \in Defined(T.index) : TRUE
    BY <1>2 DEF Holds
  <2>2. j \in Slot /\ T.root[j] # {}
    BY <1>2, <2>1, EntriesBlocks DEF Holds, Defined
  <2>3. full \in SUBSET Slot /\ full # {}
    BY <2>2
  <2> DEFINE i == Least(full)
  <2>4. i \in full /\ Entries(T) = T.root[i]
    BY <2>3, SlotLeast DEF Entries
  <2>5. i \in Defined(T.index) /\ T.root[i] = EntriesOf(T.index[i], D, B)
    BY <2>4 DEF Holds, Defined
  <2> HIDE DEF i
  <2>6. Entries(T) = EntriesOf(T.index[i], D, B)
    BY <2>4, <2>5
  <2> QED
    BY <1>2, <2>5, <2>6, EntriesBlocks
<1> QED
  BY <1>1, <1>2

LEMMA TableFields ==
  ASSUME NEW T \in [TableBlock -> Table], NEW t \in TableBlock
  PROVE  /\ T[t] \in Table /\ T[t].name \in Name \cup {None}
         /\ T[t].index \in [Slot -> Index \cup {None}]
         /\ T[t].root \in [Slot -> SUBSET Entry]
BY DEF Table, Indexes

LEMMA EntriesTyped ==
  ASSUME TableAssumption, NEW T \in [TableBlock -> Table], NEW t \in TableBlock
  PROVE  Entries(T[t]) \subseteq Entry /\ Blocks(T, t) \subseteq DataBlock
<1> DEFINE full == {i \in Slot : T[t].root[i] # {}}
<1>1. Entries(T[t]) \subseteq Entry
  <2>1. CASE full = {}
    BY <2>1 DEF Entries
  <2>2. CASE full # {}
    <3>1. full \in SUBSET Slot
      OBVIOUS
    <3>2. Least(full) \in Slot /\ Entries(T[t]) = T[t].root[Least(full)]
      BY <2>2, <3>1, SlotLeast DEF Entries
    <3>3. T[t].root \in [Slot -> SUBSET Entry]
      BY TableFields
    <3> HIDE DEF full
    <3> QED
      BY <3>2, <3>3
  <2> QED
    BY <2>1, <2>2
<1>2. \A e \in Entry : e.block \in DataBlock
  BY DEF Entry
<1> QED
  BY <1>1, <1>2 DEF Blocks

LEMMA AgreeOwners ==
  ASSUME TableAssumption, NEW T \in [TableBlock -> Table],
         NEW D \in [DataBlock -> Record \cup {None, Blank}], Agree(T, D)
  PROVE  \E f : DbIs(T, D, f)
<1> DEFINE f == [t \in TableBlock |-> IF t \in Live(T) THEN Blocks(T, t) ELSE {}]
<1>1. D \in [DataBlock -> Record \cup {None}]
  BY DEF Agree
<1>2. f \in [TableBlock -> SUBSET DataBlock]
  BY EntriesTyped
<1>3. Live(T) \subseteq TableBlock
  BY DEF Live
<1>4. ASSUME NEW t \in Live(T)
      PROVE  Holds(T[t], D, Blocks(T, t))
  <2> DEFINE B == Blocks(T, t)
  <2>1. \A i \in Slot : T[t].root[i] = IF T[t].index[i] = None THEN {}
                                       ELSE EntriesOf(T[t].index[i], D, B)
    BY <1>4 DEF Agree, TreesAgree, EntriesOf, EntryOf
  <2>2. ASSUME NEW i \in Defined(T[t].index)
        PROVE  UniqueIn(T[t].index[i], D, B)
    <3>1. i \in Slot /\ T[t].root[i] = EntriesOf(T[t].index[i], D, B)
      BY <2>1, <2>2 DEF Defined
    <3>2. \A d, e \in T[t].root[i] : d.key = e.key => d = e
      BY <1>4, <3>1 DEF Agree, TreesAgree
    <3>3. \A b \in B : LET e == EntryOf(T[t].index[i], D[b], b) IN
            /\ e \in T[t].root[i] /\ e.block = b
            /\ e.key = KeyOf(T[t].index[i].fields, D[b])
      BY <3>1 DEF EntriesOf, EntryOf
    <3> QED
      BY <3>2, <3>3 DEF UniqueIn
  <2>3. B # {} => Defined(T[t].index) # {}
    <3> SUFFICES ASSUME Defined(T[t].index) = {} PROVE B = {}
      OBVIOUS
    <3>1. {i \in Slot : T[t].root[i] # {}} = {}
      BY <2>1 DEF Defined
    <3> QED
      BY <3>1 DEF Blocks, Entries
  <2> QED
    BY <2>1, <2>2, <2>3 DEF Holds
<1>5. \A b \in DataBlock : D[b] # None <=> \E t \in TableBlock : b \in f[t]
  <2>1. {b \in DataBlock : D[b] # None} = UNION {Blocks(T, t) : t \in Live(T)}
    BY DEF Agree
  <2>2. \A b : b \in UNION {Blocks(T, t) : t \in Live(T)} <=> \E t \in TableBlock : b \in f[t]
    BY <1>3
  <2> QED
    BY <2>1, <2>2
<1>6. \A t, u \in TableBlock : t # u => f[t] \cap f[u] = {}
  BY DEF Agree
<1>7. \A t, u \in Live(T) : t # u => T[t].name # T[u].name
  BY DEF Agree
<1>8. \A t \in TableBlock : IF t \in Live(T) THEN Holds(T[t], D, f[t]) ELSE f[t] = {}
  BY <1>4
<1> QED
  BY <1>1, <1>2, <1>5, <1>6, <1>7, <1>8 DEF DbIs

LEMMA OwnersAgree ==
  ASSUME TableAssumption, NoneAssumption, NEW T, NEW D, NEW f, DbIs(T, D, f)
  PROVE  /\ Agree(T, D)
         /\ T \in [TableBlock -> Table] /\ D \in [DataBlock -> Record \cup {None}]
         /\ \A t \in Live(T) : t \in TableBlock /\ Holds(T[t], D, f[t]) /\ Blocks(T, t) = f[t]
<1>1. \A t \in Live(T) : t \in TableBlock /\ Holds(T[t], D, f[t])
  BY DEF DbIs, Live
<1>2. \A t \in Live(T) : Blocks(T, t) = f[t]
  BY <1>1, HoldsEntries DEF Blocks
<1>3. ASSUME NEW t \in Live(T)
      PROVE  TreesAgree(T, D, t)
  <2>1. \A i \in Slot : T[t].root[i] = IF T[t].index[i] = None THEN {}
                                       ELSE EntriesOf(T[t].index[i], D, f[t])
    BY <1>1 DEF Holds
  <2>2. ASSUME NEW i \in Slot, NEW d \in T[t].root[i], NEW e \in T[t].root[i], d.key = e.key
        PROVE  d = e
    <3>1. i \in Defined(T[t].index) /\ T[t].root[i] = EntriesOf(T[t].index[i], D, f[t])
      BY <2>1, <2>2 DEF Defined
    <3>2. UniqueIn(T[t].index[i], D, f[t])
      BY <1>1, <3>1 DEF Holds
    <3>3. /\ d.block \in f[t] /\ d = EntryOf(T[t].index[i], D[d.block], d.block)
          /\ e.block \in f[t] /\ e = EntryOf(T[t].index[i], D[e.block], e.block)
      BY <3>1, EntriesBlocks
    <3>4. KeyOf(T[t].index[i].fields, D[d.block]) = KeyOf(T[t].index[i].fields, D[e.block])
      BY <2>2, <3>3 DEF EntryOf
    <3> QED
      BY <3>2, <3>3, <3>4 DEF UniqueIn
  <2> QED
    BY <1>2, <2>1, <2>2 DEF TreesAgree, EntriesOf, EntryOf
<1>4. {b \in DataBlock : D[b] # None} = UNION {Blocks(T, t) : t \in Live(T)}
  <2>1. \A b \in DataBlock : D[b] # None <=> \E t \in TableBlock : b \in f[t]
    BY DEF DbIs
  <2>2. \A t \in TableBlock : t \notin Live(T) => f[t] = {}
    BY DEF DbIs
  <2>3. \A t \in TableBlock : f[t] \subseteq DataBlock
    BY DEF DbIs
  <2> QED
    BY <1>1, <1>2, <2>1, <2>2, <2>3
<1>5. \A b \in DataBlock : D[b] # Blank
  BY DEF DbIs, NoneAssumption
<1>6. \A t, u \in Live(T) : t # u => /\ Blocks(T, t) \cap Blocks(T, u) = {}
                                    /\ T[t].name # T[u].name
  BY <1>1, <1>2 DEF DbIs
<1>7. T \in [TableBlock -> Table] /\ D \in [DataBlock -> Record \cup {None}]
  BY DEF DbIs
<1> QED
  BY <1>1, <1>2, <1>3, <1>4, <1>5, <1>6, <1>7 DEF Agree

-----------------------------------------------------------------------------
(* A change of one tree.                                                    *)

WithRoot(T, t, i, S) == [T EXCEPT ![t].root[i] = S]

RootIs(V, T, t, i, S) ==
  /\ V \in [TableBlock -> Table]
  /\ \A u \in TableBlock \ {t} : V[u] = T[u]
  /\ V[t].name = T[t].name /\ V[t].index = T[t].index
  /\ \A j \in Slot : V[t].root[j] = IF j = i THEN S ELSE T[t].root[j]

LEMMA RootSet ==
  ASSUME NEW T \in [TableBlock -> Table], NEW t \in TableBlock, NEW i \in Slot,
         NEW S \in SUBSET Entry
  PROVE  RootIs(WithRoot(T, t, i, S), T, t, i, S)
<1> DEFINE r == [T[t].root EXCEPT ![i] = S]
           w == [T[t] EXCEPT !.root = r]
           V == [T EXCEPT ![t] = w]
<1>1. r \in [Slot -> SUBSET Entry] /\ \A j \in Slot : r[j] = IF j = i THEN S ELSE T[t].root[j]
  BY TableFields
<1>2. T[t] \in Table
  OBVIOUS
<1> HIDE DEF r
<1>3. w \in Table /\ w.name = T[t].name /\ w.index = T[t].index /\ w.root = r
  BY <1>1, <1>2 DEF Table
<1> HIDE DEF w
<1>4. /\ V \in [TableBlock -> Table] /\ V[t] = w
      /\ \A u \in TableBlock \ {t} : V[u] = T[u]
  BY <1>3
<1>5. V = WithRoot(T, t, i, S)
  BY DEF w, r, WithRoot
<1> HIDE DEF V
<1> QED
  BY <1>1, <1>3, <1>4, <1>5 DEF RootIs

(* A table description is what its parts are.                               *)
LEMMA TableEqual ==
  ASSUME NEW v \in Table, NEW w \in Table, v.name = w.name, v.index = w.index,
         \A i \in Slot : v.root[i] = w.root[i]
  PROVE  v = w
<1>1. v.root = w.root
  BY DEF Table
<1> QED
  BY <1>1 DEF Table

LEMMA AddedRoot ==
  ASSUME NEW c, NEW A, NEW R, NEW i \in Slot, RootsAre(tables, c, A, R),
         c.table \in TableBlock, New(c, i) \in Entry
  PROVE  RootsAre(Added(c.table, i, New(c, i).key, c.block), c, A \cup {i}, R)
<1> DEFINE t == c.table
           S == tables[t].root[i] \cup {New(c, i)}
           V == WithRoot(tables, t, i, S)
<1>1. tables \in [TableBlock -> Table]
  BY DEF RootsAre
<1>2. New(c, i) = [key |-> New(c, i).key, block |-> c.block]
  BY DEF New, EntryOf
<1>3. Added(t, i, New(c, i).key, c.block) = V
  BY <1>2 DEF Added, WithRoot
<1>4. S \in SUBSET Entry
  BY <1>1, TableFields
<1>5. /\ V \in [TableBlock -> Table]
      /\ \A u \in TableBlock \ {t} : V[u] = tables[u]
      /\ V[t].name = tables[t].name /\ V[t].index = tables[t].index
      /\ \A j \in Slot : V[t].root[j] = IF j = i THEN S ELSE tables[t].root[j]
  <2>1. S \in SUBSET Entry => RootIs(V, tables, t, i, S)
    <3> HIDE DEF S
    <3>1. t \in TableBlock
      OBVIOUS
    <3> HIDE DEF t
    <3> QED
      BY <1>1, <3>1, RootSet
  <2> HIDE DEF S, V
  <2> QED
    BY <1>4, <2>1 DEF RootIs
<1> HIDE DEF V
<1>6. \A j \in Slot :
        V[t].root[j] = {e \in c.before.tables[t].root[j] : j \in R => e # Old(c, j)}
                       \cup (IF j \in A \cup {i} THEN {New(c, j)} ELSE {})
  <2> SUFFICES ASSUME NEW j \in Slot
               PROVE  V[t].root[j] = {e \in c.before.tables[t].root[j] : j \in R => e # Old(c, j)}
                                     \cup (IF j \in A \cup {i} THEN {New(c, j)} ELSE {})
    OBVIOUS
  <2>1. tables[t].root[j] = {e \in c.before.tables[t].root[j] : j \in R => e # Old(c, j)}
                            \cup (IF j \in A THEN {New(c, j)} ELSE {})
    BY DEF RootsAre
  <2> QED
    BY <1>5, <2>1
<1>7. RootsAre(V, c, A \cup {i}, R)
  BY <1>5, <1>6 DEF RootsAre
<1> QED
  BY <1>3, <1>7

LEMMA RemovedNew ==
  ASSUME NEW c, NEW A, NEW i \in Slot, i \in A, RootsAre(tables, c, A, {}), NewFree(c, i),
         c.table \in TableBlock
  PROVE  RootsAre(Removed(c.table, i, New(c, i).key), c, A \ {i}, {})
<1> DEFINE t == c.table
           S == {e \in tables[t].root[i] : e.key # New(c, i).key}
           V == WithRoot(tables, t, i, S)
<1>1. tables \in [TableBlock -> Table]
  BY DEF RootsAre
<1>2. Removed(t, i, New(c, i).key) = V
  BY DEF Removed, WithRoot
<1>3. S \in SUBSET Entry
  BY <1>1, TableFields
<1>4. /\ V \in [TableBlock -> Table]
      /\ \A u \in TableBlock \ {t} : V[u] = tables[u]
      /\ V[t].name = tables[t].name /\ V[t].index = tables[t].index
      /\ \A j \in Slot : V[t].root[j] = IF j = i THEN S ELSE tables[t].root[j]
  <2>1. S \in SUBSET Entry => RootIs(V, tables, t, i, S)
    <3> HIDE DEF S
    <3>1. t \in TableBlock
      OBVIOUS
    <3> HIDE DEF t
    <3> QED
      BY <1>1, <3>1, RootSet
  <2> HIDE DEF S, V
  <2> QED
    BY <1>3, <2>1 DEF RootIs
<1>5. \A j \in Slot : tables[t].root[j] = c.before.tables[t].root[j]
                                          \cup (IF j \in A THEN {New(c, j)} ELSE {})
  BY DEF RootsAre
<1>6. S = c.before.tables[t].root[i]
  BY <1>5 DEF NewFree
<1> HIDE DEF V, S
<1>7. \A j \in Slot : V[t].root[j] = c.before.tables[t].root[j]
                                     \cup (IF j \in A \ {i} THEN {New(c, j)} ELSE {})
  BY <1>4, <1>5, <1>6
<1>8. RootsAre(V, c, A \ {i}, {})
  BY <1>4, <1>7 DEF RootsAre
<1> QED
  BY <1>2, <1>8

LEMMA RemovedOld ==
  ASSUME NEW c, NEW A, NEW R, NEW i \in Slot, i \notin R, RootsAre(tables, c, A, R),
         c.table \in TableBlock,
         \A e \in c.before.tables[c.table].root[i] : e.key = Old(c, i).key => e = Old(c, i),
         i \in A => New(c, i).key # Old(c, i).key
  PROVE  RootsAre(Removed(c.table, i, Old(c, i).key), c, A, R \cup {i})
<1> DEFINE t == c.table
           S == {e \in tables[t].root[i] : e.key # Old(c, i).key}
           V == WithRoot(tables, t, i, S)
<1>1. tables \in [TableBlock -> Table]
  BY DEF RootsAre
<1>2. Removed(t, i, Old(c, i).key) = V
  BY DEF Removed, WithRoot
<1>3. S \in SUBSET Entry
  BY <1>1, TableFields
<1>4. /\ V \in [TableBlock -> Table]
      /\ \A u \in TableBlock \ {t} : V[u] = tables[u]
      /\ V[t].name = tables[t].name /\ V[t].index = tables[t].index
      /\ \A j \in Slot : V[t].root[j] = IF j = i THEN S ELSE tables[t].root[j]
  <2>1. S \in SUBSET Entry => RootIs(V, tables, t, i, S)
    <3> HIDE DEF S
    <3>1. t \in TableBlock
      OBVIOUS
    <3> HIDE DEF t
    <3> QED
      BY <1>1, <3>1, RootSet
  <2> HIDE DEF S, V
  <2> QED
    BY <1>3, <2>1 DEF RootIs
<1>5. \A j \in Slot :
        tables[t].root[j] = {e \in c.before.tables[t].root[j] : j \in R => e # Old(c, j)}
                            \cup (IF j \in A THEN {New(c, j)} ELSE {})
  BY DEF RootsAre
<1>6. S = {e \in c.before.tables[t].root[i] : e # Old(c, i)}
          \cup (IF i \in A THEN {New(c, i)} ELSE {})
  BY <1>5
<1> HIDE DEF V, S
<1>7. \A j \in Slot :
        V[t].root[j] = {e \in c.before.tables[t].root[j] : j \in R \cup {i} => e # Old(c, j)}
                       \cup (IF j \in A THEN {New(c, j)} ELSE {})
  BY <1>4, <1>5, <1>6
<1>8. RootsAre(V, c, A, R \cup {i})
  BY <1>4, <1>7 DEF RootsAre
<1> QED
  BY <1>2, <1>8

(* Nothing added and nothing removed: the tables that the command found.    *)
LEMMA RootsBack ==
  ASSUME NEW T, NEW c, RootsAre(T, c, {}, {}), c.table \in TableBlock,
         c.before.tables \in [TableBlock -> Table]
  PROVE  T = c.before.tables
<1> DEFINE U == c.before.tables
           t == c.table
<1>1. T \in [TableBlock -> Table] /\ \A u \in TableBlock \ {t} : T[u] = U[u]
  BY DEF RootsAre
<1>2. /\ T[t].name = U[t].name /\ T[t].index = U[t].index
      /\ \A i \in Slot : T[t].root[i] = U[t].root[i]
  BY DEF RootsAre
<1>3. T[t] = U[t]
  BY <1>1, <1>2, TableEqual
<1> QED
  BY <1>1, <1>3

-----------------------------------------------------------------------------
(* A change of one table: the other tables keep their records, and the      *)
(* table has those in the blocks B.                                         *)
Replaces(T, D, U, E, f, t, B) ==
  /\ T \in [TableBlock -> Table] /\ D \in [DataBlock -> Record \cup {None}]
  /\ B \in SUBSET DataBlock
  /\ \A u \in TableBlock \ {t} : T[u] = U[u]
  /\ IF T[t].name # None THEN Holds(T[t], D, B) ELSE B = {}
  /\ \A u \in TableBlock \ {t} : \A b \in f[u] : D[b] = E[b] /\ b \notin B
  /\ \A b \in DataBlock :
       D[b] # None <=> b \in B \/ \E u \in TableBlock \ {t} : b \in f[u]
  /\ \A u \in Live(U) : u # t /\ T[t].name # None => U[u].name # T[t].name

LEMMA TableChanged ==
  ASSUME NEW U, NEW E, NEW f, DbIs(U, E, f), NEW t \in TableBlock,
         NEW T, NEW D, NEW B, Replaces(T, D, U, E, f, t, B)
  PROVE  DbIs(T, D, [f EXCEPT ![t] = B])
<1> USE DEF Replaces
<1> DEFINE g == [f EXCEPT ![t] = B]
<1>1. f \in [TableBlock -> SUBSET DataBlock]
  BY DEF DbIs
<1>2. g \in [TableBlock -> SUBSET DataBlock] /\ g[t] = B /\ \A u \in TableBlock \ {t} : g[u] = f[u]
  BY <1>1
<1> HIDE DEF g
<1>3. \A u \in TableBlock \ {t} : u \in Live(T) <=> u \in Live(U)
  BY DEF Live
<1>4. ASSUME NEW u \in TableBlock
      PROVE  IF u \in Live(T) THEN Holds(T[u], D, g[u]) ELSE g[u] = {}
  <2>1. CASE u = t
    BY <1>2, <2>1 DEF Live
  <2>2. CASE u # t
    <3>1. IF u \in Live(U) THEN Holds(U[u], E, f[u]) ELSE f[u] = {}
      BY DEF DbIs
    <3>2. \A x : EntriesOf(x, D, f[u]) = EntriesOf(x, E, f[u])
      BY <2>2 DEF EntriesOf
    <3>3. \A x : UniqueIn(x, E, f[u]) => UniqueIn(x, D, f[u])
      BY <2>2 DEF UniqueIn
    <3>4. Holds(U[u], E, f[u]) => Holds(U[u], D, f[u])
      BY <3>2, <3>3 DEF Holds
    <3>5. T[u] = U[u] /\ g[u] = f[u] /\ (u \in Live(T) <=> u \in Live(U))
      BY <1>2, <1>3, <2>2
    <3> QED
      BY <3>1, <3>4, <3>5
  <2> QED
    BY <2>1, <2>2
<1>5. \A b \in DataBlock : D[b] # None <=> \E u \in TableBlock : b \in g[u]
  BY <1>2
<1>6. \A u, v \in TableBlock : u # v => g[u] \cap g[v] = {}
  <2>1. \A u, v \in TableBlock : u # v => f[u] \cap f[v] = {}
    BY DEF DbIs
  <2>2. \A u \in TableBlock \ {t} : f[u] \cap B = {}
    OBVIOUS
  <2> QED
    BY <1>2, <2>1, <2>2
<1>7. \A u, v \in Live(T) : u # v => T[u].name # T[v].name
  <2>1. \A u, v \in Live(U) : u # v => U[u].name # U[v].name
    BY DEF DbIs
  <2>2. \A u \in Live(T) : u \in TableBlock /\ T[u].name # None
    BY DEF Live
  <2> QED
    BY <1>3, <2>1, <2>2
<1> QED
  BY <1>2, <1>4, <1>5, <1>6, <1>7 DEF DbIs, g

(* What the blocks of one table say of the blocks of the others.            *)
LEMMA OwnBlocks ==
  ASSUME NEW U, NEW E, NEW f, DbIs(U, E, f), NEW t \in TableBlock
  PROVE  /\ f[t] \in SUBSET DataBlock
         /\ \A b \in f[t] : E[b] # None /\ E[b] \in Record
         /\ \A u \in TableBlock \ {t} : f[u] \cap f[t] = {} /\ f[u] \subseteq DataBlock
         /\ \A b \in DataBlock :
              E[b] # None <=> b \in f[t] \/ \E u \in TableBlock \ {t} : b \in f[u]
         /\ \A b \in DataBlock : E[b] = None => \A u \in TableBlock : b \notin f[u]
<1>1. f \in [TableBlock -> SUBSET DataBlock] /\ E \in [DataBlock -> Record \cup {None}]
  BY DEF DbIs
<1>2. \A b \in DataBlock : E[b] # None <=> \E u \in TableBlock : b \in f[u]
  BY DEF DbIs
<1>3. \A u, v \in TableBlock : u # v => f[u] \cap f[v] = {}
  BY DEF DbIs
<1> QED
  BY <1>1, <1>2, <1>3

-----------------------------------------------------------------------------
(* The trees when a command has inserted, deleted or updated a record.      *)
LEMMA EntriesLess ==
  ASSUME NEW x, NEW E, NEW B, NEW b
  PROVE  {e \in EntriesOf(x, E, B) : e # EntryOf(x, E[b], b)} = EntriesOf(x, E, B \ {b})
<1>1. \A c : EntryOf(x, E[c], c).block = c
  BY DEF EntryOf
<1>2. \A S, e : e \in EntriesOf(x, E, S) <=> \E c \in S : e = EntryOf(x, E[c], c)
  BY DEF EntriesOf
<1>3. \A c : EntryOf(x, E[c], c) = EntryOf(x, E[b], b) => c = b
  BY <1>1
<1> QED
  BY <1>2, <1>3

LEMMA EntriesMore ==
  ASSUME NEW x, NEW E, NEW D, NEW B, NEW b, \A c \in B : D[c] = E[c]
  PROVE  EntriesOf(x, D, B \cup {b}) = EntriesOf(x, E, B) \cup {EntryOf(x, D[b], b)}
BY DEF EntriesOf

LEMMA UniqueMore ==
  ASSUME NEW x, NEW E, NEW D, NEW B, NEW b, \A c \in B : D[c] = E[c],
         UniqueIn(x, E, B), \A e \in EntriesOf(x, E, B) : e.key # EntryOf(x, D[b], b).key
  PROVE  UniqueIn(x, D, B \cup {b})
<1>1. \A c \in B : KeyOf(x.fields, E[c]) # KeyOf(x.fields, D[b])
  <2>1. \A c \in B : EntryOf(x, E[c], c) \in EntriesOf(x, E, B)
    BY DEF EntriesOf
  <2> QED
    BY <2>1 DEF EntryOf
<1> QED
  BY <1>1 DEF UniqueIn

InsertsIn(W, D, V, E, B, b) ==
  /\ Holds(V, E, B) /\ b \notin B /\ \A c \in B : D[c] = E[c]
  /\ W.index = V.index /\ Defined(V.index) # {}
  /\ \A i \in Slot : W.root[i] = V.root[i] \cup
       (IF i \in Defined(V.index) THEN {EntryOf(V.index[i], D[b], b)} ELSE {})
  /\ \A i \in Defined(V.index) : \A e \in V.root[i] :
       e.key # EntryOf(V.index[i], D[b], b).key

LEMMA HoldsInsert ==
  ASSUME NEW V, NEW E, NEW B, NEW b, NEW D, NEW W, InsertsIn(W, D, V, E, B, b)
  PROVE  Holds(W, D, B \cup {b})
<1> USE DEF InsertsIn
<1>1. \A i \in Defined(V.index) : /\ i \in Slot /\ V.index[i] # None
                                  /\ V.root[i] = EntriesOf(V.index[i], E, B)
                                  /\ UniqueIn(V.index[i], E, B)
  BY DEF Holds, Defined
<1>2. \A i \in Defined(V.index) : /\ W.root[i] = EntriesOf(V.index[i], D, B \cup {b})
                                  /\ UniqueIn(V.index[i], D, B \cup {b})
  <2> SUFFICES ASSUME NEW i \in Defined(V.index)
               PROVE  /\ W.root[i] = EntriesOf(V.index[i], D, B \cup {b})
                      /\ UniqueIn(V.index[i], D, B \cup {b})
    OBVIOUS
  <2> DEFINE x == V.index[i]
  <2>1. W.root[i] = EntriesOf(x, E, B) \cup {EntryOf(x, D[b], b)} /\ UniqueIn(x, E, B)
    BY <1>1
  <2>2. \A e \in EntriesOf(x, E, B) : e.key # EntryOf(x, D[b], b).key
    BY <1>1
  <2> HIDE DEF x
  <2>3. EntriesOf(x, D, B \cup {b}) = EntriesOf(x, E, B) \cup {EntryOf(x, D[b], b)}
    BY EntriesMore
  <2>4. UniqueIn(x, D, B \cup {b})
    BY <2>1, <2>2, UniqueMore
  <2> QED
    BY <2>1, <2>3, <2>4 DEF x
<1>3. \A i \in Slot \ Defined(V.index) : V.index[i] = None /\ W.root[i] = {}
  BY DEF Holds, Defined
<1> QED
  BY <1>1, <1>2, <1>3 DEF Holds

DeletesFrom(W, D, V, E, B, b) ==
  /\ Holds(V, E, B) /\ b \in B /\ \A c \in B \ {b} : D[c] = E[c]
  /\ W.index = V.index
  /\ \A i \in Slot : W.root[i] =
       {e \in V.root[i] : i \in Defined(V.index) => e # EntryOf(V.index[i], E[b], b)}

LEMMA HoldsDelete ==
  ASSUME NEW V, NEW E, NEW B, NEW b, NEW D, NEW W, DeletesFrom(W, D, V, E, B, b)
  PROVE  Holds(W, D, B \ {b})
<1> USE DEF DeletesFrom
<1>1. \A i \in Defined(V.index) : /\ i \in Slot /\ V.index[i] # None
                                  /\ V.root[i] = EntriesOf(V.index[i], E, B)
                                  /\ UniqueIn(V.index[i], E, B)
  BY DEF Holds, Defined
<1>2. \A x : EntriesOf(x, D, B \ {b}) = EntriesOf(x, E, B \ {b})
  BY DEF EntriesOf
<1>3. \A x : UniqueIn(x, E, B) => UniqueIn(x, D, B \ {b})
  BY DEF UniqueIn
<1>4. \A i \in Defined(V.index) : /\ W.root[i] = EntriesOf(V.index[i], D, B \ {b})
                                  /\ UniqueIn(V.index[i], D, B \ {b})
  <2> SUFFICES ASSUME NEW i \in Defined(V.index)
               PROVE  /\ W.root[i] = EntriesOf(V.index[i], D, B \ {b})
                      /\ UniqueIn(V.index[i], D, B \ {b})
    OBVIOUS
  <2> DEFINE x == V.index[i]
  <2>1. W.root[i] = {e \in EntriesOf(x, E, B) : e # EntryOf(x, E[b], b)} /\ UniqueIn(x, E, B)
    BY <1>1
  <2> HIDE DEF x
  <2>2. W.root[i] = EntriesOf(x, E, B \ {b})
    BY <2>1, EntriesLess
  <2>3. W.root[i] = EntriesOf(x, D, B \ {b}) /\ UniqueIn(x, D, B \ {b})
    BY <1>2, <1>3, <2>1, <2>2
  <2> QED
    BY <2>3 DEF x
<1>5. \A i \in Slot \ Defined(V.index) : V.index[i] = None /\ W.root[i] = {}
  BY DEF Holds, Defined
<1> QED
  BY <1>1, <1>4, <1>5 DEF Holds

UpdatesIn(W, D, V, E, B, b, C) ==
  /\ Holds(V, E, B) /\ b \in B /\ \A c \in B \ {b} : D[c] = E[c]
  /\ W.index = V.index /\ C \in SUBSET Defined(V.index)
  /\ \A i \in Defined(V.index) \ C :
       KeyOf(V.index[i].fields, E[b]) = KeyOf(V.index[i].fields, D[b])
  /\ \A i \in Slot : W.root[i] =
       {e \in V.root[i] : i \in C => e # EntryOf(V.index[i], E[b], b)}
       \cup (IF i \in C THEN {EntryOf(V.index[i], D[b], b)} ELSE {})
  /\ \A i \in C : \A e \in V.root[i] : e.key # EntryOf(V.index[i], D[b], b).key

LEMMA HoldsUpdate ==
  ASSUME NEW V, NEW E, NEW B, NEW b, NEW D, NEW W, NEW C, UpdatesIn(W, D, V, E, B, b, C)
  PROVE  Holds(W, D, B)
<1> USE DEF UpdatesIn
<1>1. \A i \in Defined(V.index) : /\ i \in Slot /\ V.index[i] # None
                                  /\ V.root[i] = EntriesOf(V.index[i], E, B)
                                  /\ UniqueIn(V.index[i], E, B)
  BY DEF Holds, Defined
<1>2. (B \ {b}) \cup {b} = B
  OBVIOUS
<1>3. ASSUME NEW i \in C
      PROVE  /\ W.root[i] = EntriesOf(V.index[i], D, B)
             /\ UniqueIn(V.index[i], D, B)
  <2> DEFINE x == V.index[i]
  <2>1. W.root[i] = {e \in EntriesOf(x, E, B) : e # EntryOf(x, E[b], b)} \cup {EntryOf(x, D[b], b)}
    BY <1>1
  <2>2. \A e \in EntriesOf(x, E, B) : e.key # EntryOf(x, D[b], b).key
    BY <1>1
  <2>3. UniqueIn(x, E, B)
    BY <1>1
  <2> HIDE DEF x
  <2>4. W.root[i] = EntriesOf(x, E, B \ {b}) \cup {EntryOf(x, D[b], b)}
    BY <2>1, EntriesLess
  <2>5. EntriesOf(x, D, (B \ {b}) \cup {b}) = EntriesOf(x, E, B \ {b}) \cup {EntryOf(x, D[b], b)}
    BY EntriesMore
  <2>6. UniqueIn(x, E, B \ {b}) /\ EntriesOf(x, E, B \ {b}) \subseteq EntriesOf(x, E, B)
    BY <2>3 DEF UniqueIn, EntriesOf
  <2>7. \A e \in EntriesOf(x, E, B \ {b}) : e.key # EntryOf(x, D[b], b).key
    BY <2>2, <2>6
  <2>8. UniqueIn(x, D, (B \ {b}) \cup {b})
    BY <2>6, <2>7, UniqueMore
  <2> QED
    BY <1>2, <2>4, <2>5, <2>8 DEF x
<1>4. ASSUME NEW i \in Defined(V.index) \ C
      PROVE  /\ W.root[i] = EntriesOf(V.index[i], D, B)
             /\ UniqueIn(V.index[i], D, B)
  <2> DEFINE x == V.index[i]
  <2>1. W.root[i] = EntriesOf(x, E, B) /\ UniqueIn(x, E, B)
    BY <1>1
  <2>2. \A c \in B : KeyOf(x.fields, E[c]) = KeyOf(x.fields, D[c])
    OBVIOUS
  <2>3. EntriesOf(x, E, B) = EntriesOf(x, D, B) /\ UniqueIn(x, D, B)
    BY <2>1, <2>2 DEF EntriesOf, EntryOf, UniqueIn
  <2> QED
    BY <2>1, <2>3
<1>5. \A i \in Slot \ Defined(V.index) : V.index[i] = None /\ W.root[i] = {}
  BY DEF Holds, Defined
<1> QED
  BY <1>1, <1>3, <1>4, <1>5 DEF Holds

RecordsAre(db, t, f) == Records(db, t) = {db.data[b] : b \in f[t]}

LEMMA RecordsOf ==
  ASSUME TableAssumption, NEW db, NEW f, DbIs(db.tables, db.data, f), NEW t \in Live(db.tables)
  PROVE  RecordsAre(db, t, f)
<1>1. Holds(db.tables[t], db.data, f[t])
  BY DEF DbIs, Live
<1>2. {e.block : e \in Entries(db.tables[t])} = f[t]
  BY <1>1, HoldsEntries
<1> QED
  BY <1>2 DEF Records, RecordsAre

(* A command c on the database with the owners f.                           *)
On(c, f) ==
  /\ DbIs(c.before.tables, c.before.data, f) /\ c.table \in Live(c.before.tables)
  /\ c.index = c.before.tables[c.table].index

LEMMA OnTable ==
  ASSUME TableAssumption, NEW c, NEW f, On(c, f), NEW T, NEW A, NEW R, RootsAre(T, c, A, R)
  PROVE  /\ c.table \in TableBlock /\ c.table \in Live(T)
         /\ c.before.tables \in [TableBlock -> Table]
         /\ Holds(c.before.tables[c.table], c.before.data, f[c.table])
         /\ Records(c.before, c.table) = {c.before.data[b] : b \in f[c.table]}
         /\ T \in [TableBlock -> Table] /\ T[c.table].index = c.index
         /\ T[c.table].name = c.before.tables[c.table].name /\ T[c.table].name # None
         /\ \A u \in Live(c.before.tables) :
              u # c.table => c.before.tables[u].name # T[c.table].name
<1>1. c.table \in TableBlock /\ c.before.tables[c.table].name # None
  BY DEF On, Live
<1>2. Records(c.before, c.table) = {c.before.data[b] : b \in f[c.table]}
  BY RecordsOf DEF On, RecordsAre
<1>3. T \in [TableBlock -> Table] /\ T[c.table].index = c.index
      /\ T[c.table].name = c.before.tables[c.table].name
  BY DEF RootsAre, On
<1>4. /\ c.before.tables \in [TableBlock -> Table]
      /\ Holds(c.before.tables[c.table], c.before.data, f[c.table])
      /\ \A t, u \in Live(c.before.tables) :
           t # u => c.before.tables[t].name # c.before.tables[u].name
  BY <1>1 DEF On, DbIs
<1>5. \A u \in Live(c.before.tables) :
        u # c.table => c.before.tables[u].name # T[c.table].name
  BY <1>3, <1>4 DEF On
<1>6. c.table \in Live(T)
  BY <1>1, <1>3 DEF Live
<1> QED
  BY <1>1, <1>2, <1>3, <1>4, <1>5, <1>6

LEMMA Inserted ==
  ASSUME TableAssumption, NEW c, NEW f, On(c, f),
         c.block \in DataBlock, c.new \in Record, c.new # None, c.before.data[c.block] = None,
         Defined(c.index) # {}, \A i \in Defined(c.index) : NewFree(c, i),
         NEW T, RootsAre(T, c, Defined(c.index), {}),
         NEW D, D = [c.before.data EXCEPT ![c.block] = c.new]
  PROVE  /\ DbIs(T, D, [f EXCEPT ![c.table] = @ \cup {c.block}])
         /\ Records([tables |-> T, data |-> D], c.table)
              = Records(c.before, c.table) \cup {c.new}
         /\ c.new \notin Records(c.before, c.table)
<1> DEFINE t == c.table
           b == c.block
           B == f[t]
           E == c.before.data
           U == c.before.tables
           V == U[t]
           W == T[t]
<1>1. /\ t \in TableBlock /\ t \in Live(T) /\ Holds(V, E, B)
      /\ Records(c.before, t) = {E[x] : x \in B}
      /\ T \in [TableBlock -> Table] /\ W.index = c.index /\ W.name # None
      /\ \A u \in Live(U) : u # t => U[u].name # W.name
  BY OnTable
<1>2. E \in [DataBlock -> Record \cup {None}] /\ V.index = c.index
  BY DEF On, DbIs
<1>3. /\ D \in [DataBlock -> Record \cup {None}] /\ D[b] = c.new
      /\ \A x \in DataBlock \ {b} : D[x] = E[x]
  BY <1>2
<1>4. DbIs(U, E, f)
  BY DEF On
<1>5. /\ B \in SUBSET DataBlock
      /\ \A x \in B : E[x] # None
      /\ \A u \in TableBlock \ {t} : f[u] \cap B = {} /\ f[u] \subseteq DataBlock
      /\ \A x \in DataBlock : E[x] # None <=> x \in B \/ \E u \in TableBlock \ {t} : x \in f[u]
      /\ \A u \in TableBlock : b \notin f[u]
  BY <1>1, <1>4, OwnBlocks
<1>6. \A i \in Slot : W.root[i] = V.root[i] \cup
         (IF i \in Defined(V.index) THEN {EntryOf(V.index[i], D[b], b)} ELSE {})
  BY <1>2, <1>3 DEF RootsAre, New
<1>7. \A i \in Defined(V.index) : \A e \in V.root[i] : e.key # EntryOf(V.index[i], D[b], b).key
  BY <1>2, <1>3 DEF NewFree, New
<1>8. b \notin B /\ \A x \in B : D[x] = E[x]
  BY <1>1, <1>3, <1>5
<1>9. Defined(V.index) # {} /\ W.index = V.index
  BY <1>1, <1>2
<1> HIDE DEF V, W, E, U, B
<1>10. Holds(W, D, B \cup {b})
  <2>1. InsertsIn(W, D, V, E, B, b)
    BY <1>1, <1>6, <1>7, <1>8, <1>9 DEF InsertsIn
  <2> QED
    BY <2>1, HoldsInsert
<1>11. DbIs(T, D, [f EXCEPT ![t] = B \cup {b}])
  <2>1. \A u \in TableBlock \ {t} : T[u] = U[u]
    BY DEF RootsAre, U
  <2>2. \A u \in TableBlock \ {t} : \A x \in f[u] : D[x] = E[x] /\ x \notin B \cup {b}
    BY <1>3, <1>5
  <2>3. \A x \in DataBlock :
          D[x] # None <=> x \in B \cup {b} \/ \E u \in TableBlock \ {t} : x \in f[u]
    BY <1>3, <1>5
  <2>4. B \cup {b} \in SUBSET DataBlock
    BY <1>5
  <2>5. Replaces(T, D, U, E, f, t, B \cup {b})
    BY <1>1, <1>3, <1>10, <2>1, <2>2, <2>3, <2>4 DEF W, Replaces
  <2> QED
    BY <1>1, <1>4, <2>5, TableChanged
<1>12. Records([tables |-> T, data |-> D], t) = {D[x] : x \in B \cup {b}}
  <2> DEFINE g == [f EXCEPT ![t] = B \cup {b}]
             db == [tables |-> T, data |-> D]
  <2>1. g[t] = B \cup {b}
    BY <1>1, <1>4 DEF DbIs
  <2>2. DbIs(db.tables, db.data, g) /\ t \in Live(db.tables) /\ db.data = D
    BY <1>1, <1>11
  <2> HIDE DEF g, db
  <2>3. RecordsAre(db, t, g)
    BY <2>2, RecordsOf
  <2> QED
    BY <2>1, <2>2, <2>3 DEF db, RecordsAre
<1>13. c.new \notin {E[x] : x \in B}
  <2> SUFFICES ASSUME NEW x \in B, E[x] = c.new PROVE FALSE
    OBVIOUS
  <2>1. PICK i \in Defined(V.index) : TRUE
    BY <1>9
  <2>2. V.root[i] = EntriesOf(V.index[i], E, B)
    BY <1>1, <2>1 DEF Holds, Defined
  <2>3. EntryOf(V.index[i], E[x], x) \in V.root[i]
    BY <2>2 DEF EntriesOf
  <2> QED
    BY <1>3, <1>7, <2>1, <2>3 DEF EntryOf
<1> QED
  BY <1>1, <1>3, <1>8, <1>11, <1>12, <1>13 DEF B

LEMMA Deleted ==
  ASSUME TableAssumption, NEW c, NEW f, On(c, f), c.block \in f[c.table],
         c.before.data[c.block] = c.old,
         NEW T, RootsAre(T, c, {}, Defined(c.index)),
         NEW D, D = [c.before.data EXCEPT ![c.block] = None]
  PROVE  /\ DbIs(T, D, [f EXCEPT ![c.table] = @ \ {c.block}])
         /\ Records([tables |-> T, data |-> D], c.table)
              = Records(c.before, c.table) \ {c.old}
         /\ c.old \in Records(c.before, c.table)
<1> DEFINE t == c.table
           b == c.block
           B == f[t]
           E == c.before.data
           U == c.before.tables
           V == U[t]
           W == T[t]
<1>1. /\ t \in TableBlock /\ t \in Live(T) /\ Holds(V, E, B)
      /\ Records(c.before, t) = {E[x] : x \in B}
      /\ T \in [TableBlock -> Table] /\ W.index = c.index /\ W.name # None
      /\ \A u \in Live(U) : u # t => U[u].name # W.name
  BY OnTable
<1>2. E \in [DataBlock -> Record \cup {None}] /\ V.index = c.index
  BY DEF On, DbIs
<1>3. DbIs(U, E, f)
  BY DEF On
<1>4. /\ B \in SUBSET DataBlock
      /\ \A x \in B : E[x] # None
      /\ \A u \in TableBlock \ {t} : f[u] \cap B = {} /\ f[u] \subseteq DataBlock
      /\ \A x \in DataBlock : E[x] # None <=> x \in B \/ \E u \in TableBlock \ {t} : x \in f[u]
  BY <1>1, <1>3, OwnBlocks
<1>5. /\ D \in [DataBlock -> Record \cup {None}] /\ D[b] = None
      /\ \A x \in DataBlock \ {b} : D[x] = E[x]
  BY <1>2, <1>4
<1>6. \A i \in Slot : W.root[i] =
         {e \in V.root[i] : i \in Defined(V.index) => e # EntryOf(V.index[i], E[b], b)}
  BY <1>2 DEF RootsAre, Old
<1>7. b \in B /\ \A x \in B \ {b} : D[x] = E[x]
  BY <1>4, <1>5
<1>8. W.index = V.index /\ E[b] = c.old
  BY <1>1, <1>2
<1> HIDE DEF V, W, E, U, B
<1>9. Holds(W, D, B \ {b})
  <2>1. DeletesFrom(W, D, V, E, B, b)
    BY <1>1, <1>6, <1>7, <1>8 DEF DeletesFrom
  <2> QED
    BY <2>1, HoldsDelete
<1>10. DbIs(T, D, [f EXCEPT ![t] = B \ {b}])
  <2>1. \A u \in TableBlock \ {t} : T[u] = U[u]
    BY DEF RootsAre, U
  <2>2. \A u \in TableBlock \ {t} : \A x \in f[u] : D[x] = E[x] /\ x \notin B \ {b}
    BY <1>4, <1>5, <1>7
  <2>3. \A x \in DataBlock :
          D[x] # None <=> x \in B \ {b} \/ \E u \in TableBlock \ {t} : x \in f[u]
    BY <1>4, <1>5, <1>7
  <2>4. B \ {b} \in SUBSET DataBlock
    BY <1>4
  <2>5. Replaces(T, D, U, E, f, t, B \ {b})
    BY <1>1, <1>5, <1>9, <2>1, <2>2, <2>3, <2>4 DEF W, Replaces
  <2> QED
    BY <1>1, <1>3, <2>5, TableChanged
<1>11. Records([tables |-> T, data |-> D], t) = {D[x] : x \in B \ {b}}
  <2> DEFINE g == [f EXCEPT ![t] = B \ {b}]
             db == [tables |-> T, data |-> D]
  <2>1. g[t] = B \ {b}
    BY <1>1, <1>3 DEF DbIs
  <2>2. DbIs(db.tables, db.data, g) /\ t \in Live(db.tables) /\ db.data = D
    BY <1>1, <1>10
  <2> HIDE DEF g, db
  <2>3. RecordsAre(db, t, g)
    BY <2>2, RecordsOf
  <2> QED
    BY <2>1, <2>2, <2>3 DEF db, RecordsAre
<1>12. \A x \in B \ {b} : E[x] # E[b]
  <2>1. PICK i \in Defined(V.index) : UniqueIn(V.index[i], E, B)
    BY <1>1, <1>7 DEF Holds
  <2> QED
    BY <1>7, <2>1 DEF UniqueIn
<1>13. {E[x] : x \in B} \ {E[b]} = {D[x] : x \in B \ {b}}
  BY <1>7, <1>12
<1> QED
  BY <1>1, <1>7, <1>8, <1>10, <1>11, <1>13 DEF B

LEMMA Updated ==
  ASSUME TableAssumption, NEW c, NEW f, On(c, f), c.block \in f[c.table],
         c.before.data[c.block] = c.old, c.new \in Record, c.new # None,
         \A i \in Changed(c.index, c.old, c.new) : NewFree(c, i),
         NEW T, RootsAre(T, c, Changed(c.index, c.old, c.new), Changed(c.index, c.old, c.new)),
         NEW D, D = [c.before.data EXCEPT ![c.block] = c.new]
  PROVE  /\ DbIs(T, D, f)
         /\ Records([tables |-> T, data |-> D], c.table)
              = (Records(c.before, c.table) \ {c.old}) \cup {c.new}
<1> DEFINE t == c.table
           b == c.block
           B == f[t]
           E == c.before.data
           U == c.before.tables
           V == U[t]
           W == T[t]
           C == Changed(c.index, c.old, c.new)
<1>1. /\ t \in TableBlock /\ t \in Live(T) /\ Holds(V, E, B)
      /\ Records(c.before, t) = {E[x] : x \in B}
      /\ T \in [TableBlock -> Table] /\ W.index = c.index /\ W.name # None
      /\ \A u \in Live(U) : u # t => U[u].name # W.name
  BY OnTable
<1>2. E \in [DataBlock -> Record \cup {None}] /\ V.index = c.index
  BY DEF On, DbIs
<1>3. DbIs(U, E, f)
  BY DEF On
<1>4. /\ B \in SUBSET DataBlock
      /\ \A x \in B : E[x] # None
      /\ \A u \in TableBlock \ {t} : f[u] \cap B = {} /\ f[u] \subseteq DataBlock
      /\ \A x \in DataBlock : E[x] # None <=> x \in B \/ \E u \in TableBlock \ {t} : x \in f[u]
  BY <1>1, <1>3, OwnBlocks
<1>5. /\ D \in [DataBlock -> Record \cup {None}] /\ D[b] = c.new
      /\ \A x \in DataBlock \ {b} : D[x] = E[x]
  BY <1>2, <1>4
<1>6. \A i \in Slot : W.root[i] =
         {e \in V.root[i] : i \in C => e # EntryOf(V.index[i], E[b], b)}
         \cup (IF i \in C THEN {EntryOf(V.index[i], D[b], b)} ELSE {})
  BY <1>2, <1>5 DEF RootsAre, Old, New
<1>7. b \in B /\ \A x \in B \ {b} : D[x] = E[x]
  BY <1>4, <1>5
<1>8. W.index = V.index /\ E[b] = c.old
  BY <1>1, <1>2
<1>9. C \in SUBSET Defined(V.index)
      /\ \A i \in Defined(V.index) \ C :
           KeyOf(V.index[i].fields, E[b]) = KeyOf(V.index[i].fields, D[b])
  BY <1>2, <1>5 DEF Changed
<1>10. \A i \in C : \A e \in V.root[i] : e.key # EntryOf(V.index[i], D[b], b).key
  BY <1>2, <1>5 DEF NewFree, New
<1> HIDE DEF V, W, E, U, B, C
<1>11. Holds(W, D, B)
  <2>1. UpdatesIn(W, D, V, E, B, b, C)
    BY <1>1, <1>6, <1>7, <1>8, <1>9, <1>10 DEF UpdatesIn
  <2> QED
    BY <2>1, HoldsUpdate
<1>12. f = [f EXCEPT ![t] = B]
  BY <1>3 DEF DbIs, B
<1>13. DbIs(T, D, f)
  <2>1. \A u \in TableBlock \ {t} : T[u] = U[u]
    BY DEF RootsAre, U
  <2>2. \A u \in TableBlock \ {t} : \A x \in f[u] : D[x] = E[x] /\ x \notin B
    BY <1>4, <1>5, <1>7
  <2>3. \A x \in DataBlock :
          D[x] # None <=> x \in B \/ \E u \in TableBlock \ {t} : x \in f[u]
    BY <1>4, <1>5, <1>7
  <2>4. Replaces(T, D, U, E, f, t, B)
    BY <1>1, <1>4, <1>5, <1>11, <2>1, <2>2, <2>3 DEF W, Replaces
  <2> QED
    BY <1>1, <1>3, <1>12, <2>4, TableChanged
<1>14. Records([tables |-> T, data |-> D], t) = {D[x] : x \in B}
  <2> DEFINE db == [tables |-> T, data |-> D]
  <2>1. DbIs(db.tables, db.data, f) /\ t \in Live(db.tables) /\ db.data = D
    BY <1>1, <1>13
  <2> HIDE DEF db
  <2>2. RecordsAre(db, t, f)
    BY <2>1, RecordsOf
  <2> QED
    BY <2>1, <2>2 DEF db, B, RecordsAre
<1>15. \A x \in B \ {b} : E[x] # E[b]
  <2>1. PICK i \in Defined(V.index) : UniqueIn(V.index[i], E, B)
    BY <1>1, <1>7 DEF Holds
  <2> QED
    BY <1>7, <2>1 DEF UniqueIn
<1>16. ({E[x] : x \in B} \ {E[b]}) \cup {D[b]} = {D[x] : x \in B}
  BY <1>7, <1>15
<1> QED
  BY <1>1, <1>5, <1>8, <1>13, <1>14, <1>16

-----------------------------------------------------------------------------
(* The types of commands.                                                   *)
BuildType ==
  [step: {"build"}, table: TableBlock, slot: Slot, new: Index,
   todo: SUBSET Entry, before: Database]
RecordType(steps, old, new) ==
  [step: steps, table: TableBlock, index: Indexes, todo: SUBSET Slot,
   block: DataBlock, old: old, new: new, before: Database]
InsertType == RecordType({"insert", "insertUndo"}, {None}, Record)
DeleteType == RecordType({"delete"}, Record, {None})
UpdateType == RecordType({"update", "updateUndo", "updateDrop"}, Record, Record)

LEMMA CommandTypes ==
  CommandType = {NoCommand} \cup BuildType \cup InsertType \cup DeleteType \cup UpdateType
BY DEF CommandType, BuildType, InsertType, DeleteType, UpdateType, RecordType

LEMMA CommandKind ==
  ASSUME NEW c \in CommandType
  PROVE  /\ c # NoCommand => c.step # "none" /\ c.before \in Database /\ c.table \in TableBlock
         /\ c.step = "build" => c \in BuildType
         /\ c.step \in {"insert", "insertUndo"} => c \in InsertType
         /\ c.step = "delete" => c \in DeleteType
         /\ c.step \in {"update", "updateUndo", "updateDrop"} => c \in UpdateType
         /\ c.step \in {"none", "build", "insert", "insertUndo", "delete",
                        "update", "updateUndo", "updateDrop"}
         /\ c = NoCommand <=> c.step = "none"
<1>1. CASE c = NoCommand
  BY <1>1 DEF NoCommand
<1>2. CASE c \in BuildType
  <2>1. c.step = "build" /\ c.before \in Database /\ c.table \in TableBlock
    BY <1>2 DEF BuildType
  <2> QED
    BY <1>2, <2>1 DEF NoCommand
<1>3. CASE c \in InsertType
  <2>1. c.step \in {"insert", "insertUndo"} /\ c.before \in Database /\ c.table \in TableBlock
    BY <1>3 DEF InsertType, RecordType
  <2> QED
    BY <1>3, <2>1 DEF NoCommand
<1>4. CASE c \in DeleteType
  <2>1. c.step = "delete" /\ c.before \in Database /\ c.table \in TableBlock
    BY <1>4 DEF DeleteType, RecordType
  <2> QED
    BY <1>4, <2>1 DEF NoCommand
<1>5. CASE c \in UpdateType
  <2>1. c.step \in {"update", "updateUndo", "updateDrop"} /\ c.before \in Database
        /\ c.table \in TableBlock
    BY <1>5 DEF UpdateType, RecordType
  <2> QED
    BY <1>5, <2>1 DEF NoCommand
<1> QED
  BY <1>1, <1>2, <1>3, <1>4, <1>5, CommandTypes

Db(T, D) == T \in [TableBlock -> Table] /\ D \in [DataBlock -> Record \cup {None, Blank}]

LEMMA DatabaseParts ==
  /\ \A T, D : [tables |-> T, data |-> D] \in Database <=> Db(T, D)
  /\ \A db \in Database : /\ Db(db.tables, db.data)
                          /\ db = [tables |-> db.tables, data |-> db.data]
BY DEF Database, Db

TxType == [owner: Process \cup {None}, explicit: BOOLEAN, error: BOOLEAN]
Replies == {"ok", "logical", "fatal", "internal", "stopped"}

(* The types after a step that touches no handle.                           *)
LEMMA TypesStay ==
  ASSUME TypeOK, Db(tables', data'), committed' \in Database, tx' \in TxType,
         cmd' \in CommandType, reply' \in Replies, left' \in Nat, UNCHANGED <<handles, bytes>>,
         cmd' # NoCommand => tx'.owner # None,
         tx'.owner = None => committed' = [tables |-> tables', data |-> data']
  PROVE  TypeOK'
BY DatabaseParts DEF TypeOK, TxType, Replies

(* The end of a command that leaves T and D.                                *)
LEMMA ClosedRight ==
  ASSUME DataInv, cmd # NoCommand, NEW rc \in {"ok", "logical", "fatal"}, NEW T, NEW D,
         Closed(rc, T, D), Db(T, D), rc # "fatal" => Agree(T, D),
         rc = "logical" => T = cmd.before.tables /\ D = cmd.before.data,
         rc = "ok" => Effect(cmd, T, D), None \notin Process
  PROVE  DataInv' /\ Whole
<1>1. /\ cmd' = NoCommand /\ reply' = rc /\ UNCHANGED <<handles, bytes, left>>
      /\ tx \in TxType /\ tx.owner # None /\ committed \in Database /\ left \in Nat
      /\ cmd.before \in Database
  BY CommandKind DEF DataInv, TypeOK, Closed, TxType
<1>2. /\ ~tx.explicit => cmd.before = committed
      /\ Agree(committed.tables, committed.data)
  BY DEF DataInv, CommandInv
<1>3. Db(committed.tables, committed.data)
  BY <1>1, DatabaseParts
<1>4. cmd' \in CommandType /\ reply' \in Replies
  BY <1>1 DEF CommandType, Replies
<1>5. NoTx \in TxType /\ NoTx.owner = None
  BY DEF NoTx, TxType
<1>6. [tables |-> cmd.before.tables, data |-> cmd.before.data] = cmd.before
      /\ [tables |-> committed.tables, data |-> committed.data] = committed
  BY <1>1, DatabaseParts
<1>7. CASE tx.explicit
  <2>1. /\ tables' = T /\ data' = D /\ committed' = committed
        /\ tx' = [tx EXCEPT !.error = (rc \in {"fatal", "internal"})]
    BY <1>7 DEF Closed
  <2> DEFINE bad == rc \in {"fatal", "internal"}
  <2>2. tx' \in TxType /\ tx'.owner # None /\ tx'.explicit = tx.explicit /\ tx'.error = bad
    <3>1. bad \in BOOLEAN /\ tx' = [tx EXCEPT !.error = bad]
      BY <2>1
    <3> HIDE DEF bad
    <3> QED
      BY <1>1, <3>1 DEF TxType
  <2>3. rc = "fatal" => tx'.error
    BY <2>2
  <2>4. TypeOK'
    BY <1>1, <1>4, <2>1, <2>2, TypesStay DEF DataInv
  <2>5. TxInv' /\ CommandInv' /\ IndexesAgree'
    BY <1>1, <1>7, <2>1, <2>2, <2>3 DEF TxInv, CommandInv, IndexesAgree
  <2>6. Whole
    BY <1>1, <1>6, <2>1 DEF Whole
  <2> QED
    BY <1>2, <2>1, <2>4, <2>5, <2>6 DEF DataInv
<1>8. CASE ~tx.explicit /\ rc = "ok"
  <2>1. tables' = T /\ data' = D /\ Commit(T, D) /\ tx' = NoTx
    BY <1>8 DEF Closed
  <2>2. committed' = [tables |-> T, data |-> D] /\ committed' \in Database
    BY <2>1, DatabaseParts DEF Commit
  <2>3. TypeOK'
    BY <1>1, <1>4, <1>5, <2>1, <2>2, TypesStay DEF DataInv
  <2>4. TxInv' /\ CommandInv' /\ IndexesAgree'
    BY <1>1, <1>5, <1>8, <2>1 DEF TxInv, CommandInv, IndexesAgree
  <2>5. Whole
    BY <1>1, <1>8, <2>1 DEF Whole
  <2> QED
    BY <1>8, <2>1, <2>2, <2>3, <2>4, <2>5 DEF DataInv
<1>9. CASE ~tx.explicit /\ rc # "ok"
  <2>1. /\ tables' = committed.tables /\ data' = committed.data
        /\ committed' = committed /\ tx' = NoTx
    BY <1>9 DEF Closed
  <2>2. TypeOK'
    BY <1>1, <1>3, <1>4, <1>5, <1>6, <2>1, TypesStay DEF DataInv
  <2>3. TxInv' /\ CommandInv' /\ IndexesAgree'
    BY <1>1, <1>2, <1>5, <2>1 DEF TxInv, CommandInv, IndexesAgree
  <2>4. Whole
    BY <1>1, <1>2, <1>6, <1>9, <2>1 DEF Whole
  <2> QED
    BY <1>2, <2>1, <2>2, <2>3, <2>4 DEF DataInv
<1> QED
  BY <1>7, <1>8, <1>9

(* A step inside a command, which goes on as c.                             *)
LEMMA SteppedRight ==
  ASSUME DataInv, cmd # NoCommand, NEW T, NEW c, Stepped(T, c), Db(T, data),
         c \in CommandType, c # NoCommand, c.before = cmd.before, c.table = cmd.table,
         IF c.step = "build" THEN BuildInv(c, T, data) ELSE RecordInv(c, T, data)
  PROVE  DataInv' /\ Whole
<1>1. /\ tables' = T /\ cmd' = c
      /\ UNCHANGED <<data, committed, tx, reply, handles, bytes, left>>
  BY DEF Stepped
<1>2. TypeOK'
  <2>1. /\ tx \in TxType /\ tx.owner # None /\ committed \in Database /\ left \in Nat
        /\ reply \in Replies
    BY DEF DataInv, TypeOK, TxType, Replies
  <2> QED
    BY <1>1, <2>1, TypesStay DEF DataInv
<1>3. CommandInv'
  <2>1. /\ ~tx.error /\ (~tx.explicit => cmd.before = committed)
        /\ Agree(cmd.before.tables, cmd.before.data)
        /\ cmd.table \in Live(cmd.before.tables)
    BY DEF DataInv, CommandInv
  <2>2. ~tx'.error /\ (~tx'.explicit => cmd'.before = committed')
    BY <1>1, <2>1
  <2>3. Agree(cmd.before.tables, cmd.before.data)' /\ (cmd.table \in Live(cmd.before.tables))'
    BY <1>1, <2>1
  <2>4. IF cmd'.step = "build" THEN BuildInv(cmd', tables', data')
                               ELSE RecordInv(cmd', tables', data')
    BY <1>1
  <2> QED
    BY <2>2, <2>3, <2>4 DEF CommandInv
<1>4. TxInv' /\ IndexesAgree' /\ Whole
  BY <1>1 DEF TxInv, IndexesAgree, Whole
<1> QED
  BY <1>1, <1>2, <1>3, <1>4 DEF DataInv

(* A command that a process may begin finds a database that is right.       *)
LEMMA MayBegin ==
  ASSUME DataInv, NEW p \in Process, MayCommand(p), None \notin Process
  PROVE  /\ cmd = NoCommand /\ Agree(tables, data) /\ Db(tables, data)
         /\ tx.owner = p => tx.explicit /\ ~tx.error
         /\ tx.owner # p => tx.owner = None /\ committed = [tables |-> tables, data |-> data]
         /\ tx \in TxType /\ committed \in Database /\ left \in Nat /\ reply \in Replies
         /\ cmd \in CommandType
<1>1. /\ tx \in TxType /\ committed \in Database /\ left \in Nat /\ reply \in Replies
      /\ Db(tables, data) /\ cmd \in CommandType
      /\ tx.owner = None => committed = [tables |-> tables, data |-> data]
  BY DatabaseParts DEF DataInv, TypeOK, TxType, Replies
<1>2. CASE tx.owner = None
  BY <1>1, <1>2 DEF DataInv, MayCommand
<1>3. CASE tx.owner = p /\ ~tx.error
  BY <1>1, <1>3 DEF DataInv, MayCommand, IndexesAgree, TxInv
<1> QED
  BY <1>2, <1>3 DEF MayCommand

(* A command that succeeds in one step and leaves T and D.                  *)
LEMMA PerformedRight ==
  ASSUME DataInv, NEW p \in Process, NEW T, NEW D, Performed(p, T, D), None \notin Process,
         Db(T, D), Agree(T, D), UNCHANGED <<handles, bytes>>, left' \in Nat
  PROVE  DataInv' /\ Whole
<1>1. MayCommand(p) /\ tables' = T /\ data' = D /\ reply' = "ok" /\ UNCHANGED <<tx, cmd>>
  BY DEF Performed
<1>2. /\ cmd = NoCommand
      /\ tx.owner = p => tx.explicit /\ ~tx.error
      /\ tx.owner # p => tx.owner = None
      /\ tx \in TxType /\ committed \in Database /\ cmd \in CommandType
      /\ Agree(committed.tables, committed.data)
  BY <1>1, MayBegin DEF DataInv
<1>3. /\ committed' \in Database /\ Agree(committed.tables, committed.data)'
      /\ tx.owner = None => committed' = [tables |-> tables', data |-> data']
  <2>1. CASE tx.owner = p
    <3>1. committed' = committed
      BY <2>1 DEF Performed
    <3> QED
      BY <1>2, <2>1, <3>1
  <2>2. CASE tx.owner # p
    <3>1. committed' = [tables |-> T, data |-> D]
      BY <2>2 DEF Performed, Commit
    <3> QED
      BY <1>1, <3>1, DatabaseParts
  <2> QED
    BY <2>1, <2>2
<1>4. TypeOK'
  <2>1. reply' \in Replies
    BY <1>1 DEF Replies
  <2> QED
    BY <1>1, <1>2, <1>3, <2>1, TypesStay DEF DataInv
<1>5. TxInv' /\ CommandInv' /\ IndexesAgree' /\ Whole
  BY <1>1, <1>2 DEF TxInv, CommandInv, IndexesAgree, Whole
<1> QED
  BY <1>3, <1>4, <1>5 DEF DataInv

(* A command that begins with the tables T and the data D.                  *)
LEMMA BegunRight ==
  ASSUME DataInv, NEW p \in Process, NEW c, Begun(p, c), "before" \in DOMAIN c,
         None \notin Process,
         UNCHANGED <<committed, reply, handles, bytes>>, left' \in Nat, Db(tables', data'),
         cmd' \in CommandType, cmd' # NoCommand, cmd'.table \in Live(tables),
         IF cmd'.step = "build" THEN BuildInv(cmd', tables', data')
                                ELSE RecordInv(cmd', tables', data')
  PROVE  DataInv' /\ Whole
<1>1. /\ cmd = NoCommand /\ Agree(tables, data)
      /\ tx.owner = p => tx.explicit /\ ~tx.error
      /\ tx.owner # p => tx.owner = None /\ committed = [tables |-> tables, data |-> data]
      /\ tx \in TxType /\ committed \in Database /\ reply \in Replies
      /\ Agree(committed.tables, committed.data)
  BY MayBegin DEF Begun, DataInv
<1>2. cmd'.before = [tables |-> tables, data |-> data]
  BY DEF Begun
<1>3. tx' \in TxType /\ tx'.owner = p /\ ~tx'.error /\ (tx'.explicit \/ tx.owner # p)
  <2>1. CASE tx.owner = p
    <3>1. tx' = tx
      BY <2>1 DEF Begun
    <3> QED
      BY <1>1, <2>1, <3>1
  <2>2. CASE tx.owner # p
    <3>1. tx' = [NoTx EXCEPT !.owner = p]
      BY <2>2 DEF Begun
    <3> QED
      BY <2>2, <3>1 DEF NoTx, TxType
  <2> QED
    BY <2>1, <2>2
<1>4. TypeOK'
  BY <1>1, <1>3, TypesStay DEF DataInv
<1>5. CommandInv'
  <2>1. ~tx'.explicit => cmd'.before = committed'
    BY <1>1, <1>2, <1>3
  <2>2. Agree(cmd.before.tables, cmd.before.data)' /\ (cmd.table \in Live(cmd.before.tables))'
    BY <1>1, <1>2
  <2>3. ~tx'.error
    BY <1>3
  <2> QED
    BY <2>1, <2>2, <2>3 DEF CommandInv
<1>6. TxInv' /\ IndexesAgree' /\ Whole
  BY <1>1 DEF TxInv, IndexesAgree, Whole
<1> QED
  BY <1>1, <1>4, <1>5, <1>6 DEF DataInv

-----------------------------------------------------------------------------
(* Transactions, faults and open tables.                                    *)
LEMMA Facts ==
  ASSUME DataInv
  PROVE  /\ Db(tables, data) /\ Db(committed.tables, committed.data)
         /\ committed = [tables |-> committed.tables, data |-> committed.data]
         /\ committed \in Database /\ tx \in TxType /\ cmd \in CommandType
         /\ reply \in Replies /\ left \in Nat
         /\ Agree(committed.tables, committed.data)
         /\ cmd # NoCommand => tx.owner # None
         /\ tx.owner = None => committed = [tables |-> tables, data |-> data]
         /\ NoTx \in TxType /\ NoTx.owner = None /\ NoCommand \in CommandType
BY DatabaseParts DEF DataInv, TypeOK, TxType, Replies, NoTx, CommandType

(* The committed database comes back.                                       *)
LEMMA BackRight ==
  ASSUME DataInv, tables' = committed.tables, data' = committed.data, committed' = committed,
         tx' = NoTx, cmd' = NoCommand, reply' \in {"ok", "fatal", "stopped"}, left' = left,
         cmd # NoCommand => reply' # "ok"
  PROVE  /\ UNCHANGED <<handles, bytes>> => TypeOK'
         /\ TxInv' /\ CommandInv' /\ IndexesAgree' /\ Agree(committed.tables, committed.data)'
         /\ Whole
<1>1. UNCHANGED <<handles, bytes>> => TypeOK'
  <2>1. reply' \in Replies
    BY DEF Replies
  <2> QED
    BY <2>1, Facts, TypesStay DEF DataInv
<1>2. TxInv' /\ CommandInv' /\ IndexesAgree' /\ Agree(committed.tables, committed.data)'
  BY Facts DEF TxInv, CommandInv, IndexesAgree
<1>3. Whole
  BY DEF Whole
<1> QED
  BY <1>1, <1>2, <1>3

LEMMA BeginRight ==
  ASSUME DataInv, NEW p \in Process, Begin(p), None \notin Process
  PROVE  DataInv' /\ Whole
<1>1. /\ cmd = NoCommand /\ tx.owner = None
      /\ tx' = [owner |-> p, explicit |-> TRUE, error |-> FALSE]
      /\ UNCHANGED <<tables, data, committed, cmd, reply, handles, bytes, left>>
  BY DEF Begin
<1>2. tx' \in TxType /\ tx'.owner = p /\ tx'.explicit /\ ~tx'.error
  BY <1>1 DEF TxType
<1>3. TypeOK'
  BY <1>1, <1>2, Facts, TypesStay DEF DataInv
<1>4. TxInv' /\ CommandInv' /\ IndexesAgree' /\ Agree(committed.tables, committed.data)'
  <2>1. Agree(tables, data)
    BY <1>1, Facts
  <2> QED
    BY <1>1, <1>2, <2>1, Facts DEF TxInv, CommandInv, IndexesAgree
<1>5. Whole
  BY <1>1 DEF Whole
<1> QED
  BY <1>3, <1>4, <1>5 DEF DataInv

LEMMA EndRight ==
  ASSUME DataInv, NEW p \in Process, End(p) \/ Rollback(p), None \notin Process
  PROVE  DataInv' /\ Whole
<1>1. cmd = NoCommand /\ cmd' = NoCommand /\ tx' = NoTx /\ UNCHANGED <<handles, bytes, left>>
  BY DEF End, Rollback, InTransaction
<1>2. CASE UNCHANGED committed /\ tables' = committed.tables /\ data' = committed.data
           /\ reply' \in {"ok", "fatal"}
  BY <1>1, <1>2, BackRight DEF DataInv
<1>3. CASE ~tx.error /\ Commit(tables, data) /\ reply' = "ok" /\ UNCHANGED <<tables, data>>
  <2>1. committed' = [tables |-> tables, data |-> data] /\ Agree(tables, data)
    BY <1>1, <1>3 DEF Commit, DataInv, IndexesAgree
  <2>2. committed' \in Database /\ reply' \in Replies
    BY <1>3, <2>1, Facts, DatabaseParts DEF Replies
  <2>3. TypeOK'
    BY <1>1, <1>3, <2>1, <2>2, Facts, TypesStay DEF DataInv
  <2>4. TxInv' /\ CommandInv' /\ IndexesAgree' /\ Agree(committed.tables, committed.data)'
    BY <1>1, <1>3, <2>1, Facts DEF TxInv, CommandInv, IndexesAgree
  <2>5. Whole
    BY <1>1 DEF Whole
  <2> QED
    BY <2>3, <2>4, <2>5 DEF DataInv
<1> QED
  BY <1>2, <1>3 DEF End, Rollback

LEMMA FaultRight ==
  ASSUME DataInv, NEW p \in Process, Fault(p), None \notin Process
  PROVE  DataInv' /\ Whole
<1>1. CASE cmd # NoCommand /\ Closed("fatal", tables, data)
  BY <1>1, ClosedRight, Facts
<1>2. CASE /\ InTransaction(p) /\ tx' = [tx EXCEPT !.error = TRUE] /\ reply' = "fatal"
           /\ UNCHANGED <<tables, data, committed, cmd, handles, bytes, left>>
  <2>1. cmd = NoCommand /\ tx.owner = p
    BY <1>2 DEF InTransaction
  <2>2. tx' \in TxType /\ tx'.owner = p /\ tx'.error /\ tx'.explicit = tx.explicit
    BY <1>2, <2>1, Facts DEF TxType
  <2>3. TypeOK'
    <3>1. reply' \in Replies
      BY <1>2 DEF Replies
    <3> QED
      BY <1>2, <2>1, <2>2, <3>1, Facts, TypesStay DEF DataInv
  <2>4. TxInv' /\ CommandInv' /\ IndexesAgree' /\ Whole
    BY <1>2, <2>1, <2>2 DEF TxInv, CommandInv, IndexesAgree, Whole, DataInv
  <2> QED
    BY <1>2, <2>3, <2>4, Facts DEF DataInv
<1> QED
  BY <1>1, <1>2 DEF Fault

(* The types of handles and bytes.                                          *)
Handle == [table: TableBlock, byte: Byte, index: Indexes]
HandlesTyped ==
  /\ handles \in [Process -> [1..MaxOpen -> Handle \cup {None}]]
  /\ bytes \in [TableBlock -> [Byte -> Process \cup {None}]]

LEMMA StopRight ==
  ASSUME DataInv, NEW p \in Process, Stop(p), None \notin Process
  PROVE  DataInv' /\ Whole
<1>1. HandlesTyped /\ (TypeOK => handles \in [Process -> [1..MaxOpen -> Handle \cup {None}]])
  BY DEF DataInv, TypeOK, HandlesTyped, Handle
<1>2. HandlesTyped'
  <2>1. handles' = [handles EXCEPT ![p] = [s \in 1..MaxOpen |-> None]]
    BY DEF Stop
  <2>2. bytes' = [t \in TableBlock |->
                    [b \in Byte |-> IF bytes[t][b] = p THEN None ELSE bytes[t][b]]]
    BY DEF Stop
  <2>3. [s \in 1..MaxOpen |-> None] \in [1..MaxOpen -> Handle \cup {None}]
    OBVIOUS
  <2>4. handles' \in [Process -> [1..MaxOpen -> Handle \cup {None}]]
    BY <1>1, <2>1, <2>3 DEF HandlesTyped
  <2>5. bytes' \in [TableBlock -> [Byte -> Process \cup {None}]]
    BY <1>1, <2>2 DEF HandlesTyped
  <2> QED
    BY <2>4, <2>5 DEF HandlesTyped
<1>3. CASE /\ tables' = committed.tables /\ data' = committed.data
           /\ tx' = NoTx /\ cmd' = NoCommand /\ reply' = "stopped"
  <2>1. committed' = committed /\ left' = left
    BY DEF Stop
  <2>2. /\ TxInv' /\ CommandInv' /\ IndexesAgree' /\ Agree(committed.tables, committed.data)'
        /\ Whole
    BY <1>3, <2>1, BackRight
  <2>3. TypeOK'
    <3>1. /\ [tables |-> tables', data |-> data'] \in Database /\ committed' \in Database
          /\ cmd' \in CommandType /\ left' \in Nat
          /\ committed' = [tables |-> tables', data |-> data']
      BY <1>3, <2>1, Facts
    <3> QED
      BY <1>2, <1>3, <3>1, Facts DEF TypeOK, HandlesTyped, Handle, TxType
  <2> QED
    BY <2>2, <2>3 DEF DataInv
<1>4. CASE UNCHANGED <<tables, data, tx, cmd, reply>>
  <2>1. committed' = committed /\ left' = left
    BY DEF Stop
  <2>2. /\ TxInv' /\ CommandInv' /\ IndexesAgree' /\ Agree(committed.tables, committed.data)'
        /\ Whole
    BY <1>4, <2>1 DEF DataInv, TxInv, CommandInv, IndexesAgree, Whole, BuildInv, RecordInv
  <2>3. TypeOK'
    BY <1>2, <1>4, <2>1 DEF DataInv, TypeOK, HandlesTyped, Handle
  <2> QED
    BY <2>2, <2>3 DEF DataInv
<1> QED
  BY <1>3, <1>4 DEF Stop

LEMMA OpenTableRight ==
  ASSUME DataInv, Inv', NEW p \in Process, NEW s \in 1..MaxOpen, NEW n \in Name,
         OpenTable(p, s, n), None \notin Process
  PROVE  DataInv' /\ Whole
<1>1. /\ UNCHANGED <<tables, data, committed, tx, cmd, left>> /\ reply' = "ok"
      /\ cmd = NoCommand
  BY DEF OpenTable, MayCommand
<1>2. /\ TxInv' /\ CommandInv' /\ IndexesAgree' /\ Agree(committed.tables, committed.data)'
      /\ Whole
  BY <1>1 DEF DataInv, TxInv, CommandInv, IndexesAgree, Whole
<1>0. PICK t \in Lookup(n) : \E b :
        handles' = [handles EXCEPT ![p][s] = [table |-> t, byte |-> b, index |-> tables[t].index]]
  BY DEF OpenTable
<1>3. PICK b :
        handles' = [handles EXCEPT ![p][s] = [table |-> t, byte |-> b, index |-> tables[t].index]]
  BY <1>0
<1>4. t \in TableBlock /\ tables[t].index \in Indexes
  BY <1>0, Facts DEF Lookup, Db, Table
<1>5. HandlesTyped
  BY DEF DataInv, TypeOK, HandlesTyped, Handle
<1> DEFINE h == [table |-> t, byte |-> b, index |-> tables[t].index]
<1>6. handles'[p][s] = h
  BY <1>3, <1>5 DEF HandlesTyped
<1>7. h # None => b \in Byte
  BY <1>6 DEF Inv, HandlesInv
<1>8. h \in Handle \cup {None}
  BY <1>4, <1>7 DEF Handle
<1>9. handles' = [handles EXCEPT ![p][s] = h]
  BY <1>3
<1> HIDE DEF h
<1>10. handles' \in [Process -> [1..MaxOpen -> Handle \cup {None}]]
  <2> DEFINE r == [handles[p] EXCEPT ![s] = h]
  <2>1. r \in [1..MaxOpen -> Handle \cup {None}]
    BY <1>5, <1>8 DEF HandlesTyped
  <2>2. handles' = [handles EXCEPT ![p] = r]
    BY <1>9
  <2> HIDE DEF r
  <2> QED
    BY <1>5, <2>1, <2>2 DEF HandlesTyped
<1>11. bytes' \in [TableBlock -> [Byte -> Process \cup {None}]]
  BY DEF Inv, ShapeInv
<1>12. TypeOK'
  BY <1>1, <1>10, <1>11 DEF DataInv, TypeOK, Handle
<1> QED
  BY <1>2, <1>12 DEF DataInv

LEMMA CloseTableRight ==
  ASSUME DataInv, Inv', NEW p \in Process, NEW s \in 1..MaxOpen, CloseTable(p, s)
  PROVE  DataInv' /\ Whole
<1>1. UNCHANGED <<tables, data, committed, tx, cmd, reply, left>>
      /\ handles' = [handles EXCEPT ![p][s] = None]
  BY DEF CloseTable
<1>2. /\ TxInv' /\ CommandInv' /\ IndexesAgree' /\ Agree(committed.tables, committed.data)'
      /\ Whole
  BY <1>1 DEF DataInv, TxInv, CommandInv, IndexesAgree, Whole, BuildInv, RecordInv
<1>3. HandlesTyped
  BY DEF DataInv, TypeOK, HandlesTyped, Handle
<1>4. handles' \in [Process -> [1..MaxOpen -> Handle \cup {None}]]
  <2> DEFINE r == [handles[p] EXCEPT ![s] = None]
  <2>1. r \in [1..MaxOpen -> Handle \cup {None}]
    BY <1>3 DEF HandlesTyped
  <2>2. handles' = [handles EXCEPT ![p] = r]
    BY <1>1
  <2> HIDE DEF r
  <2> QED
    BY <1>3, <2>1, <2>2 DEF HandlesTyped
<1>5. bytes' \in [TableBlock -> [Byte -> Process \cup {None}]]
  BY DEF Inv, ShapeInv
<1>6. TypeOK'
  BY <1>1, <1>4, <1>5 DEF DataInv, TypeOK, Handle
<1> QED
  BY <1>2, <1>6 DEF DataInv

-----------------------------------------------------------------------------
(* Definitions.                                                             *)
LEMMA DefineBegins ==
  ASSUME TableAssumption, DataInv, NEW p \in Process, MayCommand(p)
  PROVE  \E f : DbIs(tables, data, f)
<1>1. Agree(tables, data) /\ Db(tables, data)
  BY MayBegin DEF TableAssumption
<1> QED
  BY <1>1, AgreeOwners DEF Db

LEMMA DefineEnds ==
  ASSUME TableAssumption, NoneAssumption, DataInv, NEW p \in Process, NEW T, NEW D,
         Performed(p, T, D), NEW f, DbIs(T, D, f), Define
  PROVE  DataInv' /\ Whole
<1>1. Agree(T, D) /\ Db(T, D)
  BY OwnersAgree DEF Db
<1>2. left' \in Nat /\ UNCHANGED <<handles, bytes>>
  BY Facts DEF Define
<1>3. None \notin Process
  BY DEF TableAssumption
<1> QED
  BY <1>1, <1>2, <1>3, PerformedRight

LEMMA CreateTableRight ==
  ASSUME TableAssumption, NoneAssumption, DataInv, NEW p \in Process, NEW n \in Name,
         NEW t \in TableBlock, CreateTable(p, n, t)
  PROVE  DataInv' /\ Whole
<1> DEFINE x == [name |-> n, index |-> NoIndexes, root |-> NoRoots]
           T == [tables EXCEPT ![t] = x]
<1>1. /\ Lookup(n) = {} /\ tables[t].name = None /\ Performed(p, T, data) /\ Define
  BY DEF CreateTable
<1>2. PICK f : DbIs(tables, data, f)
  BY <1>1, DefineBegins DEF Performed
<1>3. tables \in [TableBlock -> Table] /\ data \in [DataBlock -> Record \cup {None}]
  BY <1>2 DEF DbIs
<1>4. x \in Table /\ x.name = n /\ n # None /\ Holds(x, data, {})
  <2>1. x \in Table
    BY DEF Table, NoIndexes, NoRoots, Indexes
  <2>2. x.name = n /\ n # None
    BY DEF TableAssumption
  <2>3. \A i \in Slot : x.root[i] = {} /\ x.index[i] = None
    BY DEF NoRoots, NoIndexes
  <2>4. Defined(x.index) = {}
    BY <2>3 DEF Defined
  <2> HIDE DEF x
  <2>5. Holds(x, data, {})
    BY <2>3, <2>4 DEF Holds
  <2> QED
    BY <2>1, <2>2, <2>5 DEF x
<1> HIDE DEF x
<1>5. /\ T \in [TableBlock -> Table] /\ T[t] = x
      /\ \A u \in TableBlock \ {t} : T[u] = tables[u]
  BY <1>3, <1>4
<1> HIDE DEF T
<1>6. f[t] = {} /\ f \in [TableBlock -> SUBSET DataBlock]
  BY <1>1, <1>2 DEF DbIs, Live
<1>7. Replaces(T, data, tables, data, f, t, {})
  <2>1. \A b \in DataBlock :
          data[b] # None <=> b \in {} \/ \E u \in TableBlock \ {t} : b \in f[u]
    BY <1>2, <1>6, OwnBlocks
  <2>2. \A u \in Live(tables) : tables[u].name # n
    BY <1>1 DEF Lookup, Live
  <2> QED
    BY <1>3, <1>4, <1>5, <2>1, <2>2 DEF Replaces
<1>8. DbIs(T, data, [f EXCEPT ![t] = {}])
  BY <1>2, <1>7, TableChanged
<1> QED
  BY <1>1, <1>8, DefineEnds

LEMMA RenameTableRight ==
  ASSUME TableAssumption, NoneAssumption, DataInv, NEW p \in Process, NEW n \in Name,
         NEW m \in Name, RenameTable(p, n, m)
  PROVE  DataInv' /\ Whole
<1>1. PICK t \in Lookup(n) : Performed(p, [tables EXCEPT ![t].name = m], data)
  BY DEF RenameTable
<1>2. Define /\ (m = n \/ Lookup(m) = {})
  BY DEF RenameTable
<1>3. t \in TableBlock /\ tables[t].name = n /\ n # None /\ m # None
  BY <1>1 DEF Lookup, TableAssumption
<1>4. PICK f : DbIs(tables, data, f)
  BY <1>1, DefineBegins DEF Performed
<1>5. tables \in [TableBlock -> Table] /\ data \in [DataBlock -> Record \cup {None}]
  BY <1>4 DEF DbIs
<1> DEFINE x == [tables[t] EXCEPT !.name = m]
           T == [tables EXCEPT ![t] = x]
<1>6. Performed(p, T, data)
  BY <1>1
<1>7. /\ x \in Table /\ x.name = m
      /\ x.index = tables[t].index /\ x.root = tables[t].root
  <2>1. tables[t] \in Table
    BY <1>3, <1>5
  <2> QED
    BY <2>1 DEF Table
<1> HIDE DEF x
<1>8. /\ T \in [TableBlock -> Table] /\ T[t] = x
      /\ \A u \in TableBlock \ {t} : T[u] = tables[u]
  BY <1>3, <1>5, <1>7
<1> HIDE DEF T
<1>9. Holds(x, data, f[t])
  <2>1. Holds(tables[t], data, f[t])
    BY <1>3, <1>4 DEF DbIs, Live
  <2> QED
    BY <1>7, <2>1 DEF Holds
<1>10. Replaces(T, data, tables, data, f, t, f[t])
  <2>1. /\ f[t] \in SUBSET DataBlock
        /\ \A u \in TableBlock \ {t} : f[u] \cap f[t] = {}
        /\ \A b \in DataBlock :
             data[b] # None <=> b \in f[t] \/ \E u \in TableBlock \ {t} : b \in f[u]
    BY <1>3, <1>4, OwnBlocks
  <2>2. \A u \in Live(tables) : u # t => tables[u].name # m
    <3>1. CASE m = n
      BY <1>3, <1>4, <3>1 DEF DbIs, Live
    <3>2. CASE Lookup(m) = {}
      BY <3>2 DEF Lookup, Live
    <3> QED
      BY <1>2, <3>1, <3>2
  <2> QED
    BY <1>3, <1>5, <1>7, <1>8, <1>9, <2>1, <2>2 DEF Replaces
<1>11. DbIs(T, data, [f EXCEPT ![t] = f[t]])
  BY <1>3, <1>4, <1>10, TableChanged
<1> QED
  BY <1>2, <1>6, <1>11, DefineEnds

LEMMA DeleteTableRight ==
  ASSUME TableAssumption, NoneAssumption, DataInv, NEW p \in Process, NEW n \in Name,
         DeleteTable(p, n)
  PROVE  DataInv' /\ Whole
<1> DEFINE D(t) == [b \in DataBlock |->
                      IF \E e \in Entries(tables[t]) : e.block = b THEN None ELSE data[b]]
<1>1. PICK t \in Lookup(n) : Performed(p, [tables EXCEPT ![t] = NoTable], D(t))
  BY DEF DeleteTable
<1>2. Define /\ t \in TableBlock /\ tables[t].name = n /\ n # None
  BY <1>1 DEF DeleteTable, Lookup, TableAssumption
<1>3. PICK f : DbIs(tables, data, f)
  BY <1>1, DefineBegins DEF Performed
<1>4. tables \in [TableBlock -> Table] /\ data \in [DataBlock -> Record \cup {None}]
  BY <1>3 DEF DbIs
<1> DEFINE T == [tables EXCEPT ![t] = NoTable]
<1>5. NoTable \in Table /\ NoTable.name = None
  BY DEF NoTable, Table, NoIndexes, NoRoots, Indexes
<1>6. /\ T \in [TableBlock -> Table] /\ T[t] = NoTable
      /\ \A u \in TableBlock \ {t} : T[u] = tables[u]
  BY <1>2, <1>4, <1>5
<1>7. {e.block : e \in Entries(tables[t])} = f[t]
  <2>1. Holds(tables[t], data, f[t])
    BY <1>2, <1>3 DEF DbIs, Live
  <2> QED
    BY <2>1, HoldsEntries
<1>8. \A b : (\E e \in Entries(tables[t]) : e.block = b) <=> b \in f[t]
  BY <1>7
<1>9. \A b \in DataBlock : D(t)[b] = IF b \in f[t] THEN None ELSE data[b]
  BY <1>8
<1>10. D(t) \in [DataBlock -> Record \cup {None}]
  BY <1>4
<1>11. Performed(p, T, D(t))
  BY <1>1
<1> HIDE DEF T, D
<1>12. Replaces(T, D(t), tables, data, f, t, {})
  <2>1. /\ f[t] \in SUBSET DataBlock
        /\ \A u \in TableBlock \ {t} : f[u] \cap f[t] = {} /\ f[u] \subseteq DataBlock
        /\ \A b \in DataBlock :
             data[b] # None <=> b \in f[t] \/ \E u \in TableBlock \ {t} : b \in f[u]
    BY <1>2, <1>3, OwnBlocks
  <2>2. \A u \in TableBlock \ {t} : \A b \in f[u] : D(t)[b] = data[b]
    BY <1>9, <2>1
  <2>3. \A b \in DataBlock :
          D(t)[b] # None <=> b \in {} \/ \E u \in TableBlock \ {t} : b \in f[u]
    BY <1>9, <2>1
  <2> QED
    BY <1>5, <1>6, <1>10, <2>2, <2>3 DEF Replaces
<1>13. DbIs(T, D(t), [f EXCEPT ![t] = {}])
  BY <1>2, <1>3, <1>12, TableChanged
<1> QED
  BY <1>2, <1>11, <1>13, DefineEnds

-----------------------------------------------------------------------------
(* Indexes.                                                                 *)
IndexIs(V, T, t, i, x) ==
  /\ V \in [TableBlock -> Table]
  /\ \A u \in TableBlock \ {t} : V[u] = T[u]
  /\ V[t].name = T[t].name
  /\ \A j \in Slot : V[t].index[j] = IF j = i THEN x ELSE T[t].index[j]

WithIndex(T, t, i, x) == [T EXCEPT ![t].index[i] = x]

LEMMA IndexSet ==
  ASSUME NEW T \in [TableBlock -> Table], NEW t \in TableBlock, NEW i \in Slot,
         NEW x \in Index \cup {None}
  PROVE  /\ IndexIs(WithIndex(T, t, i, x), T, t, i, x)
         /\ WithIndex(T, t, i, x)[t].root = T[t].root
<1> DEFINE r == [T[t].index EXCEPT ![i] = x]
           w == [T[t] EXCEPT !.index = r]
           V == [T EXCEPT ![t] = w]
<1>1. /\ r \in [Slot -> Index \cup {None}]
      /\ \A j \in Slot : r[j] = IF j = i THEN x ELSE T[t].index[j]
  BY TableFields
<1>2. T[t] \in Table
  OBVIOUS
<1> HIDE DEF r
<1>3. w \in Table /\ w.name = T[t].name /\ w.index = r /\ w.root = T[t].root
  BY <1>1, <1>2 DEF Table, Indexes
<1> HIDE DEF w
<1>4. /\ V \in [TableBlock -> Table] /\ V[t] = w
      /\ \A u \in TableBlock \ {t} : V[u] = T[u]
  BY <1>3
<1>5. V = WithIndex(T, t, i, x)
  BY DEF w, r, WithIndex
<1> HIDE DEF V
<1>6. IndexIs(V, T, t, i, x) /\ V[t].root = T[t].root
  BY <1>1, <1>3, <1>4 DEF IndexIs
<1> QED
  BY <1>5, <1>6

(* An index that is changed: what each tree has to hold afterwards.         *)
LEMMA IndexChanged ==
  ASSUME NEW U, NEW E, NEW f, DbIs(U, E, f), NEW t \in Live(U), NEW T, NEW i, NEW x,
         IndexIs(T, U, t, i, x), Holds(T[t], E, f[t])
  PROVE  DbIs(T, E, f)
<1>1. t \in TableBlock /\ T[t].name = U[t].name /\ U[t].name # None
  BY DEF Live, IndexIs
<1>2. /\ f[t] \in SUBSET DataBlock
      /\ \A u \in TableBlock \ {t} : f[u] \cap f[t] = {}
      /\ \A b \in DataBlock : E[b] # None <=> b \in f[t] \/ \E u \in TableBlock \ {t} : b \in f[u]
  BY <1>1, OwnBlocks
<1>3. \A u \in Live(U) : u # t => U[u].name # T[t].name
  BY <1>1 DEF DbIs
<1>4. E \in [DataBlock -> Record \cup {None}] /\ f \in [TableBlock -> SUBSET DataBlock]
  BY DEF DbIs
<1>5. Replaces(T, E, U, E, f, t, f[t])
  BY <1>1, <1>2, <1>3, <1>4 DEF Replaces, IndexIs
<1>6. DbIs(T, E, [f EXCEPT ![t] = f[t]])
  BY <1>1, <1>5, TableChanged
<1>7. [f EXCEPT ![t] = f[t]] = f
  BY <1>4
<1> QED
  BY <1>6, <1>7

LEMMA RenameIndexRight ==
  ASSUME TableAssumption, NoneAssumption, DataInv, NEW p \in Process, NEW n \in Name,
         NEW i \in IndexName, NEW k \in IndexName, RenameIndex(p, n, i, k)
  PROVE  DataInv' /\ Whole
<1>0. PICK t \in Lookup(n) : \E j \in IndexNamed(t, i) :
        Performed(p, [tables EXCEPT ![t].index[j].name = k], data)
  BY DEF RenameIndex
<1>1. PICK j \in IndexNamed(t, i) : Performed(p, [tables EXCEPT ![t].index[j].name = k], data)
  BY <1>0
<1>2. Define
  BY DEF RenameIndex
<1>3. PICK f : DbIs(tables, data, f)
  BY <1>1, DefineBegins DEF Performed
<1>4. /\ t \in TableBlock /\ tables[t].name = n /\ n # None /\ t \in Live(tables)
      /\ j \in Slot /\ tables[t].index[j] # None /\ j \in Defined(tables[t].index)
  BY <1>0, <1>1 DEF Lookup, TableAssumption, Live, IndexNamed, Defined
<1>5. tables \in [TableBlock -> Table]
  BY <1>3 DEF DbIs
<1>6. tables[t].index[j] \in Index
  BY <1>4, <1>5, TableFields
<1> DEFINE x == [tables[t].index[j] EXCEPT !.name = k]
           T == WithIndex(tables, t, j, x)
<1>7. x \in Index /\ x.fields = tables[t].index[j].fields
  BY <1>6 DEF Index
<1>8. Performed(p, T, data)
  BY <1>1 DEF WithIndex
<1> HIDE DEF x
<1>9. IndexIs(T, tables, t, j, x) /\ T[t].root = tables[t].root
  BY <1>4, <1>5, <1>7, IndexSet
<1> HIDE DEF T
<1>10. Holds(tables[t], data, f[t])
  BY <1>3, <1>4 DEF DbIs, Live
<1>11. x # None
  BY <1>7 DEF NoneAssumption
<1>12. Defined(T[t].index) = Defined(tables[t].index)
  BY <1>4, <1>9, <1>11 DEF IndexIs, Defined
<1>13. \A B : /\ EntriesOf(x, data, B) = EntriesOf(tables[t].index[j], data, B)
              /\ UniqueIn(x, data, B) <=> UniqueIn(tables[t].index[j], data, B)
  BY <1>7 DEF EntriesOf, EntryOf, UniqueIn
<1>14. Holds(T[t], data, f[t])
  <2>1. \A l \in Slot : T[t].root[l] = IF T[t].index[l] = None THEN {}
                                       ELSE EntriesOf(T[t].index[l], data, f[t])
    BY <1>4, <1>9, <1>10, <1>11, <1>13 DEF Holds, IndexIs
  <2>2. \A l \in Defined(T[t].index) : UniqueIn(T[t].index[l], data, f[t])
    <3>1. \A l \in Defined(tables[t].index) : l \in Slot /\ UniqueIn(tables[t].index[l], data, f[t])
      BY <1>10 DEF Holds, Defined
    <3> QED
      BY <1>9, <1>12, <1>13, <3>1 DEF IndexIs
  <2> QED
    BY <1>10, <1>12, <2>1, <2>2 DEF Holds
<1>15. DbIs(T, data, f)
  BY <1>3, <1>4, <1>9, <1>14, IndexChanged
<1> QED
  BY <1>2, <1>8, <1>15, DefineEnds

LEMMA DeleteIndexRight ==
  ASSUME TableAssumption, NoneAssumption, DataInv, NEW p \in Process, NEW n \in Name,
         NEW i \in IndexName, DeleteIndex(p, n, i)
  PROVE  DataInv' /\ Whole
<1>0. PICK t \in Lookup(n) : \E j \in IndexNamed(t, i) :
        /\ Cardinality(Defined(tables[t].index)) # 1 \/ tables[t].root[j] = {}
        /\ Performed(p, [tables EXCEPT ![t].index[j] = None, ![t].root[j] = {}], data)
  BY DEF DeleteIndex
<1>1. PICK j \in IndexNamed(t, i) :
        /\ Cardinality(Defined(tables[t].index)) # 1 \/ tables[t].root[j] = {}
        /\ Performed(p, [tables EXCEPT ![t].index[j] = None, ![t].root[j] = {}], data)
  BY <1>0
<1>2. Define
  BY DEF DeleteIndex
<1>3. PICK f : DbIs(tables, data, f)
  BY <1>1, DefineBegins DEF Performed
<1>4. /\ t \in TableBlock /\ tables[t].name = n /\ n # None /\ t \in Live(tables)
      /\ j \in Slot /\ tables[t].index[j] # None /\ j \in Defined(tables[t].index)
  BY <1>0, <1>1 DEF Lookup, TableAssumption, Live, IndexNamed, Defined
<1>5. tables \in [TableBlock -> Table]
  BY <1>3 DEF DbIs
<1> DEFINE W == WithIndex(tables, t, j, None)
           T == WithRoot(W, t, j, {})
<1>6. Performed(p, T, data)
  BY <1>1 DEF WithRoot, WithIndex
<1>7. IndexIs(W, tables, t, j, None) /\ W[t].root = tables[t].root
  BY <1>4, <1>5, IndexSet
<1> HIDE DEF W
<1>8. RootIs(T, W, t, j, {})
  BY <1>4, <1>7, RootSet DEF IndexIs
<1> HIDE DEF T
<1>9. IndexIs(T, tables, t, j, None)
  BY <1>7, <1>8 DEF IndexIs, RootIs
<1>10. \A l \in Slot : T[t].root[l] = IF l = j THEN {} ELSE tables[t].root[l]
  BY <1>7, <1>8 DEF RootIs
<1>11. Holds(tables[t], data, f[t])
  BY <1>3, <1>4 DEF DbIs, Live
<1>12. Defined(T[t].index) = Defined(tables[t].index) \ {j}
  BY <1>9 DEF IndexIs, Defined
<1>13. f[t] # {} => Defined(T[t].index) # {}
  <2> SUFFICES ASSUME f[t] # {}, Defined(tables[t].index) = {j} PROVE FALSE
    BY <1>4, <1>12
  <2>1. tables[t].root[j] = {}
    BY <1>1, FS_Singleton
  <2>2. tables[t].root[j] = EntriesOf(tables[t].index[j], data, f[t])
    BY <1>4, <1>11 DEF Holds
  <2> QED
    BY <2>1, <2>2, EntriesBlocks
<1>14. Holds(T[t], data, f[t])
  <2>1. \A l \in Slot : T[t].root[l] = IF T[t].index[l] = None THEN {}
                                       ELSE EntriesOf(T[t].index[l], data, f[t])
    BY <1>9, <1>10, <1>11 DEF Holds, IndexIs
  <2>2. \A l \in Defined(T[t].index) : UniqueIn(T[t].index[l], data, f[t])
    <3>1. \A l \in Defined(tables[t].index) : l \in Slot /\ UniqueIn(tables[t].index[l], data, f[t])
      BY <1>11 DEF Holds, Defined
    <3> QED
      BY <1>9, <1>12, <3>1 DEF IndexIs
  <2> QED
    BY <1>13, <2>1, <2>2 DEF Holds
<1>15. DbIs(T, data, f)
  BY <1>3, <1>4, <1>9, <1>14, IndexChanged
<1> QED
  BY <1>2, <1>6, <1>15, DefineEnds

-----------------------------------------------------------------------------
(* A new index.                                                             *)
LEMMA CreateIndexRight ==
  ASSUME TableAssumption, NoneAssumption, DataInv, NEW p \in Process, NEW n \in Name,
         NEW i \in IndexName, NEW x \in SUBSET Field \ {{}}, CreateIndex(p, n, i, x)
  PROVE  DataInv' /\ Whole
<1> DEFINE C(u) == [step |-> "build", table |-> u, todo |-> Entries(tables[u]),
                    slot |-> Least(Slot \ Defined(tables[u].index)),
                    new |-> [name |-> i, fields |-> x], before |-> None]
<1>1. PICK t \in Lookup(n) : Slot \ Defined(tables[t].index) # {} /\ Begun(p, C(t))
  BY DEF CreateIndex
<1>2. /\ left > 0 /\ left' = left - 1
      /\ UNCHANGED <<tables, data, committed, reply, handles, bytes>>
  BY DEF CreateIndex
<1>3. /\ MayCommand(p)
      /\ cmd' = [C(t) EXCEPT !.before = [tables |-> tables, data |-> data]]
  BY <1>1 DEF Begun
<1>4. t \in TableBlock /\ t \in Live(tables)
  BY <1>1 DEF Lookup, Live, TableAssumption
<1>5. Db(tables, data) /\ [tables |-> tables, data |-> data] \in Database
  BY Facts, DatabaseParts
<1> DEFINE slot == Least(Slot \ Defined(tables[t].index))
           new  == [name |-> i, fields |-> x]
<1>6. slot \in Slot /\ slot \notin Defined(tables[t].index)
  <2>1. Slot \ Defined(tables[t].index) \in SUBSET Slot
    OBVIOUS
  <2> QED
    BY <1>1, <2>1, SlotLeast
<1>7. new \in Index
  BY DEF Index
<1>8. Entries(tables[t]) \in SUBSET Entry
  BY <1>4, <1>5, EntriesTyped DEF Db
<1> HIDE DEF slot, new
<1>9. cmd' = [step |-> "build", table |-> t, todo |-> Entries(tables[t]), slot |-> slot,
              new |-> new, before |-> [tables |-> tables, data |-> data]]
  BY <1>3 DEF slot, new
<1>10. cmd' \in BuildType
  BY <1>4, <1>5, <1>6, <1>7, <1>8, <1>9 DEF BuildType
<1>11. cmd' \in CommandType /\ cmd' # NoCommand /\ cmd'.table \in Live(tables)
       /\ cmd'.step = "build"
  BY <1>4, <1>9, <1>10, CommandTypes DEF NoCommand
<1>12. BuildInv(cmd', tables', data')
  <2> DEFINE c == [step |-> "build", table |-> t, todo |-> Entries(tables[t]), slot |-> slot,
                   new |-> new, before |-> [tables |-> tables, data |-> data]]
  <2>1. /\ c.before.tables = tables /\ c.before.data = data /\ c.table = t /\ c.slot = slot
        /\ c.new = new /\ c.todo = Entries(tables[t])
    OBVIOUS
  <2>2. PICK f : DbIs(tables, data, f)
    BY <1>3, DefineBegins
  <2>3. tables[t].root[slot] = {}
    BY <1>4, <1>6, <2>2 DEF DbIs, Holds, Defined
  <2>4. {e.block : e \in Entries(c.before.tables[c.table]) \ c.todo} = {}
    OBVIOUS
  <2>5. \A y : EntriesOf(y, data, {}) = {} /\ UniqueIn(y, data, {})
    BY DEF EntriesOf, UniqueIn
  <2> HIDE DEF c
  <2> DEFINE done == {e.block : e \in Entries(c.before.tables[c.table]) \ c.todo}
  <2>6. EntriesOf(c.new, data, done) = {} /\ UniqueIn(c.new, data, done)
    BY <2>4, <2>5
  <2> HIDE DEF done
  <2>7. \A l \in Slot : tables[t].root[l] =
          IF l = c.slot THEN EntriesOf(c.new, data, done) ELSE tables[t].root[l]
    BY <2>1, <2>3, <2>6
  <2>8. BuildInv(c, tables, data)
    BY <1>5, <1>6, <2>1, <2>6, <2>7 DEF BuildInv, Db, done
  <2> QED
    BY <1>2, <1>9, <2>8 DEF c
<1>13. "before" \in DOMAIN C(t) /\ left' \in Nat /\ None \notin Process
  BY <1>2, Facts DEF TableAssumption
<1>14. Db(tables', data')
  BY <1>2, <1>5
<1> HIDE DEF C
<1> QED
  BY <1>1, <1>2, <1>11, <1>12, <1>13, <1>14, BegunRight

LEMMA BuildFacts ==
  ASSUME TableAssumption, DataInv, cmd.step = "build"
  PROVE  /\ cmd \in BuildType /\ cmd # NoCommand /\ BuildInv(cmd, tables, data)
         /\ cmd.table \in Live(cmd.before.tables) /\ cmd.table \in TableBlock
         /\ cmd.slot \in Slot /\ cmd.new \in Index /\ cmd.before \in Database
         /\ \E f : DbIs(cmd.before.tables, cmd.before.data, f)
<1>1. cmd \in BuildType /\ cmd # NoCommand
  BY Facts, CommandKind DEF NoCommand
<1>2. /\ BuildInv(cmd, tables, data) /\ cmd.table \in Live(cmd.before.tables)
      /\ Agree(cmd.before.tables, cmd.before.data)
  BY <1>1 DEF DataInv, CommandInv
<1>3. /\ cmd.table \in TableBlock /\ cmd.slot \in Slot /\ cmd.new \in Index
      /\ cmd.before \in Database
  BY <1>1 DEF BuildType
<1>4. Db(cmd.before.tables, cmd.before.data)
  BY <1>3, DatabaseParts
<1>5. \E f : DbIs(cmd.before.tables, cmd.before.data, f)
  BY <1>2, <1>4, AgreeOwners DEF Db
<1> QED
  BY <1>1, <1>2, <1>3, <1>5

LEMMA BuildKeyRight ==
  ASSUME TableAssumption, NoneAssumption, DataInv, BuildKey
  PROVE  DataInv' /\ Whole
<1> DEFINE t == cmd.table
           i == cmd.slot
           U == cmd.before.tables
           done == {d.block : d \in Entries(U[t]) \ cmd.todo}
<1>1. cmd.step = "build"
  BY DEF BuildKey
<1>2. /\ cmd \in BuildType /\ cmd # NoCommand /\ BuildInv(cmd, tables, data)
      /\ t \in Live(U) /\ t \in TableBlock /\ i \in Slot /\ cmd.new \in Index
      /\ cmd.before \in Database
  BY <1>1, BuildFacts
<1>3. PICK f : DbIs(U, cmd.before.data, f)
  BY <1>1, BuildFacts
<1>4. PICK e \in cmd.todo :
        LET k == KeyOf(cmd.new.fields, data[e.block])
        IN  \/ /\ Found(t, i, k) = {}
               /\ Stepped(Added(t, i, k, e.block), [cmd EXCEPT !.todo = @ \ {e}])
            \/ /\ Found(t, i, k) # {}
               /\ Closed("logical", [tables EXCEPT ![t].root[i] = {}], data)
  BY DEF BuildKey
<1> DEFINE k == KeyOf(cmd.new.fields, data[e.block])
           b == e.block
           n == EntryOf(cmd.new, data[b], b)
<1>5. /\ cmd.todo \subseteq Entries(U[t]) /\ i \notin Defined(U[t].index)
      /\ data = cmd.before.data /\ tables \in [TableBlock -> Table]
      /\ \A u \in TableBlock \ {t} : tables[u] = U[u]
      /\ tables[t].name = U[t].name /\ tables[t].index = U[t].index
      /\ \A j \in Slot : tables[t].root[j] =
           IF j = i THEN EntriesOf(cmd.new, data, done) ELSE U[t].root[j]
      /\ UniqueIn(cmd.new, data, done)
  BY <1>2 DEF BuildInv
<1>6. Holds(U[t], data, f[t]) /\ U \in [TableBlock -> Table] /\ Db(tables, data)
  BY <1>2, <1>3, <1>5, Facts DEF DbIs
<1>7. b \in f[t] /\ data[b] \in Record /\ b \in DataBlock
  <2>1. {d.block : d \in Entries(U[t])} = f[t]
    BY <1>6, HoldsEntries
  <2>2. b \in f[t]
    BY <1>4, <1>5, <2>1
  <2> QED
    BY <1>2, <1>3, <1>5, <2>2, OwnBlocks
<1>8. n \in Entry /\ n.key = k /\ n.block = b /\ n = [key |-> k, block |-> b]
  BY <1>2, <1>7, EntryType DEF EntryOf
<1>9. CASE Found(t, i, k) = {} /\ Stepped(Added(t, i, k, b), [cmd EXCEPT !.todo = @ \ {e}])
  <2> DEFINE S == tables[t].root[i] \cup {n}
             T == WithRoot(tables, t, i, S)
             c == [cmd EXCEPT !.todo = @ \ {e}]
  <2>1. Added(t, i, k, b) = T
    BY <1>8 DEF Added, WithRoot
  <2>2. S \in SUBSET Entry
    BY <1>2, <1>5, <1>8, TableFields
  <2>3. /\ c \in BuildType /\ c.step = "build" /\ c.before = cmd.before /\ c.table = cmd.table
        /\ c.slot = cmd.slot /\ c.new = cmd.new /\ c.todo = cmd.todo \ {e}
    BY <1>2 DEF BuildType
  <2>4. \A d \in tables[t].root[i] : d.key # n.key
    BY <1>8, <1>9 DEF Found
  <2>5. S = EntriesOf(cmd.new, data, done) \cup {n}
    BY <1>2, <1>5
  <2> HIDE DEF S, c
  <2>6. RootIs(T, tables, t, i, S)
    BY <1>2, <1>5, <2>2, RootSet
  <2> DEFINE more == {d.block : d \in Entries(U[t]) \ c.todo}
  <2>7. more = done \cup {b}
    BY <1>4, <1>5, <2>3
  <2> HIDE DEF T
  <2>8. S = EntriesOf(cmd.new, data, more) /\ UniqueIn(cmd.new, data, more)
    <3> DEFINE x == cmd.new
    <3>1. UniqueIn(x, data, done) /\ S = EntriesOf(x, data, done) \cup {EntryOf(x, data[b], b)}
      BY <1>5, <2>5
    <3>2. \A d \in EntriesOf(x, data, done) : d.key # EntryOf(x, data[b], b).key
      BY <1>2, <1>5, <2>4
    <3> HIDE DEF x, done, more
    <3>3. EntriesOf(x, data, done \cup {b}) = S
      BY <3>1 DEF EntriesOf
    <3>4. UniqueIn(x, data, done \cup {b})
      BY <3>1, <3>2, UniqueMore
    <3> QED
      BY <2>7, <3>3, <3>4 DEF x
  <2> HIDE DEF done
  <2>9. BuildInv(c, T, data)
    <3>1. c.todo \subseteq Entries(U[t]) /\ c.slot \notin Defined(U[t].index)
      BY <1>5, <2>3
    <3>2. /\ \A u \in TableBlock \ {t} : T[u] = U[u]
          /\ T[t].name = U[t].name /\ T[t].index = U[t].index
          /\ T \in [TableBlock -> Table]
      BY <1>5, <2>6 DEF RootIs
    <3>3. \A j \in Slot : T[t].root[j] =
            IF j = i THEN EntriesOf(cmd.new, data, more) ELSE U[t].root[j]
      BY <1>5, <2>6, <2>8 DEF RootIs
    <3> QED
      BY <1>5, <2>3, <2>8, <3>1, <3>2, <3>3 DEF BuildInv
  <2>10. Stepped(T, c)
    BY <1>9, <2>1 DEF c
  <2>11. Db(T, data)
    BY <1>6, <2>6 DEF Db, RootIs
  <2>12. c \in CommandType /\ c # NoCommand
    BY <2>3, CommandTypes DEF NoCommand
  <2> QED
    BY <1>2, <2>3, <2>9, <2>10, <2>11, <2>12, SteppedRight
<1>10. CASE Closed("logical", [tables EXCEPT ![t].root[i] = {}], data)
  <2> DEFINE T == WithRoot(tables, t, i, {})
  <2>1. Closed("logical", T, data)
    BY <1>10 DEF WithRoot
  <2>2. RootIs(T, tables, t, i, {})
    BY <1>2, <1>5, RootSet
  <2> HIDE DEF T
  <2>3. U[t].root[i] = {}
    BY <1>2, <1>5, <1>6 DEF Holds, Defined
  <2>4. /\ \A u \in TableBlock \ {t} : T[u] = U[u]
        /\ T[t].name = U[t].name /\ T[t].index = U[t].index
        /\ T \in [TableBlock -> Table] /\ \A j \in Slot : T[t].root[j] = U[t].root[j]
    BY <1>5, <2>2, <2>3 DEF RootIs
  <2>5. T[t] = U[t]
    BY <1>2, <1>6, <2>4, TableEqual
  <2>6. T = U
    BY <1>6, <2>4, <2>5
  <2>7. Db(T, data) /\ Agree(T, data) /\ None \notin Process
    BY <1>2, <1>5, <1>6, <2>6 DEF Db, DataInv, CommandInv, TableAssumption
  <2> QED
    BY <1>2, <1>5, <2>1, <2>6, <2>7, ClosedRight
<1> QED
  BY <1>4, <1>9, <1>10

LEMMA BuildEndRight ==
  ASSUME TableAssumption, NoneAssumption, DataInv, BuildEnd
  PROVE  DataInv' /\ Whole
<1> DEFINE t == cmd.table
           i == cmd.slot
           U == cmd.before.tables
           T == WithIndex(tables, t, i, cmd.new)
<1>1. cmd.step = "build" /\ cmd.todo = {} /\ Closed("ok", T, data)
  BY DEF BuildEnd, WithIndex
<1>2. /\ cmd \in BuildType /\ cmd # NoCommand /\ BuildInv(cmd, tables, data)
      /\ t \in Live(U) /\ t \in TableBlock /\ i \in Slot /\ cmd.new \in Index
      /\ cmd.before \in Database
  BY <1>1, BuildFacts
<1>3. PICK f : DbIs(U, cmd.before.data, f)
  BY <1>1, BuildFacts
<1>4. Holds(U[t], cmd.before.data, f[t])
  BY <1>2, <1>3 DEF DbIs
<1>5. {d.block : d \in Entries(U[t]) \ cmd.todo} = f[t]
  BY <1>1, <1>4, HoldsEntries
<1>6. /\ i \notin Defined(U[t].index)
      /\ data = cmd.before.data /\ tables \in [TableBlock -> Table]
      /\ \A u \in TableBlock \ {t} : tables[u] = U[u]
      /\ tables[t].name = U[t].name /\ tables[t].index = U[t].index
      /\ \A j \in Slot : tables[t].root[j] =
           IF j = i THEN EntriesOf(cmd.new, data, f[t]) ELSE U[t].root[j]
      /\ UniqueIn(cmd.new, data, f[t])
  BY <1>2, <1>5 DEF BuildInv
<1>7. IndexIs(T, tables, t, i, cmd.new) /\ T[t].root = tables[t].root
  BY <1>2, <1>6, IndexSet
<1> HIDE DEF T
<1>8. IndexIs(T, U, t, i, cmd.new)
  BY <1>2, <1>6, <1>7 DEF IndexIs
<1>9. cmd.new # None
  BY <1>2 DEF NoneAssumption
<1>10. Holds(T[t], data, f[t])
  <2>1. \A j \in Slot : T[t].root[j] = IF T[t].index[j] = None THEN {}
                                       ELSE EntriesOf(T[t].index[j], data, f[t])
    BY <1>4, <1>6, <1>7, <1>8, <1>9 DEF Holds, IndexIs
  <2>2. \A j \in Defined(T[t].index) : UniqueIn(T[t].index[j], data, f[t])
    <3>1. \A j \in Defined(T[t].index) : j \in Slot /\ (j = i \/ j \in Defined(U[t].index))
      BY <1>8 DEF IndexIs, Defined
    <3>2. \A j \in Defined(U[t].index) : UniqueIn(U[t].index[j], data, f[t])
      BY <1>4, <1>6 DEF Holds
    <3> QED
      BY <1>6, <1>8, <3>1, <3>2 DEF IndexIs
  <2>3. i \in Defined(T[t].index)
    BY <1>2, <1>8, <1>9 DEF IndexIs, Defined
  <2> QED
    BY <2>1, <2>2, <2>3 DEF Holds
<1>11. DbIs(T, data, f)
  BY <1>2, <1>3, <1>6, <1>8, <1>10, IndexChanged
<1>12. Effect(cmd, T, data)
  <2> DEFINE db == [tables |-> T, data |-> data]
  <2>1. t \in Live(T)
    BY <1>2, <1>8 DEF IndexIs, Live
  <2>2. DbIs(db.tables, db.data, f) /\ t \in Live(db.tables)
    BY <1>11, <2>1
  <2>3. db.data = data
    OBVIOUS
  <2> HIDE DEF db
  <2>4. RecordsAre(db, t, f)
    BY <2>2, RecordsOf
  <2>5. RecordsAre(cmd.before, t, f)
    BY <1>2, <1>3, RecordsOf
  <2>6. Records(db, t) = Records(cmd.before, t)
    BY <1>6, <2>3, <2>4, <2>5 DEF RecordsAre
  <2> QED
    BY <1>1, <2>6 DEF Effect, db
<1>13. Db(T, data) /\ Agree(T, data) /\ None \notin Process
  BY <1>11, OwnersAgree DEF Db, TableAssumption
<1> QED
  BY <1>1, <1>2, <1>12, <1>13, ClosedRight

-----------------------------------------------------------------------------
(* The steps of a command on a record.                                      *)
LEMMA RecordFacts ==
  ASSUME TableAssumption, NoneAssumption, DataInv, cmd # NoCommand, cmd.step # "build"
  PROVE  /\ RecordInv(cmd, tables, data) /\ cmd.before \in Database
         /\ cmd.table \in TableBlock /\ cmd.index \in Indexes /\ cmd.todo \in SUBSET Slot
         /\ cmd.block \in DataBlock
         /\ Inserts(cmd) => cmd \in InsertType /\ cmd.new \in Record /\ cmd.new # None
         /\ Updates(cmd) => /\ cmd \in UpdateType /\ cmd.new \in Record /\ cmd.new # None
                            /\ cmd.old \in Record
         /\ Inserts(cmd) \/ Updates(cmd) \/ cmd.step = "delete"
         /\ cmd.step = "delete" => cmd \in DeleteType /\ cmd.old \in Record
         /\ \E f : /\ On(cmd, f)
                   /\ ~Inserts(cmd) => cmd.block \in f[cmd.table] /\ data = cmd.before.data
         /\ None \notin Process
<1>1. RecordInv(cmd, tables, data) /\ cmd.before \in Database /\ cmd.table \in TableBlock
  BY Facts, CommandKind DEF DataInv, CommandInv
<1>2. /\ Inserts(cmd) => cmd \in InsertType
      /\ Updates(cmd) => cmd \in UpdateType
      /\ cmd.step = "delete" => cmd \in DeleteType
      /\ Inserts(cmd) \/ Updates(cmd) \/ cmd.step = "delete"
  BY Facts, CommandKind DEF Inserts, Updates
<1>3. /\ Inserts(cmd) => cmd.new \in Record
      /\ Updates(cmd) => cmd.new \in Record /\ cmd.old \in Record
      /\ cmd.step = "delete" => cmd.old \in Record
      /\ cmd.index \in Indexes /\ cmd.todo \in SUBSET Slot /\ cmd.block \in DataBlock
  BY <1>2 DEF InsertType, UpdateType, DeleteType, RecordType
<1>4. None \notin Record /\ None \notin Process
  BY DEF NoneAssumption, TableAssumption
<1>5. /\ Agree(cmd.before.tables, cmd.before.data) /\ Db(cmd.before.tables, cmd.before.data)
      /\ cmd.table \in Live(cmd.before.tables)
  BY <1>1, DatabaseParts DEF DataInv, CommandInv
<1>6. PICK f : DbIs(cmd.before.tables, cmd.before.data, f)
  BY <1>5, AgreeOwners DEF Db
<1>7. On(cmd, f)
  BY <1>1, <1>5, <1>6 DEF On, RecordInv
<1>8. ~Inserts(cmd) => cmd.block \in f[cmd.table] /\ data = cmd.before.data
  <2>1. Blocks(cmd.before.tables, cmd.table) = f[cmd.table]
    BY <1>5, <1>6, OwnersAgree
  <2> QED
    BY <1>1, <2>1 DEF RecordInv
<1> QED
  BY <1>1, <1>2, <1>3, <1>4, <1>7, <1>8

(* The trees and the data that the records of two tables of commands share. *)
SameCommand(c, d) ==
  /\ c.before = d.before /\ c.table = d.table /\ c.index = d.index
  /\ c.block = d.block /\ c.old = d.old /\ c.new = d.new

LEMMA RecordStepped ==
  ASSUME TableAssumption, NoneAssumption, DataInv, cmd # NoCommand, cmd.step # "build",
         NEW T, NEW c, SameCommand(c, cmd), Stepped(T, c),
         c \in CommandType, c # NoCommand, c.step # "build",
         Inserts(c) <=> Inserts(cmd), c.todo \subseteq Touched(c),
         c.step \in {"insert", "update"} => \A i \in Adds(c), j \in c.todo : i < j,
         \A i \in Adds(c) : NewFree(cmd, i),
         RootsAre(T, cmd, Adds(c), Drops(c))
  PROVE  DataInv' /\ Whole
<1>1. RecordInv(cmd, tables, data)
  BY RecordFacts
<1>2. RootsAre(T, c, Adds(c), Drops(c))
  BY DEF SameCommand, RootsAre, Old, New
<1>3. \A i : NewFree(cmd, i) => NewFree(c, i)
  BY DEF SameCommand, NewFree, New
<1>4. Inserts(c) => Touched(c) = Defined(c.index) /\ Touched(cmd) = Defined(cmd.index)
  BY DEF Touched, Updates, Inserts
<1>5. RecordInv(c, T, data)
  BY <1>1, <1>2, <1>3, <1>4 DEF SameCommand, RecordInv
<1>6. Db(T, data)
  BY Facts DEF RootsAre, Db
<1> QED
  BY <1>5, <1>6, SteppedRight DEF SameCommand

(* The key that a step looks for.                                           *)
LEMMA KeysAre ==
  /\ \A i : KeyIn(i, cmd.new) = New(cmd, i).key /\ New(cmd, i).block = cmd.block
  /\ \A i : KeyIn(i, cmd.old) = Old(cmd, i).key /\ Old(cmd, i).block = cmd.block
BY DEF KeyIn, New, Old, EntryOf

(* The next index of a command.                                             *)
LEMMA NextIndex ==
  ASSUME TableAssumption, NEW S \in SUBSET Slot, S # {}
  PROVE  /\ Least(S) \in S /\ Least(S) \in Slot
         /\ \A j \in S : ~(j < Least(S))
         /\ \A j \in S \ {Least(S)} : Least(S) < j
<1>1. Least(S) \in S /\ \A j \in S : Least(S) <= j
  BY SlotLeast
<1>2. \A j \in Slot : j \in Nat
  BY DEF Slot, TableAssumption
<1> QED
  BY <1>1, <1>2

LEMMA EntryOfNew ==
  ASSUME TableAssumption, NoneAssumption, DataInv, cmd # NoCommand, cmd.step # "build",
         Inserts(cmd) \/ Updates(cmd), NEW i \in Touched(cmd)
  PROVE  New(cmd, i) \in Entry /\ i \in Slot
<1>1. i \in Defined(cmd.index)
  BY DEF Touched, Changed
<1>2. i \in Slot /\ cmd.index[i] \in Index
  BY <1>1, RecordFacts DEF Defined, Indexes
<1>3. cmd.new \in Record /\ cmd.block \in DataBlock
  BY RecordFacts
<1> QED
  BY <1>2, <1>3, EntryType DEF New

(* A step that adds the new key, in a command that goes on as c.            *)
LEMMA KeyAdded ==
  ASSUME TableAssumption, NoneAssumption, DataInv, cmd.step \in {"insert", "update"},
         cmd.todo # {}, NEW i, i = Least(cmd.todo),
         Found(cmd.table, i, KeyIn(i, cmd.new)) = {},
         Stepped(Added(cmd.table, i, KeyIn(i, cmd.new), cmd.block), Further(cmd))
  PROVE  DataInv' /\ Whole
<1> DEFINE c == Further(cmd)
           T == Added(cmd.table, i, KeyIn(i, cmd.new), cmd.block)
<1>1. /\ cmd # NoCommand /\ cmd.step # "build" /\ (Inserts(cmd) \/ Updates(cmd))
      /\ Drops(cmd) = {} /\ Adds(cmd) = Touched(cmd) \ cmd.todo
  BY DEF NoCommand, Inserts, Updates, Adds, Drops
<1>2. /\ RecordInv(cmd, tables, data) /\ cmd.todo \in SUBSET Slot /\ cmd.table \in TableBlock
      /\ Inserts(cmd) => cmd \in InsertType
      /\ Updates(cmd) => cmd \in UpdateType
  BY <1>1, RecordFacts
<1>3. i \in cmd.todo /\ i \in Slot /\ \A j \in cmd.todo \ {i} : i < j
  BY <1>2, NextIndex
<1>4. /\ cmd.todo \subseteq Touched(cmd) /\ RootsAre(tables, cmd, Adds(cmd), {})
      /\ \A a \in Adds(cmd), j \in cmd.todo : a < j
      /\ \A a \in Adds(cmd) : NewFree(cmd, a)
  BY <1>1, <1>2 DEF RecordInv
<1>5. New(cmd, i) \in Entry
  BY <1>1, <1>3, <1>4, EntryOfNew
<1>6. /\ c \in CommandType /\ c.step = cmd.step /\ SameCommand(c, cmd)
      /\ c.todo = cmd.todo \ {i}
  <2>1. CASE Inserts(cmd)
    <3>1. c \in InsertType /\ c.step = cmd.step /\ SameCommand(c, cmd) /\ c.todo = cmd.todo \ {i}
      BY <1>2, <2>1 DEF Further, InsertType, RecordType, SameCommand
    <3> QED
      BY <3>1, CommandTypes
  <2>2. CASE Updates(cmd)
    <3>1. c \in UpdateType /\ c.step = cmd.step /\ SameCommand(c, cmd) /\ c.todo = cmd.todo \ {i}
      BY <1>2, <2>2 DEF Further, UpdateType, RecordType, SameCommand
    <3> QED
      BY <3>1, CommandTypes
  <2> QED
    BY <1>1, <2>1, <2>2
<1> HIDE DEF c
<1>7. /\ Touched(c) = Touched(cmd) /\ Adds(c) = Adds(cmd) \cup {i} /\ Drops(c) = {}
      /\ (Inserts(c) <=> Inserts(cmd)) /\ c # NoCommand /\ c.step # "build"
  <2>1. Touched(c) = Touched(cmd) /\ (Inserts(c) <=> Inserts(cmd))
    BY <1>6 DEF Touched, Updates, Inserts, SameCommand
  <2>2. Adds(c) = Touched(c) \ c.todo /\ Drops(c) = {}
    BY <1>6 DEF Adds, Drops
  <2>3. c # NoCommand /\ c.step # "build"
    BY <1>6 DEF NoCommand
  <2> QED
    BY <1>1, <1>3, <1>4, <1>6, <2>1, <2>2, <2>3
<1>8. T = Added(cmd.table, i, New(cmd, i).key, cmd.block)
  BY KeysAre
<1>9. RootsAre(T, cmd, Adds(cmd) \cup {i}, {})
  BY <1>2, <1>3, <1>4, <1>5, <1>8, AddedRoot
<1>10. NewFree(cmd, i)
  <2>1. \A e \in tables[cmd.table].root[i] : e.key # New(cmd, i).key
    BY KeysAre DEF Found
  <2> QED
    BY <1>3, <1>4, <2>1 DEF RootsAre, NewFree
<1> HIDE DEF T
<1>11. Stepped(T, c)
  BY DEF T, c
<1>12. \A a \in Adds(c), j \in c.todo : a < j
  BY <1>3, <1>4, <1>6, <1>7
<1> QED
  BY <1>1, <1>4, <1>6, <1>7, <1>9, <1>10, <1>11, <1>12, RecordStepped

(* A step that finds the new key, in a command that goes back as c.         *)
LEMMA KeyFound ==
  ASSUME TableAssumption, NoneAssumption, DataInv, cmd.step \in {"insert", "update"},
         cmd.todo # {},
         NEW step, step = IF cmd.step = "insert" THEN "insertUndo" ELSE "updateUndo",
         Stepped(tables, [cmd EXCEPT !.step = step,
                                     !.todo = Earlier(Touched(cmd), Least(cmd.todo))])
  PROVE  DataInv' /\ Whole
<1> DEFINE i == Least(cmd.todo)
           S == Earlier(Touched(cmd), i)
           c == [cmd EXCEPT !.step = step, !.todo = S]
<1>1. /\ cmd # NoCommand /\ cmd.step # "build" /\ (Inserts(cmd) \/ Updates(cmd))
      /\ Drops(cmd) = {} /\ Adds(cmd) = Touched(cmd) \ cmd.todo
      /\ Inserts(cmd) <=> cmd.step = "insert"
  BY DEF NoCommand, Inserts, Updates, Adds, Drops
<1>2. /\ RecordInv(cmd, tables, data) /\ cmd.todo \in SUBSET Slot
      /\ Inserts(cmd) => cmd \in InsertType
      /\ Updates(cmd) => cmd \in UpdateType
  BY <1>1, RecordFacts
<1>3. i \in cmd.todo /\ i \in Slot /\ \A j \in cmd.todo : ~(j < i)
  BY <1>2, NextIndex
<1>4. /\ cmd.todo \subseteq Touched(cmd) /\ RootsAre(tables, cmd, Adds(cmd), {})
      /\ \A a \in Adds(cmd), j \in cmd.todo : a < j
      /\ \A a \in Adds(cmd) : NewFree(cmd, a)
  BY <1>1, <1>2 DEF RecordInv
<1>5. S = Adds(cmd) /\ S \in SUBSET Slot
  <2>1. Touched(cmd) \subseteq Slot
    BY DEF Touched, Changed, Defined
  <2>2. S = {j \in Touched(cmd) : j < i}
    BY DEF Earlier
  <2> HIDE DEF S, i
  <2> QED
    BY <1>1, <1>3, <1>4, <2>1, <2>2
<1> HIDE DEF S
<1>6. /\ c \in CommandType /\ c.step = step /\ SameCommand(c, cmd) /\ c.todo = S
  <2>1. CASE Inserts(cmd)
    <3>1. c \in InsertType /\ c.step = step /\ SameCommand(c, cmd) /\ c.todo = S
      BY <1>1, <1>2, <1>5, <2>1 DEF InsertType, RecordType, SameCommand
    <3> QED
      BY <3>1, CommandTypes
  <2>2. CASE Updates(cmd) /\ cmd.step = "update"
    <3>1. c \in UpdateType /\ c.step = step /\ SameCommand(c, cmd) /\ c.todo = S
      BY <1>2, <1>5, <2>2 DEF UpdateType, RecordType, SameCommand
    <3> QED
      BY <3>1, CommandTypes
  <2> QED
    BY <1>1, <2>1, <2>2
<1>7. Stepped(tables, c)
  BY DEF S
<1> HIDE DEF c
<1>8. /\ Touched(c) = Touched(cmd) /\ Adds(c) = Adds(cmd) /\ Drops(c) = {}
      /\ (Inserts(c) <=> Inserts(cmd)) /\ c # NoCommand /\ c.step # "build"
      /\ c.step \notin {"insert", "update"} /\ c.todo \subseteq Touched(c)
  <2>1. Touched(c) = Touched(cmd) /\ (Inserts(c) <=> Inserts(cmd))
    BY <1>1, <1>6 DEF Touched, Updates, Inserts, SameCommand
  <2>2. Adds(c) = c.todo /\ Drops(c) = {}
    BY <1>6 DEF Adds, Drops
  <2>3. c # NoCommand /\ c.step # "build" /\ c.step \notin {"insert", "update"}
    BY <1>6 DEF NoCommand
  <2> QED
    BY <1>1, <1>5, <1>6, <2>1, <2>2, <2>3
<1> QED
  BY <1>1, <1>4, <1>6, <1>7, <1>8, RecordStepped

LEMMA InsertKeyRight ==
  ASSUME TableAssumption, NoneAssumption, DataInv, InsertKey \/ UpdateKey
  PROVE  DataInv' /\ Whole
<1> DEFINE i == Least(cmd.todo)
<1>1. cmd.step \in {"insert", "update"} /\ cmd.todo # {}
  BY DEF InsertKey, UpdateKey
<1>2. CASE /\ Found(cmd.table, i, KeyIn(i, cmd.new)) = {}
           /\ Stepped(Added(cmd.table, i, KeyIn(i, cmd.new), cmd.block), Further(cmd))
  BY <1>1, <1>2, KeyAdded
<1>3. CASE /\ cmd.step = "insert"
           /\ Stepped(tables, [cmd EXCEPT !.step = "insertUndo",
                                          !.todo = Earlier(Defined(cmd.index), i)])
  <2>1. Touched(cmd) = Defined(cmd.index)
    BY <1>3 DEF Touched, Updates
  <2> QED
    BY <1>1, <1>3, <2>1, KeyFound
<1>4. CASE /\ cmd.step = "update"
           /\ Stepped(tables, [cmd EXCEPT !.step = "updateUndo",
                                 !.todo = Earlier(Changed(cmd.index, cmd.old, cmd.new), i)])
  <2>1. Touched(cmd) = Changed(cmd.index, cmd.old, cmd.new)
    BY <1>4 DEF Touched, Updates
  <2> QED
    BY <1>1, <1>4, <2>1, KeyFound
<1> QED
  BY <1>2, <1>3, <1>4 DEF InsertKey, UpdateKey

(* A step that takes the new key out again.                                 *)
LEMMA KeyTakenBack ==
  ASSUME TableAssumption, NoneAssumption, DataInv, cmd.step \in {"insertUndo", "updateUndo"},
         NEW i \in cmd.todo,
         Stepped(Removed(cmd.table, i, KeyIn(i, cmd.new)), [cmd EXCEPT !.todo = @ \ {i}])
  PROVE  DataInv' /\ Whole
<1> DEFINE c == [cmd EXCEPT !.todo = @ \ {i}]
           T == Removed(cmd.table, i, KeyIn(i, cmd.new))
<1>1. /\ cmd # NoCommand /\ cmd.step # "build" /\ (Inserts(cmd) \/ Updates(cmd))
      /\ Drops(cmd) = {} /\ Adds(cmd) = cmd.todo
  BY DEF NoCommand, Inserts, Updates, Adds, Drops
<1>2. /\ RecordInv(cmd, tables, data) /\ cmd.todo \in SUBSET Slot /\ cmd.table \in TableBlock
      /\ Inserts(cmd) => cmd \in InsertType
      /\ Updates(cmd) => cmd \in UpdateType
  BY <1>1, RecordFacts
<1>3. /\ cmd.todo \subseteq Touched(cmd) /\ RootsAre(tables, cmd, cmd.todo, {})
      /\ \A a \in cmd.todo : NewFree(cmd, a)
  BY <1>1, <1>2 DEF RecordInv
<1>4. /\ c \in CommandType /\ c.step = cmd.step /\ SameCommand(c, cmd)
      /\ c.todo = cmd.todo \ {i}
  <2>1. CASE Inserts(cmd)
    <3>1. c \in InsertType /\ c.step = cmd.step /\ SameCommand(c, cmd) /\ c.todo = cmd.todo \ {i}
      BY <1>2, <2>1 DEF InsertType, RecordType, SameCommand
    <3> QED
      BY <3>1, CommandTypes
  <2>2. CASE Updates(cmd)
    <3>1. c \in UpdateType /\ c.step = cmd.step /\ SameCommand(c, cmd) /\ c.todo = cmd.todo \ {i}
      BY <1>2, <2>2 DEF UpdateType, RecordType, SameCommand
    <3> QED
      BY <3>1, CommandTypes
  <2> QED
    BY <1>1, <2>1, <2>2
<1>5. Stepped(T, c)
  OBVIOUS
<1>6. T = Removed(cmd.table, i, New(cmd, i).key)
  BY KeysAre
<1> HIDE DEF c, T
<1>7. /\ Touched(c) = Touched(cmd) /\ Adds(c) = cmd.todo \ {i} /\ Drops(c) = {}
      /\ (Inserts(c) <=> Inserts(cmd)) /\ c # NoCommand /\ c.step # "build"
      /\ c.step \notin {"insert", "update"}
  <2>1. Touched(c) = Touched(cmd) /\ (Inserts(c) <=> Inserts(cmd))
    BY <1>4 DEF Touched, Updates, Inserts, SameCommand
  <2>2. Adds(c) = c.todo /\ Drops(c) = {}
    BY <1>4 DEF Adds, Drops
  <2>3. c # NoCommand /\ c.step # "build" /\ c.step \notin {"insert", "update"}
    BY <1>4 DEF NoCommand
  <2> QED
    BY <1>4, <2>1, <2>2, <2>3
<1>8. RootsAre(T, cmd, cmd.todo \ {i}, {})
  BY <1>2, <1>3, <1>6, RemovedNew
<1> QED
  BY <1>1, <1>3, <1>4, <1>5, <1>7, <1>8, RecordStepped

(* While a command goes back, what it takes out is there.                   *)
LEMMA UndoFinds ==
  ASSUME TableAssumption, NoneAssumption, DataInv, cmd.step \in {"insertUndo", "updateUndo"},
         NEW i \in cmd.todo
  PROVE  \E e \in Found(cmd.table, i, KeyIn(i, cmd.new)) : e.block = cmd.block
<1>1. cmd # NoCommand /\ cmd.step # "build" /\ Adds(cmd) = cmd.todo /\ Drops(cmd) = {}
  BY DEF NoCommand, Adds, Drops
<1>2. RootsAre(tables, cmd, cmd.todo, {}) /\ i \in Slot
  BY <1>1, RecordFacts DEF RecordInv
<1>3. New(cmd, i) \in tables[cmd.table].root[i]
  BY <1>2 DEF RootsAre
<1> QED
  BY <1>3, KeysAre DEF Found

LEMMA InsertUndoRight ==
  ASSUME TableAssumption, NoneAssumption, DataInv, InsertUndo \/ UpdateUndo
  PROVE  DataInv' /\ Whole
<1>1. cmd.step \in {"insertUndo", "updateUndo"} /\ cmd.todo # {}
  BY DEF InsertUndo, UpdateUndo
<1>2. cmd.todo \in SUBSET Slot
  BY <1>1, RecordFacts DEF NoCommand
<1>3. Least(cmd.todo) \in cmd.todo /\ Greatest(cmd.todo) \in cmd.todo
  BY <1>1, <1>2, SlotLeast, SlotGreatest
<1>4. PICK i \in cmd.todo :
        \/ \A e \in Found(cmd.table, i, KeyIn(i, cmd.new)) : e.block # cmd.block
        \/ Stepped(Removed(cmd.table, i, KeyIn(i, cmd.new)), [cmd EXCEPT !.todo = @ \ {i}])
  <2>1. CASE InsertUndo
    <3> DEFINE i == Least(cmd.todo)
    <3>1. CASE Found(cmd.table, i, KeyIn(i, cmd.new)) = {}
      BY <1>3, <3>1
    <3>2. CASE Stepped(Removed(cmd.table, i, KeyIn(i, cmd.new)), Further(cmd))
      BY <1>3, <3>2 DEF Further
    <3> QED
      BY <2>1, <3>1, <3>2 DEF InsertUndo
  <2>2. CASE UpdateUndo
    BY <1>3, <2>2 DEF UpdateUndo
  <2> QED
    BY <2>1, <2>2
<1>5. \E e \in Found(cmd.table, i, KeyIn(i, cmd.new)) : e.block = cmd.block
  BY <1>1, UndoFinds
<1> QED
  BY <1>1, <1>4, <1>5, KeyTakenBack

(* The old entry of the record that a command changes.                      *)
LEMMA OldEntry ==
  ASSUME TableAssumption, NoneAssumption, DataInv, cmd # NoCommand, cmd.step # "build",
         ~Inserts(cmd), NEW i \in Touched(cmd)
  PROVE  /\ i \in Slot /\ Old(cmd, i) \in cmd.before.tables[cmd.table].root[i]
         /\ \A e \in cmd.before.tables[cmd.table].root[i] :
              e.key = Old(cmd, i).key => e = Old(cmd, i)
<1> DEFINE V == cmd.before.tables[cmd.table]
           E == cmd.before.data
<1>1. PICK f : On(cmd, f) /\ cmd.block \in f[cmd.table]
  BY RecordFacts
<1>2. Holds(V, E, f[cmd.table]) /\ cmd.index = V.index
  BY <1>1 DEF On, DbIs, Live
<1>3. E[cmd.block] = cmd.old
  BY RecordFacts DEF RecordInv
<1>4. i \in Defined(V.index)
  BY <1>2 DEF Touched, Changed
<1> DEFINE x == V.index[i]
           B == f[cmd.table]
<1>5. i \in Slot /\ V.root[i] = EntriesOf(x, E, B) /\ UniqueIn(x, E, B)
  BY <1>2, <1>4 DEF Holds, Defined
<1>6. Old(cmd, i) = EntryOf(x, E[cmd.block], cmd.block)
  BY <1>2, <1>3 DEF Old
<1>7. cmd.block \in B
  BY <1>1
<1> HIDE DEF V, E, x, B
<1>8. Old(cmd, i) \in EntriesOf(x, E, B)
  BY <1>6, <1>7 DEF EntriesOf
<1>9. ASSUME NEW e \in EntriesOf(x, E, B), e.key = Old(cmd, i).key
      PROVE  e = Old(cmd, i)
  <2>1. e.block \in B /\ e = EntryOf(x, E[e.block], e.block)
    BY <1>9, EntriesBlocks
  <2>2. KeyOf(x.fields, E[e.block]) = KeyOf(x.fields, E[cmd.block])
    BY <1>6, <1>9, <2>1 DEF EntryOf
  <2>3. e.block = cmd.block
    BY <1>5, <1>7, <2>1, <2>2 DEF UniqueIn
  <2> QED
    BY <1>6, <2>1, <2>3
<1> QED
  BY <1>5, <1>8, <1>9 DEF V

LEMMA DropRight ==
  ASSUME TableAssumption, NoneAssumption, DataInv, cmd.step \in {"delete", "updateDrop"},
         cmd.todo # {}, Drop
  PROVE  DataInv' /\ Whole
<1> DEFINE i == Least(cmd.todo)
           c == Further(cmd)
           T == Removed(cmd.table, i, KeyIn(i, cmd.old))
<1>1. /\ cmd # NoCommand /\ cmd.step # "build" /\ ~Inserts(cmd)
      /\ cmd.step = "delete" \/ Updates(cmd)
      /\ Drops(cmd) = Touched(cmd) \ cmd.todo
      /\ Adds(cmd) = IF cmd.step = "delete" THEN {} ELSE Touched(cmd)
  BY DEF NoCommand, Inserts, Updates, Adds, Drops
<1>2. /\ RecordInv(cmd, tables, data) /\ cmd.todo \in SUBSET Slot /\ cmd.table \in TableBlock
      /\ cmd.step = "delete" => cmd \in DeleteType
      /\ Updates(cmd) => cmd \in UpdateType
  BY <1>1, RecordFacts
<1>3. i \in cmd.todo /\ i \in Slot
  BY <1>2, NextIndex
<1>4. /\ cmd.todo \subseteq Touched(cmd) /\ RootsAre(tables, cmd, Adds(cmd), Drops(cmd))
      /\ \A a \in Adds(cmd) : NewFree(cmd, a)
  BY <1>1, <1>2 DEF RecordInv
<1>5. i \in Touched(cmd) /\ i \notin Drops(cmd)
  BY <1>1, <1>3, <1>4
<1> HIDE DEF i
<1>6. /\ Old(cmd, i) \in cmd.before.tables[cmd.table].root[i]
      /\ \A e \in cmd.before.tables[cmd.table].root[i] :
           e.key = Old(cmd, i).key => e = Old(cmd, i)
  BY <1>1, <1>5, OldEntry
<1>7. Old(cmd, i) \in Found(cmd.table, i, KeyIn(i, cmd.old)) /\ Old(cmd, i).block = cmd.block
  <2>1. Old(cmd, i) \in tables[cmd.table].root[i]
    BY <1>3, <1>4, <1>5, <1>6 DEF RootsAre
  <2> QED
    BY <2>1, KeysAre DEF Found
<1>8. Stepped(T, c)
  BY <1>7 DEF Drop, i
<1>9. T = Removed(cmd.table, i, Old(cmd, i).key)
  BY KeysAre
<1>10. i \in Adds(cmd) => New(cmd, i).key # Old(cmd, i).key
  <2> SUFFICES ASSUME Updates(cmd) PROVE New(cmd, i).key # Old(cmd, i).key
    BY <1>1
  <2>1. i \in Changed(cmd.index, cmd.old, cmd.new)
    BY <1>5 DEF Touched
  <2> QED
    BY <2>1 DEF Changed, New, Old, EntryOf
<1>11. RootsAre(T, cmd, Adds(cmd), Drops(cmd) \cup {i})
  BY <1>2, <1>3, <1>4, <1>5, <1>6, <1>9, <1>10, RemovedOld
<1>12. /\ c \in CommandType /\ c.step = cmd.step /\ SameCommand(c, cmd)
       /\ c.todo = cmd.todo \ {i}
  <2>1. CASE cmd.step = "delete"
    <3>1. c \in DeleteType /\ c.step = cmd.step /\ SameCommand(c, cmd) /\ c.todo = cmd.todo \ {i}
      BY <1>2, <2>1 DEF Further, DeleteType, RecordType, SameCommand, i
    <3> QED
      BY <3>1, CommandTypes
  <2>2. CASE Updates(cmd)
    <3>1. c \in UpdateType /\ c.step = cmd.step /\ SameCommand(c, cmd) /\ c.todo = cmd.todo \ {i}
      BY <1>2, <2>2 DEF Further, UpdateType, RecordType, SameCommand, i
    <3> QED
      BY <3>1, CommandTypes
  <2> QED
    BY <1>1, <2>1, <2>2
<1> HIDE DEF c, T
<1>13. /\ Touched(c) = Touched(cmd) /\ Adds(c) = Adds(cmd) /\ Drops(c) = Drops(cmd) \cup {i}
       /\ (Inserts(c) <=> Inserts(cmd)) /\ c # NoCommand /\ c.step # "build"
       /\ c.step \notin {"insert", "update"}
  <2>1. Touched(c) = Touched(cmd) /\ (Inserts(c) <=> Inserts(cmd))
    BY <1>12 DEF Touched, Updates, Inserts, SameCommand
  <2>2. /\ Adds(c) = IF cmd.step = "delete" THEN {} ELSE Touched(c)
        /\ Drops(c) = Touched(c) \ c.todo
    BY <1>12 DEF Adds, Drops
  <2>3. c # NoCommand /\ c.step # "build" /\ c.step \notin {"insert", "update"}
    BY <1>12 DEF NoCommand
  <2> QED
    BY <1>1, <1>3, <1>4, <1>12, <2>1, <2>2, <2>3
<1>14. c.todo \subseteq Touched(c)
  BY <1>4, <1>12, <1>13
<1> QED
  BY <1>1, <1>4, <1>8, <1>11, <1>12, <1>13, <1>14, RecordStepped

(* From adding the new keys to taking the old ones out.                     *)
LEMMA UpdateAddedRight ==
  ASSUME TableAssumption, NoneAssumption, DataInv, UpdateAdded
  PROVE  DataInv' /\ Whole
<1> DEFINE c == [cmd EXCEPT !.step = "updateDrop",
                            !.todo = Changed(cmd.index, cmd.old, cmd.new)]
<1>1. cmd.step = "update" /\ cmd.todo = {} /\ Stepped(tables, c)
  BY DEF UpdateAdded
<1>2. /\ cmd # NoCommand /\ cmd.step # "build" /\ ~Inserts(cmd) /\ Updates(cmd)
      /\ Touched(cmd) = Changed(cmd.index, cmd.old, cmd.new)
      /\ Adds(cmd) = Touched(cmd) \ cmd.todo /\ Drops(cmd) = {}
  BY <1>1 DEF NoCommand, Inserts, Updates, Adds, Drops, Touched
<1>3. RecordInv(cmd, tables, data) /\ cmd \in UpdateType
  BY <1>2, RecordFacts
<1>4. /\ RootsAre(tables, cmd, Touched(cmd), {})
      /\ \A a \in Touched(cmd) : NewFree(cmd, a)
  <2>1. Adds(cmd) = Touched(cmd)
    BY <1>1, <1>2
  <2> QED
    BY <1>2, <1>3, <2>1 DEF RecordInv
<1>5. Touched(cmd) \in SUBSET Slot
  BY DEF Touched, Changed, Defined
<1>6. /\ c \in CommandType /\ c.step = "updateDrop" /\ SameCommand(c, cmd)
      /\ c.todo = Touched(cmd)
  <2>1. /\ c \in UpdateType /\ c.step = "updateDrop" /\ SameCommand(c, cmd)
        /\ c.todo = Touched(cmd)
    BY <1>2, <1>3, <1>5 DEF UpdateType, RecordType, SameCommand
  <2> QED
    BY <2>1, CommandTypes
<1> HIDE DEF c
<1>7. /\ Touched(c) = Touched(cmd) /\ Adds(c) = Touched(cmd) /\ Drops(c) = {}
      /\ ~Inserts(c) /\ c # NoCommand
  <2>1. Touched(c) = Touched(cmd) /\ ~Inserts(c)
    BY <1>2, <1>6 DEF Touched, Updates, Inserts, SameCommand
  <2>2. Adds(c) = Touched(c) /\ Drops(c) = Touched(c) \ c.todo /\ c # NoCommand
    BY <1>6 DEF Adds, Drops, NoCommand
  <2> QED
    BY <1>6, <2>1, <2>2
<1> QED
  BY <1>1, <1>2, <1>4, <1>6, <1>7, RecordStepped

-----------------------------------------------------------------------------
(* The ends of a command on a record.                                       *)
LEMMA UndoneRight ==
  ASSUME TableAssumption, NoneAssumption, DataInv, InsertUndone \/ UpdateUndone
  PROVE  DataInv' /\ Whole
<1>1. cmd.step \in {"insertUndo", "updateUndo"} /\ cmd.todo = {}
  BY DEF InsertUndone, UpdateUndone
<1>2. cmd # NoCommand /\ cmd.step # "build" /\ Adds(cmd) = {} /\ Drops(cmd) = {}
  BY <1>1 DEF NoCommand, Adds, Drops
<1>3. RecordInv(cmd, tables, data) /\ cmd.before \in Database /\ cmd.table \in TableBlock
      /\ cmd.block \in DataBlock /\ None \notin Process
  BY <1>2, RecordFacts
<1>4. Db(cmd.before.tables, cmd.before.data) /\ Agree(cmd.before.tables, cmd.before.data)
  BY <1>2, <1>3, DatabaseParts DEF DataInv, CommandInv
<1>5. tables = cmd.before.tables
  BY <1>2, <1>3, <1>4, RootsBack DEF RecordInv, Db
<1>6. Closed("logical", tables, cmd.before.data)
  <2>1. CASE InsertUndone
    <3>1. /\ cmd.before.data[cmd.block] = None
          /\ data = [cmd.before.data EXCEPT ![cmd.block] = Blank]
      BY <1>3, <2>1 DEF RecordInv, Inserts, InsertUndone
    <3>2. [data EXCEPT ![cmd.block] = None] = cmd.before.data
      BY <1>3, <1>4, <3>1 DEF Db
    <3> QED
      BY <2>1, <3>2 DEF InsertUndone
  <2>2. CASE UpdateUndone
    <3>1. data = cmd.before.data
      BY <1>3, <2>2 DEF RecordInv, Inserts, UpdateUndone
    <3> QED
      BY <2>2, <3>1 DEF UpdateUndone
  <2> QED
    BY <2>1, <2>2
<1> QED
  BY <1>2, <1>3, <1>4, <1>5, <1>6, ClosedRight

LEMMA InsertDataRight ==
  ASSUME TableAssumption, NoneAssumption, DataInv, InsertData
  PROVE  DataInv' /\ Whole
<1> DEFINE D == [cmd.before.data EXCEPT ![cmd.block] = cmd.new]
<1>1. cmd.step = "insert" /\ cmd.todo = {}
  BY DEF InsertData
<1>2. /\ cmd # NoCommand /\ cmd.step # "build" /\ Inserts(cmd)
      /\ Touched(cmd) = Defined(cmd.index) /\ Adds(cmd) = Defined(cmd.index) /\ Drops(cmd) = {}
  BY <1>1 DEF NoCommand, Inserts, Updates, Adds, Drops, Touched
<1>3. /\ RecordInv(cmd, tables, data) /\ cmd.before \in Database /\ cmd.block \in DataBlock
      /\ cmd.new \in Record /\ cmd.new # None /\ None \notin Process
  BY <1>2, RecordFacts
<1>4. /\ RootsAre(tables, cmd, Defined(cmd.index), {})
      /\ \A i \in Defined(cmd.index) : NewFree(cmd, i)
      /\ Defined(cmd.index) # {} /\ cmd.before.data[cmd.block] = None
      /\ data = [cmd.before.data EXCEPT ![cmd.block] = Blank]
  BY <1>2, <1>3 DEF RecordInv
<1>5. PICK f : On(cmd, f)
  BY <1>2, RecordFacts
<1>6. [data EXCEPT ![cmd.block] = cmd.new] = D
  BY <1>3, <1>4, DatabaseParts DEF Db
<1>7. Closed("ok", tables, D)
  BY <1>6 DEF InsertData
<1> DEFINE g == [f EXCEPT ![cmd.table] = @ \cup {cmd.block}]
<1>8. /\ DbIs(tables, D, g)
      /\ Records([tables |-> tables, data |-> D], cmd.table)
           = Records(cmd.before, cmd.table) \cup {cmd.new}
      /\ cmd.new \notin Records(cmd.before, cmd.table)
  BY <1>3, <1>4, <1>5, Inserted
<1> HIDE DEF D, g
<1>9. Effect(cmd, tables, D)
  BY <1>1, <1>8 DEF Effect
<1>10. Db(tables, D) /\ Agree(tables, D)
  BY <1>8, OwnersAgree DEF Db
<1> QED
  BY <1>2, <1>3, <1>7, <1>9, <1>10, ClosedRight

LEMMA DeleteDataRight ==
  ASSUME TableAssumption, NoneAssumption, DataInv, DeleteData
  PROVE  DataInv' /\ Whole
<1> DEFINE D == [cmd.before.data EXCEPT ![cmd.block] = None]
<1>1. cmd.step = "delete" /\ cmd.todo = {}
  BY DEF DeleteData
<1>2. /\ cmd # NoCommand /\ cmd.step # "build" /\ ~Inserts(cmd)
      /\ Touched(cmd) = Defined(cmd.index) /\ Adds(cmd) = {} /\ Drops(cmd) = Defined(cmd.index)
  BY <1>1 DEF NoCommand, Inserts, Updates, Adds, Drops, Touched
<1>3. RecordInv(cmd, tables, data) /\ None \notin Process
  BY <1>2, RecordFacts
<1>4. RootsAre(tables, cmd, {}, Defined(cmd.index)) /\ cmd.before.data[cmd.block] = cmd.old
      /\ data = cmd.before.data
  BY <1>2, <1>3 DEF RecordInv
<1>5. PICK f : On(cmd, f) /\ cmd.block \in f[cmd.table]
  BY <1>2, RecordFacts
<1>6. Closed("ok", tables, D)
  BY <1>4 DEF DeleteData
<1> DEFINE g == [f EXCEPT ![cmd.table] = @ \ {cmd.block}]
<1>7. /\ DbIs(tables, D, g)
      /\ Records([tables |-> tables, data |-> D], cmd.table)
           = Records(cmd.before, cmd.table) \ {cmd.old}
      /\ cmd.old \in Records(cmd.before, cmd.table)
  BY <1>4, <1>5, Deleted
<1> HIDE DEF D, g
<1>8. Effect(cmd, tables, D)
  BY <1>1, <1>7 DEF Effect
<1>9. Db(tables, D) /\ Agree(tables, D)
  BY <1>7, OwnersAgree DEF Db
<1> QED
  BY <1>2, <1>3, <1>6, <1>8, <1>9, ClosedRight

LEMMA UpdateDataRight ==
  ASSUME TableAssumption, NoneAssumption, DataInv, UpdateData
  PROVE  DataInv' /\ Whole
<1> DEFINE D == [cmd.before.data EXCEPT ![cmd.block] = cmd.new]
           C == Changed(cmd.index, cmd.old, cmd.new)
<1>1. cmd.step = "updateDrop" /\ cmd.todo = {}
  BY DEF UpdateData
<1>2. /\ cmd # NoCommand /\ cmd.step # "build" /\ ~Inserts(cmd) /\ Updates(cmd)
      /\ Touched(cmd) = C /\ Adds(cmd) = C /\ Drops(cmd) = C
  BY <1>1 DEF NoCommand, Inserts, Updates, Adds, Drops, Touched
<1>3. /\ RecordInv(cmd, tables, data) /\ None \notin Process
      /\ cmd.new \in Record /\ cmd.new # None
  BY <1>2, RecordFacts
<1>4. /\ RootsAre(tables, cmd, C, C) /\ cmd.before.data[cmd.block] = cmd.old
      /\ data = cmd.before.data /\ \A i \in C : NewFree(cmd, i)
  BY <1>2, <1>3 DEF RecordInv
<1>5. PICK f : On(cmd, f) /\ cmd.block \in f[cmd.table]
  BY <1>2, RecordFacts
<1>6. Closed("ok", tables, D)
  BY <1>4 DEF UpdateData
<1>7. /\ DbIs(tables, D, f)
      /\ Records([tables |-> tables, data |-> D], cmd.table)
           = (Records(cmd.before, cmd.table) \ {cmd.old}) \cup {cmd.new}
  BY <1>3, <1>4, <1>5, Updated
<1> HIDE DEF D
<1>8. Effect(cmd, tables, D)
  BY <1>1, <1>7 DEF Effect
<1>9. Db(tables, D) /\ Agree(tables, D)
  BY <1>7, OwnersAgree DEF Db
<1> QED
  BY <1>2, <1>3, <1>6, <1>8, <1>9, ClosedRight

-----------------------------------------------------------------------------
(* A command on a record begins.                                            *)
Starting(p, s, step, block, old, new, todo) ==
  [step |-> step, table |-> handles[p][s].table, index |-> handles[p][s].index,
   todo |-> todo, block |-> block, old |-> old, new |-> new,
   before |-> [tables |-> tables, data |-> data]]

LEMMA RecordBegun ==
  ASSUME TableAssumption, RecordsInv, NEW p \in Process, NEW s \in 1..MaxOpen, Uses(p, s),
         NEW step, NEW block, NEW old, NEW new, NEW todo, NEW T, NEW D,
         RecordCommand(p, s, step, block, old, new, todo, T, D)
  PROVE  /\ cmd' = Starting(p, s, step, block, old, new, todo)
         /\ MayCommand(p) /\ tables' = T /\ data' = D
         /\ handles[p][s].table \in Live(tables) /\ handles[p][s].table \in TableBlock
         /\ handles[p][s].index = tables[handles[p][s].table].index
         /\ handles[p][s].index \in Indexes
         /\ \E f : DbIs(tables, data, f)
         /\ /\ Db(T, D) /\ cmd' \in CommandType
            /\ step \notin {"none", "build"} /\ RecordInv(cmd', T, D)
            => DataInv' /\ Whole
<1> DEFINE c == [step |-> step, table |-> handles[p][s].table,
                 index |-> handles[p][s].index, todo |-> todo,
                 block |-> block, old |-> old, new |-> new, before |-> None]
           h == handles[p][s]
<1>1. /\ Begun(p, c) /\ tables' = T /\ data' = D
      /\ UNCHANGED <<committed, reply, handles, bytes, left>>
  BY DEF RecordCommand
<1>2. MayCommand(p) /\ cmd' = [c EXCEPT !.before = [tables |-> tables, data |-> data]]
  BY <1>1 DEF Begun
<1>3. cmd' = Starting(p, s, step, block, old, new, todo)
  BY <1>2 DEF Starting
<1>4. h.table \in TableBlock /\ tables[h.table].name # None /\ tables[h.table].index = h.index
  BY DEF RecordsInv, Inv, HandlesInv, HasTable, Uses
<1>5. h.table \in Live(tables) /\ h.index \in Indexes
  <2>1. tables \in [TableBlock -> Table]
    BY Facts DEF RecordsInv, Db
  <2> QED
    BY <1>4, <2>1, TableFields DEF Live, Indexes
<1>6. \E f : DbIs(tables, data, f)
  BY <1>2, DefineBegins DEF RecordsInv
<1>7. ASSUME Db(T, D), cmd' \in CommandType, step \notin {"none", "build"},
             RecordInv(cmd', T, D)
      PROVE  DataInv' /\ Whole
  <2>1. cmd'.step = step /\ cmd'.table = h.table /\ cmd' # NoCommand
    BY <1>3, <1>7 DEF Starting, NoCommand
  <2>2. "before" \in DOMAIN c /\ left' \in Nat /\ None \notin Process
    BY <1>1, Facts DEF TableAssumption, RecordsInv
  <2>3. /\ Begun(p, c) /\ UNCHANGED <<committed, reply, handles, bytes>>
        /\ Db(tables', data') /\ RecordInv(cmd', tables', data') /\ DataInv
        /\ cmd'.table \in Live(tables) /\ cmd'.step # "build"
    BY <1>1, <1>5, <1>7, <2>1 DEF RecordsInv
  <2> HIDE DEF c
  <2> QED
    BY <1>7, <2>1, <2>2, <2>3, BegunRight
<1> QED
  BY <1>1, <1>2, <1>3, <1>4, <1>5, <1>6, <1>7

(* Before its first step a command has changed no tree.                     *)
LEMMA RootsSame ==
  ASSUME NEW c, c.before.tables \in [TableBlock -> Table]
  PROVE  RootsAre(c.before.tables, c, {}, {})
BY DEF RootsAre

LEMMA InsertBeginRight ==
  ASSUME TableAssumption, NoneAssumption, RecordsInv, NEW p \in Process, NEW s \in 1..MaxOpen,
         NEW r \in Record, NEW b \in DataBlock, InsertBegin(p, s, r, b)
  PROVE  DataInv' /\ Whole
<1> DEFINE h == handles[p][s]
           D == [data EXCEPT ![b] = Blank]
<1>1. /\ Uses(p, s) /\ Defined(h.index) # {} /\ data[b] = None
      /\ RecordCommand(p, s, "insert", b, None, r, Defined(h.index), tables, D)
  BY DEF InsertBegin
<1>2. /\ cmd' = Starting(p, s, "insert", b, None, r, Defined(h.index))
      /\ h.table \in TableBlock /\ h.index = tables[h.table].index /\ h.index \in Indexes
  BY <1>1, RecordBegun
<1>3. Db(tables, data) /\ [tables |-> tables, data |-> data] \in Database
  BY Facts, DatabaseParts DEF RecordsInv
<1>4. Db(tables, D)
  BY <1>3 DEF Db
<1>5. /\ cmd'.step = "insert" /\ cmd'.table = h.table /\ cmd'.index = h.index
      /\ cmd'.todo = Defined(h.index) /\ cmd'.block = b /\ cmd'.new = r
      /\ cmd'.before.tables = tables /\ cmd'.before.data = data
  BY <1>2 DEF Starting
<1>6. cmd' \in CommandType
  <2>1. Defined(h.index) \in SUBSET Slot
    BY DEF Defined
  <2>2. cmd' \in InsertType
    BY <1>2, <1>3, <2>1 DEF Starting, InsertType, RecordType
  <2> QED
    BY <2>2, CommandTypes
<1>7. RecordInv(cmd', tables, D)
  <2> DEFINE c == cmd'
  <2>1. /\ Touched(c) = Defined(h.index) /\ Adds(c) = {} /\ Drops(c) = {} /\ Inserts(c)
    BY <1>5 DEF Touched, Updates, Adds, Drops, Inserts
  <2>2. RootsAre(tables, c, {}, {})
    BY <1>3, <1>5, RootsSame DEF Db
  <2> HIDE DEF c
  <2>3. /\ c.step = "insert" /\ c.table = h.table /\ c.index = h.index
        /\ c.todo = Defined(h.index) /\ c.block = b
        /\ c.before.tables = tables /\ c.before.data = data
    BY <1>5 DEF c
  <2>4. RecordInv(c, tables, D)
    BY <1>1, <1>2, <2>1, <2>2, <2>3 DEF RecordInv
  <2> QED
    BY <2>4 DEF c
<1> QED
  BY <1>1, <1>4, <1>6, <1>7, RecordBegun

(* The record that a command finds under a key is one of the table's.       *)
LEMMA ReachedEntry ==
  ASSUME TableAssumption, RecordsInv, NEW p \in Process, NEW s \in 1..MaxOpen,
         NEW j \in Slot, NEW r, NEW e \in Reached(p, s, j, r),
         NEW f, DbIs(tables, data, f), handles[p][s].table \in Live(tables),
         handles[p][s].index = tables[handles[p][s].table].index
  PROVE  /\ Uses(p, s) /\ j \in Defined(handles[p][s].index)
         /\ e.key = KeyOf(handles[p][s].index[j].fields, r)
         /\ e.block \in Blocks(tables, handles[p][s].table)
         /\ e.block \in DataBlock /\ data[e.block] \in Record
         /\ e = EntryOf(handles[p][s].index[j], data[e.block], e.block)
         /\ \A d \in tables[handles[p][s].table].root[j] : d.key = e.key => d = e
<1> DEFINE h == handles[p][s]
           t == h.table
           x == tables[t].index[j]
<1>1. Uses(p, s) /\ j \in Defined(h.index) /\ e \in Found(t, j, KeyOf(h.index[j].fields, r))
  BY DEF Reached
<1>2. e \in tables[t].root[j] /\ e.key = KeyOf(h.index[j].fields, r)
  BY <1>1 DEF Found
<1>3. t \in TableBlock /\ Holds(tables[t], data, f[t])
  BY DEF DbIs, Live
<1>4. tables[t].root[j] = EntriesOf(x, data, f[t]) /\ UniqueIn(x, data, f[t])
  BY <1>1, <1>3 DEF Holds, Defined
<1>5. f[t] = Blocks(tables, t)
  BY <1>3, HoldsEntries DEF Blocks
<1>6. /\ f[t] \in SUBSET DataBlock
      /\ \A b \in f[t] : data[b] \in Record
  BY <1>3, OwnBlocks
<1> HIDE DEF x
<1>7. e.block \in f[t] /\ e = EntryOf(x, data[e.block], e.block)
  BY <1>2, <1>4, EntriesBlocks
<1>8. ASSUME NEW d \in tables[t].root[j], d.key = e.key
      PROVE  d = e
  <2>1. d.block \in f[t] /\ d = EntryOf(x, data[d.block], d.block)
    BY <1>4, EntriesBlocks
  <2>2. KeyOf(x.fields, data[d.block]) = KeyOf(x.fields, data[e.block])
    BY <1>7, <1>8, <2>1 DEF EntryOf
  <2>3. d.block = e.block
    BY <1>4, <1>7, <2>1, <2>2 DEF UniqueIn
  <2> QED
    BY <1>7, <2>1, <2>3
<1> QED
  BY <1>1, <1>2, <1>5, <1>6, <1>7, <1>8 DEF x

LEMMA ReachedUses ==
  ASSUME NEW p, NEW s, NEW j, NEW r, NEW e \in Reached(p, s, j, r)
  PROVE  Uses(p, s)
BY DEF Reached

LEMMA DeleteBeginRight ==
  ASSUME TableAssumption, NoneAssumption, RecordsInv, NEW p \in Process, NEW s \in 1..MaxOpen,
         NEW j \in Slot, NEW r \in Record, DeleteBegin(p, s, j, r)
  PROVE  DataInv' /\ Whole
<1> DEFINE h == handles[p][s]
           t == h.table
<1>1. PICK e \in Reached(p, s, j, r) :
        RecordCommand(p, s, "delete", e.block, data[e.block], None,
                      Defined(h.index) \ {j}, Removed(t, j, e.key), data)
  BY DEF DeleteBegin
<1> DEFINE T == Removed(t, j, e.key)
<1>2. Uses(p, s)
  BY ReachedUses
<1>3. /\ cmd' = Starting(p, s, "delete", e.block, data[e.block], None, Defined(h.index) \ {j})
      /\ t \in TableBlock /\ h.index = tables[t].index /\ h.index \in Indexes
      /\ t \in Live(tables)
  BY <1>1, <1>2, RecordBegun
<1>4. PICK f : DbIs(tables, data, f)
  BY <1>1, <1>2, RecordBegun
<1>5. /\ j \in Defined(h.index) /\ e.block \in Blocks(tables, t)
      /\ e.block \in DataBlock /\ data[e.block] \in Record
      /\ e = EntryOf(h.index[j], data[e.block], e.block)
      /\ \A d \in tables[t].root[j] : d.key = e.key => d = e
  BY <1>3, <1>4, ReachedEntry
<1>6. Db(tables, data) /\ [tables |-> tables, data |-> data] \in Database
  BY Facts, DatabaseParts DEF RecordsInv
<1>7. /\ cmd'.step = "delete" /\ cmd'.table = t /\ cmd'.index = h.index
      /\ cmd'.todo = Defined(h.index) \ {j} /\ cmd'.block = e.block
      /\ cmd'.old = data[e.block]
      /\ cmd'.before.tables = tables /\ cmd'.before.data = data
  BY <1>3 DEF Starting
<1>8. cmd' \in CommandType
  <2>1. Defined(h.index) \ {j} \in SUBSET Slot
    BY DEF Defined
  <2>2. cmd' \in DeleteType
    BY <1>3, <1>5, <1>6, <2>1 DEF Starting, DeleteType, RecordType
  <2> QED
    BY <2>2, CommandTypes
<1> DEFINE c == cmd'
<1>9. Touched(c) = Defined(h.index) /\ Adds(c) = {} /\ Drops(c) = {j} /\ ~Inserts(c)
  BY <1>5, <1>7 DEF Touched, Updates, Adds, Drops, Inserts
<1>10. Old(c, j) = e
  BY <1>5, <1>7 DEF Old
<1> HIDE DEF c
<1>11. /\ c.step = "delete" /\ c.table = t /\ c.index = h.index
       /\ c.todo = Defined(h.index) \ {j} /\ c.block = e.block
       /\ c.old = data[e.block]
       /\ c.before.tables = tables /\ c.before.data = data
  BY <1>7 DEF c
<1>12. RootsAre(T, c, {}, {j})
  <2>1. RootsAre(tables, c, {}, {})
    BY <1>6, <1>11, RootsSame DEF Db
  <2>2. \A d \in c.before.tables[c.table].root[j] : d.key = Old(c, j).key => d = Old(c, j)
    BY <1>5, <1>10, <1>11
  <2>3. c.table \in TableBlock /\ {} \cup {j} = {j}
    BY <1>3, <1>11
  <2>4. RootsAre(Removed(c.table, j, Old(c, j).key), c, {}, {} \cup {j})
    BY <2>1, <2>2, <2>3, RemovedOld
  <2> QED
    BY <1>10, <1>11, <2>3, <2>4
<1> HIDE DEF T
<1>13. RecordInv(c, T, data)
  BY <1>3, <1>5, <1>9, <1>11, <1>12 DEF RecordInv
<1>14. Db(T, data)
  BY <1>6, <1>12 DEF Db, RootsAre
<1>15. RecordCommand(p, s, "delete", e.block, data[e.block], None,
                     Defined(h.index) \ {j}, T, data)
  BY <1>1 DEF T
<1> QED
  BY <1>2, <1>8, <1>13, <1>14, <1>15, RecordBegun DEF c

LEMMA UpdateBeginRight ==
  ASSUME TableAssumption, NoneAssumption, RecordsInv, NEW p \in Process, NEW s \in 1..MaxOpen,
         NEW j \in Slot, NEW r \in Record, UpdateBegin(p, s, j, r)
  PROVE  DataInv' /\ Whole
<1> DEFINE h == handles[p][s]
           t == h.table
<1>1. PICK e \in Reached(p, s, j, r) :
        RecordCommand(p, s, "update", e.block, data[e.block], r,
                      Changed(h.index, data[e.block], r), tables, data)
  BY DEF UpdateBegin
<1> DEFINE C == Changed(h.index, data[e.block], r)
<1>2. Uses(p, s)
  BY ReachedUses
<1>3. /\ cmd' = Starting(p, s, "update", e.block, data[e.block], r, C)
      /\ t \in TableBlock /\ h.index = tables[t].index /\ h.index \in Indexes
      /\ t \in Live(tables)
  BY <1>1, <1>2, RecordBegun
<1>4. PICK f : DbIs(tables, data, f)
  BY <1>1, <1>2, RecordBegun
<1>5. /\ e.block \in Blocks(tables, t)
      /\ e.block \in DataBlock /\ data[e.block] \in Record
  BY <1>3, <1>4, ReachedEntry
<1>6. Db(tables, data) /\ [tables |-> tables, data |-> data] \in Database
  BY Facts, DatabaseParts DEF RecordsInv
<1>7. C \in SUBSET Slot
  BY DEF Changed, Defined
<1>8. /\ cmd'.step = "update" /\ cmd'.table = t /\ cmd'.index = h.index
      /\ cmd'.todo = C /\ cmd'.block = e.block /\ cmd'.new = r
      /\ cmd'.old = data[e.block]
      /\ cmd'.before.tables = tables /\ cmd'.before.data = data
  BY <1>3 DEF Starting
<1>9. cmd' \in CommandType
  <2>1. cmd' \in UpdateType
    BY <1>3, <1>5, <1>6, <1>7 DEF Starting, UpdateType, RecordType
  <2> QED
    BY <2>1, CommandTypes
<1> DEFINE c == cmd'
<1>10. Touched(c) = C /\ Adds(c) = {} /\ Drops(c) = {} /\ ~Inserts(c)
  BY <1>8 DEF Touched, Updates, Adds, Drops, Inserts
<1> HIDE DEF c, C
<1>11. /\ c.step = "update" /\ c.table = t /\ c.index = h.index
       /\ c.todo = C /\ c.block = e.block
       /\ c.old = data[e.block]
       /\ c.before.tables = tables /\ c.before.data = data
  BY <1>8 DEF c
<1>12. RootsAre(tables, c, {}, {})
  BY <1>6, <1>11, RootsSame DEF Db
<1>13. RecordInv(c, tables, data)
  BY <1>3, <1>5, <1>10, <1>11, <1>12 DEF RecordInv
<1>14. RecordCommand(p, s, "update", e.block, data[e.block], r, C, tables, data)
  BY <1>1 DEF C
<1> QED
  BY <1>2, <1>6, <1>9, <1>13, <1>14, RecordBegun DEF c

-----------------------------------------------------------------------------
LEMMA RecordsInit ==
  ASSUME TableAssumption, StartAssumption, Init
  PROVE  RecordsInv
<1>1. PICK st \in Starts : tables = st.tables /\ data = st.data /\ left = st.left
  BY DEF Init
<1>2. /\ [tables |-> tables, data |-> data] \in Database
      /\ Agree(tables, data) /\ left \in Nat
  BY <1>1 DEF StartAssumption
<1>3. /\ committed = [tables |-> tables, data |-> data]
      /\ tx = NoTx /\ cmd = NoCommand /\ reply = "ok"
      /\ handles = [p \in Process |-> [s \in 1..MaxOpen |-> None]]
      /\ bytes = [t \in TableBlock |-> [b \in Byte |-> None]]
  BY DEF Init
<1>4. /\ handles \in [Process -> [1..MaxOpen ->
                         [table: TableBlock, byte: Byte, index: Indexes] \cup {None}]]
      /\ bytes \in [TableBlock -> [Byte -> Process \cup {None}]]
  BY <1>3
<1>5. TypeOK
  BY <1>2, <1>3, <1>4 DEF TypeOK, CommandType, NoTx
<1>6. TxInv /\ CommandInv /\ IndexesAgree /\ Agree(committed.tables, committed.data)
  BY <1>2, <1>3 DEF TxInv, CommandInv, IndexesAgree, NoTx
<1> QED
  BY <1>5, <1>6, InvInit DEF RecordsInv, DataInv

LEMMA RecordsStep ==
  ASSUME TableAssumption, NoneAssumption, ~OpensChanged, ~ManyOpens, RecordsInv, [Next]_vars
  PROVE  RecordsInv' /\ (Whole \/ UNCHANGED vars)
<1>1. Inv' /\ DataInv /\ None \notin Process
  BY InvStep DEF RecordsInv, TableAssumption
<1>2. CASE UNCHANGED vars
  <2>1. /\ UNCHANGED <<tables, data, committed, tx, cmd>>
        /\ UNCHANGED <<reply, handles, bytes, left>>
    BY <1>2 DEF vars
  <2>2. TypeOK' /\ TxInv'
    BY <1>1, <2>1 DEF DataInv, TypeOK, TxInv
  <2>3. CommandInv' /\ IndexesAgree' /\ Agree(committed.tables, committed.data)'
    BY <1>1, <2>1 DEF DataInv, CommandInv, IndexesAgree
  <2> QED
    BY <1>1, <1>2, <2>2, <2>3 DEF RecordsInv, DataInv
<1>3. CASE Going
  <2>1. DataInv' /\ Whole
    BY <1>1, <1>3, BuildKeyRight, BuildEndRight, InsertKeyRight, InsertUndoRight, UndoneRight,
       InsertDataRight, DropRight, DeleteDataRight, UpdateAddedRight, UpdateDataRight
       DEF Going, DeleteKey, UpdateDrop
  <2> QED
    BY <1>1, <2>1 DEF RecordsInv
<1>4. ASSUME NEW p \in Process, Transaction(p)
      PROVE  DataInv' /\ Whole
  BY <1>1, <1>4, BeginRight, EndRight, FaultRight, StopRight DEF Transaction
<1>5. ASSUME NEW p \in Process, Definition(p)
      PROVE  DataInv' /\ Whole
  BY <1>1, <1>5, CreateTableRight, RenameTableRight, DeleteTableRight, RenameIndexRight,
     DeleteIndexRight, CreateIndexRight DEF Definition
<1>6. ASSUME NEW p \in Process, HandleCall(p)
      PROVE  DataInv' /\ Whole
  BY <1>1, <1>6, OpenTableRight, CloseTableRight, InsertBeginRight, DeleteBeginRight,
     UpdateBeginRight DEF HandleCall
<1> QED
  BY <1>1, <1>2, <1>3, <1>4, <1>5, <1>6 DEF Next, RecordsInv

LEMMA RecordsInvariance ==
  ASSUME TableAssumption, NoneAssumption, StartAssumption, ~OpensChanged, ~ManyOpens
  PROVE  Spec => []RecordsInv
<1>1. Init => RecordsInv
  BY RecordsInit
<1>2. RecordsInv /\ [Next]_vars => RecordsInv'
  BY RecordsStep
<1> QED
  BY <1>1, <1>2, PTL DEF Spec

(* Every variable of the tables, handles and commands keeps its type; a     *)
(* command that runs is part of a transaction, and without a transaction    *)
(* the tables that the processes see are the committed ones (transact.c,    *)
(* cmd.c, open.c).                                                          *)
THEOREM TableTypes ==
  ASSUME TableAssumption, NoneAssumption, StartAssumption, ~OpensChanged, ~ManyOpens
  PROVE  Spec => []TypeOK
<1>1. RecordsInv => TypeOK
  BY DEF RecordsInv, DataInv
<1> QED
  BY <1>1, RecordsInvariance, PTL

(* Between two commands every record is in each index of its table exactly  *)
(* once under its own key, and no block is lost, in two tables or unwritten *)
(* (cmd.c, index2.c), for any number of processes, tables, indexes and      *)
(* records and whatever fails, stops, is rolled back or meets a duplicate   *)
(* key in between.                                                          *)
THEOREM IndexesStayRight ==
  ASSUME TableAssumption, NoneAssumption, StartAssumption, ~OpensChanged, ~ManyOpens
  PROVE  Spec => []IndexesAgree
<1>1. RecordsInv => IndexesAgree
  BY DEF RecordsInv, DataInv
<1> QED
  BY <1>1, RecordsInvariance, PTL

(* A command that meets a duplicate key leaves the database as it was, in   *)
(* an explicit transaction too; one that succeeds has made exactly its      *)
(* change, and the E_INTERN errors of cmd.c never happen.                   *)
THEOREM CommandsAreWhole ==
  ASSUME TableAssumption, NoneAssumption, StartAssumption, ~OpensChanged, ~ManyOpens
  PROVE  Spec => CommandIsWhole
<1>1. RecordsInv /\ [Next]_vars => [Whole]_vars
  BY RecordsStep
<1>2. Spec => [][Whole]_vars
  BY <1>1, RecordsInvariance, PTL DEF Spec
<1>3. CommandIsWhole <=> [][Whole]_vars
  BY DEF CommandIsWhole, Whole
<1> QED
  BY <1>2, <1>3
=============================================================================
