------------------------------ MODULE DbBackup ------------------------------
(***************************************************************************)
(* The online backup of a database file (src/lib/db/backup.c) among the     *)
(* transactions of the other threads of the process, the close of the       *)
(* database, and other processes that use the same file.                    *)
(*                                                                         *)
(* The backup thread copies the blocks while transactions go on; a          *)
(* transaction saves a block that is not copied yet before it overwrites    *)
(* it.  Three locks: the critical section of the library, held for the      *)
(* whole of a transaction and re-entrant (ENTER, LEAVE); the lock of the    *)
(* file's header, which keeps other processes out; and the lock of the      *)
(* backup information (bi.so).                                              *)
(*                                                                         *)
(* What a transaction writes is left open: module DbTransact says which     *)
(* blocks, and what the file is between two transactions.                   *)
(***************************************************************************)
EXTENDS Integers, FiniteSets

CONSTANTS
  Thread,      \* threads of the process
  NoThread,
  NBlocks,     \* blocks 1 to NBlocks - 1 may be written
  Value,       \* contents of a block
  Missing,     \* a block that the backup file does not have
  Budgets      \* how many operations of each kind happen

Block  == 0..NBlocks - 1
Data   == 1..NBlocks - 1
Header == 1..NBlocks         \* the header, as far as the backup reads it: free_space_link
Event  == {"begin", "write", "backup", "other", "fault", "close"}

ASSUME ThreadAssumption == NoThread \notin Thread
ASSUME BlockAssumption  == NBlocks \in Nat \ {0} /\ Missing \notin Value
                           /\ Missing \notin Header /\ Value # {}
ASSUME BudgetAssumption == Budgets \subseteq [Event -> Nat]

VARIABLES
  header,    \* block 0 of the file
  file,      \* the other blocks
  pc,        \* where each thread is, "out" between two calls
  depth,     \* how often each thread has entered the critical section
  inTx,      \* the thread has a transaction open
  target,    \* the block that the thread's transaction is about to write
  lock,      \* who holds the lock of the header: "free", "us", "other"
  count,     \* header_lock_count
  pbackup,   \* the thread whose backup is in progress
  closed,    \* the database has been closed and its DB_INFO freed
  so,        \* who holds bi.so, by backup thread
  bi,        \* BACKUP_INFO, by backup thread
  result,    \* ghost: what the last backup of the thread returned
  atStart,   \* ghost: the file when that backup began
  left       \* what remains of the budget

threads == <<pc, depth, inTx, target>>
locks   == <<lock, count, so>>
content == <<header, file>>
ghost   == <<result, atStart>>
vars    == <<content, threads, locks, pbackup, closed, bi, ghost, left>>

BackupInfo == [todo: SUBSET Data, low: Nat, ofs: Nat, high: Nat, waiting: BOOLEAN,
               error: BOOLEAN, page0: Header, buffer: Value \cup {Missing},
               out0: Header \cup {Missing}, out: [Data -> Value \cup {Missing}]]

NoBackup == [todo |-> {}, low |-> 0, ofs |-> 0, high |-> 0, waiting |-> FALSE,
             error |-> FALSE, page0 |-> 1, buffer |-> Missing,
             out0 |-> Missing, out |-> [b \in Data |-> Missing]]

Spend(e) == left[e] > 0 /\ left' = [left EXCEPT ![e] = @ - 1]

Goto(t, l) == pc' = [pc EXCEPT ![t] = l]

Init ==
  /\ header \in Header /\ file \in [Data -> Value]
  /\ pc = [t \in Thread |-> "out"] /\ depth = [t \in Thread |-> 0]
  /\ inTx = [t \in Thread |-> FALSE] /\ target = [t \in Thread |-> 1]
  /\ lock = "free" /\ count = 0 /\ pbackup = NoThread /\ closed = FALSE
  /\ so = [t \in Thread |-> NoThread] /\ bi = [t \in Thread |-> NoBackup]
  /\ result = [t \in Thread |-> "none"]
  /\ atStart = [t \in Thread |-> [page0 |-> 1, data |-> file]]
  /\ left \in Budgets

-----------------------------------------------------------------------------
(* ENTER and LEAVE, and the lock of the header.                             *)

CanEnter(t) == \A u \in Thread \ {t} : depth[u] = 0

Enter(t) == CanEnter(t) /\ depth' = [depth EXCEPT ![t] = @ + 1]
Leave(t) == depth' = [depth EXCEPT ![t] = @ - 1]

LockHeader ==
  /\ count > 0 \/ lock = "free"
  /\ lock' = "us" /\ count' = count + 1

(* Faulty: forgets that the backup holds the lock too.                      *)
UnlockAlways ==
  /\ lock' = "free"
  /\ count' = count - 1

UnlockHeader ==
  /\ lock' = IF count = 1 THEN "free" ELSE lock
  /\ count' = count - 1

(* Another process, or another db_handle of this one, changes the file.     *)
OtherLock ==
  /\ lock = "free" /\ Spend("other") /\ lock' = "other"
  /\ UNCHANGED <<content, threads, count, so, pbackup, closed, bi, ghost>>

OtherWrite ==
  /\ lock = "other" /\ Spend("write")
  /\ \/ header' \in Header /\ file' = file
     \/ \E b \in Data, v \in Value : file' = [file EXCEPT ![b] = v] /\ header' = header
  /\ UNCHANGED <<threads, locks, pbackup, closed, bi, ghost>>

OtherUnlock ==
  /\ lock = "other" /\ lock' = "free"
  /\ UNCHANGED <<content, threads, count, so, pbackup, closed, bi, ghost, left>>

-----------------------------------------------------------------------------
(* db_begin_transaction, the writes of the transaction, and its end.  The   *)
(* transaction enters the critical section once more than the call, and     *)
(* the call leaves it once.                                                 *)

Begin(t) ==
  /\ pc[t] = "out" /\ ~inTx[t] /\ ~closed
  /\ Spend("begin") /\ Enter(t)
  /\ Goto(t, "begin")
  /\ UNCHANGED <<content, inTx, target, locks, pbackup, closed, bi, ghost>>

Begun(t) ==
  /\ pc[t] = "begin" /\ LockHeader
  /\ inTx' = [inTx EXCEPT ![t] = TRUE] /\ Goto(t, "out")
  /\ UNCHANGED <<content, depth, target, so, pbackup, closed, bi, ghost, left>>

(* The lock of the header is not obtained in time.                          *)
LockTimeout(t) ==
  /\ pc[t] \in {"begin", "prepare"} /\ count = 0 /\ lock = "other"
  /\ Leave(t) /\ Goto(t, "out")
  /\ result' = IF pc[t] = "prepare" THEN [result EXCEPT ![t] = "error"] ELSE result
  /\ UNCHANGED <<content, inTx, target, locks, pbackup, closed, bi, atStart, left>>

InTransaction(t) == pc[t] = "out" /\ inTx[t]

(* backup_block, before the write of a block other than the header.         *)
BeforeWrite(t, b) ==
  /\ InTransaction(t) /\ Spend("write")
  /\ target' = [target EXCEPT ![t] = b]
  /\ IF pbackup = NoThread \/ (pbackup # NoThread /\ bi[pbackup].error)
     THEN Goto(t, "write") /\ UNCHANGED bi
     ELSE Goto(t, "save") /\ bi' = [bi EXCEPT ![pbackup].waiting = TRUE]
  /\ UNCHANGED <<content, depth, inTx, locks, pbackup, closed, ghost>>

SaveEnter(t) ==
  /\ pc[t] = "save" /\ so[pbackup] = NoThread
  /\ so' = [so EXCEPT ![pbackup] = t]
  /\ bi' = [bi EXCEPT ![pbackup].waiting = FALSE]
  /\ Goto(t, IF target[t] \in bi[pbackup].todo THEN "saveRead" ELSE "saveLeave")
  /\ UNCHANGED <<content, depth, inTx, target, lock, count, pbackup, closed, ghost, left>>

SaveRead(t) ==
  /\ pc[t] = "saveRead"
  /\ bi' = [bi EXCEPT ![pbackup].buffer = file[target[t]]]
  /\ Goto(t, "saveWrite")
  /\ UNCHANGED <<content, depth, inTx, target, locks, pbackup, closed, ghost, left>>

SaveWrite(t) ==
  /\ pc[t] = "saveWrite"
  /\ bi' = [bi EXCEPT ![pbackup].out[target[t]] = bi[pbackup].buffer,
                      ![pbackup].todo = @ \ {target[t]}]
  /\ Goto(t, "saveLeave")
  /\ UNCHANGED <<content, depth, inTx, target, locks, pbackup, closed, ghost, left>>

(* The read of the block or its write to the backup fails.                  *)
SaveFails(t) ==
  /\ pc[t] \in {"saveRead", "saveWrite"} /\ Spend("fault")
  /\ bi' = [bi EXCEPT ![pbackup].error = TRUE, ![pbackup].todo = @ \ {target[t]}]
  /\ Goto(t, "saveLeave")
  /\ UNCHANGED <<content, depth, inTx, target, locks, pbackup, closed, ghost>>

(* Faulty: returns without leaving.                                         *)
SaveLeaveKept(t) ==
  /\ pc[t] = "saveLeave"
  /\ Goto(t, "write")
  /\ UNCHANGED <<content, depth, inTx, target, locks, pbackup, closed, bi, ghost, left>>

SaveLeave(t) ==
  /\ pc[t] = "saveLeave"
  /\ so' = [so EXCEPT ![pbackup] = NoThread]
  /\ Goto(t, "write")
  /\ UNCHANGED <<content, depth, inTx, target, lock, count, pbackup, closed, bi, ghost, left>>

WriteBlock(t) ==
  /\ pc[t] = "write"
  /\ \E v \in Value : file' = [file EXCEPT ![target[t]] = v]
  /\ Goto(t, "out")
  /\ UNCHANGED <<header, depth, inTx, target, locks, pbackup, closed, bi, ghost, left>>

(* The header is written without backup_block: page0 has it.                *)
WriteHeader(t) ==
  /\ InTransaction(t) /\ Spend("write")
  /\ header' \in Header
  /\ UNCHANGED <<file, threads, locks, pbackup, closed, bi, ghost>>

(* terminate_transaction                                                    *)
End(t) ==
  /\ InTransaction(t)
  /\ UnlockHeader /\ Leave(t)
  /\ inTx' = [inTx EXCEPT ![t] = FALSE]
  /\ UNCHANGED <<content, pc, target, so, pbackup, closed, bi, ghost, left>>

-----------------------------------------------------------------------------
(* intern_db_backup_database                                                *)

(* The call fails inside a transaction, and while a backup is in progress.  *)
Backup(t) ==
  /\ pc[t] = "out" /\ ~closed /\ Spend("backup") /\ CanEnter(t)
  /\ IF inTx[t] \/ pbackup # NoThread
     THEN UNCHANGED <<pc, depth>> /\ result' = [result EXCEPT ![t] = "error"]
     ELSE Enter(t) /\ Goto(t, "prepare") /\ result' = [result EXCEPT ![t] = "none"]
  /\ UNCHANGED <<content, inTx, target, locks, pbackup, closed, bi, atStart>>

(* Faulty: one block too many.                                              *)
PreparedOneMore(t) ==
  /\ pc[t] = "prepare" /\ LockHeader
  /\ bi' = [bi EXCEPT ![t] = [NoBackup EXCEPT !.page0 = header, !.todo = 1..header]]
  /\ pbackup' = t
  /\ atStart' = [atStart EXCEPT ![t] = [page0 |-> header, data |-> file]]
  /\ Leave(t) /\ Goto(t, "loop")
  /\ UNCHANGED <<content, inTx, target, so, closed, result, left>>

(* With the header locked: page0, and the blocks to copy.                   *)
Prepared(t) ==
  /\ pc[t] = "prepare" /\ LockHeader
  /\ bi' = [bi EXCEPT ![t] = [NoBackup EXCEPT !.page0 = header, !.todo = 1..header - 1]]
  /\ pbackup' = t
  /\ atStart' = [atStart EXCEPT ![t] = [page0 |-> header, data |-> file]]
  /\ Leave(t) /\ Goto(t, "loop")
  /\ UNCHANGED <<content, inTx, target, so, closed, result, left>>

(* The header cannot be read.                                               *)
PrepareFails(t) ==
  /\ pc[t] = "prepare" /\ (count > 0 \/ lock = "free") /\ Spend("fault")
  /\ Leave(t) /\ Goto(t, "out")
  /\ result' = [result EXCEPT ![t] = "error"]
  /\ UNCHANGED <<content, inTx, target, locks, pbackup, closed, bi, atStart>>

(* The first interval of blocks that are not copied yet.                    *)
FirstInterval(S, low, high) ==
  /\ low \in S /\ high \in S /\ \A b \in S : low <= b
  /\ low..high \subseteq S /\ high + 1 \notin S

Loop(t) ==
  /\ pc[t] = "loop"
  /\ Goto(t, IF bi[t].error THEN "finish" ELSE "copyEnter")
  /\ UNCHANGED <<content, depth, inTx, target, locks, pbackup, closed, bi, ghost, left>>

CopyEnter(t) ==
  /\ pc[t] = "copyEnter" /\ so[t] = NoThread
  /\ so' = [so EXCEPT ![t] = t]
  /\ \/ /\ bi[t].todo = {}
        /\ Goto(t, "lastLeave") /\ UNCHANGED bi
     \/ \E low, high \in Data :
          /\ FirstInterval(bi[t].todo, low, high)
          /\ bi' = [bi EXCEPT ![t].low = low, ![t].ofs = low, ![t].high = high]
          /\ Goto(t, "copyRead")
  /\ UNCHANGED <<content, depth, inTx, target, lock, count, pbackup, closed, ghost, left>>

CopyRead(t) ==
  /\ pc[t] = "copyRead"
  /\ bi' = [bi EXCEPT ![t].buffer = file[bi[t].ofs]]
  /\ Goto(t, "copyWrite")
  /\ UNCHANGED <<content, depth, inTx, target, locks, pbackup, closed, ghost, left>>

(* Goes on to the next block unless a transaction waits.                    *)
CopyWrite(t) ==
  /\ pc[t] = "copyWrite"
  /\ LET stop == bi[t].waiting \/ bi[t].ofs = bi[t].high
     IN  /\ bi' = [bi EXCEPT ![t].out[bi[t].ofs] = bi[t].buffer,
                             ![t].ofs = IF stop THEN @ ELSE @ + 1]
         /\ Goto(t, IF stop THEN "copied" ELSE "copyRead")
  /\ UNCHANGED <<content, depth, inTx, target, locks, pbackup, closed, ghost, left>>

CopyFails(t) ==
  /\ pc[t] \in {"copyRead", "copyWrite"} /\ Spend("fault")
  /\ bi' = [bi EXCEPT ![t].error = TRUE]
  /\ Goto(t, "copied")
  /\ UNCHANGED <<content, depth, inTx, target, locks, pbackup, closed, ghost>>

(* Faulty: takes the whole interval for copied.                             *)
CopiedAll(t) ==
  /\ pc[t] = "copied"
  /\ bi' = [bi EXCEPT ![t].todo = @ \ (bi[t].low..bi[t].high)]
  /\ so' = [so EXCEPT ![t] = NoThread]
  /\ Goto(t, "loop")
  /\ UNCHANGED <<content, depth, inTx, target, lock, count, pbackup, closed, ghost, left>>

Copied(t) ==
  /\ pc[t] = "copied"
  /\ bi' = [bi EXCEPT ![t].todo = @ \ (bi[t].low..bi[t].ofs)]
  /\ so' = [so EXCEPT ![t] = NoThread]
  /\ Goto(t, "loop")
  /\ UNCHANGED <<content, depth, inTx, target, lock, count, pbackup, closed, ghost, left>>

(* Nothing is left to copy.                                                 *)
LastLeave(t) ==
  /\ pc[t] = "lastLeave"
  /\ so' = [so EXCEPT ![t] = NoThread]
  /\ Goto(t, "finish")
  /\ UNCHANGED <<content, depth, inTx, target, lock, count, pbackup, closed, bi, ghost, left>>

(* Faulty: ends the backup without entering the critical section.           *)
FinishAtOnce(t) ==
  /\ pc[t] = "finish"
  /\ pbackup' = NoThread /\ UnlockHeader
  /\ Goto(t, "page0")
  /\ UNCHANGED <<content, depth, inTx, target, so, closed, bi, ghost, left>>

(* Between ENTER and LEAVE, so that no transaction is in progress.          *)
Finish(t) ==
  /\ pc[t] = "finish" /\ CanEnter(t)
  /\ pbackup' = NoThread /\ UnlockHeader
  /\ Goto(t, "page0")
  /\ UNCHANGED <<content, depth, inTx, target, so, closed, bi, ghost, left>>

(* Faulty: does not look whether all blocks were copied.                    *)
WritePage0Always(t) ==
  /\ pc[t] = "page0"
  /\ bi' = [bi EXCEPT ![t].out0 = bi[t].page0]
  /\ result' = [result EXCEPT ![t] = "ok"]
  /\ Goto(t, "out")
  /\ UNCHANGED <<content, depth, inTx, target, locks, pbackup, closed, atStart, left>>

(* The header goes into the backup last; then BACKUP_INFO is freed.         *)
WritePage0(t) ==
  /\ pc[t] = "page0"
  /\ IF bi[t].error
     THEN result' = [result EXCEPT ![t] = "error"] /\ UNCHANGED <<bi, left>>
     ELSE \/ /\ bi' = [bi EXCEPT ![t].out0 = bi[t].page0]
             /\ result' = [result EXCEPT ![t] = "ok"] /\ UNCHANGED left
          \/ /\ Spend("fault")
             /\ result' = [result EXCEPT ![t] = "error"] /\ UNCHANGED bi
  /\ Goto(t, "out")
  /\ UNCHANGED <<content, depth, inTx, target, locks, pbackup, closed, atStart>>

-----------------------------------------------------------------------------
(* intern_db_close_database: waits for the backup outside of the critical   *)
(* section, as far as this call has entered it, then cancels a transaction  *)
(* that is still open.                                                      *)

Close(t) ==
  /\ pc[t] = "out" /\ Spend("close") /\ ~closed /\ Enter(t)
  /\ Goto(t, "close")
  /\ UNCHANGED <<content, inTx, target, locks, pbackup, closed, bi, ghost>>

(* Faulty: leaves the critical section as often as the thread is in it.     *)
CloseSleepOut(t) ==
  /\ pc[t] = "close" /\ pbackup # NoThread
  /\ depth' = [depth EXCEPT ![t] = 0] /\ Goto(t, "sleep")
  /\ UNCHANGED <<content, inTx, target, locks, pbackup, closed, bi, ghost, left>>

CloseSleep(t) ==
  /\ pc[t] = "close" /\ pbackup # NoThread
  /\ Leave(t) /\ Goto(t, "sleep")
  /\ UNCHANGED <<content, inTx, target, locks, pbackup, closed, bi, ghost, left>>

CloseWake(t) ==
  /\ pc[t] = "sleep" /\ Enter(t)
  /\ Goto(t, "close")
  /\ UNCHANGED <<content, inTx, target, locks, pbackup, closed, bi, ghost, left>>

(* precancel_transaction writes what the transaction has overwritten,       *)
(* without backup_block: there is no backup to save it for.                 *)
Undone(t) ==
  IF inTx[t]
  THEN UnlockHeader /\ header' \in Header /\ file' \in [Data -> Value]
  ELSE UNCHANGED <<lock, count, header, file>>

CloseDone(t) ==
  /\ pc[t] = "close" /\ pbackup = NoThread
  /\ Undone(t)
  /\ inTx' = [inTx EXCEPT ![t] = FALSE]
  /\ depth' = [depth EXCEPT ![t] = 0]
  /\ closed' = TRUE /\ Goto(t, "out")
  /\ UNCHANGED <<target, so, pbackup, bi, ghost, left>>

-----------------------------------------------------------------------------
Transaction(t) ==
  \/ Begin(t) \/ Begun(t) \/ LockTimeout(t)
  \/ \E b \in Data : BeforeWrite(t, b)
  \/ SaveEnter(t) \/ SaveRead(t) \/ SaveWrite(t) \/ SaveFails(t) \/ SaveLeave(t)
  \/ WriteBlock(t) \/ WriteHeader(t) \/ End(t)

BackupCall(t) ==
  \/ Backup(t) \/ Prepared(t) \/ PrepareFails(t)
  \/ Loop(t) \/ CopyEnter(t) \/ CopyRead(t) \/ CopyWrite(t) \/ CopyFails(t)
  \/ Copied(t) \/ LastLeave(t) \/ Finish(t) \/ WritePage0(t)

CloseCall(t) == Close(t) \/ CloseSleep(t) \/ CloseWake(t) \/ CloseDone(t)

Other == OtherLock \/ OtherWrite \/ OtherUnlock

Next == Other \/ \E t \in Thread : Transaction(t) \/ BackupCall(t) \/ CloseCall(t)

Spec == Init /\ [][Next]_vars

-----------------------------------------------------------------------------
(* Inside backup_block, between the check of p.pbackup and the write.       *)
Saving == {"save", "saveRead", "saveWrite", "saveLeave"}

(* Holding bi.so in the backup thread, and the backup from its start until  *)
(* the thread takes pbackup back.                                           *)
Copying  == {"copyRead", "copyWrite", "copied", "lastLeave"}
BackingUp == {"loop", "copyEnter", "finish"} \cup Copying

(* Every variable has its type.                                             *)
TypeOK ==
  /\ header \in Header /\ file \in [Data -> Value]
  /\ pc \in [Thread -> {"out", "begin", "write", "prepare", "page0", "close", "sleep"}
                       \cup Saving \cup BackingUp]
  /\ depth \in [Thread -> 0..2] /\ inTx \in [Thread -> BOOLEAN]
  /\ target \in [Thread -> Nat]
  /\ lock \in {"free", "us", "other"} /\ count \in 0..2
  /\ pbackup \in Thread \cup {NoThread} /\ closed \in BOOLEAN
  /\ so \in [Thread -> Thread \cup {NoThread}]
  /\ bi \in [Thread -> BackupInfo]
  /\ result \in [Thread -> {"none", "ok", "error"}]
  /\ atStart \in [Thread -> [page0: Header, data: [Data -> Value]]]
  /\ left \in [Event -> Nat]

(* A backup that succeeds holds the file as it was at one moment, when the  *)
(* backup began, whatever transactions changed while it was copied: the     *)
(* header and every block before the end of the file.                       *)
SnapshotExact ==
  \A t \in Thread : result[t] = "ok" =>
    /\ bi[t].out0 = atStart[t].page0
    /\ \A b \in 1..atStart[t].page0 - 1 : bi[t].out[b] = atStart[t].data[b]

(* The header of the file is locked for other processes as long as a        *)
(* transaction or a backup needs it, and not longer: header_lock_count.     *)
HeaderHeld ==
  /\ lock = "us" <=> \/ \E t \in Thread : inTx[t]
                     \/ pbackup # NoThread
  /\ count = (IF \E t \in Thread : inTx[t] THEN 1 ELSE 0)
             + (IF pbackup # NoThread THEN 1 ELSE 0)

(* db-manual.txt:993: a transaction keeps every other thread out of the     *)
(* library until it ends, whichever way it ends.                            *)
TransactionAlone ==
  \A t \in Thread : inTx[t] => \A u \in Thread \ {t} : depth[u] = 0

(* BACKUP_INFO is not freed while a transaction is inside backup_block, and *)
(* the database is not closed under a backup.                               *)
BackupAlive ==
  \A t \in Thread :
    /\ pc[t] \in Saving => pbackup # NoThread
    /\ pc[t] \in BackingUp => pbackup = t /\ ~closed

-----------------------------------------------------------------------------
(* A thread inside a call goes on when it can, a thread that waits for a    *)
(* lock gets it if it is free again and again, and the application ends its *)
(* transactions.                                                            *)
TakeLock(t) == Begun(t) \/ SaveEnter(t) \/ Prepared(t) \/ CopyEnter(t)
               \/ Finish(t) \/ CloseWake(t)

GoOn(t) == LockTimeout(t) \/ SaveRead(t) \/ SaveWrite(t) \/ SaveLeave(t)
           \/ WriteBlock(t) \/ End(t)
           \/ Loop(t) \/ CopyRead(t) \/ CopyWrite(t) \/ Copied(t)
           \/ LastLeave(t) \/ WritePage0(t) \/ CloseSleep(t) \/ CloseDone(t)

Fairness == /\ WF_vars(OtherUnlock)
            /\ \A t \in Thread : SF_vars(TakeLock(t)) /\ WF_vars(GoOn(t))

FairSpec == Spec /\ Fairness

(* A backup comes to an end, whatever transactions wait for its lock.       *)
BackupEnds == \A t \in Thread : pc[t] \in BackingUp ~> pc[t] = "out"

(* db-manual.txt:885-888: a transaction is cancelled when                   *)
(* db_close_database() is called without closing it.                        *)
CloseCancels == \A t \in Thread : pc[t] = "close" /\ inTx[t] ~> ~inTx[t]
=============================================================================
