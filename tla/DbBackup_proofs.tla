-------------------------- MODULE DbBackup_proofs --------------------------
(***************************************************************************)
(* What holds of DbBackup for every set of threads, size of the file,       *)
(* contents of a block and budget.                                          *)
(***************************************************************************)
EXTENDS DbBackup, TLAPS

(* A call that is inside the critical section without a transaction.        *)
Entered == {"begin", "prepare", "close"}

(* How often a thread is in the critical section follows from where it is;  *)
(* only one is; and the lock of the header is held for a transaction or a   *)
(* backup.                                                                  *)
LockInv ==
  /\ \A t \in Thread : depth[t] = (IF inTx[t] THEN 1 ELSE 0)
                                  + (IF pc[t] \in Entered THEN 1 ELSE 0)
  /\ \A t, u \in Thread : depth[t] > 0 /\ depth[u] > 0 => t = u
  /\ \A t \in Thread : pc[t] \in {"begin", "prepare", "page0"} \cup BackingUp => ~inTx[t]
  /\ \A t \in Thread : pc[t] \in Saving \cup {"write"} => inTx[t]
  /\ HeaderHeld

(* The thread of pbackup is the one that backs up, and neither the end of   *)
(* the backup nor the close of the database gets between its steps.         *)
OwnerInv ==
  /\ \A t \in Thread : pc[t] \in BackingUp <=> pbackup = t
  /\ \A t \in Thread : pc[t] = "prepare" => pbackup = NoThread
  /\ \A t \in Thread : pc[t] \in Saving => pbackup # NoThread
  /\ closed => \A t \in Thread : pc[t] \notin {"prepare"} \cup BackingUp
  /\ \A t \in Thread : pc[t] \in Copying => so[t] = t
  /\ \A t \in Thread : pc[t] \in {"saveRead", "saveWrite", "saveLeave"} => so[pbackup] = t

(* A block that is to be written has been saved when the write happens.     *)
SavedInv ==
  /\ \A t \in Thread : pc[t] \in Saving \cup {"write"} => target[t] \in Data
  /\ \A t \in Thread : pc[t] \in {"saveRead", "saveWrite"} => target[t] \in bi[pbackup].todo
  /\ \A t \in Thread : pc[t] = "saveWrite" => bi[pbackup].buffer = file[target[t]]
  /\ \A t \in Thread : pc[t] \in {"saveLeave", "write"} /\ pbackup # NoThread =>
       bi[pbackup].error \/ target[t] \notin bi[pbackup].todo

(* The blocks to copy are in the file as they were at the start, the others *)
(* are in the backup.                                                       *)
HalfCopied(t) ==
  /\ bi[t].page0 = atStart[t].page0
  /\ bi[t].todo \subseteq 1..bi[t].page0 - 1
  /\ \A b \in bi[t].todo : file[b] = atStart[t].data[b]
  /\ \A b \in 1..bi[t].page0 - 1 : b \notin bi[t].todo => bi[t].out[b] = atStart[t].data[b]

(* The interval that is being copied is still to copy; the blocks of it     *)
(* before ofs are in the backup.                                            *)
IntervalLeft(t) ==
  /\ bi[t].low <= bi[t].ofs /\ bi[t].ofs <= bi[t].high
  /\ bi[t].low..bi[t].high \subseteq bi[t].todo

IntervalCopied(t) ==
  /\ \A b \in bi[t].low..bi[t].ofs :
       b < bi[t].ofs \/ pc[t] = "copied" => bi[t].out[b] = atStart[t].data[b]
  /\ pc[t] = "copyWrite" => bi[t].buffer = file[bi[t].ofs]

CopyInv ==
  /\ \A t \in Thread : pc[t] \in {"prepare", "page0"} \cup BackingUp => result[t] = "none"
  /\ \A t \in Thread : pc[t] \in BackingUp \cup {"page0"} /\ ~bi[t].error => HalfCopied(t)
  /\ \A t \in Thread : pc[t] \in {"lastLeave", "finish", "page0"} /\ ~bi[t].error => bi[t].todo = {}
  /\ \A t \in Thread : pc[t] \in {"copyRead", "copyWrite", "copied"} => IntervalLeft(t)
  /\ \A t \in Thread : pc[t] \in {"copyRead", "copyWrite", "copied"} /\ ~bi[t].error
                       => IntervalCopied(t)
  /\ SnapshotExact

LEMMA Counted ==
  ASSUME TypeOK, LockInv, NEW t \in Thread
  PROVE  /\ inTx[t] \/ pc[t] \in Entered => depth[t] > 0
         /\ ~inTx[t] /\ pc[t] \notin Entered => depth[t] = 0
         /\ inTx[t] /\ pc[t] \notin Entered => depth[t] = 1
         /\ ~inTx[t] /\ pc[t] \in Entered => depth[t] = 1
<1>1. depth[t] = (IF inTx[t] THEN 1 ELSE 0) + (IF pc[t] \in Entered THEN 1 ELSE 0)
  BY DEF LockInv
<1> QED
  BY <1>1

LEMMA Alone ==
  ASSUME TypeOK, LockInv, NEW t \in Thread, inTx[t] \/ pc[t] \in Entered
  PROVE  \A u \in Thread \ {t} :
           depth[u] = 0 /\ ~inTx[u] /\ pc[u] \notin Entered \cup Saving \cup {"write"}
<1>1. depth[t] > 0
  BY Counted
<1> SUFFICES ASSUME NEW u \in Thread \ {t}
             PROVE  depth[u] = 0 /\ ~inTx[u] /\ pc[u] \notin Entered \cup Saving \cup {"write"}
  OBVIOUS
<1>2. ~(depth[u] > 0)
  BY <1>1 DEF LockInv
<1>3. ~inTx[u] /\ pc[u] \notin Entered
  BY <1>2, Counted
<1>4. depth[u] = 0
  BY <1>3, Counted
<1>5. pc[u] \notin Saving \cup {"write"}
  BY <1>3 DEF LockInv
<1> QED
  BY <1>3, <1>4, <1>5

LEMMA SpendTyped ==
  ASSUME TypeOK, NEW e \in Event, Spend(e)
  PROVE  left' \in [Event -> Nat]
BY DEF TypeOK, Spend

LEMMA BackupInfoFields ==
  ASSUME NEW r \in BackupInfo
  PROVE  /\ r.todo \in SUBSET Data /\ r.low \in Nat /\ r.ofs \in Nat /\ r.high \in Nat
         /\ r.page0 \in Header /\ r.buffer \in Value \cup {Missing}
BY DEF BackupInfo

LEMMA BackupInfoUpdate ==
  ASSUME NEW r \in BackupInfo
  PROVE  /\ \A S \in SUBSET Data : [r EXCEPT !.todo = S] \in BackupInfo
         /\ \A x \in BOOLEAN : [r EXCEPT !.waiting = x] \in BackupInfo
         /\ [r EXCEPT !.error = TRUE] \in BackupInfo
         /\ \A n \in Nat : [r EXCEPT !.ofs = n] \in BackupInfo
         /\ \A x \in Value \cup {Missing} : [r EXCEPT !.buffer = x] \in BackupInfo
         /\ \A x \in Header \cup {Missing} : [r EXCEPT !.out0 = x] \in BackupInfo
BY DEF BackupInfo

LEMMA BackupInfoOut ==
  ASSUME NEW r \in BackupInfo, NEW b, NEW x \in Value \cup {Missing}
  PROVE  [r EXCEPT !.out = [r.out EXCEPT ![b] = x]] \in BackupInfo
<1>1. [r.out EXCEPT ![b] = x] \in [Data -> Value \cup {Missing}]
  BY DEF BackupInfo
<1> QED
  BY <1>1 DEF BackupInfo

LEMMA BackupInfoInterval ==
  ASSUME NEW r \in BackupInfo, NEW l \in Data, NEW h \in Data
  PROVE  [r EXCEPT !.low = l, !.ofs = l, !.high = h] \in BackupInfo
<1>1. l \in Nat /\ h \in Nat
  BY BlockAssumption DEF BlockAssumption, Data
<1> QED
  BY <1>1 DEF BackupInfo

LEMMA BiUpdate ==
  ASSUME TypeOK, NEW u \in Thread, NEW r \in BackupInfo, bi' = [bi EXCEPT ![u] = r]
  PROVE  bi' \in [Thread -> BackupInfo]
BY DEF TypeOK

(* A step that leaves the copy alone, of a thread that is not backing up.   *)
SameCopy(u) ==
  /\ bi'[u].todo = bi[u].todo /\ bi'[u].error = bi[u].error /\ bi'[u].page0 = bi[u].page0
  /\ bi'[u].low = bi[u].low /\ bi'[u].ofs = bi[u].ofs /\ bi'[u].high = bi[u].high
  /\ bi'[u].buffer = bi[u].buffer /\ bi'[u].out0 = bi[u].out0 /\ bi'[u].out = bi[u].out

LEMMA CopyFrame ==
  ASSUME CopyInv, NEW t \in Thread, UNCHANGED <<file, atStart>>,
         \A u \in Thread : SameCopy(u),
         \A u \in Thread \ {t} : pc'[u] = pc[u] /\ result'[u] = result[u],
         pc'[t] \notin {"page0"} \cup BackingUp,
         pc'[t] = "prepare" => result'[t] = "none",
         result'[t] = "ok" => result[t] = "ok"
  PROVE  CopyInv'
<1>1. \A u \in Thread : HalfCopied(u) => HalfCopied(u)'
  BY DEF SameCopy, HalfCopied
<1>2. \A u \in Thread : IntervalLeft(u) => IntervalLeft(u)'
  BY DEF SameCopy, IntervalLeft
<1>3. \A u \in Thread \ {t} : IntervalCopied(u) => IntervalCopied(u)'
  BY DEF SameCopy, IntervalCopied
<1>4. SnapshotExact'
  BY DEF SameCopy, CopyInv, SnapshotExact
<1>5. pc'[t] \notin {"page0", "lastLeave", "finish", "copyRead", "copyWrite", "copied"}
  BY DEF BackingUp, Copying
<1>6. \A u \in Thread : bi'[u].error = bi[u].error /\ bi'[u].todo = bi[u].todo
  BY DEF SameCopy
<1> QED
  BY <1>1, <1>2, <1>3, <1>4, <1>5, <1>6 DEF CopyInv

-----------------------------------------------------------------------------
(* The critical section and the lock of the header.                         *)

LEMMA BegunLock ==
  ASSUME ThreadAssumption, BlockAssumption, TypeOK, LockInv, OwnerInv,
         NEW t \in Thread, Begun(t)
  PROVE  LockInv'
<1>1. pc[t] \in Entered /\ ~inTx[t]
  BY DEF Begun, LockInv, Entered
<1>2. depth[t] = 1 /\ \A u \in Thread \ {t} : depth[u] = 0 /\ ~inTx[u]
  BY <1>1, Alone, Counted
<1>3. HeaderHeld'
  <2>1. inTx'[t] /\ \A u \in Thread : ~inTx[u]
    BY <1>1, <1>2 DEF Begun, TypeOK
  <2>2. lock' = "us" /\ count' = count + 1 /\ pbackup' = pbackup
    BY DEF Begun, LockHeader
  <2> QED
    BY <2>1, <2>2 DEF LockInv, HeaderHeld
<1> QED
  BY <1>1, <1>2, <1>3 DEF LockInv, Begun, Goto, Entered, Saving, Copying, BackingUp, TypeOK

LEMMA LockTimeoutLock ==
  ASSUME ThreadAssumption, BlockAssumption, TypeOK, LockInv, OwnerInv,
         NEW t \in Thread, LockTimeout(t)
  PROVE  LockInv'
<1>1. /\ pc[t] \in Entered /\ ~inTx[t] /\ pc' = [pc EXCEPT ![t] = "out"]
      /\ depth' = [depth EXCEPT ![t] = @ - 1] /\ UNCHANGED <<inTx, lock, count, pbackup>>
  BY DEF LockTimeout, Leave, Goto, LockInv, Entered, locks
<1>2. depth[t] = 1
  BY <1>1, Counted
<1>3. HeaderHeld'
  BY <1>1 DEF LockInv, HeaderHeld
<1> QED
  BY <1>1, <1>2, <1>3 DEF LockInv, Entered, Saving, Copying, BackingUp, TypeOK

LEMMA EndLock ==
  ASSUME ThreadAssumption, BlockAssumption, TypeOK, LockInv, OwnerInv,
         NEW t \in Thread, End(t)
  PROVE  LockInv'
<1>1. inTx[t] /\ pc[t] \notin Entered
  BY DEF End, InTransaction, Entered
<1>2. depth[t] = 1 /\ \A u \in Thread \ {t} : depth[u] = 0 /\ ~inTx[u]
  BY <1>1, Alone, Counted
<1>3. HeaderHeld'
  <2>1. ~\E u \in Thread : inTx'[u]
    BY <1>1, <1>2 DEF End, TypeOK
  <2>2. lock' = (IF count = 1 THEN "free" ELSE lock) /\ count' = count - 1 /\ pbackup' = pbackup
    BY DEF End, UnlockHeader
  <2> QED
    BY <1>1, <2>1, <2>2 DEF LockInv, HeaderHeld
<1> QED
  BY <1>1, <1>2, <1>3 DEF LockInv, End, InTransaction, Leave, Entered, Saving, Copying,
     BackingUp, TypeOK

LEMMA BackupLock ==
  ASSUME ThreadAssumption, BlockAssumption, TypeOK, LockInv, OwnerInv,
         NEW t \in Thread, Backup(t)
  PROVE  LockInv'
<1>1. CASE inTx[t] \/ pbackup # NoThread
  BY <1>1 DEF Backup, LockInv, HeaderHeld, locks
<1>2. CASE ~(inTx[t] \/ pbackup # NoThread)
  <2>1. /\ pc[t] = "out" /\ depth[t] = 0 /\ ~inTx[t] /\ CanEnter(t)
        /\ depth' = [depth EXCEPT ![t] = @ + 1] /\ pc' = [pc EXCEPT ![t] = "prepare"]
        /\ UNCHANGED <<inTx, lock, count, pbackup>>
    BY <1>2, Counted DEF Backup, Enter, Goto, locks, Entered
  <2> QED
    BY <2>1 DEF LockInv, HeaderHeld, CanEnter, Entered, Saving, Copying, BackingUp, TypeOK
<1> QED
  BY <1>1, <1>2

LEMMA PreparedLock ==
  ASSUME ThreadAssumption, BlockAssumption, TypeOK, LockInv, OwnerInv,
         NEW t \in Thread, Prepared(t)
  PROVE  LockInv'
<1>1. pc[t] = "prepare" /\ ~inTx[t] /\ pc[t] \in Entered
  BY DEF Prepared, LockInv, Entered
<1>2. /\ pc[t] = "prepare" /\ ~inTx[t] /\ depth[t] = 1
      /\ \A u \in Thread \ {t} : depth[u] = 0 /\ ~inTx[u]
  BY <1>1, Alone, Counted
<1>3. /\ lock' = "us" /\ count' = count + 1 /\ pbackup' = t /\ pbackup = NoThread
      /\ inTx' = inTx /\ depth' = [depth EXCEPT ![t] = @ - 1]
      /\ pc' = [pc EXCEPT ![t] = "loop"]
  BY DEF Prepared, LockHeader, Leave, Goto, OwnerInv
<1>4. HeaderHeld'
  BY <1>2, <1>3 DEF LockInv, HeaderHeld, ThreadAssumption
<1> QED
  BY <1>2, <1>3, <1>4, SMTT(60) DEF LockInv, Entered, Saving, Copying, BackingUp, TypeOK

LEMMA CopyEnterLock ==
  ASSUME ThreadAssumption, BlockAssumption, TypeOK, LockInv, OwnerInv,
         NEW t \in Thread, CopyEnter(t)
  PROVE  LockInv'
<1>1. /\ UNCHANGED <<depth, inTx, lock, count, pbackup>>
      /\ pc[t] = "copyEnter"
      /\ pc' = [pc EXCEPT ![t] = "lastLeave"] \/ pc' = [pc EXCEPT ![t] = "copyRead"]
  BY DEF CopyEnter, Goto
<1> QED
  BY <1>1 DEF LockInv, HeaderHeld, Entered, Saving, Copying, BackingUp, TypeOK

LEMMA FinishLock ==
  ASSUME ThreadAssumption, BlockAssumption, TypeOK, LockInv, OwnerInv,
         NEW t \in Thread, Finish(t)
  PROVE  LockInv'
<1>1. /\ pc[t] = "finish" /\ pbackup = t /\ ~inTx[t]
      /\ \A u \in Thread \ {t} : depth[u] = 0
  BY DEF LockInv, OwnerInv, Finish, CanEnter, BackingUp
<1>2. \A u \in Thread : ~inTx[u]
  BY <1>1, Counted
<1>3. /\ lock' = (IF count = 1 THEN "free" ELSE lock) /\ count' = count - 1
      /\ pbackup' = NoThread /\ inTx' = inTx /\ depth' = depth
      /\ pc' = [pc EXCEPT ![t] = "page0"]
  BY DEF Finish, UnlockHeader, Goto
<1>4. HeaderHeld'
  BY <1>1, <1>2, <1>3 DEF LockInv, HeaderHeld, ThreadAssumption
<1> QED
  BY <1>1, <1>2, <1>3, <1>4 DEF LockInv, Entered, Saving, Copying, BackingUp, TypeOK

LEMMA CloseDoneLock ==
  ASSUME ThreadAssumption, BlockAssumption, TypeOK, LockInv, OwnerInv,
         NEW t \in Thread, CloseDone(t)
  PROVE  LockInv'
<1>1. /\ pc[t] = "close" /\ pbackup = NoThread /\ pbackup' = pbackup
      /\ inTx' = [inTx EXCEPT ![t] = FALSE] /\ depth' = [depth EXCEPT ![t] = 0]
      /\ pc' = [pc EXCEPT ![t] = "out"] /\ Undone(t)
  BY DEF CloseDone, Goto
<1>2. \A u \in Thread \ {t} : depth[u] = 0 /\ ~inTx[u]
  BY <1>1, Alone DEF Entered
<1>3. \A u \in Thread : ~inTx'[u]
  BY <1>1, <1>2 DEF TypeOK
<1>4. CASE inTx[t]
  <2>1. lock' = (IF count = 1 THEN "free" ELSE lock) /\ count' = count - 1
    BY <1>1, <1>4 DEF Undone, UnlockHeader
  <2>2. HeaderHeld'
    BY <1>1, <1>3, <1>4, <2>1 DEF LockInv, HeaderHeld
  <2> QED
    BY <1>1, <1>2, <2>2 DEF LockInv, Entered, Saving, Copying, BackingUp, TypeOK
<1>5. CASE ~inTx[t]
  <2>1. lock' = lock /\ count' = count
    BY <1>1, <1>5 DEF Undone
  <2>2. HeaderHeld'
    BY <1>1, <1>2, <1>3, <1>5, <2>1 DEF LockInv, HeaderHeld
  <2> QED
    BY <1>1, <1>2, <2>2 DEF LockInv, Entered, Saving, Copying, BackingUp, TypeOK
<1> QED
  BY <1>4, <1>5

LEMMA LockStep ==
  ASSUME ThreadAssumption, BlockAssumption, TypeOK, LockInv, OwnerInv,
         NEW t \in Thread, Transaction(t) \/ BackupCall(t) \/ CloseCall(t)
  PROVE  LockInv'
<1> USE DEF LockInv, HeaderHeld, Goto, Entered, Saving, Copying, BackingUp, TypeOK, threads, locks
<1>1. CASE Begin(t)
  <2>1. /\ pc[t] = "out" /\ depth[t] = 0 /\ ~inTx[t] /\ CanEnter(t)
        /\ depth' = [depth EXCEPT ![t] = @ + 1] /\ pc' = [pc EXCEPT ![t] = "begin"]
        /\ UNCHANGED <<inTx, lock, count, pbackup>>
    BY <1>1, Counted DEF Begin, Enter
  <2> QED
    BY <2>1 DEF CanEnter
<1>2. CASE \E b \in Data : BeforeWrite(t, b)
  <2>1. /\ pc[t] = "out" /\ inTx[t] /\ UNCHANGED <<depth, inTx, lock, count, pbackup>>
        /\ \/ pc' = [pc EXCEPT ![t] = "save"]
           \/ pc' = [pc EXCEPT ![t] = "write"]
    BY <1>2 DEF BeforeWrite, InTransaction
  <2>2. /\ pc'[t] \in {"save", "write"} /\ \A u \in Thread \ {t} : pc'[u] = pc[u]
    BY <2>1
  <2>3. HeaderHeld'
    BY <2>1
  <2> QED
    BY <2>1, <2>2, <2>3
<1>3. CASE SaveEnter(t)
  BY <1>3 DEF SaveEnter
<1>4. CASE SaveRead(t)
  BY <1>4 DEF SaveRead
<1>5. CASE SaveWrite(t)
  BY <1>5 DEF SaveWrite
<1>6. CASE SaveFails(t)
  BY <1>6 DEF SaveFails
<1>7. CASE SaveLeave(t)
  BY <1>7 DEF SaveLeave
<1>8. CASE WriteBlock(t)
  BY <1>8 DEF WriteBlock
<1>9. CASE WriteHeader(t)
  BY <1>9 DEF WriteHeader, InTransaction
<1>10. CASE PrepareFails(t)
  BY <1>10 DEF PrepareFails, Leave
<1>11. CASE Loop(t)
  BY <1>11 DEF Loop
<1>12. CASE CopyRead(t)
  BY <1>12 DEF CopyRead
<1>13. CASE CopyWrite(t)
  BY <1>13 DEF CopyWrite
<1>14. CASE CopyFails(t)
  BY <1>14 DEF CopyFails
<1>15. CASE Copied(t)
  BY <1>15 DEF Copied
<1>16. CASE LastLeave(t)
  BY <1>16 DEF LastLeave
<1>17. CASE WritePage0(t)
  BY <1>17 DEF WritePage0
<1>18. CASE Close(t)
  BY <1>18 DEF Close, Enter, CanEnter
<1>19. CASE CloseSleep(t)
  BY <1>19 DEF CloseSleep, Leave
<1>20. CASE CloseWake(t)
  BY <1>20 DEF CloseWake, Enter, CanEnter
<1> QED
  BY <1>1, <1>2, <1>3, <1>4, <1>5, <1>6, <1>7, <1>8, <1>9, <1>10, <1>11, <1>12, <1>13,
     <1>14, <1>15, <1>16, <1>17, <1>18, <1>19, <1>20, BegunLock, LockTimeoutLock, EndLock,
     BackupLock, PreparedLock, CopyEnterLock, FinishLock, CloseDoneLock
  DEF Transaction, BackupCall, CloseCall

-----------------------------------------------------------------------------
(* The thread that backs up, and who holds bi.so.                           *)

LEMMA PreparedOwner ==
  ASSUME ThreadAssumption, BlockAssumption, TypeOK, LockInv, OwnerInv,
         NEW t \in Thread, Prepared(t)
  PROVE  OwnerInv'
<1>1. /\ pc[t] = "prepare" /\ pc' = [pc EXCEPT ![t] = "loop"]
      /\ pbackup' = t /\ UNCHANGED <<so, closed>>
  BY DEF Prepared, Goto
<1>2. /\ pbackup = NoThread /\ ~closed
      /\ \A u \in Thread \ {t} : pc[u] \notin Entered \cup Saving \cup {"write"} \cup BackingUp
  BY <1>1, Alone DEF OwnerInv, Entered, ThreadAssumption
<1> QED
  BY <1>1, <1>2 DEF OwnerInv, Entered, Saving, Copying, BackingUp, ThreadAssumption, TypeOK

LEMMA CopyEnterOwner ==
  ASSUME ThreadAssumption, BlockAssumption, TypeOK, LockInv, OwnerInv,
         NEW t \in Thread, CopyEnter(t)
  PROVE  OwnerInv'
<1>1. /\ pc[t] = "copyEnter" /\ so[t] = NoThread
      /\ pc' = [pc EXCEPT ![t] = "lastLeave"] \/ pc' = [pc EXCEPT ![t] = "copyRead"]
      /\ so' = [so EXCEPT ![t] = t] /\ UNCHANGED <<pbackup, closed>>
  BY DEF CopyEnter, Goto
<1>2. pbackup = t
  BY <1>1 DEF OwnerInv, BackingUp
<1> QED
  BY <1>1, <1>2 DEF OwnerInv, Saving, Copying, BackingUp, ThreadAssumption, TypeOK

LEMMA FinishOwner ==
  ASSUME ThreadAssumption, BlockAssumption, TypeOK, LockInv, OwnerInv,
         NEW t \in Thread, Finish(t)
  PROVE  OwnerInv'
<1>1. /\ pc[t] = "finish" /\ pc' = [pc EXCEPT ![t] = "page0"]
      /\ pbackup = t /\ pbackup' = NoThread /\ UNCHANGED <<so, closed>>
  BY DEF Finish, Goto, OwnerInv, BackingUp
<1>2. \A u \in Thread \ {t} : depth[u] = 0
  BY DEF Finish, CanEnter
<1>3. \A u \in Thread \ {t} : pc[u] \notin Saving \cup BackingUp
  BY <1>1, <1>2, Counted DEF LockInv, OwnerInv
<1> QED
  BY <1>1, <1>3 DEF OwnerInv, Saving, Copying, BackingUp, ThreadAssumption, TypeOK

LEMMA CloseDoneOwner ==
  ASSUME ThreadAssumption, BlockAssumption, TypeOK, LockInv, OwnerInv,
         NEW t \in Thread, CloseDone(t)
  PROVE  OwnerInv'
<1>1. /\ pc[t] = "close" /\ pc' = [pc EXCEPT ![t] = "out"] /\ pbackup = NoThread
      /\ closed' = TRUE /\ UNCHANGED <<pbackup, so>>
  BY DEF CloseDone, Goto
<1>2. \A u \in Thread : pc[u] \notin Saving \cup BackingUp \cup {"prepare"}
  BY <1>1, Alone DEF OwnerInv, Entered, Saving, BackingUp, Copying, ThreadAssumption
<1> QED
  BY <1>1, <1>2 DEF OwnerInv, Saving, Copying, BackingUp, ThreadAssumption, TypeOK

LEMMA OwnerStep ==
  ASSUME ThreadAssumption, BlockAssumption, TypeOK, LockInv, OwnerInv,
         NEW t \in Thread, Transaction(t) \/ BackupCall(t) \/ CloseCall(t)
  PROVE  OwnerInv'
<1> USE DEF OwnerInv, LockInv, Goto, Entered, Saving, Copying, BackingUp, TypeOK, ThreadAssumption,
       threads, locks
<1>1. CASE Begin(t)
  BY <1>1 DEF Begin, Enter, CanEnter
<1>2. CASE Begun(t)
  BY <1>2 DEF Begun, LockHeader
<1>3. CASE LockTimeout(t)
  BY <1>3 DEF LockTimeout, Leave
<1>4. CASE \E b \in Data : BeforeWrite(t, b)
  BY <1>4 DEF BeforeWrite, InTransaction
<1>5. CASE SaveEnter(t)
  BY <1>5 DEF SaveEnter
<1>6. CASE SaveRead(t)
  BY <1>6 DEF SaveRead
<1>7. CASE SaveWrite(t)
  BY <1>7 DEF SaveWrite
<1>8. CASE SaveFails(t)
  BY <1>8 DEF SaveFails
<1>9. CASE SaveLeave(t)
  BY <1>9 DEF SaveLeave
<1>10. CASE WriteBlock(t)
  BY <1>10 DEF WriteBlock
<1>11. CASE WriteHeader(t)
  BY <1>11 DEF WriteHeader, InTransaction
<1>12. CASE End(t)
  BY <1>12 DEF End, InTransaction, UnlockHeader, Leave
<1>13. CASE Backup(t)
  BY <1>13 DEF Backup, CanEnter, Enter
<1>14. CASE PrepareFails(t)
  BY <1>14 DEF PrepareFails, Leave
<1>15. CASE Loop(t)
  BY <1>15 DEF Loop
<1>16. CASE CopyRead(t)
  BY <1>16 DEF CopyRead
<1>17. CASE CopyWrite(t)
  BY <1>17 DEF CopyWrite
<1>18. CASE CopyFails(t)
  BY <1>18 DEF CopyFails
<1>19. CASE Copied(t)
  BY <1>19 DEF Copied
<1>20. CASE LastLeave(t)
  BY <1>20 DEF LastLeave
<1>21. CASE WritePage0(t)
  BY <1>21 DEF WritePage0
<1>22. CASE Close(t)
  BY <1>22 DEF Close, Enter, CanEnter
<1>23. CASE CloseSleep(t)
  BY <1>23 DEF CloseSleep, Leave
<1>24. CASE CloseWake(t)
  BY <1>24 DEF CloseWake, Enter, CanEnter
<1> QED
  BY <1>1, <1>2, <1>3, <1>4, <1>5, <1>6, <1>7, <1>8, <1>9, <1>10, <1>11, <1>12, <1>13,
     <1>14, <1>15, <1>16, <1>17, <1>18, <1>19, <1>20, <1>21, <1>22, <1>23, <1>24,
     PreparedOwner, CopyEnterOwner, FinishOwner, CloseDoneOwner
  DEF Transaction, BackupCall, CloseCall

-----------------------------------------------------------------------------
(* backup_block has saved a block before it is written.                     *)

LEMMA BeforeWriteSaved ==
  ASSUME ThreadAssumption, BlockAssumption, TypeOK, LockInv, OwnerInv, SavedInv,
         NEW t \in Thread, \E b \in Data : BeforeWrite(t, b)
  PROVE  SavedInv'
<1>1. PICK b \in Data : BeforeWrite(t, b)
  OBVIOUS
<1>2. /\ pc[t] = "out" /\ inTx[t] /\ target' = [target EXCEPT ![t] = b]
      /\ \A u \in Thread \ {t} : pc[u] \notin Saving \cup {"write"}
  BY <1>1, Alone DEF BeforeWrite, InTransaction
<1>3. CASE pbackup = NoThread \/ bi[pbackup].error
  <2>1. pc' = [pc EXCEPT ![t] = "write"] /\ UNCHANGED <<bi, pbackup>>
    BY <1>1, <1>3 DEF BeforeWrite, Goto
  <2> QED
    BY <1>2, <1>3, <2>1 DEF SavedInv, Saving, TypeOK
<1>4. CASE ~(pbackup = NoThread \/ bi[pbackup].error)
  <2>1. pc' = [pc EXCEPT ![t] = "save"]
    BY <1>1, <1>4 DEF BeforeWrite, Goto
  <2> QED
    BY <1>2, <2>1 DEF SavedInv, Saving, TypeOK
<1> QED
  BY <1>3, <1>4

LEMMA WriteBlockSaved ==
  ASSUME ThreadAssumption, BlockAssumption, TypeOK, LockInv, OwnerInv, SavedInv,
         NEW t \in Thread, WriteBlock(t)
  PROVE  SavedInv'
<1>1. pc[t] = "write" /\ pc' = [pc EXCEPT ![t] = "out"]
  BY DEF WriteBlock, Goto
<1>2. \A u \in Thread \ {t} : pc[u] \notin Saving \cup {"write"}
  BY <1>1, Alone DEF LockInv
<1> QED
  BY <1>1, <1>2 DEF SavedInv, Saving, TypeOK

LEMMA PreparedSaved ==
  ASSUME ThreadAssumption, BlockAssumption, TypeOK, LockInv, OwnerInv, SavedInv,
         NEW t \in Thread, Prepared(t)
  PROVE  SavedInv'
<1>1. /\ pc[t] = "prepare" /\ pc' = [pc EXCEPT ![t] = "loop"]
      /\ \A u \in Thread \ {t} : pc[u] \notin Saving \cup {"write"}
  BY Alone DEF Prepared, Goto, Entered
<1> QED
  BY <1>1 DEF SavedInv, Saving, TypeOK

LEMMA CopyEnterSaved ==
  ASSUME ThreadAssumption, BlockAssumption, TypeOK, LockInv, OwnerInv, SavedInv,
         NEW t \in Thread, CopyEnter(t)
  PROVE  SavedInv'
<1>1. /\ pc[t] = "copyEnter" /\ UNCHANGED <<pbackup, file, target>>
      /\ pc' = [pc EXCEPT ![t] = "lastLeave"] \/ pc' = [pc EXCEPT ![t] = "copyRead"]
  BY DEF CopyEnter, Goto, content
<1>2. bi' = bi \/ \E l, h \in Data : bi' = [bi EXCEPT ![t].low = l, ![t].ofs = l, ![t].high = h]
  BY DEF CopyEnter
<1>3. \A u \in Thread : /\ bi'[u].todo = bi[u].todo /\ bi'[u].error = bi[u].error
                        /\ bi'[u].buffer = bi[u].buffer
  <2>1. CASE bi' = bi
    BY <2>1
  <2>2. CASE \E l, h \in Data : bi' = [bi EXCEPT ![t].low = l, ![t].ofs = l, ![t].high = h]
    <3>1. PICK l, h \in Data : bi' = [bi EXCEPT ![t].low = l, ![t].ofs = l, ![t].high = h]
      BY <2>2
    <3>2. bi \in [Thread -> BackupInfo]
      BY DEF TypeOK
    <3> QED
      BY <3>1, <3>2 DEF BackupInfo
  <2> QED
    BY <1>2, <2>1, <2>2
<1>4. pc[t] \notin Saving \cup {"write"} /\ pc'[t] \notin Saving \cup {"write"}
  BY <1>1 DEF Saving, TypeOK
<1>5. \A u \in Thread : pc[u] \in Saving \cup {"write"} \/ pc'[u] \in Saving \cup {"write"}
                        => u # t /\ pc'[u] = pc[u]
  BY <1>1, <1>4 DEF TypeOK
<1>6. \A u \in Thread : pc[u] \in Saving => pbackup \in Thread
  BY DEF OwnerInv, TypeOK
<1>7. pbackup # NoThread => pbackup \in Thread
  BY DEF TypeOK
<1>8. /\ UNCHANGED <<pbackup, file, target>>
  BY <1>1
<1> QED
  BY <1>3, <1>5, <1>6, <1>7, <1>8 DEF SavedInv, Saving

LEMMA FinishSaved ==
  ASSUME ThreadAssumption, BlockAssumption, TypeOK, LockInv, OwnerInv, SavedInv,
         NEW t \in Thread, Finish(t)
  PROVE  SavedInv'
<1>1. pc[t] = "finish" /\ pc' = [pc EXCEPT ![t] = "page0"]
  BY DEF Finish, Goto
<1>2. \A u \in Thread \ {t} : pc[u] \notin Saving \cup {"write"}
  BY Counted DEF Finish, CanEnter, LockInv
<1> QED
  BY <1>1, <1>2 DEF SavedInv, Saving, TypeOK

LEMMA WritePage0Saved ==
  ASSUME ThreadAssumption, BlockAssumption, TypeOK, LockInv, OwnerInv, SavedInv,
         NEW t \in Thread, WritePage0(t)
  PROVE  SavedInv'
<1>1. /\ pc[t] = "page0" /\ pc' = [pc EXCEPT ![t] = "out"]
      /\ UNCHANGED <<pbackup, file, target>>
  BY DEF WritePage0, Goto, content
<1>2. \A u \in Thread \ {t} : bi'[u] = bi[u]
  BY DEF WritePage0, TypeOK
<1>3. pbackup # t
  BY <1>1 DEF OwnerInv, BackingUp, Copying
<1> QED
  BY <1>1, <1>2, <1>3 DEF SavedInv, OwnerInv, Saving, TypeOK

LEMMA SavedStep ==
  ASSUME ThreadAssumption, BlockAssumption, TypeOK, LockInv, OwnerInv, SavedInv,
         NEW t \in Thread, Transaction(t) \/ BackupCall(t) \/ CloseCall(t)
  PROVE  SavedInv'
<1> USE DEF SavedInv, LockInv, OwnerInv, Goto, Entered, Saving, Copying, BackingUp, TypeOK,
       BackupInfo, threads, locks, content
<1>1. CASE Begin(t)
  BY <1>1 DEF Begin, Enter, CanEnter
<1>2. CASE Begun(t)
  BY <1>2 DEF Begun, LockHeader
<1>3. CASE LockTimeout(t)
  BY <1>3 DEF LockTimeout, Leave
<1>4. CASE SaveEnter(t)
  BY <1>4 DEF SaveEnter
<1>5. CASE SaveRead(t)
  BY <1>5 DEF SaveRead
<1>6. CASE SaveWrite(t)
  BY <1>6 DEF SaveWrite
<1>7. CASE SaveFails(t)
  BY <1>7 DEF SaveFails
<1>8. CASE SaveLeave(t)
  BY <1>8 DEF SaveLeave
<1>9. CASE WriteHeader(t)
  BY <1>9 DEF WriteHeader, InTransaction
<1>10. CASE End(t)
  BY <1>10 DEF End, InTransaction, UnlockHeader, Leave
<1>11. CASE Backup(t)
  BY <1>11 DEF Backup, CanEnter, Enter
<1>12. CASE PrepareFails(t)
  BY <1>12 DEF PrepareFails, Leave
<1>13. CASE Loop(t)
  BY <1>13 DEF Loop
<1>14. CASE CopyRead(t)
  BY <1>14 DEF CopyRead
<1>15. CASE CopyWrite(t)
  BY <1>15 DEF CopyWrite
<1>16. CASE CopyFails(t)
  BY <1>16 DEF CopyFails
<1>17. CASE Copied(t)
  BY <1>17 DEF Copied
<1>18. CASE LastLeave(t)
  BY <1>18 DEF LastLeave
<1>19. CASE Close(t)
  BY <1>19 DEF Close, Enter, CanEnter
<1>20. CASE CloseSleep(t)
  BY <1>20 DEF CloseSleep, Leave
<1>21. CASE CloseWake(t)
  BY <1>21 DEF CloseWake, Enter, CanEnter
<1>22. CASE CloseDone(t)
  BY <1>22 DEF CloseDone, Undone, UnlockHeader
<1> QED
  BY <1>1, <1>2, <1>3, <1>4, <1>5, <1>6, <1>7, <1>8, <1>9, <1>10, <1>11, <1>12, <1>13,
     <1>14, <1>15, <1>16, <1>17, <1>18, <1>19, <1>20, <1>21, <1>22, BeforeWriteSaved,
     WriteBlockSaved, PreparedSaved, CopyEnterSaved, FinishSaved, WritePage0Saved
  DEF Transaction, BackupCall, CloseCall

-----------------------------------------------------------------------------
(* The backup file and the file together have the file of the start.        *)

LEMMA BeforeWriteCopy ==
  ASSUME ThreadAssumption, BlockAssumption, TypeOK, LockInv, OwnerInv, SavedInv, CopyInv,
         NEW t \in Thread, \E b \in Data : BeforeWrite(t, b)
  PROVE  CopyInv'
<1>1. /\ pc[t] = "out" /\ UNCHANGED <<file, result, atStart>>
      /\ pc' = [pc EXCEPT ![t] = "write"] \/ pc' = [pc EXCEPT ![t] = "save"]
  BY DEF BeforeWrite, InTransaction, Goto, content, ghost
<1>2. bi' = bi \/ bi' = [bi EXCEPT ![pbackup].waiting = TRUE]
  BY DEF BeforeWrite
<1>3. \A u \in Thread : SameCopy(u)
  <2>1. ASSUME NEW u \in Thread
        PROVE  bi'[u] = bi[u] \/ bi'[u] = [bi[u] EXCEPT !.waiting = TRUE]
    <3>1. bi' = bi \/ u # pbackup => bi'[u] = bi[u]
      BY <1>2 DEF TypeOK
    <3>2. bi' # bi /\ u = pbackup => bi'[u] = [bi[u] EXCEPT !.waiting = TRUE]
      BY <1>2 DEF TypeOK
    <3> QED
      BY <3>1, <3>2
  <2>2. ASSUME NEW u \in Thread, bi'[u] = [bi[u] EXCEPT !.waiting = TRUE]
        PROVE  SameCopy(u)
    <3>1. bi[u] \in BackupInfo
      BY DEF TypeOK
    <3> QED
      BY <2>2, <3>1 DEF BackupInfo, SameCopy
  <2> QED
    BY <2>1, <2>2 DEF SameCopy
<1>4. pc'[t] \in {"write", "save"} /\ \A u \in Thread \ {t} : pc'[u] = pc[u]
  BY <1>1 DEF TypeOK
<1> QED
  BY <1>1, <1>3, <1>4, CopyFrame DEF BackingUp, Copying

LEMMA SaveWriteCopy ==
  ASSUME ThreadAssumption, BlockAssumption, TypeOK, LockInv, OwnerInv, SavedInv, CopyInv,
         NEW t \in Thread, SaveWrite(t)
  PROVE  CopyInv'
<1>1. /\ pc[t] = "saveWrite" /\ pc' = [pc EXCEPT ![t] = "saveLeave"]
      /\ UNCHANGED <<file, result, atStart>>
  BY DEF SaveWrite, Goto, content, ghost
<1>2. /\ bi' = [bi EXCEPT ![pbackup].out[target[t]] = bi[pbackup].buffer,
                          ![pbackup].todo = @ \ {target[t]}]
      /\ pbackup \in Thread /\ so[pbackup] = t /\ target[t] \in Data
      /\ bi[pbackup].buffer = file[target[t]]
  BY <1>1 DEF SaveWrite, OwnerInv, SavedInv, Saving, TypeOK
<1>3. PICK p \in Thread : p = pbackup
  BY <1>2
<1>4. /\ p # t /\ pc'[p] = pc[p] /\ pc[p] \in BackingUp \ Copying /\ pc'[t] = "saveLeave"
      /\ \A u \in Thread \ {t} : pc'[u] = pc[u]
  BY <1>1, <1>2, <1>3 DEF OwnerInv, BackingUp, Copying, TypeOK
<1>5. \A u \in Thread \ {p} : bi'[u] = bi[u]
  BY <1>2, <1>3 DEF TypeOK
<1>6. /\ bi'[p].todo = bi[p].todo \ {target[t]} /\ bi'[p].error = bi[p].error
      /\ bi'[p].page0 = bi[p].page0
      /\ bi'[p].out = [bi[p].out EXCEPT ![target[t]] = bi[p].buffer]
      /\ bi[p].out \in [Data -> Value \cup {Missing}]
  <2>1. bi[p] \in BackupInfo
    BY DEF TypeOK
  <2> QED
    BY <1>2, <1>3, <2>1 DEF TypeOK, BackupInfo
<1>7. HalfCopied(p) => HalfCopied(p)'
  <2>1. \A b \in Data \ {target[t]} : bi'[p].out[b] = bi[p].out[b]
    BY <1>6
  <2>2. target[t] \in Data /\ bi[p].buffer = file[target[t]]
    BY <1>2, <1>3
  <2>3. bi'[p].out[target[t]] = file[target[t]]
    BY <1>6, <2>2
  <2>4. target[t] \in bi[p].todo
    BY <1>1, <1>3 DEF SavedInv
  <2>5. UNCHANGED <<file, atStart>>
    BY <1>1
  <2>6. bi[p].page0 \in Header
    BY DEF TypeOK, BackupInfo
  <2>7. \A b \in 1..bi[p].page0 - 1 : b \in Data
    BY <2>6, BlockAssumption DEF BlockAssumption, Header, Data
  <2> QED
    BY <1>6, <2>1, <2>3, <2>4, <2>7, <2>5 DEF HalfCopied
<1>8. \A u \in Thread \ {p} : HalfCopied(u) => HalfCopied(u)'
  BY <1>1, <1>5 DEF HalfCopied
<1>9. \A u \in Thread \ {p, t} : /\ IntervalLeft(u) => IntervalLeft(u)'
                                 /\ IntervalCopied(u) => IntervalCopied(u)'
  BY <1>1, <1>4, <1>5 DEF IntervalLeft, IntervalCopied
<1>10. SnapshotExact'
  <2>1. result[p] = "none"
    BY <1>2, <1>4 DEF CopyInv
  <2> QED
    BY <1>1, <1>5, <2>1 DEF CopyInv, SnapshotExact
<1>11. pc[p] \in {"loop", "copyEnter", "finish"}
  BY <1>4 DEF BackingUp
<1>12. \A u \in Thread : bi'[u].error = bi[u].error /\ (bi[u].todo = {} => bi'[u].todo = {})
  BY <1>5, <1>6
<1>13. \A u \in Thread : HalfCopied(u) => HalfCopied(u)'
  BY <1>7, <1>8
<1>14. \A u \in Thread : pc'[u] \in {"copyRead", "copyWrite", "copied"} => u \notin {p, t}
  BY <1>4, <1>11
<1>15. pc'[t] \notin {"prepare", "page0"} \cup BackingUp
  BY <1>4 DEF BackingUp, Copying
<1>16. result' = result
  BY <1>1
<1> QED
  BY <1>4, <1>9, <1>10, <1>12, <1>13, <1>14, <1>15, <1>16 DEF CopyInv, BackingUp, Copying

LEMMA BackupCopy ==
  ASSUME ThreadAssumption, BlockAssumption, TypeOK, LockInv, OwnerInv, SavedInv, CopyInv,
         NEW t \in Thread, Backup(t)
  PROVE  CopyInv'
<1>1. /\ pc[t] = "out" /\ UNCHANGED <<file, bi, atStart>>
  BY DEF Backup, content
<1>2. \/ pc' = pc /\ result' = [result EXCEPT ![t] = "error"]
      \/ pc' = [pc EXCEPT ![t] = "prepare"] /\ result' = [result EXCEPT ![t] = "none"]
  BY DEF Backup, Goto
<1>3. /\ \A u \in Thread : SameCopy(u)
      /\ \A u \in Thread \ {t} : pc'[u] = pc[u] /\ result'[u] = result[u]
  BY <1>1, <1>2 DEF SameCopy, TypeOK
<1>4. /\ pc'[t] \in {"out", "prepare"} /\ result'[t] \in {"error", "none"}
      /\ pc'[t] = "prepare" => result'[t] = "none"
  BY <1>1, <1>2 DEF TypeOK
<1> QED
  BY <1>1, <1>3, <1>4, CopyFrame DEF BackingUp, Copying

LEMMA CopyEnterCopy ==
  ASSUME ThreadAssumption, BlockAssumption, TypeOK, LockInv, OwnerInv, SavedInv, CopyInv,
         NEW t \in Thread, CopyEnter(t)
  PROVE  CopyInv'
<1>1. /\ pc[t] = "copyEnter" /\ UNCHANGED <<file, result, atStart>>
  BY DEF CopyEnter, content, ghost
<1>2. CASE bi[t].todo = {} /\ pc' = [pc EXCEPT ![t] = "lastLeave"] /\ bi' = bi
  <2>1. /\ pc'[t] = "lastLeave" /\ \A u \in Thread \ {t} : pc'[u] = pc[u]
        /\ bi[t].todo = {}
    BY <1>2 DEF TypeOK
  <2>2. /\ \A u \in Thread : HalfCopied(u) => HalfCopied(u)'
        /\ \A u \in Thread : IntervalLeft(u) => IntervalLeft(u)'
    BY <1>1, <1>2 DEF HalfCopied, IntervalLeft
  <2>3. \A u \in Thread \ {t} : IntervalCopied(u) => IntervalCopied(u)'
    BY <1>1, <1>2, <2>1 DEF IntervalCopied
  <2>4. SnapshotExact'
    BY <1>1, <1>2 DEF CopyInv, SnapshotExact
  <2> QED
    BY <1>1, <1>2, <2>1, <2>2, <2>3, <2>4 DEF CopyInv, Copying, BackingUp
<1>3. CASE \E l, h \in Data : /\ FirstInterval(bi[t].todo, l, h)
                              /\ bi' = [bi EXCEPT ![t].low = l, ![t].ofs = l, ![t].high = h]
                              /\ pc' = [pc EXCEPT ![t] = "copyRead"]
  <2>1. PICK l, h \in Data : /\ FirstInterval(bi[t].todo, l, h)
                             /\ bi' = [bi EXCEPT ![t].low = l, ![t].ofs = l, ![t].high = h]
                             /\ pc' = [pc EXCEPT ![t] = "copyRead"]
    BY <1>3
  <2>2. l <= h /\ l..h \subseteq bi[t].todo
    BY <2>1 DEF FirstInterval, Data
  <2>3. IntervalLeft(t)' /\ IntervalCopied(t)'
    BY <1>1, <2>1, <2>2 DEF IntervalLeft, IntervalCopied, TypeOK, BackupInfo, Data
  <2>4. \A u \in Thread : ~bi'[u].error => ~bi[u].error
    BY <2>1 DEF TypeOK
  <2>5. \A u \in Thread : HalfCopied(u) => HalfCopied(u)'
    BY <1>1, <2>1 DEF HalfCopied, TypeOK
  <2>6. \A u \in Thread \ {t} : /\ IntervalLeft(u) => IntervalLeft(u)'
                                /\ IntervalCopied(u) => IntervalCopied(u)'
    BY <1>1, <2>1 DEF IntervalLeft, IntervalCopied, TypeOK
  <2>7. SnapshotExact'
    BY <1>1, <2>1 DEF CopyInv, SnapshotExact, TypeOK
  <2>8. \A u \in Thread \ {t} : pc'[u] = pc[u] /\ bi'[u].todo = bi[u].todo
    BY <2>1 DEF TypeOK
  <2>9. pc'[t] = "copyRead"
    BY <2>1 DEF TypeOK
  <2> QED
    BY <1>1, <2>3, <2>4, <2>5, <2>6, <2>7, <2>8, <2>9 DEF CopyInv, Copying, BackingUp
<1> QED
  BY <1>2, <1>3 DEF CopyEnter, Goto

LEMMA CopyWriteCopy ==
  ASSUME ThreadAssumption, BlockAssumption, TypeOK, LockInv, OwnerInv, SavedInv, CopyInv,
         NEW t \in Thread, CopyWrite(t)
  PROVE  CopyInv'
<1>1. /\ pc[t] = "copyWrite" /\ UNCHANGED <<file, result, atStart>>
  BY DEF CopyWrite, content, ghost
<1> DEFINE stop == bi[t].waiting \/ bi[t].ofs = bi[t].high
<1>2. /\ bi' = [bi EXCEPT ![t].out[bi[t].ofs] = bi[t].buffer,
                          ![t].ofs = IF stop THEN @ ELSE @ + 1]
      /\ pc' = [pc EXCEPT ![t] = IF stop THEN "copied" ELSE "copyRead"]
  BY DEF CopyWrite, Goto
<1>3. \A u \in Thread \ {t} : bi'[u] = bi[u] /\ pc'[u] = pc[u]
  BY <1>2 DEF TypeOK
<1>4. /\ bi'[t].todo = bi[t].todo /\ bi'[t].error = bi[t].error
      /\ bi'[t].page0 = bi[t].page0 /\ bi'[t].low = bi[t].low /\ bi'[t].high = bi[t].high
      /\ bi'[t].ofs = (IF stop THEN bi[t].ofs ELSE bi[t].ofs + 1)
      /\ bi'[t].out = [bi[t].out EXCEPT ![bi[t].ofs] = bi[t].buffer]
      /\ pc'[t] = IF stop THEN "copied" ELSE "copyRead"
  BY <1>2 DEF TypeOK
<1>5. bi[t] \in BackupInfo
  BY DEF TypeOK
<1>6. result[t] = "none"
  BY <1>1 DEF CopyInv, Copying, BackingUp
<1>7. IntervalLeft(t) /\ IntervalLeft(t)'
  <2>1. IntervalLeft(t)
    BY <1>1 DEF CopyInv
  <2> QED
    BY <1>4, <1>5, <2>1 DEF IntervalLeft, BackupInfo
<1>8. ASSUME ~bi[t].error
      PROVE  HalfCopied(t)' /\ IntervalCopied(t)'
  <2>1. HalfCopied(t) /\ IntervalCopied(t)
    BY <1>1, <1>8 DEF CopyInv, Copying, BackingUp
  <2>2. /\ bi[t].ofs \in bi[t].todo /\ bi[t].ofs \in Data
        /\ bi[t].buffer = file[bi[t].ofs]
    BY <1>1, <1>5, <1>7, <2>1 DEF IntervalLeft, IntervalCopied, BackupInfo
  <2>3. bi'[t].out[bi[t].ofs] = atStart[t].data[bi[t].ofs]
    BY <1>4, <1>5, <2>1, <2>2 DEF HalfCopied, BackupInfo
  <2>4. \A b \in Data \ {bi[t].ofs} : bi'[t].out[b] = bi[t].out[b]
    BY <1>4, <1>5 DEF BackupInfo
  <2>5. HalfCopied(t)'
    BY <1>1, <1>4, <1>5, <2>1, <2>2, <2>4, SMTT(60) DEF HalfCopied, Data, Header, TypeOK, BackupInfo
  <2>6. \A b \in bi[t].low..bi[t].ofs : b \in Data
    BY <1>5, <1>7 DEF IntervalLeft, BackupInfo
  <2>7. \A b \in bi[t].low..bi[t].ofs : bi'[t].out[b] = atStart[t].data[b]
    BY <1>5, <2>1, <2>3, <2>4, <2>6 DEF IntervalCopied, BackupInfo
  <2>8. pc'[t] # "copyWrite"
    BY <1>4
  <2>9. ASSUME NEW b \in bi'[t].low..bi'[t].ofs, b < bi'[t].ofs \/ pc'[t] = "copied"
         PROVE  bi'[t].out[b] = atStart[t].data[b]
    <3>1. b \in bi[t].low..bi[t].ofs
      BY <1>4, <1>5, <2>9 DEF BackupInfo
    <3> QED
      BY <2>7, <3>1
  <2>10. IntervalCopied(t)'
    BY <1>1, <2>8, <2>9 DEF IntervalCopied
  <2> QED
    BY <2>5, <2>10
<1>9. \A u \in Thread \ {t} : /\ HalfCopied(u) => HalfCopied(u)'
                              /\ IntervalLeft(u) => IntervalLeft(u)'
                              /\ IntervalCopied(u) => IntervalCopied(u)'
  BY <1>1, <1>3 DEF HalfCopied, IntervalLeft, IntervalCopied
<1>10. SnapshotExact'
  BY <1>1, <1>3, <1>6 DEF CopyInv, SnapshotExact
<1> QED
  BY <1>1, <1>3, <1>4, <1>6, <1>8, <1>9, <1>10, <1>7 DEF CopyInv, Copying, BackingUp

LEMMA WritePage0Copy ==
  ASSUME ThreadAssumption, BlockAssumption, TypeOK, LockInv, OwnerInv, SavedInv, CopyInv,
         NEW t \in Thread, WritePage0(t)
  PROVE  CopyInv'
<1>1. /\ pc[t] = "page0" /\ UNCHANGED <<file, atStart>> /\ pc' = [pc EXCEPT ![t] = "out"]
  BY DEF WritePage0, content, Goto
<1>2. \/ bi' = bi /\ result' = [result EXCEPT ![t] = "error"]
      \/ /\ ~bi[t].error /\ result' = [result EXCEPT ![t] = "ok"]
         /\ bi' = [bi EXCEPT ![t].out0 = bi[t].page0]
  BY DEF WritePage0
<1>3. \A u \in Thread \ {t} : bi'[u] = bi[u] /\ pc'[u] = pc[u] /\ result'[u] = result[u]
  BY <1>1, <1>2 DEF TypeOK
<1>4. \A u \in Thread \ {t} : /\ HalfCopied(u) => HalfCopied(u)'
                              /\ IntervalLeft(u) => IntervalLeft(u)'
                              /\ IntervalCopied(u) => IntervalCopied(u)'
  BY <1>1, <1>3 DEF HalfCopied, IntervalLeft, IntervalCopied
<1>5. pc'[t] = "out"
  BY <1>1 DEF TypeOK
<1>6. ASSUME result'[t] = "ok"
      PROVE  /\ bi'[t].out0 = atStart[t].page0
             /\ \A b \in 1..atStart[t].page0 - 1 : bi'[t].out[b] = atStart[t].data[b]
  <2>1. ~bi[t].error /\ bi' = [bi EXCEPT ![t].out0 = bi[t].page0]
    BY <1>2, <1>6 DEF TypeOK
  <2>2. bi'[t].out0 = bi[t].page0 /\ bi'[t].out = bi[t].out
    BY <2>1 DEF TypeOK
  <2>3. HalfCopied(t) /\ bi[t].todo = {}
    BY <1>1, <2>1 DEF CopyInv
  <2> QED
    BY <2>2, <2>3 DEF HalfCopied
<1>7. SnapshotExact'
  BY <1>1, <1>3, <1>6 DEF CopyInv, SnapshotExact
<1> QED
  BY <1>1, <1>3, <1>4, <1>5, <1>7 DEF CopyInv, Copying, BackingUp

LEMMA CopyStep ==
  ASSUME ThreadAssumption, BlockAssumption, TypeOK, LockInv, OwnerInv, SavedInv, CopyInv,
         NEW t \in Thread, Transaction(t) \/ BackupCall(t) \/ CloseCall(t)
  PROVE  CopyInv'
<1> USE DEF CopyInv, HalfCopied, IntervalLeft, IntervalCopied, SnapshotExact, LockInv, OwnerInv,
       SavedInv, Goto, Entered, Saving, Copying, BackingUp, TypeOK, BackupInfo, threads,
       locks, content, ghost
<1>1. CASE Begin(t)
  BY <1>1 DEF Begin, Enter, CanEnter
<1>2. CASE Begun(t)
  BY <1>2 DEF Begun, LockHeader
<1>3. CASE LockTimeout(t)
  BY <1>3 DEF LockTimeout, Leave
<1>4. CASE SaveEnter(t)
  BY <1>4 DEF SaveEnter
<1>5. CASE SaveRead(t)
  BY <1>5 DEF SaveRead
<1>6. CASE SaveFails(t)
  BY <1>6 DEF SaveFails
<1>7. CASE SaveLeave(t)
  BY <1>7 DEF SaveLeave
<1>8. CASE WriteBlock(t)
  BY <1>8 DEF WriteBlock
<1>9. CASE WriteHeader(t)
  BY <1>9 DEF WriteHeader, InTransaction
<1>10. CASE End(t)
  BY <1>10 DEF End, InTransaction, UnlockHeader, Leave
<1>11. CASE Prepared(t)
  BY <1>11 DEF Prepared, LockHeader, Leave, NoBackup
<1>12. CASE PrepareFails(t)
  BY <1>12 DEF PrepareFails, Leave
<1>13. CASE Loop(t)
  BY <1>13 DEF Loop
<1>14. CASE CopyRead(t)
  BY <1>14 DEF CopyRead
<1>15. CASE CopyFails(t)
  BY <1>15 DEF CopyFails
<1>16. CASE Copied(t)
  BY <1>16 DEF Copied
<1>17. CASE LastLeave(t)
  BY <1>17 DEF LastLeave
<1>18. CASE Finish(t)
  BY <1>18 DEF Finish, CanEnter, UnlockHeader
<1>19. CASE Close(t)
  BY <1>19 DEF Close, Enter, CanEnter
<1>20. CASE CloseSleep(t)
  BY <1>20 DEF CloseSleep, Leave
<1>21. CASE CloseWake(t)
  BY <1>21 DEF CloseWake, Enter, CanEnter
<1>22. CASE CloseDone(t)
  BY <1>22 DEF CloseDone, Undone, UnlockHeader
<1> QED
  BY <1>1, <1>2, <1>3, <1>4, <1>5, <1>6, <1>7, <1>8, <1>9, <1>10, <1>11, <1>12, <1>13,
     <1>14, <1>15, <1>16, <1>17, <1>18, <1>19, <1>20, <1>21, <1>22, BeforeWriteCopy,
     SaveWriteCopy, BackupCopy, CopyEnterCopy, CopyWriteCopy, WritePage0Copy
  DEF Transaction, BackupCall, CloseCall

-----------------------------------------------------------------------------
(* The types.                                                               *)

LEMMA Bounded ==
  ASSUME LockInv'
  PROVE  count' \in 0..2 /\ \A u \in Thread : depth'[u] \in 0..2
BY DEF LockInv, HeaderHeld

LEMMA BeginType ==
  ASSUME ThreadAssumption, BlockAssumption, TypeOK, LockInv, LockInv', OwnerInv, SavedInv, CopyInv,
         NEW t \in Thread, Begin(t)
  PROVE  TypeOK'
<1>1. left' \in [Event -> Nat]
  BY SpendTyped DEF Begin, Event
<1> QED
  BY Bounded, <1>1 DEF TypeOK, Goto, content, threads, locks, ghost, Saving, Copying,
     BackingUp, Begin, Enter

LEMMA BeforeWriteType ==
  ASSUME ThreadAssumption, BlockAssumption, TypeOK, LockInv, LockInv', OwnerInv, SavedInv, CopyInv,
         NEW t \in Thread, \E b \in Data : BeforeWrite(t, b)
  PROVE  TypeOK'
<1>1. PICK b \in Data : BeforeWrite(t, b)
  OBVIOUS
<1>2. left' \in [Event -> Nat]
  BY <1>1, SpendTyped DEF BeforeWrite, Event
<1>3. target' \in [Thread -> Nat]
  BY <1>1, BlockAssumption DEF BeforeWrite, TypeOK, BlockAssumption, Data
<1>4. CASE pbackup = NoThread \/ bi[pbackup].error
  BY Bounded, <1>1, <1>2, <1>3, <1>4 DEF BeforeWrite, InTransaction, TypeOK, Goto, content,
     locks, ghost
<1>5. CASE ~(pbackup = NoThread \/ bi[pbackup].error)
  <2>1. pbackup \in Thread /\ bi[pbackup] \in BackupInfo
    BY <1>5 DEF TypeOK
  <2>2. bi' = [bi EXCEPT ![pbackup] = [bi[pbackup] EXCEPT !.waiting = TRUE]]
    BY <1>1, <1>5 DEF BeforeWrite
  <2>3. bi' \in [Thread -> BackupInfo]
    BY <2>1, <2>2, BackupInfoUpdate, BiUpdate
  <2>4. pc' = [pc EXCEPT ![t] = "save"]
    BY <1>1, <1>5 DEF BeforeWrite, Goto
  <2> QED
    BY Bounded, <1>1, <1>2, <1>3, <2>3, <2>4 DEF BeforeWrite, TypeOK, content, locks,
       ghost, Saving
<1> QED
  BY <1>4, <1>5

LEMMA SaveEnterType ==
  ASSUME ThreadAssumption, BlockAssumption, TypeOK, LockInv, LockInv', OwnerInv, SavedInv, CopyInv,
         NEW t \in Thread, SaveEnter(t)
  PROVE  TypeOK'
<1>1. bi' \in [Thread -> BackupInfo]
  <2>1. pbackup \in Thread /\ bi[pbackup] \in BackupInfo
    BY DEF SaveEnter, TypeOK, OwnerInv, Saving
  <2>2. [bi[pbackup] EXCEPT !.waiting = FALSE] \in BackupInfo
    BY <2>1, BackupInfoUpdate DEF SaveEnter, TypeOK
  <2>3. bi' = [bi EXCEPT ![pbackup] = [bi[pbackup] EXCEPT !.waiting = FALSE]]
    BY <2>1 DEF SaveEnter, TypeOK
  <2> QED
    BY <2>1, <2>2, <2>3, BiUpdate
<1> QED
  BY Bounded, <1>1 DEF TypeOK, Goto, content, threads, locks, ghost, Saving, Copying,
     BackingUp, SaveEnter

LEMMA SaveReadType ==
  ASSUME ThreadAssumption, BlockAssumption, TypeOK, LockInv, LockInv', OwnerInv, SavedInv, CopyInv,
         NEW t \in Thread, SaveRead(t)
  PROVE  TypeOK'
<1>1. bi' \in [Thread -> BackupInfo]
  <2>1. pbackup \in Thread /\ bi[pbackup] \in BackupInfo
    BY DEF SaveRead, TypeOK, OwnerInv, Saving
  <2>2. [bi[pbackup] EXCEPT !.buffer = file[target[t]]] \in BackupInfo
    BY <2>1, BackupInfoUpdate DEF SaveRead, TypeOK, SavedInv, Saving
  <2>3. bi' = [bi EXCEPT ![pbackup] = [bi[pbackup] EXCEPT !.buffer = file[target[t]]]]
    BY <2>1 DEF SaveRead, TypeOK
  <2> QED
    BY <2>1, <2>2, <2>3, BiUpdate
<1> QED
  BY Bounded, <1>1 DEF TypeOK, Goto, content, threads, locks, ghost, Saving, Copying,
     BackingUp, SaveRead

LEMMA SaveWriteType ==
  ASSUME ThreadAssumption, BlockAssumption, TypeOK, LockInv, LockInv', OwnerInv, SavedInv, CopyInv,
         NEW t \in Thread, SaveWrite(t)
  PROVE  TypeOK'
<1>1. bi' \in [Thread -> BackupInfo]
  <2>1. pbackup \in Thread /\ bi[pbackup] \in BackupInfo
    BY DEF SaveWrite, TypeOK, OwnerInv, Saving
  <2> DEFINE out == [bi[pbackup].out EXCEPT ![target[t]] = bi[pbackup].buffer]
             r == [bi[pbackup] EXCEPT !.out = out]
  <2>2. r \in BackupInfo
    BY <2>1, BackupInfoFields, BackupInfoOut
  <2>3. r.todo = bi[pbackup].todo /\ r.todo \ {target[t]} \in SUBSET Data
    BY <2>1, BackupInfoFields DEF BackupInfo
  <2>4. [r EXCEPT !.todo = bi[pbackup].todo \ {target[t]}] \in BackupInfo
    <3> HIDE DEF r
    <3> QED
      BY <2>2, <2>3, BackupInfoUpdate
  <2>5. bi' = [bi EXCEPT ![pbackup] = [r EXCEPT !.todo = bi[pbackup].todo \ {target[t]}]]
    BY <2>1 DEF SaveWrite, TypeOK, BackupInfo
  <2> QED
    BY <2>1, <2>4, <2>5, BiUpdate
<1> QED
  BY Bounded, <1>1 DEF TypeOK, Goto, content, locks, ghost, Saving, SaveWrite

LEMMA SaveFailsType ==
  ASSUME ThreadAssumption, BlockAssumption, TypeOK, LockInv, LockInv', OwnerInv, SavedInv, CopyInv,
         NEW t \in Thread, SaveFails(t)
  PROVE  TypeOK'
<1>1. bi' \in [Thread -> BackupInfo]
  <2>1. pbackup \in Thread /\ bi[pbackup] \in BackupInfo
    BY DEF SaveFails, TypeOK, OwnerInv, Saving
  <2> DEFINE r == [bi[pbackup] EXCEPT !.error = TRUE]
  <2>2. r \in BackupInfo
    BY <2>1, BackupInfoUpdate
  <2>3. r.todo = bi[pbackup].todo /\ r.todo \ {target[t]} \in SUBSET Data
    BY <2>1, BackupInfoFields DEF BackupInfo
  <2>4. [r EXCEPT !.todo = bi[pbackup].todo \ {target[t]}] \in BackupInfo
    <3> HIDE DEF r
    <3> QED
      BY <2>2, <2>3, BackupInfoUpdate
  <2>5. bi' = [bi EXCEPT ![pbackup] = [r EXCEPT !.todo = bi[pbackup].todo \ {target[t]}]]
    BY <2>1 DEF SaveFails, TypeOK, BackupInfo
  <2> QED
    BY <2>1, <2>4, <2>5, BiUpdate
<1>2. left' \in [Event -> Nat]
  BY SpendTyped DEF SaveFails, Event
<1> QED
  BY Bounded, <1>1, <1>2 DEF TypeOK, Goto, content, locks, ghost, Saving, SaveFails

LEMMA WriteBlockType ==
  ASSUME ThreadAssumption, BlockAssumption, TypeOK, LockInv, LockInv', OwnerInv, SavedInv, CopyInv,
         NEW t \in Thread, WriteBlock(t)
  PROVE  TypeOK'
<1>1. file' \in [Data -> Value]
  BY DEF WriteBlock, TypeOK
<1> QED
  BY Bounded, <1>1 DEF TypeOK, Goto, content, threads, locks, ghost, Saving, Copying,
     BackingUp, WriteBlock

LEMMA WriteHeaderType ==
  ASSUME ThreadAssumption, BlockAssumption, TypeOK, LockInv, LockInv', OwnerInv, SavedInv, CopyInv,
         NEW t \in Thread, WriteHeader(t)
  PROVE  TypeOK'
<1>1. left' \in [Event -> Nat]
  BY SpendTyped DEF WriteHeader, Event
<1> QED
  BY Bounded, <1>1 DEF TypeOK, Goto, content, threads, locks, ghost, Saving, Copying,
     BackingUp, WriteHeader

LEMMA BackupType ==
  ASSUME ThreadAssumption, BlockAssumption, TypeOK, LockInv, LockInv', OwnerInv, SavedInv, CopyInv,
         NEW t \in Thread, Backup(t)
  PROVE  TypeOK'
<1>1. left' \in [Event -> Nat]
  BY SpendTyped DEF Backup, Event
<1> QED
  BY Bounded, <1>1 DEF TypeOK, Goto, content, threads, locks, ghost, Saving, Copying,
     BackingUp, Backup, Enter

LEMMA PreparedType ==
  ASSUME ThreadAssumption, BlockAssumption, TypeOK, LockInv, LockInv', OwnerInv, SavedInv, CopyInv,
         NEW t \in Thread, Prepared(t)
  PROVE  TypeOK'
<1>1. bi' \in [Thread -> BackupInfo]
  <2>1. NoBackup \in BackupInfo
    BY BlockAssumption DEF BlockAssumption, NoBackup, BackupInfo, Header
  <2>2. header \in Header /\ 1..header - 1 \in SUBSET Data
    BY BlockAssumption DEF TypeOK, Header, Data, BlockAssumption
  <2>3. [NoBackup EXCEPT !.page0 = header, !.todo = 1..header - 1] \in BackupInfo
    BY <2>1, <2>2 DEF BackupInfo
  <2> QED
    BY <2>3, BiUpdate DEF Prepared
<1>2. atStart' \in [Thread -> [page0: Header, data: [Data -> Value]]]
  BY DEF Prepared, TypeOK
<1> QED
  BY Bounded, <1>1, <1>2 DEF TypeOK, Goto, Leave, LockHeader, content, BackingUp, Prepared

LEMMA PrepareFailsType ==
  ASSUME ThreadAssumption, BlockAssumption, TypeOK, LockInv, LockInv', OwnerInv, SavedInv, CopyInv,
         NEW t \in Thread, PrepareFails(t)
  PROVE  TypeOK'
<1>1. left' \in [Event -> Nat]
  BY SpendTyped DEF PrepareFails, Event
<1> QED
  BY Bounded, <1>1 DEF TypeOK, Goto, content, threads, locks, ghost, Saving, Copying,
     BackingUp, PrepareFails, Leave

LEMMA CopyEnterType ==
  ASSUME ThreadAssumption, BlockAssumption, TypeOK, LockInv, LockInv', OwnerInv, SavedInv, CopyInv,
         NEW t \in Thread, CopyEnter(t)
  PROVE  TypeOK'
<1>1. bi' \in [Thread -> BackupInfo]
  <2>1. bi[t] \in BackupInfo
    BY DEF TypeOK
  <2>2. CASE bi' = bi
    BY <2>2 DEF TypeOK
  <2>3. CASE \E l, h \in Data : bi' = [bi EXCEPT ![t].low = l, ![t].ofs = l, ![t].high = h]
    <3>1. PICK l, h \in Data : bi' = [bi EXCEPT ![t].low = l, ![t].ofs = l, ![t].high = h]
      BY <2>3
    <3>2. [bi[t] EXCEPT !.low = l, !.ofs = l, !.high = h] \in BackupInfo
      BY <2>1, BackupInfoInterval
    <3>3. bi' = [bi EXCEPT ![t] = [bi[t] EXCEPT !.low = l, !.ofs = l, !.high = h]]
      BY <2>1, <3>1 DEF TypeOK, BackupInfo
    <3> QED
      BY <3>2, <3>3, BiUpdate
  <2> QED
    BY <2>2, <2>3 DEF CopyEnter
<1>2. pc' = [pc EXCEPT ![t] = "lastLeave"] \/ pc' = [pc EXCEPT ![t] = "copyRead"]
  BY DEF CopyEnter, Goto
<1>3. /\ so' = [so EXCEPT ![t] = t]
      /\ UNCHANGED <<content, depth, inTx, target, lock, count, pbackup, closed, ghost, left>>
  BY DEF CopyEnter
<1> QED
  BY Bounded, <1>1, <1>2, <1>3 DEF TypeOK, content, ghost, Copying, BackingUp

LEMMA CopyReadType ==
  ASSUME ThreadAssumption, BlockAssumption, TypeOK, LockInv, LockInv', OwnerInv, SavedInv, CopyInv,
         NEW t \in Thread, CopyRead(t)
  PROVE  TypeOK'
<1>1. bi' \in [Thread -> BackupInfo]
  <2>1. bi[t] \in BackupInfo
    BY DEF TypeOK
  <2>2. bi[t].ofs \in Data
    BY <2>1, BackupInfoFields DEF CopyRead, CopyInv, IntervalLeft
  <2>3. [bi[t] EXCEPT !.buffer = file[bi[t].ofs]] \in BackupInfo
    BY <2>1, <2>2, BackupInfoUpdate DEF TypeOK
  <2>4. bi' = [bi EXCEPT ![t] = [bi[t] EXCEPT !.buffer = file[bi[t].ofs]]]
    BY <2>1 DEF CopyRead, TypeOK
  <2> QED
    BY <2>1, <2>3, <2>4, BiUpdate
<1> QED
  BY Bounded, <1>1 DEF TypeOK, Goto, content, threads, locks, ghost, Saving, Copying,
     BackingUp, CopyRead

LEMMA CopyWriteType ==
  ASSUME ThreadAssumption, BlockAssumption, TypeOK, LockInv, LockInv', OwnerInv, SavedInv, CopyInv,
         NEW t \in Thread, CopyWrite(t)
  PROVE  TypeOK'
<1> DEFINE stop == bi[t].waiting \/ bi[t].ofs = bi[t].high
<1>1. bi' \in [Thread -> BackupInfo]
  <2>1. bi[t] \in BackupInfo
    BY DEF TypeOK
  <2> DEFINE out == [bi[t].out EXCEPT ![bi[t].ofs] = bi[t].buffer]
             r == [bi[t] EXCEPT !.out = out]
             next == IF stop THEN bi[t].ofs ELSE bi[t].ofs + 1
  <2>2. r \in BackupInfo
    BY <2>1, BackupInfoFields, BackupInfoOut
  <2>3. next \in Nat
    BY <2>1, BackupInfoFields
  <2>4. [r EXCEPT !.ofs = next] \in BackupInfo
    <3> HIDE DEF r, next
    <3> QED
      BY <2>2, <2>3, BackupInfoUpdate
  <2>5. bi' = [bi EXCEPT ![t] = [r EXCEPT !.ofs = next]]
    BY <2>1 DEF CopyWrite, TypeOK, BackupInfo
  <2> QED
    BY <2>4, <2>5, BiUpdate
<1>2. pc' = [pc EXCEPT ![t] = "copied"] \/ pc' = [pc EXCEPT ![t] = "copyRead"]
  BY DEF CopyWrite, Goto
<1> HIDE DEF stop
<1> QED
  BY Bounded, <1>1, <1>2 DEF TypeOK, content, locks, ghost, Copying, BackingUp, CopyWrite

LEMMA CopyFailsType ==
  ASSUME ThreadAssumption, BlockAssumption, TypeOK, LockInv, LockInv', OwnerInv, SavedInv, CopyInv,
         NEW t \in Thread, CopyFails(t)
  PROVE  TypeOK'
<1>1. left' \in [Event -> Nat]
  BY SpendTyped DEF CopyFails, Event
<1>2. bi' \in [Thread -> BackupInfo]
  <2>1. bi[t] \in BackupInfo
    BY DEF TypeOK
  <2>2. [bi[t] EXCEPT !.error = TRUE] \in BackupInfo
    BY <2>1, BackupInfoUpdate DEF CopyFails, TypeOK
  <2>3. bi' = [bi EXCEPT ![t] = [bi[t] EXCEPT !.error = TRUE]]
    BY <2>1 DEF CopyFails, TypeOK
  <2> QED
    BY <2>1, <2>2, <2>3, BiUpdate
<1> QED
  BY Bounded, <1>1, <1>2 DEF TypeOK, Goto, content, threads, locks, ghost, Saving, Copying,
     BackingUp, CopyFails

LEMMA CopiedType ==
  ASSUME ThreadAssumption, BlockAssumption, TypeOK, LockInv, LockInv', OwnerInv, SavedInv, CopyInv,
         NEW t \in Thread, Copied(t)
  PROVE  TypeOK'
<1>1. bi' \in [Thread -> BackupInfo]
  <2>1. bi[t] \in BackupInfo
    BY DEF TypeOK
  <2>2. [bi[t] EXCEPT !.todo = @ \ (bi[t].low..bi[t].ofs)] \in BackupInfo
    BY <2>1, BackupInfoFields, BackupInfoUpdate DEF Copied, TypeOK
  <2>3. bi' = [bi EXCEPT ![t] = [bi[t] EXCEPT !.todo = @ \ (bi[t].low..bi[t].ofs)]]
    BY <2>1 DEF Copied, TypeOK
  <2> QED
    BY <2>1, <2>2, <2>3, BiUpdate
<1> QED
  BY Bounded, <1>1 DEF TypeOK, Goto, content, threads, locks, ghost, Saving, Copying,
     BackingUp, Copied

LEMMA WritePage0Type ==
  ASSUME ThreadAssumption, BlockAssumption, TypeOK, LockInv, LockInv', OwnerInv, SavedInv, CopyInv,
         NEW t \in Thread, WritePage0(t)
  PROVE  TypeOK'
<1>1. bi' \in [Thread -> BackupInfo]
  <2>1. bi[t] \in BackupInfo
    BY DEF TypeOK
  <2>2. [bi[t] EXCEPT !.out0 = bi[t].page0] \in BackupInfo
    BY <2>1, BackupInfoFields, BackupInfoUpdate
  <2>3. bi' = bi \/ bi' = [bi EXCEPT ![t] = [bi[t] EXCEPT !.out0 = bi[t].page0]]
    BY DEF WritePage0
  <2> QED
    BY <2>2, <2>3, BiUpdate DEF TypeOK
<1>2. left' \in [Event -> Nat]
  BY SpendTyped DEF WritePage0, Event, TypeOK
<1>3. result' \in [Thread -> {"none", "ok", "error"}]
  BY DEF WritePage0, TypeOK
<1> QED
  BY Bounded, <1>1, <1>2, <1>3 DEF TypeOK, Goto, content, locks, WritePage0

LEMMA TypeStep ==
  ASSUME ThreadAssumption, BlockAssumption, TypeOK, LockInv, LockInv', OwnerInv, SavedInv, CopyInv,
         NEW t \in Thread, Transaction(t) \/ BackupCall(t) \/ CloseCall(t)
  PROVE  TypeOK'
<1> USE DEF TypeOK, Goto, Saving, BackingUp, Copying, content, threads, locks, ghost
<1>1. CASE Begun(t)
  BY <1>1, Bounded DEF Begun, LockHeader
<1>2. CASE LockTimeout(t)
  BY <1>2, Bounded DEF LockTimeout, Leave
<1>3. CASE SaveLeave(t)
  BY <1>3, Bounded DEF SaveLeave
<1>4. CASE End(t)
  BY <1>4, Bounded DEF End, InTransaction, UnlockHeader, Leave
<1>5. CASE Loop(t)
  BY <1>5, Bounded DEF Loop
<1>6. CASE LastLeave(t)
  BY <1>6, Bounded DEF LastLeave
<1>7. CASE Finish(t)
  BY <1>7, Bounded DEF Finish, CanEnter, UnlockHeader
<1>8. CASE Close(t)
  <2>1. left' \in [Event -> Nat]
    BY <1>8, SpendTyped DEF Close, Event
  <2> QED
    BY <1>8, <2>1, Bounded DEF Close, Enter, CanEnter
<1>9. CASE CloseSleep(t)
  BY <1>9, Bounded DEF CloseSleep, Leave
<1>10. CASE CloseWake(t)
  BY <1>10, Bounded DEF CloseWake, Enter, CanEnter
<1>11. CASE CloseDone(t)
  BY <1>11, Bounded DEF CloseDone, Undone, UnlockHeader
<1> QED
  BY <1>1, <1>2, <1>3, <1>4, <1>5, <1>6, <1>7, <1>8, <1>9, <1>10, <1>11, BeginType,
     BeforeWriteType, SaveEnterType, SaveReadType, SaveWriteType, SaveFailsType,
     WriteBlockType, WriteHeaderType, BackupType, PreparedType, PrepareFailsType,
     CopyEnterType, CopyReadType, CopyWriteType, CopyFailsType, CopiedType, WritePage0Type
  DEF Transaction, BackupCall, CloseCall

-----------------------------------------------------------------------------
(* The other processes, the first state, and the theorems.                  *)

Inv == TypeOK /\ LockInv /\ OwnerInv /\ SavedInv /\ CopyInv

LEMMA InvInit ==
  ASSUME Init
  PROVE  Inv
<1>1. TypeOK
  <2>1. NoBackup \in BackupInfo
    BY BlockAssumption DEF BlockAssumption, NoBackup, BackupInfo, Header
  <2>2. 1 \in Header
    BY BlockAssumption DEF BlockAssumption, Header
  <2>3. bi \in [Thread -> BackupInfo]
    BY <2>1 DEF Init
  <2>4. atStart \in [Thread -> [page0: Header, data: [Data -> Value]]]
    BY <2>2 DEF Init
  <2>5. left \in [Event -> Nat]
    BY BudgetAssumption DEF Init, BudgetAssumption
  <2>6. /\ pc \in [Thread -> {"out", "begin", "write", "prepare", "page0", "close", "sleep"}
                           \cup Saving \cup BackingUp]
        /\ target \in [Thread -> Nat] /\ so \in [Thread -> Thread \cup {NoThread}]
        /\ result \in [Thread -> {"none", "ok", "error"}]
    BY DEF Init
  <2>7. /\ header \in Header /\ file \in [Data -> Value]
        /\ lock \in {"free", "us", "other"} /\ pbackup \in Thread \cup {NoThread}
    BY DEF Init
  <2>8. depth \in [Thread -> 0..2] /\ count \in 0..2
    BY DEF Init
  <2>9. inTx \in [Thread -> BOOLEAN] /\ closed \in BOOLEAN
    BY DEF Init
  <2> QED
    BY <2>3, <2>4, <2>5, <2>6, <2>7, <2>8, <2>9 DEF TypeOK
<1>2. LockInv /\ OwnerInv
  BY ThreadAssumption DEF Init, ThreadAssumption, LockInv, HeaderHeld, OwnerInv, Entered,
     Saving,
     Copying, BackingUp
<1>3. SavedInv /\ CopyInv
  BY DEF Init, SavedInv, CopyInv, SnapshotExact, Saving, Copying, BackingUp
<1> QED
  BY <1>1, <1>2, <1>3 DEF Inv

(* Another process has the header only when there is neither a transaction  *)
(* nor a backup.                                                            *)
LEMMA OtherStep ==
  ASSUME Inv, Other
  PROVE  Inv'
<1>1. lock \in {"free", "other"} /\ ~\E t \in Thread : inTx[t]
  <2>1. lock \in {"free", "other"}
    BY DEF Other, OtherLock, OtherWrite, OtherUnlock
  <2> QED
    BY <2>1 DEF Inv, LockInv, HeaderHeld
<1>2. pbackup = NoThread
  BY <1>1 DEF Inv, LockInv, HeaderHeld
<1>3. \A t \in Thread : pc[t] \notin Saving \cup {"write"} \cup BackingUp
  BY <1>1, <1>2, ThreadAssumption DEF Inv, LockInv, OwnerInv, ThreadAssumption
<1>4. /\ UNCHANGED <<pc, depth, inTx, target, count, so, pbackup, closed, bi, result, atStart>>
      /\ lock' \in {"free", "other"}
  BY <1>1 DEF Other, OtherLock, OtherWrite, OtherUnlock, threads, locks, ghost
<1>5. TypeOK'
  <2>1. header' \in Header /\ file' \in [Data -> Value]
    BY DEF Inv, TypeOK, Other, OtherLock, OtherWrite, OtherUnlock, content
  <2>2. left' \in [Event -> Nat]
    BY SpendTyped DEF Inv, TypeOK, Event, Other, OtherLock, OtherWrite, OtherUnlock
  <2> QED
    BY <1>4, <2>1, <2>2 DEF Inv, TypeOK
<1>6. LockInv'
  BY <1>1, <1>4 DEF Inv, LockInv, HeaderHeld
<1>7. OwnerInv' /\ SavedInv'
  BY <1>2, <1>3, <1>4 DEF Inv, OwnerInv, SavedInv, Saving
<1>8. CopyInv'
  <2>1. \A t \in Thread : pc[t] \notin {"lastLeave", "finish", "copyRead", "copyWrite", "copied"}
    BY <1>3 DEF BackingUp, Copying
  <2>2. \A t \in Thread : pc[t] = "page0" /\ ~bi[t].error => HalfCopied(t)'
    BY <1>4 DEF Inv, CopyInv, HalfCopied
  <2>3. SnapshotExact'
    BY <1>4 DEF Inv, CopyInv, SnapshotExact
  <2> QED
    BY <1>3, <1>4, <2>1, <2>2, <2>3 DEF Inv, CopyInv
<1> QED
  BY <1>5, <1>6, <1>7, <1>8 DEF Inv

LEMMA StutterStep ==
  ASSUME Inv, UNCHANGED vars
  PROVE  Inv'
<1>1. UNCHANGED <<header, file, pc, depth, inTx, target, lock, count, pbackup, closed, so, bi,
                  result, atStart, left>>
  BY DEF vars, content, threads, locks, ghost
<1>2. TypeOK'
  BY <1>1 DEF Inv, TypeOK
<1>3. LockInv' /\ OwnerInv'
  BY <1>1 DEF Inv, LockInv, HeaderHeld, OwnerInv
<1>4. SavedInv' /\ CopyInv'
  BY <1>1 DEF Inv, SavedInv, CopyInv, HalfCopied, IntervalLeft, IntervalCopied,
     SnapshotExact
<1> QED
  BY <1>2, <1>3, <1>4 DEF Inv

LEMMA InvStep ==
  ASSUME Inv, [Next]_vars
  PROVE  Inv'
<1>1. CASE Other
  BY <1>1, OtherStep
<1>2. CASE \E t \in Thread : Transaction(t) \/ BackupCall(t) \/ CloseCall(t)
  <2>1. PICK t \in Thread : Transaction(t) \/ BackupCall(t) \/ CloseCall(t)
    BY <1>2
  <2>2. LockInv'
    BY <2>1, LockStep, ThreadAssumption, BlockAssumption DEF Inv
  <2>3. OwnerInv'
    BY <2>1, OwnerStep, ThreadAssumption, BlockAssumption DEF Inv
  <2>4. SavedInv'
    BY <2>1, SavedStep, ThreadAssumption, BlockAssumption DEF Inv
  <2>5. CopyInv'
    BY <2>1, CopyStep, ThreadAssumption, BlockAssumption DEF Inv
  <2>6. TypeOK'
    BY <2>1, <2>2, TypeStep, ThreadAssumption, BlockAssumption DEF Inv
  <2> QED
    BY <2>2, <2>3, <2>4, <2>5, <2>6 DEF Inv
<1>3. CASE UNCHANGED vars
  BY <1>3, StutterStep
<1> QED
  BY <1>1, <1>2, <1>3 DEF Next

LEMMA Invariance == Spec => []Inv
<1>1. Init => Inv
  BY InvInit
<1>2. Inv /\ [Next]_vars => Inv'
  BY InvStep
<1> QED
  BY <1>1, <1>2, PTL DEF Spec

(* The variables have their types; in particular no thread is more than     *)
(* twice in the critical section and header_lock_count is at most 2.        *)
THEOREM BackupTypes == Spec => []TypeOK
<1>1. Inv => TypeOK
  BY DEF Inv
<1> QED
  BY <1>1, Invariance, PTL

(* A backup that db_backup_database returns without an error is the file as *)
(* it was when the backup began, whatever the transactions of the other     *)
(* threads write in between and whatever fails.                             *)
THEOREM BackupIsExact == Spec => []SnapshotExact
<1>1. Inv => SnapshotExact
  BY DEF Inv, CopyInv
<1> QED
  BY <1>1, Invariance, PTL

(* The header is locked for other processes exactly as long as a            *)
(* transaction or a backup needs it: lock_header and unlock_header.         *)
THEOREM HeaderIsHeld == Spec => []HeaderHeld
<1>1. Inv => HeaderHeld
  BY DEF Inv, LockInv
<1> QED
  BY <1>1, Invariance, PTL

(* As long as a thread has a transaction open, no other thread is inside    *)
(* the library, whether the transaction ends or the database is closed.     *)
THEOREM TransactionIsAlone == Spec => []TransactionAlone
<1>1. Inv => TransactionAlone
  <2> SUFFICES ASSUME Inv, NEW t \in Thread, inTx[t], NEW u \in Thread \ {t}
               PROVE  depth[u] = 0
    BY DEF TransactionAlone
  <2> QED
    BY Alone DEF Inv
<1> QED
  BY <1>1, Invariance, PTL

(* backup_block never finds BACKUP_INFO gone, and the database is not       *)
(* closed while a backup is in progress.                                    *)
THEOREM BackupStaysAlive == Spec => []BackupAlive
<1>1. Inv => BackupAlive
  <2> SUFFICES ASSUME Inv, NEW t \in Thread
               PROVE  /\ pc[t] \in Saving => pbackup # NoThread
                      /\ pc[t] \in BackingUp => pbackup = t /\ ~closed
    BY DEF BackupAlive
  <2> QED
    BY DEF Inv, OwnerInv
<1> QED
  BY <1>1, Invariance, PTL

=============================================================================
