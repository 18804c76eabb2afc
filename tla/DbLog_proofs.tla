----------------------------- MODULE DbLog_proofs -----------------------------
(***************************************************************************)
(* What holds of DbLog for every size of the log and every number of        *)
(* changes, when the database is not lost in doubt.                         *)
(***************************************************************************)
EXTENDS DbLog, SequenceTheorems, TLAPS

Running    == {"open", "flushLog", "writeLog", "syncLog", "writeDb"}
Recovering == {"lost", "replayed"}

(* The first n records of a log are the changes s.                          *)
Recorded(l, n, s) == Len(s) = n /\ \A i \in 1..n : l.record[i] = s[i]

(* The log can go on with the database: each point for it is right.         *)
GoesOn(l, d) ==
  /\ PointOf(l, d) # {}
  /\ \A x \in PointOf(l, d) : Recorded(l, x.offset, d.changes)

(* Two points with the same number are one point.                           *)
Ordered(h) == h.butlast = h.last \/ h.last.trans = h.butlast.trans + 1

(* The log is on its disk as far as the last point goes.                    *)
LogSafe ==
  /\ stableLog.header = log.header
  /\ \A i \in 1..log.header.last.offset : stableLog.record[i] = log.record[i]

(* The disk has the database as it is, or without the last transaction,     *)
(* which the log has finished.                                              *)
DiskBehind ==
  \/ stableDb = db /\ PointOf(stableLog, db) = PointOf(log, db)
  \/ /\ stableLog.header = log.header
     /\ db.trans = stableDb.trans + 1 /\ log.header.last.trans = db.trans

FilesInv ==
  /\ Ordered(log.header) /\ Ordered(stableLog.header)
  /\ pc \notin Recovering =>
       /\ GoesOn(log, db) /\ GoesOn(stableLog, stableDb) /\ DiskBehind
       /\ log.header.last.trans = db.trans => LogSafe

(* The records of the transaction that runs follow the point at which it    *)
(* began; then the two logs become the same, and then the header counts.    *)
RunInv ==
  /\ pc \in Running =>
       /\ hdr.butlast \in PointOf(log, db)
       /\ \A i \in 1..Len(work) : log.record[hdr.butlast.offset + i] = work[i]
  /\ pc = "open" => hdr.last.trans = hdr.butlast.trans
  /\ pc \in {"flushLog", "writeLog", "syncLog", "writeDb"} => stableDb = db
  /\ pc \in {"writeLog", "writeDb", "syncDb"} => stableLog = log
  /\ pc \in {"syncLog", "writeDb"} =>
       log.header = hdr /\ hdr.last.trans = db.trans + 1 /\ stableLog.record = log.record

RecoveryInv ==
  /\ pc \in Recovering => LogSafe /\ Recorded(log, log.header.last.offset, lost)
  /\ pc = "lost" => db = Backup
  /\ pc = "replayed" => db.changes = lost

Inv == TypeOK /\ FilesInv /\ RunInv /\ RecoveryInv

-----------------------------------------------------------------------------
(* Logs and points.                                                         *)

LEMMA LogFields ==
  ASSUME NEW l \in Log
  PROVE  /\ l.header \in LogHeader /\ l.record \in [1..MaxLog -> Change \cup {0}]
         /\ l.header.last \in Point /\ l.header.butlast \in Point
         /\ l.header.last.offset \in 0..MaxLog /\ l.header.butlast.offset \in 0..MaxLog
         /\ l.header.last.trans \in Nat /\ l.header.butlast.trans \in Nat
BY DEF Log, LogHeader, Point

LEMMA HeaderFields ==
  ASSUME NEW h \in LogHeader
  PROVE  /\ h.last \in Point /\ h.butlast \in Point
         /\ h.last.offset \in 0..MaxLog /\ h.butlast.offset \in 0..MaxLog
         /\ h.last.trans \in Nat /\ h.butlast.trans \in Nat
BY DEF LogHeader, Point

LEMMA ReplayIs ==
  ASSUME LogAssumption, NEW l \in Log, NEW n \in 0..MaxLog
  PROVE  /\ Replay(l, n) \in Seq(Change \cup {0}) /\ Len(Replay(l, n)) = n
         /\ \A i \in 1..n : Replay(l, n)[i] = l.record[i]
<1> DEFINE r == SubSeq(l.record, 1, n)
<1>1. n \in Int /\ 1 \in Int /\ \A i \in 1..n : l.record[i] \in Change \cup {0}
  BY LogFields DEF LogAssumption
<1>2. /\ r \in Seq(Change \cup {0}) /\ Len(r) = (IF 1 <= n THEN n - 1 + 1 ELSE 0)
      /\ \A i \in 1..n - 1 + 1 : r[i] = l.record[1 + i - 1]
  BY <1>1, SubSeqProperties
<1>3. r \in Seq(Change \cup {0}) /\ Len(r) = n /\ \A i \in 1..n : r[i] = l.record[i]
  BY <1>1, <1>2
<1>4. <<>> \o r = r
  BY <1>3, ConcatEmptySeq
<1> QED
  BY <1>3, <1>4 DEF Replay, Backup

LEMMA RecordedIs ==
  ASSUME LogAssumption, NEW l \in Log, NEW n \in 0..MaxLog, NEW s \in Seq(Change)
  PROVE  Replay(l, n) = s <=> Recorded(l, n, s)
<1>1. s \in Seq(Change \cup {0})
  BY DEF Change
<1>2. Replay(l, n) = s => Recorded(l, n, s)
  BY ReplayIs DEF Recorded
<1>3. Recorded(l, n, s) => Replay(l, n) = s
  BY <1>1, ReplayIs, SeqEqual DEF Recorded
<1> QED
  BY <1>2, <1>3

LEMMA RecordWritten ==
  ASSUME NEW l \in Log, NEW i \in 1..MaxLog, NEW c \in Change
  PROVE  /\ [l EXCEPT !.record[i] = c] \in Log
         /\ [l EXCEPT !.record[i] = c].header = l.header
         /\ [l EXCEPT !.record[i] = c].record[i] = c
         /\ \A j \in 1..MaxLog \ {i} : [l EXCEPT !.record[i] = c].record[j] = l.record[j]
BY DEF Log

LEMMA HeaderWritten ==
  ASSUME NEW l \in Log, NEW h \in LogHeader
  PROVE  /\ [l EXCEPT !.header = h] \in Log
         /\ [l EXCEPT !.header = h].header = h
         /\ [l EXCEPT !.header = h].record = l.record
BY DEF Log

LEMMA OffsetMoved ==
  ASSUME LogAssumption, NEW h \in LogHeader, NEW n \in 0..MaxLog
  PROVE  /\ [h EXCEPT !.last.offset = n] \in LogHeader
         /\ [h EXCEPT !.last.offset = n].butlast = h.butlast
         /\ [h EXCEPT !.last.offset = n].last.offset = n
         /\ [h EXCEPT !.last.offset = n].last.trans = h.last.trans
<1>1. [h.last EXCEPT !.offset = n] \in Point
  BY DEF LogHeader, Point
<1>2. [h.last EXCEPT !.offset = n].offset = n /\ [h.last EXCEPT !.offset = n].trans = h.last.trans
  BY DEF LogHeader, Point
<1>3. [h EXCEPT !.last.offset = n] = [h EXCEPT !.last = [h.last EXCEPT !.offset = n]]
  BY DEF LogHeader
<1> QED
  BY <1>1, <1>2, <1>3 DEF LogHeader

LEMMA TransMoved ==
  ASSUME NEW h \in LogHeader, NEW n \in Nat
  PROVE  /\ [h EXCEPT !.last.trans = n] \in LogHeader
         /\ [h EXCEPT !.last.trans = n].butlast = h.butlast
         /\ [h EXCEPT !.last.trans = n].last.trans = n
         /\ [h EXCEPT !.last.trans = n].last.offset = h.last.offset
<1>1. [h.last EXCEPT !.trans = n] \in Point
  BY DEF LogHeader, Point
<1>2. [h.last EXCEPT !.trans = n].trans = n /\ [h.last EXCEPT !.trans = n].offset = h.last.offset
  BY DEF LogHeader, Point
<1>3. [h EXCEPT !.last.trans = n] = [h EXCEPT !.last = [h.last EXCEPT !.trans = n]]
  BY DEF LogHeader
<1> QED
  BY <1>1, <1>2, <1>3 DEF LogHeader

LEMMA PointFields ==
  ASSUME NEW l \in Log, NEW d \in Db, NEW x \in PointOf(l, d)
  PROVE  /\ x \in Point /\ x.offset \in 0..MaxLog /\ x.trans = d.trans
         /\ x = l.header.butlast \/ x = l.header.last
BY LogFields DEF PointOf, Point

LEMMA GoesOnSame ==
  ASSUME NEW l \in Log, NEW d \in Db, NEW m \in Log, NEW e \in Db,
         GoesOn(l, d), PointOf(m, e) = PointOf(l, d), e.changes = d.changes,
         \A x \in PointOf(l, d) : \A i \in 1..x.offset : m.record[i] = l.record[i]
  PROVE  GoesOn(m, e)
BY DEF GoesOn, Recorded

(* The point at which the transaction began is the only one for the         *)
(* database, and nothing that still counts lies after it.                   *)
LEMMA OnePoint ==
  ASSUME LogAssumption, TypeOK, NEW l \in {log, stableLog}, Ordered(l.header),
         NEW d \in Db, NEW x \in PointOf(l, d), NEW y \in PointOf(l, d)
  PROVE  x = y
<1>1. l \in Log
  BY DEF TypeOK
<1> QED
  BY <1>1, PointFields, LogFields DEF PointOf, Ordered

LEMMA BaseIsLast ==
  ASSUME LogAssumption, Inv, pc \in Running
  PROVE  /\ \A x \in PointOf(log, db) : x = hdr.butlast
         /\ log.header.last.trans = db.trans => log.header.last = hdr.butlast
         /\ \A x \in PointOf(stableLog, stableDb) : x.offset <= hdr.butlast.offset
<1>1. pc \notin Recovering /\ Ordered(log.header) /\ DiskBehind
  BY DEF Inv, FilesInv, Running, Recovering
<1>2. log \in Log /\ stableLog \in Log /\ db \in Db /\ stableDb \in Db /\ hdr \in LogHeader
  BY DEF Inv, TypeOK
<1>3. \A x \in PointOf(log, db) : x = hdr.butlast
  BY <1>1, <1>2, OnePoint DEF Inv, RunInv
<1>4. log.header.last.trans = db.trans => log.header.last = hdr.butlast
  BY <1>3 DEF PointOf
<1>5. CASE stableDb = db /\ PointOf(stableLog, db) = PointOf(log, db)
  BY <1>2, <1>3, <1>4, <1>5, HeaderFields
<1>6. CASE stableLog.header = log.header /\ db.trans = stableDb.trans + 1
           /\ log.header.last.trans = db.trans
  <2>1. log.header.last = hdr.butlast
    BY <1>4, <1>6
  <2>2. log.header.butlast.offset <= log.header.last.offset
    BY DEF Inv, TypeOK
  <2>3. \A x \in PointOf(stableLog, stableDb) : x \in {log.header.butlast, log.header.last}
    BY <1>6 DEF PointOf
  <2> QED
    BY <1>2, <1>3, <2>1, <2>2, <2>3, HeaderFields
<1> QED
  BY <1>1, <1>3, <1>4, <1>5, <1>6 DEF DiskBehind

-----------------------------------------------------------------------------
(* The transactions.                                                        *)

LEMMA InvInit ==
  ASSUME LogAssumption, Init
  PROVE  Inv
<1>1. Start \in Point /\ Start.offset = 0 /\ Start.trans = 0
  BY DEF Start, Point, LogAssumption
<1>2. NewLog.header \in LogHeader /\ NewLog.header.last = Start /\ NewLog.header.butlast = Start
  BY <1>1 DEF NewLog, LogHeader
<1>3. NewLog \in Log
  BY <1>2 DEF NewLog, Log
<1>4. Backup \in Db /\ Backup.trans = 0 /\ Backup.changes = <<>> /\ <<>> \in Seq(Change)
  BY DEF Backup, Db
<1>5. TypeOK
  BY <1>1, <1>2, <1>3, <1>4 DEF Init, TypeOK, LogAssumption
<1>6. PointOf(NewLog, Backup) = {Start}
  BY <1>1, <1>2, <1>4 DEF PointOf
<1>7. GoesOn(NewLog, Backup)
  BY <1>1, <1>4, <1>6 DEF GoesOn, Recorded
<1>8. FilesInv
  BY <1>2, <1>7 DEF Init, FilesInv, Ordered, DiskBehind, LogSafe
<1> QED
  BY <1>5, <1>8 DEF Init, Inv, RunInv, RecoveryInv, Running, Recovering

LEMMA BeginStep ==
  ASSUME LogAssumption, Inv, Begin
  PROVE  Inv'
<1>1. log \in Log /\ db \in Db /\ log.header \in LogHeader
  BY LogFields DEF Inv, TypeOK
<1>2. /\ pc = "idle" /\ pc' = "open" /\ work' = <<>>
      /\ UNCHANGED <<db, log, stableDb, stableLog, next, lost, doubt>>
  BY DEF Begin, Goto, files
<1>3. /\ hdr' \in LogHeader /\ hdr'.last = hdr'.butlast
      /\ hdr'.butlast \in PointOf(log, db)
  <2>1. CASE log.header.butlast.trans = db.trans
            /\ hdr' = [log.header EXCEPT !.last = log.header.butlast]
    BY <1>1, <2>1 DEF LogHeader, PointOf
  <2>2. CASE log.header.last.trans = db.trans
            /\ hdr' = [log.header EXCEPT !.butlast = log.header.last]
    BY <1>1, <2>2 DEF LogHeader, PointOf
  <2> QED
    BY <2>1, <2>2 DEF Begin
<1>4. TypeOK'
  BY <1>2, <1>3, HeaderFields DEF Inv, TypeOK
<1>5. FilesInv'
  BY <1>2 DEF Inv, FilesInv, GoesOn, PointOf, DiskBehind, LogSafe, Recorded, Recovering
<1>6. RunInv'
  BY <1>2, <1>3 DEF RunInv, PointOf
<1>7. RecoveryInv'
  BY <1>2 DEF RecoveryInv, Recovering
<1> QED
  BY <1>4, <1>5, <1>6, <1>7 DEF Inv

(* A step that leaves the files alone.                                      *)
LEMMA FilesKept ==
  ASSUME Inv, UNCHANGED files, pc \notin Recovering, pc' \notin Recovering
  PROVE  FilesInv' /\ RecoveryInv'
BY DEF Inv, FilesInv, GoesOn, PointOf, DiskBehind, LogSafe, Recorded, Recovering, files,
   RecoveryInv

LEMMA IdleTyped ==
  ASSUME LogAssumption, TypeOK, Abandon,
         db' \in Db /\ stableDb' \in Db, log' \in {log, stableLog}, stableLog' = stableLog
  PROVE  TypeOK'
<1>1. NewLog.header \in LogHeader /\ NewLog.header.butlast = NewLog.header.last
      /\ NewLog.header.last.offset = 0
  BY DEF NewLog, LogHeader, Start, Point, LogAssumption
<1>2. pc' = "idle" /\ hdr' = NewLog.header /\ work' = <<>> /\ UNCHANGED <<next, lost, doubt>>
  BY DEF Abandon, Goto
<1> QED
  BY <1>1, <1>2 DEF TypeOK

LEMMA CancelStep ==
  ASSUME LogAssumption, Inv, Cancel \/ Stop
  PROVE  Inv'
<1>1. /\ pc \in Running \cup {"syncDb"} /\ Abandon /\ UNCHANGED files
  BY DEF Cancel, Stop, Running
<1>2. pc' = "idle" /\ pc \notin Recovering /\ pc' \notin Recovering
  BY <1>1 DEF Abandon, Goto, Running, Recovering
<1>3. FilesInv' /\ RecoveryInv'
  BY <1>1, <1>2, FilesKept
<1>4. TypeOK'
  BY <1>1, IdleTyped DEF Inv, TypeOK, files
<1>5. RunInv'
  BY <1>2 DEF RunInv, Running
<1> QED
  BY <1>3, <1>4, <1>5 DEF Inv

LEMMA WriteStep ==
  ASSUME LogAssumption, Inv, Write
  PROVE  Inv'
<1> DEFINE i == hdr.last.offset + 1
<1>1. /\ pc = "open" /\ pc' = "open" /\ next \in Change /\ next' = next + 1
      /\ hdr.last.offset < MaxLog
      /\ hdr' = [hdr EXCEPT !.last.offset = @ + 1] /\ work' = Append(work, next)
      /\ log' = [log EXCEPT !.record[i] = next]
      /\ stableLog' \in {stableLog, [stableLog EXCEPT !.record[i] = next]}
      /\ UNCHANGED <<db, stableDb, lost, doubt>>
  BY DEF Write, WriteRecord, Inv, TypeOK, Change
<1>2. /\ log \in Log /\ stableLog \in Log /\ db \in Db /\ stableDb \in Db
      /\ hdr \in LogHeader /\ work \in Seq(Change)
      /\ hdr.last.offset = hdr.butlast.offset + Len(work)
  BY <1>1 DEF Inv, TypeOK
<1>3. hdr.last.offset \in 0..MaxLog /\ hdr.butlast.offset \in 0..MaxLog /\ Len(work) \in Nat
  BY <1>2, HeaderFields
<1>4. i \in 1..MaxLog /\ i = hdr.butlast.offset + (Len(work) + 1)
  <2>1. i \in 1..MaxLog
    BY <1>1, <1>3 DEF LogAssumption
  <2>2. \A a, b, n \in Int : a = b + n => a + 1 = b + (n + 1)
    OBVIOUS
  <2>3. hdr.last.offset \in Int /\ hdr.butlast.offset \in Int /\ Len(work) \in Int
    BY <1>3
  <2> QED
    BY <1>2, <2>1, <2>2, <2>3
<1>5. /\ hdr' \in LogHeader /\ hdr'.butlast = hdr.butlast
      /\ hdr'.last.offset = i /\ hdr'.last.trans = hdr.last.trans
  <2>1. i \in 0..MaxLog /\ hdr' = [hdr EXCEPT !.last.offset = i]
    BY <1>1, <1>3, <1>4
  <2> HIDE DEF i
  <2> QED
    BY <1>2, <2>1, OffsetMoved
<1>6. /\ work' \in Seq(Change) /\ Len(work') = Len(work) + 1 /\ work'[Len(work) + 1] = next
      /\ \A j \in 1..Len(work) : work'[j] = work[j]
  BY <1>1, <1>2, AppendProperties
<1>7. /\ log' \in Log /\ log'.header = log.header /\ log'.record[i] = next
      /\ \A j \in 1..MaxLog \ {i} : log'.record[j] = log.record[j]
  BY <1>1, <1>2, <1>4, RecordWritten
<1>8. /\ stableLog' \in Log /\ stableLog'.header = stableLog.header
      /\ \A j \in 1..MaxLog \ {i} : stableLog'.record[j] = stableLog.record[j]
  <2>1. CASE stableLog' = [stableLog EXCEPT !.record[i] = next]
    BY <1>1, <1>2, <1>4, <2>1, RecordWritten
  <2>2. CASE stableLog' = stableLog
    BY <1>2, <2>2
  <2> QED
    BY <1>1, <2>1, <2>2
<1>9. TypeOK'
  <2>1. next' \in 1..MaxChange + 1
    BY <1>1 DEF Change, LogAssumption
  <2>2. hdr'.last.offset = hdr'.butlast.offset + Len(work')
    BY <1>4, <1>5, <1>6
  <2>3. hdr'.butlast.offset <= hdr'.last.offset
    BY <1>2, <1>3, <1>5
  <2> QED
    BY <1>1, <1>2, <1>5, <1>6, <1>7, <1>8, <2>1, <2>2, <2>3 DEF Inv, TypeOK
<1>10. /\ PointOf(log', db') = PointOf(log, db)
       /\ PointOf(stableLog', stableDb') = PointOf(stableLog, stableDb)
       /\ PointOf(stableLog', db') = PointOf(stableLog, db)
  BY <1>1, <1>7, <1>8 DEF PointOf
<1>11. /\ \A x \in PointOf(log, db) : x = hdr.butlast
       /\ log.header.last.trans = db.trans => log.header.last = hdr.butlast
       /\ \A x \in PointOf(stableLog, stableDb) : x.offset <= hdr.butlast.offset
  BY <1>1, BaseIsLast DEF Running
<1>12. \A n \in 0..MaxLog : n <= hdr.butlast.offset =>
          \A j \in 1..n : log'.record[j] = log.record[j] /\ stableLog'.record[j] = stableLog.record[j]
  BY <1>2, <1>3, <1>7, <1>8
<1>13. GoesOn(log, db) /\ GoesOn(stableLog, stableDb)
  BY <1>1 DEF Inv, FilesInv, Recovering
<1>14. GoesOn(log', db')
  <2>1. \A x \in PointOf(log, db) : \A j \in 1..x.offset : log'.record[j] = log.record[j]
    BY <1>3, <1>11, <1>12
  <2>2. db' \in Db /\ db'.changes = db.changes
    BY <1>1, <1>2
  <2> QED
    BY <1>2, <1>7, <1>10, <1>13, <2>1, <2>2, GoesOnSame
<1>15. GoesOn(stableLog', stableDb')
  <2>1. \A x \in PointOf(stableLog, stableDb) :
          \A j \in 1..x.offset : stableLog'.record[j] = stableLog.record[j]
    BY <1>2, <1>11, <1>12, PointFields
  <2>2. stableDb' \in Db /\ stableDb'.changes = stableDb.changes
    BY <1>1, <1>2
  <2> QED
    BY <1>2, <1>8, <1>10, <1>13, <2>1, <2>2, GoesOnSame
<1>16. log'.header.last.trans = db'.trans => LogSafe'
  <2> SUFFICES ASSUME log.header.last.trans = db.trans PROVE LogSafe'
    BY <1>1, <1>7
  <2>1. LogSafe /\ log.header.last = hdr.butlast
    BY <1>1, <1>11 DEF Inv, FilesInv, Recovering
  <2> QED
    BY <1>3, <1>7, <1>8, <1>12, <2>1 DEF LogSafe
<1>17. FilesInv'
  BY <1>1, <1>7, <1>8, <1>10, <1>14, <1>15, <1>16
     DEF Inv, FilesInv, DiskBehind, Ordered, Recovering
<1>18. RunInv'
  <2>1. \A j \in 1..Len(work') : log'.record[hdr'.butlast.offset + j] = work'[j]
    <3> SUFFICES ASSUME NEW j \in 1..Len(work')
                 PROVE  log'.record[hdr.butlast.offset + j] = work'[j]
      BY <1>5
    <3>1. CASE j = Len(work) + 1
      BY <1>4, <1>6, <1>7, <3>1
    <3>2. CASE j # Len(work) + 1
      <4>1. j \in 1..Len(work)
        BY <1>3, <1>6, <3>2
      <4>2. log.record[hdr.butlast.offset + j] = work[j]
        BY <1>1, <4>1 DEF Inv, RunInv, Running
      <4>3. hdr.butlast.offset + j \in 1..MaxLog \ {i}
        BY <1>1, <1>2, <1>3, <4>1 DEF LogAssumption
      <4> QED
        BY <1>6, <1>7, <4>1, <4>2, <4>3
    <3> QED
      BY <3>1, <3>2
  <2>2. hdr'.butlast \in PointOf(log', db')
    BY <1>1, <1>5, <1>10 DEF Inv, RunInv, Running
  <2> QED
    BY <1>1, <1>5, <2>1, <2>2 DEF Inv, RunInv, Running
<1>19. RecoveryInv'
  BY <1>1 DEF RecoveryInv, Recovering
<1> QED
  BY <1>9, <1>17, <1>18, <1>19 DEF Inv

(* The flush of the database before the log changes.                        *)
LEMMA CommitStep ==
  ASSUME LogAssumption, Inv, Commit
  PROVE  Inv'
<1>1. /\ pc = "open" /\ pc' = "flushLog" /\ stableDb' = db
      /\ UNCHANGED <<db, log, stableLog, hdr, work, next, lost, doubt>>
  BY DEF Commit, Goto
<1>2. /\ log \in Log /\ stableLog \in Log /\ db \in Db /\ stableDb \in Db
  BY DEF Inv, TypeOK
<1>3. TypeOK'
  BY <1>1 DEF Inv, TypeOK
<1>4. /\ GoesOn(log, db) /\ GoesOn(stableLog, stableDb) /\ DiskBehind
      /\ log.header.last.trans = db.trans => LogSafe
  BY <1>1 DEF Inv, FilesInv, Recovering
<1>5. GoesOn(stableLog, db) /\ PointOf(stableLog, db) = PointOf(log, db)
  <2>1. CASE stableDb = db /\ PointOf(stableLog, db) = PointOf(log, db)
    BY <1>4, <2>1
  <2>2. CASE stableLog.header = log.header /\ log.header.last.trans = db.trans
    <3>1. PointOf(stableLog, db) = PointOf(log, db) /\ LogSafe
      BY <1>4, <2>2 DEF PointOf
    <3>2. \A x \in PointOf(log, db) : x = log.header.last
      <4>1. log.header.last \in PointOf(log, db) /\ Ordered(log.header)
        BY <2>2 DEF PointOf, Inv, FilesInv
      <4> QED
        BY <1>2, <4>1, OnePoint DEF Inv
    <3>3. \A x \in PointOf(log, db) :
            \A i \in 1..x.offset : stableLog.record[i] = log.record[i]
      BY <3>1, <3>2 DEF LogSafe
    <3> QED
      BY <1>2, <1>4, <3>1, <3>3, GoesOnSame
  <2> QED
    BY <1>4, <2>1, <2>2 DEF DiskBehind
<1>6. FilesInv'
  <2>1. PointOf(log, db)' = PointOf(log, db) /\ PointOf(stableLog, db)' = PointOf(stableLog, db)
    BY <1>1
  <2>2. GoesOn(log, db)' /\ GoesOn(stableLog, stableDb)'
    BY <1>1, <1>4, <1>5 DEF GoesOn, PointOf, Recorded
  <2>3. DiskBehind'
    BY <1>1, <1>5, <2>1 DEF DiskBehind
  <2>4. (log.header.last.trans = db.trans => LogSafe)'
    BY <1>1, <1>4 DEF LogSafe
  <2> QED
    BY <1>1, <2>2, <2>3, <2>4 DEF Inv, FilesInv, Recovering, Ordered
<1>7. RunInv'
  BY <1>1 DEF Inv, RunInv, Running, PointOf
<1>8. RecoveryInv'
  BY <1>1 DEF RecoveryInv, Recovering
<1> QED
  BY <1>3, <1>6, <1>7, <1>8 DEF Inv

(* A flush of the log, when the disk has the database already.              *)
LEMMA LogFlushed ==
  ASSUME Inv, pc \notin Recovering, pc' \notin Recovering, stableDb = db,
         UNCHANGED <<db, log, stableDb>>, stableLog' = log
  PROVE  FilesInv' /\ RecoveryInv'
<1>1. GoesOn(log, db) /\ Ordered(log.header)
  BY DEF Inv, FilesInv
<1>2. GoesOn(log', db') /\ GoesOn(stableLog', stableDb')
  BY <1>1
<1>3. Ordered(log'.header) /\ Ordered(stableLog'.header)
  BY <1>1
<1>4. LogSafe' /\ DiskBehind'
  BY DEF LogSafe, DiskBehind
<1> QED
  BY <1>2, <1>3, <1>4 DEF FilesInv, RecoveryInv, Recovering

LEMMA CommitFlushLogStep ==
  ASSUME LogAssumption, Inv, CommitFlushLog
  PROVE  Inv'
<1>1. /\ pc = "flushLog" /\ pc' = "writeLog" /\ stableLog' = log
      /\ UNCHANGED <<db, log, stableDb, hdr, work, next, lost, doubt>>
  BY DEF CommitFlushLog, Goto
<1>2. stableDb = db
  BY <1>1 DEF Inv, RunInv
<1>3. FilesInv' /\ RecoveryInv'
  BY <1>1, <1>2, LogFlushed DEF Recovering
<1>4. TypeOK'
  BY <1>1 DEF Inv, TypeOK
<1>5. RunInv'
  <2>1. hdr.butlast \in PointOf(log, db) /\ PointOf(log, db)' = PointOf(log, db)
    BY <1>1 DEF Inv, RunInv, Running, PointOf
  <2> QED
    BY <1>1, <1>2, <2>1 DEF Inv, RunInv, Running
<1> QED
  BY <1>3, <1>4, <1>5 DEF Inv

LEMMA CommitSyncLogStep ==
  ASSUME LogAssumption, Inv, CommitSyncLog
  PROVE  Inv'
<1>1. /\ pc = "syncLog" /\ pc' = "writeDb" /\ stableLog' = log
      /\ UNCHANGED <<db, log, stableDb, hdr, work, next, lost, doubt>>
  BY DEF CommitSyncLog, Goto
<1>2. stableDb = db
  BY <1>1 DEF Inv, RunInv
<1>3. FilesInv' /\ RecoveryInv'
  BY <1>1, <1>2, LogFlushed DEF Recovering
<1>4. TypeOK'
  BY <1>1 DEF Inv, TypeOK
<1>5. RunInv'
  BY <1>1 DEF Inv, RunInv, Running, PointOf
<1> QED
  BY <1>3, <1>4, <1>5 DEF Inv

(* The header of the log gets a point that no database has yet.             *)
LEMMA CommitWriteLogStep ==
  ASSUME LogAssumption, Inv, CommitWriteLog
  PROVE  Inv'
<1>1. /\ pc = "writeLog" /\ pc' = "syncLog"
      /\ hdr' = [hdr EXCEPT !.last.trans = db.trans + 1]
      /\ log' = [log EXCEPT !.header = hdr']
      /\ stableLog' \in {stableLog, [stableLog EXCEPT !.header = hdr']}
      /\ doubt' = db.changes \o work
      /\ UNCHANGED <<db, stableDb, work, next, lost>>
  BY DEF CommitWriteLog, WriteHeader
<1>2. /\ log \in Log /\ db \in Db /\ hdr \in LogHeader /\ work \in Seq(Change)
      /\ db.trans \in Nat /\ db.changes \in Seq(Change)
  BY DEF Inv, TypeOK, Db
<1>3. stableDb = db /\ stableLog = log /\ hdr.butlast \in PointOf(log, db)
  BY <1>1 DEF Inv, RunInv, Running
<1>4. /\ hdr' \in LogHeader /\ hdr'.butlast = hdr.butlast
      /\ hdr'.last.offset = hdr.last.offset /\ hdr'.last.trans = db.trans + 1
  <2>1. db.trans + 1 \in Nat
    BY <1>2
  <2> QED
    BY <1>1, <1>2, <2>1, TransMoved
<1>5. log' \in Log /\ log'.header = hdr' /\ log'.record = log.record
  BY <1>1, <1>2, <1>4, HeaderWritten
<1>6. /\ stableLog' \in Log /\ stableLog'.record = log.record
      /\ stableLog'.header \in {log.header, hdr'}
  <2>1. CASE stableLog' = [stableLog EXCEPT !.header = hdr']
    BY <1>3, <1>1, <1>5, <2>1
  <2>2. CASE stableLog' = stableLog
    BY <1>2, <1>3, <2>2
  <2> QED
    BY <1>1, <2>1, <2>2
<1>7. doubt' \in Seq(Change)
  BY <1>1, <1>2, ConcatProperties
<1>8. TypeOK'
  BY <1>1, <1>3, <1>4, <1>5, <1>6, <1>7 DEF Inv, TypeOK
<1>9. \A x \in PointOf(log, db) : x = hdr.butlast
  BY <1>1, BaseIsLast DEF Running
<1>10. db.trans + 1 # db.trans /\ hdr.butlast.trans = db.trans
  BY <1>2, <1>3 DEF PointOf
<1>11. PointOf(log', db') = {hdr.butlast} /\ PointOf(stableLog', db') = {hdr.butlast}
       /\ PointOf(log, db) = {hdr.butlast}
  <2>1. PointOf(log, db) = {hdr.butlast}
    BY <1>3, <1>9
  <2>2. PointOf(log', db') = {hdr.butlast}
    BY <1>1, <1>4, <1>5, <1>10 DEF PointOf
  <2>3. PointOf(stableLog', db') \in {PointOf(log, db), PointOf(log', db')}
    BY <1>1, <1>5, <1>6 DEF PointOf
  <2> QED
    BY <2>1, <2>2, <2>3
<1>12. GoesOn(log, db)
  BY <1>1 DEF Inv, FilesInv, Recovering
<1>13. GoesOn(log', db') /\ GoesOn(stableLog', stableDb')
  BY <1>1, <1>2, <1>3, <1>5, <1>6, <1>11, <1>12, GoesOnSame
<1>14. FilesInv'
  <2>1. Ordered(log'.header) /\ Ordered(stableLog'.header)
    BY <1>3, <1>4, <1>5, <1>6, <1>10 DEF Ordered, Inv, FilesInv
  <2>2. DiskBehind'
    BY <1>1, <1>3, <1>11 DEF DiskBehind
  <2> QED
    BY <1>1, <1>4, <1>5, <1>10, <1>13, <2>1, <2>2 DEF FilesInv
<1>15. RunInv'
  <2>1. \A j \in 1..Len(work) : log.record[hdr.butlast.offset + j] = work[j]
    BY <1>1 DEF Inv, RunInv, Running
  <2> QED
    BY <1>1, <1>3, <1>4, <1>5, <1>6, <1>11, <2>1 DEF RunInv
<1>16. RecoveryInv'
  BY <1>1 DEF RecoveryInv, Recovering
<1> QED
  BY <1>8, <1>14, <1>15, <1>16 DEF Inv

(* The header of the database moves it to the last point.                   *)
LEMMA CommitWriteDbStep ==
  ASSUME LogAssumption, Inv, CommitWriteDb
  PROVE  Inv'
<1> DEFINE new == [trans |-> db.trans + 1, changes |-> db.changes \o work]
<1>1. /\ pc = "writeDb" /\ pc' = "syncDb"
      /\ db' = new /\ stableDb' \in {stableDb, new}
      /\ UNCHANGED <<log, stableLog, hdr, work, next, lost, doubt>>
  BY DEF CommitWriteDb, WriteDb, Goto
<1>2. /\ log \in Log /\ db \in Db /\ hdr \in LogHeader /\ work \in Seq(Change)
      /\ db.trans \in Nat /\ db.changes \in Seq(Change)
      /\ hdr.last.offset = hdr.butlast.offset + Len(work)
  BY <1>1 DEF Inv, TypeOK, Db
<1>3. /\ stableDb = db /\ stableLog = log /\ hdr.butlast \in PointOf(log, db)
      /\ log.header = hdr /\ hdr.last.trans = db.trans + 1
      /\ \A j \in 1..Len(work) : log.record[hdr.butlast.offset + j] = work[j]
  BY <1>1 DEF Inv, RunInv, Running
<1>4. /\ new.changes \in Seq(Change) /\ Len(new.changes) = Len(db.changes) + Len(work)
      /\ \A j \in 1..Len(db.changes) + Len(work) :
           new.changes[j] = IF j <= Len(db.changes) THEN db.changes[j]
                            ELSE work[j - Len(db.changes)]
  BY <1>2, ConcatProperties
<1>5. new \in Db /\ new.trans = db.trans + 1
  BY <1>2, <1>4 DEF Db
<1>6. TypeOK'
  BY <1>1, <1>5 DEF Inv, TypeOK
<1>7. Recorded(log, hdr.butlast.offset, db.changes)
  BY <1>1, <1>3 DEF Inv, FilesInv, GoesOn, Recovering
<1>8. Recorded(log, hdr.last.offset, new.changes)
  <2>1. Len(db.changes) = hdr.butlast.offset
    BY <1>7 DEF Recorded
  <2>2. hdr.butlast.offset \in Nat /\ hdr.last.offset \in Nat /\ Len(work) \in Nat
    BY <1>2, HeaderFields
  <2>3. ASSUME NEW i \in 1..hdr.last.offset
        PROVE  log.record[i] = new.changes[i]
    <3>1. i \in 1..Len(db.changes) + Len(work)
      BY <1>2, <2>1
    <3>2. CASE i <= Len(db.changes)
      <4>1. log.record[i] = db.changes[i]
        BY <1>7, <2>1, <2>2, <3>2 DEF Recorded
      <4> QED
        BY <1>4, <3>1, <3>2, <4>1
    <3>3. CASE ~(i <= Len(db.changes))
      <4>1. i - Len(db.changes) \in 1..Len(work) /\ i = hdr.butlast.offset + (i - Len(db.changes))
        BY <1>2, <2>1, <2>2, <3>3
      <4>2. log.record[i] = work[i - Len(db.changes)]
        BY <1>3, <4>1
      <4> QED
        BY <1>4, <3>1, <3>3, <4>2
    <3> QED
      BY <3>2, <3>3
  <2>4. Len(new.changes) = hdr.last.offset
    BY <1>2, <1>4, <2>1
  <2> HIDE DEF new
  <2> QED
    BY <2>3, <2>4 DEF Recorded
<1>9. db.trans + 1 # db.trans /\ hdr.butlast.trans = db.trans
  BY <1>2, <1>3 DEF PointOf
<1> HIDE DEF new
<1>10. PointOf(log, new) = {hdr.last}
  BY <1>3, <1>5, <1>9 DEF PointOf
<1>11. GoesOn(log, new) /\ GoesOn(log, db)
  BY <1>1, <1>8, <1>10 DEF GoesOn, Inv, FilesInv, Recovering
<1>12. FilesInv'
  <2>1. GoesOn(log', db') /\ GoesOn(stableLog', stableDb')
    <3>1. stableLog' = log /\ log' = log /\ db' = new /\ stableDb' \in {db, new}
      BY <1>1, <1>3
    <3> QED
      BY <1>11, <3>1
  <2>2. DiskBehind'
    BY <1>1, <1>3, <1>5 DEF DiskBehind, PointOf
  <2>3. LogSafe'
    BY <1>1, <1>3 DEF LogSafe
  <2> QED
    BY <1>1, <2>1, <2>2, <2>3 DEF Inv, FilesInv
<1>13. RunInv'
  BY <1>1, <1>3 DEF RunInv, Running
<1>14. RecoveryInv'
  BY <1>1 DEF RecoveryInv, Recovering
<1> QED
  BY <1>6, <1>12, <1>13, <1>14 DEF Inv

LEMMA CommitSyncDbStep ==
  ASSUME LogAssumption, Inv, CommitSyncDb
  PROVE  Inv'
<1>1. /\ pc = "syncDb" /\ pc' = "idle" /\ stableDb' = db /\ Abandon
      /\ UNCHANGED <<db, log, stableLog>>
  BY DEF CommitSyncDb, Abandon, Goto
<1>2. stableLog = log /\ GoesOn(log, db)
  BY <1>1 DEF Inv, RunInv, FilesInv, Recovering
<1>3. TypeOK'
  BY <1>1, IdleTyped DEF Inv, TypeOK
<1>4. FilesInv'
  <2>1. GoesOn(log, db)' /\ GoesOn(stableLog, stableDb)' /\ LogSafe' /\ DiskBehind'
    BY <1>1, <1>2 DEF GoesOn, PointOf, Recorded, LogSafe, DiskBehind
  <2> QED
    BY <1>1, <2>1 DEF Inv, FilesInv, Ordered
<1>5. RunInv' /\ RecoveryInv'
  BY <1>1 DEF RunInv, Running, RecoveryInv, Recovering
<1> QED
  BY <1>3, <1>4, <1>5 DEF Inv

LEMMA PowerFailureStep ==
  ASSUME LogAssumption, Inv, PowerFailure
  PROVE  Inv'
<1>1. /\ pc \notin Recovering /\ pc' = "idle" /\ db' = stableDb /\ log' = stableLog
      /\ Abandon /\ UNCHANGED <<stableDb, stableLog>>
  BY DEF PowerFailure, Abandon, Goto, Recovering
<1>2. GoesOn(stableLog, stableDb) /\ Ordered(stableLog.header)
  BY <1>1 DEF Inv, FilesInv
<1>3. TypeOK'
  BY <1>1, IdleTyped DEF Inv, TypeOK
<1>4. FilesInv'
  <2>1. GoesOn(log', db') /\ GoesOn(stableLog', stableDb') /\ LogSafe' /\ DiskBehind'
    BY <1>1, <1>2 DEF LogSafe, DiskBehind
  <2> QED
    BY <1>1, <1>2, <2>1 DEF FilesInv
<1>5. RunInv' /\ RecoveryInv'
  BY <1>1 DEF RunInv, Running, RecoveryInv, Recovering
<1> QED
  BY <1>3, <1>4, <1>5 DEF Inv

-----------------------------------------------------------------------------
(* Recovery.                                                                *)

LEMMA LoseStep ==
  ASSUME LogAssumption, ~LosesInDoubt, Inv, Lose
  PROVE  Inv'
<1>1. /\ pc = "idle" /\ pc' = "lost" /\ lost' = db.changes
      /\ db' = Backup /\ stableDb' = Backup /\ log.header.last.trans = db.trans
      /\ UNCHANGED <<log, stableLog, hdr, work, next, doubt>>
  BY DEF Lose
<1>2. log.header.last \in PointOf(log, db) /\ LogSafe /\ GoesOn(log, db)
  BY <1>1 DEF Inv, FilesInv, Recovering, PointOf
<1>3. Recorded(log, log.header.last.offset, db.changes)
  BY <1>2 DEF GoesOn
<1>4. db.changes \in Seq(Change) /\ Backup \in Db
  BY DEF Inv, TypeOK, Db, Backup
<1>5. TypeOK'
  BY <1>1, <1>4 DEF Inv, TypeOK
<1>6. FilesInv'
  BY <1>1 DEF Inv, FilesInv, Recovering, Ordered
<1>7. RunInv'
  BY <1>1 DEF RunInv, Running
<1>8. RecoveryInv'
  BY <1>1, <1>2, <1>3 DEF RecoveryInv, LogSafe, Recorded
<1> QED
  BY <1>5, <1>6, <1>7, <1>8 DEF Inv

LEMMA RecoverReplayStep ==
  ASSUME LogAssumption, Inv, RecoverReplay
  PROVE  Inv'
<1> DEFINE new == [trans   |-> IF log.header.last = Start THEN db.trans ELSE db.trans + 1,
                   changes |-> Replay(log, log.header.last.offset)]
<1>1. /\ pc = "lost" /\ pc' = "replayed" /\ db' = new /\ stableDb' = new
      /\ UNCHANGED <<log, stableLog, hdr, work, next, lost, doubt>>
  BY DEF RecoverReplay, Goto
<1>2. log \in Log /\ lost \in Seq(Change) /\ db.trans \in Nat
  BY DEF Inv, TypeOK, Db
<1>3. Recorded(log, log.header.last.offset, lost)
  BY <1>1 DEF Inv, RecoveryInv, Recovering
<1>4. Replay(log, log.header.last.offset) = lost
  BY <1>2, <1>3, LogFields, RecordedIs
<1>5. new \in Db /\ new.changes = lost
  BY <1>2, <1>4 DEF Db
<1> HIDE DEF new
<1>6. TypeOK'
  BY <1>1, <1>5 DEF Inv, TypeOK
<1>7. FilesInv'
  BY <1>1 DEF Inv, FilesInv, Recovering, Ordered
<1>8. RunInv'
  BY <1>1 DEF RunInv, Running
<1>9. RecoveryInv'
  BY <1>1, <1>5 DEF Inv, RecoveryInv, LogSafe, Recorded, Recovering
<1> QED
  BY <1>6, <1>7, <1>8, <1>9 DEF Inv

LEMMA RecoverHeaderStep ==
  ASSUME LogAssumption, Inv, RecoverHeader
  PROVE  /\ Inv'
         /\ db'.changes = lost /\ log'.header.last.trans = db'.trans
<1> DEFINE new == [db EXCEPT !.trans = log.header.last.trans]
<1>1. /\ pc = "replayed" /\ pc' = "idle" /\ db' = new /\ stableDb' = new
      /\ UNCHANGED <<log, stableLog, hdr, work, next, lost, doubt>>
  BY DEF RecoverHeader, Goto
<1>2. log \in Log /\ stableLog \in Log /\ lost \in Seq(Change) /\ db \in Db
  BY DEF Inv, TypeOK
<1>3. /\ Recorded(log, log.header.last.offset, lost) /\ LogSafe /\ db.changes = lost
  BY <1>1 DEF Inv, RecoveryInv, Recovering
<1>4. new \in Db /\ new.changes = lost /\ new.trans = log.header.last.trans
  BY <1>2, <1>3, LogFields DEF Db
<1> HIDE DEF new
<1>5. TypeOK'
  BY <1>1, <1>4 DEF Inv, TypeOK
<1>6. log.header.last \in PointOf(log, new)
  BY <1>4 DEF PointOf
<1>7. PointOf(log, new) = {log.header.last}
  BY <1>2, <1>4, <1>6, OnePoint DEF Inv, FilesInv
<1>8. PointOf(stableLog, new) = PointOf(log, new)
  BY <1>3 DEF LogSafe, PointOf
<1>9. GoesOn(log, new)
  BY <1>3, <1>4, <1>7 DEF GoesOn
<1>10. GoesOn(stableLog, new)
  <2>1. \A x \in PointOf(log, new) :
          \A i \in 1..x.offset : stableLog.record[i] = log.record[i]
    BY <1>3, <1>7 DEF LogSafe
  <2> QED
    BY <1>2, <1>4, <1>8, <1>9, <2>1, GoesOnSame
<1>11. FilesInv'
  <2>1. /\ GoesOn(log', db') /\ GoesOn(stableLog', stableDb') /\ stableDb' = db'
        /\ PointOf(stableLog', db') = PointOf(log', db')
    BY <1>1, <1>8, <1>9, <1>10
  <2>2. LogSafe'
    BY <1>1, <1>3 DEF LogSafe
  <2> QED
    BY <1>1, <2>1, <2>2 DEF Inv, FilesInv, Ordered, DiskBehind
<1>12. RunInv' /\ RecoveryInv'
  BY <1>1 DEF RunInv, Running, RecoveryInv, Recovering
<1> QED
  BY <1>1, <1>4, <1>5, <1>11, <1>12 DEF Inv

LEMMA RecoverAgainStep ==
  ASSUME LogAssumption, Inv, RecoverAgain
  PROVE  Inv'
<1>1. /\ pc = "replayed" /\ pc' = "lost" /\ db' = Backup /\ stableDb' = Backup
      /\ UNCHANGED <<log, stableLog, hdr, work, next, lost, doubt>>
  BY DEF RecoverAgain, Goto
<1>2. Backup \in Db
  BY DEF Db, Backup
<1>3. TypeOK'
  BY <1>1, <1>2 DEF Inv, TypeOK
<1>4. FilesInv'
  BY <1>1 DEF Inv, FilesInv, Recovering, Ordered
<1>5. RunInv' /\ RecoveryInv'
  BY <1>1 DEF Inv, RunInv, Running, RecoveryInv, Recovering, LogSafe, Recorded
<1> QED
  BY <1>3, <1>4, <1>5 DEF Inv

LEMMA InvStep ==
  ASSUME LogAssumption, ~LosesInDoubt, Inv, [Next]_vars
  PROVE  Inv'
<1>1. CASE UNCHANGED vars
  <2>1. UNCHANGED <<pc, db, log, stableDb, stableLog, hdr, work, next, lost, doubt>>
    BY <1>1 DEF vars, files
  <2>2. TypeOK'
    BY <2>1 DEF Inv, TypeOK
  <2>3. FilesInv'
    BY <2>1 DEF Inv, FilesInv, Recovering, Ordered, GoesOn, PointOf, Recorded, LogSafe, DiskBehind
  <2>4. RunInv' /\ RecoveryInv'
    BY <2>1 DEF Inv, RunInv, Running, RecoveryInv, Recovering, LogSafe, Recorded, PointOf
  <2> QED
    BY <2>2, <2>3, <2>4 DEF Inv
<1> QED
  BY <1>1, BeginStep, WriteStep, CancelStep, CommitStep, CommitFlushLogStep,
     CommitWriteLogStep, CommitSyncLogStep, CommitWriteDbStep, CommitSyncDbStep,
     PowerFailureStep, LoseStep, RecoverReplayStep, RecoverHeaderStep, RecoverAgainStep
     DEF Next

LEMMA Invariance ==
  ASSUME LogAssumption, ~LosesInDoubt
  PROVE  Spec => []Inv
<1>1. Init => Inv
  BY InvInit
<1>2. Inv /\ [Next]_vars => Inv'
  BY InvStep
<1> QED
  BY <1>1, <1>2, PTL DEF Spec

-----------------------------------------------------------------------------
(* The variables have their types, and the records of the transaction that  *)
(* runs lie between the two points of its header.                           *)
THEOREM LogTypes ==
  ASSUME LogAssumption, ~LosesInDoubt
  PROVE  Spec => []TypeOK
<1>1. Inv => TypeOK
  BY DEF Inv
<1> QED
  BY <1>1, Invariance, PTL

(* A log of any size can go on with its database whenever the power fails:  *)
(* initialize_transaction finds a point for it, and the records before that *)
(* point are what was done to the database.                                 *)
THEOREM LogIsRight ==
  ASSUME LogAssumption, ~LosesInDoubt
  PROVE  Spec => []LogMatches
<1>1. Inv => LogMatches
  <2> SUFFICES ASSUME Inv, pc \notin Recovering,
                      NEW f \in {<<log, db>>, <<stableLog, stableDb>>}
               PROVE  /\ PointOf(f[1], f[2]) # {}
                      /\ \A x \in PointOf(f[1], f[2]) : Replay(f[1], x.offset) = f[2].changes
    BY DEF LogMatches, Recovering
  <2>1. f[1] \in Log /\ f[2] \in Db /\ f[2].changes \in Seq(Change)
    BY DEF Inv, TypeOK, Db
  <2>2. GoesOn(f[1], f[2])
    BY DEF Inv, FilesInv
  <2>3. \A x \in PointOf(f[1], f[2]) : x.offset \in 0..MaxLog
    BY <2>1, PointFields
  <2> QED
    BY <2>1, <2>2, <2>3, RecordedIs DEF GoesOn
<1> QED
  BY <1>1, Invariance, PTL

(* db_recover makes the database again that was lost, from the backup and a *)
(* log that ends with the last transaction of that database.                *)
THEOREM RecoveryIsRight ==
  ASSUME LogAssumption, ~LosesInDoubt
  PROVE  Spec => RecoveryIsExact
<1> DEFINE Exact == pc = "replayed" /\ pc' = "idle" =>
                      /\ db'.changes = lost
                      /\ log'.header.last.trans = db'.trans
<1>1. Inv /\ [Next]_vars => [Exact]_vars
  <2> SUFFICES ASSUME Inv, Next, pc = "replayed", pc' = "idle"
               PROVE  db'.changes = lost /\ log'.header.last.trans = db'.trans
    OBVIOUS
  <2>1. RecoverHeader
    BY DEF Next, Begin, Write, Cancel, Stop, Commit, CommitFlushLog, CommitWriteLog,
       CommitSyncLog, CommitWriteDb, CommitSyncDb, PowerFailure, Lose, RecoverReplay,
       RecoverAgain, Goto
  <2> QED
    BY <2>1, RecoverHeaderStep
<1> QED
  BY <1>1, Invariance, PTL DEF Spec, RecoveryIsExact
=============================================================================
