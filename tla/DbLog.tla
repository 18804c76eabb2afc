-------------------------------- MODULE DbLog --------------------------------
(***************************************************************************)
(* The logging file of a database (src/lib/db/transact.c, writelog.c,       *)
(* dbfile.c): every change is recorded, and a database that is lost with    *)
(* its disk is made again from a backup and the recorded changes.           *)
(*                                                                         *)
(* The two files are on two disks.  A commit writes the header of the log   *)
(* and then the header of the database, and a crash can come in between.    *)
(* DbTransact shows that the database changes as a whole when its header is *)
(* written; here it is the number of its last transaction with the list of  *)
(* all changes.  A record of the log takes one place.                       *)
(***************************************************************************)
EXTENDS Integers, Sequences

CONSTANTS
  MaxLog,      \* places for records in the log (2 GB in the code)
  MaxChange,   \* changes that are made at all
  LosesInDoubt \* the database may be lost while the log ends with a
               \* transaction that the database does not have

ASSUME LogAssumption ==
  MaxLog \in Nat /\ MaxChange \in Nat /\ LosesInDoubt \in BOOLEAN

Change == 1..MaxChange
Point  == [trans: Nat, offset: 0..MaxLog]
LogHeader == [butlast: Point, last: Point]
Log    == [header: LogHeader, record: [1..MaxLog -> Change \cup {0}]]
Db     == [trans: Nat, changes: Seq(Change)]

VARIABLES
  pc,      \* where the library is
  db, log,               \* the files as the operating system returns them
  stableDb, stableLog,   \* the files as the disks have them
  hdr,     \* p.log_header
  work,    \* changes of the transaction that runs
  next,    \* number of the next change
  lost,    \* ghost: the changes of the database that was lost
  doubt    \* ghost: the changes with those of the commit that wrote the
           \* header of the log last

files == <<db, log, stableDb, stableLog>>
vars  == <<pc, files, hdr, work, next, lost, doubt>>

Start  == [trans |-> 0, offset |-> 0]    \* log_header.first
Backup == [trans |-> 0, changes |-> <<>>]
NewLog == [header |-> [butlast |-> Start, last |-> Start],
           record |-> [i \in 1..MaxLog |-> 0]]

Init ==
  /\ pc = "idle" /\ db = Backup /\ stableDb = Backup
  /\ log = NewLog /\ stableLog = NewLog /\ hdr = NewLog.header
  /\ work = <<>> /\ next = 1 /\ lost = <<>> /\ doubt = <<>>

(* A write may reach the disk at any time before the flush, or not.         *)
WriteDb(d) == db' = d /\ stableDb' \in {stableDb, d}
WriteHeader(h) ==
  /\ log' = [log EXCEPT !.header = h]
  /\ stableLog' \in {stableLog, [stableLog EXCEPT !.header = h]}
WriteRecord(i, c) ==
  /\ log' = [log EXCEPT !.record[i] = c]
  /\ stableLog' \in {stableLog, [stableLog EXCEPT !.record[i] = c]}

Goto(l)  == pc' = l /\ UNCHANGED <<next, lost, doubt>>
Abandon  == Goto("idle") /\ hdr' = NewLog.header /\ work' = <<>>

(* What the log says a database had after the records before an offset.     *)
Replay(l, offset) == Backup.changes \o SubSeq(l.record, 1, offset)

-----------------------------------------------------------------------------
(* initialize_transaction: which of its last two points the database has.   *)

(* Faulty: tries the last point first, and keeps the other as it is.        *)
BeginAtLast ==
  /\ pc = "idle" /\ Goto("open") /\ work' = <<>>
  /\ LET h == log.header
     IN  \/ h.last.trans = db.trans /\ hdr' = h
         \/ /\ h.last.trans # db.trans /\ h.butlast.trans = db.trans
            /\ hdr' = [h EXCEPT !.last = h.butlast]
  /\ UNCHANGED files

Begin ==
  /\ pc = "idle" /\ Goto("open") /\ work' = <<>>
  /\ LET h == log.header
     IN  \/ /\ h.butlast.trans = db.trans
            /\ hdr' = [h EXCEPT !.last = h.butlast]
         \/ /\ h.butlast.trans # db.trans /\ h.last.trans = db.trans
            /\ hdr' = [h EXCEPT !.butlast = h.last]
  /\ UNCHANGED files

(* A command that changes the database, and write_logging_data for it.      *)
Write ==
  /\ pc = "open" /\ next <= MaxChange /\ hdr.last.offset < MaxLog
  /\ WriteRecord(hdr.last.offset + 1, next)
  /\ hdr' = [hdr EXCEPT !.last.offset = @ + 1]
  /\ work' = Append(work, next) /\ next' = next + 1
  /\ UNCHANGED <<pc, db, stableDb, lost, doubt>>

(* The transaction is rolled back, or an error ends it (E_LOGGING_OVERFLOW, *)
(* a write or a flush that fails) before the header of the database is      *)
(* written, or the process is killed: what is in memory is gone.            *)
Cancel ==
  /\ pc \in {"open", "flushLog", "writeLog", "syncLog", "writeDb"}
  /\ Abandon /\ UNCHANGED files

(* The same when that header is written and not yet flushed.                *)
Stop == pc = "syncDb" /\ Abandon /\ UNCHANGED files

(* precommit_transaction, of a transaction that has changed something.      *)
Commit ==
  /\ pc = "open" /\ work # <<>>
  /\ Goto("flushLog") /\ stableDb' = db
  /\ UNCHANGED <<db, log, stableLog, hdr, work>>

CommitFlushLog ==
  /\ pc = "flushLog" /\ Goto("writeLog") /\ stableLog' = log
  /\ UNCHANGED <<db, log, stableDb, hdr, work>>

CommitWriteLog ==
  /\ pc = "writeLog" /\ pc' = "syncLog" /\ doubt' = db.changes \o work
  /\ hdr' = [hdr EXCEPT !.last.trans = db.trans + 1]
  /\ WriteHeader(hdr') /\ UNCHANGED <<db, stableDb, work, next, lost>>

(* Faulty: the log is not on its disk before the database.                  *)
CommitUnsynced ==
  /\ pc = "syncLog" /\ Goto("writeDb")
  /\ UNCHANGED <<files, hdr, work>>

CommitSyncLog ==
  /\ pc = "syncLog" /\ Goto("writeDb") /\ stableLog' = log
  /\ UNCHANGED <<db, log, stableDb, hdr, work>>

CommitWriteDb ==
  /\ pc = "writeDb" /\ Goto("syncDb")
  /\ WriteDb([trans |-> db.trans + 1, changes |-> db.changes \o work])
  /\ UNCHANGED <<log, stableLog, hdr, work>>

CommitSyncDb ==
  /\ pc = "syncDb" /\ Abandon /\ stableDb' = db
  /\ UNCHANGED <<db, log, stableLog>>

(* Only what is on the disks stays.                                         *)
PowerFailure ==
  /\ pc \notin {"lost", "replayed"}
  /\ Abandon /\ db' = stableDb /\ log' = stableLog
  /\ UNCHANGED <<stableDb, stableLog>>

-----------------------------------------------------------------------------
(* The database is lost, the backup restored, and db_recover called; when   *)
(* that is interrupted it begins again with the backup.                     *)

Lose ==
  /\ pc = "idle"
  /\ LosesInDoubt \/ log.header.last.trans = db.trans
  /\ pc' = "lost" /\ lost' = db.changes
  /\ db' = Backup /\ stableDb' = Backup
  /\ UNCHANGED <<log, stableLog, hdr, work, next, doubt>>

(* All records in one transaction.  A log without records changes nothing.  *)
RecoverReplay ==
  /\ pc = "lost" /\ db.trans = Start.trans
  /\ Goto("replayed")
  /\ db' = [trans   |-> IF log.header.last = Start THEN db.trans ELSE db.trans + 1,
            changes |-> Replay(log, log.header.last.offset)]
  /\ stableDb' = db'
  /\ UNCHANGED <<log, stableLog, hdr, work>>

(* Faulty: the number of the transaction stays.                             *)
RecoverHeaderKept ==
  /\ pc = "replayed" /\ Goto("idle")
  /\ UNCHANGED <<files, hdr, work>>

RecoverHeader ==
  /\ pc = "replayed" /\ Goto("idle")
  /\ db' = [db EXCEPT !.trans = log.header.last.trans] /\ stableDb' = db'
  /\ UNCHANGED <<log, stableLog, hdr, work>>

RecoverAgain ==
  /\ pc = "replayed" /\ Goto("lost")
  /\ db' = Backup /\ stableDb' = Backup
  /\ UNCHANGED <<log, stableLog, hdr, work>>

-----------------------------------------------------------------------------
Next ==
  \/ Begin \/ Write \/ Cancel \/ Stop
  \/ Commit \/ CommitFlushLog \/ CommitWriteLog \/ CommitSyncLog
  \/ CommitWriteDb \/ CommitSyncDb
  \/ PowerFailure
  \/ Lose \/ RecoverReplay \/ RecoverHeader \/ RecoverAgain

Spec == Init /\ [][Next]_vars

-----------------------------------------------------------------------------
(* Types of the variables, and where the offsets are: the records of the    *)
(* transaction that runs lie between the last two points.                   *)
TypeOK ==
  /\ pc \in {"idle", "open", "flushLog", "writeLog", "syncLog", "writeDb",
             "syncDb", "lost", "replayed"}
  /\ db \in Db /\ stableDb \in Db /\ log \in Log /\ stableLog \in Log
  /\ hdr \in LogHeader /\ {work, lost, doubt} \subseteq Seq(Change)
  /\ next \in 1..MaxChange + 1
  /\ \A h \in {hdr, log.header, stableLog.header} : h.butlast.offset <= h.last.offset
  /\ pc \notin {"idle", "lost", "replayed"} =>
       hdr.last.offset = hdr.butlast.offset + Len(work)

(* The point at which the log has the database d, if any (initialize_       *)
(* transaction looks for it, transact.c:320).                               *)
PointOf(l, d) == {x \in {l.header.butlast, l.header.last} : x.trans = d.trans}

(* Whenever the power may fail, the log has a point for the database, and   *)
(* the records up to it are what was done to the database: neither          *)
(* E_MISMATCHING_LOG_FILE nor a log that is silently wrong, however commits *)
(* are cut off, cancelled and repeated over the same places.                *)
LogMatches ==
  pc \notin {"lost", "replayed"} =>
    \A f \in {<<log, db>>, <<stableLog, stableDb>>} :
      /\ PointOf(f[1], f[2]) # {}
      /\ \A x \in PointOf(f[1], f[2]) : Replay(f[1], x.offset) = f[2].changes

(* db_recover brings back the database that was lost (dbfile.c:351), and    *)
(* the next transaction goes on with the same log.                          *)
RecoveryIsExact ==
  [][pc = "replayed" /\ pc' = "idle" =>
       /\ db'.changes = lost
       /\ log'.header.last.trans = db'.trans]_vars

(* db-manual.txt:40-43 and :91-94: the database that the log makes, should  *)
(* the other disk crash now, has no change of a transaction that was        *)
(* cancelled: it is the one on the disk, or that of the commit that runs or *)
(* was cut off last.                                                        *)
LogIsDatabase ==
  pc = "idle" => Replay(log, log.header.last.offset) \in {db.changes, doubt}
=============================================================================
