----------------------------- MODULE AtomicStore -----------------------------
(***************************************************************************)
(* What the transactions of the database promise, without blocks, caches    *)
(* or rollback chains: a database that changes in one step when a           *)
(* transaction commits, and a crash that leaves either what was committed   *)
(* last or, as long as the last commit is not known to be on the device,    *)
(* what was there before it.                                                *)
(***************************************************************************)
CONSTANT State         \* the states of the database

VARIABLES
  db,     \* the committed database, as the next transaction will see it
  prev,   \* what a power failure may bring back; db once the commit is safe
  work,   \* the database as the open transaction has changed it; db if none is
  open    \* a transaction is open

vars == <<db, prev, work, open>>

Init == /\ db \in State /\ prev = db /\ work = db
        /\ open = FALSE

Begin  == /\ ~open /\ open' = TRUE
          /\ work' = db /\ prev' = db /\ db' = db
Change == /\ open /\ work' \in State /\ UNCHANGED <<db, prev, open>>
Commit == /\ open /\ open' = FALSE
          /\ db' = work /\ prev' = db /\ work' = work
Abort  == /\ open /\ open' = FALSE
          /\ work' = db /\ UNCHANGED <<db, prev>>
Sync   == /\ ~open /\ prev' = db /\ UNCHANGED <<db, work, open>>
PowerFailure == /\ open' = FALSE
                /\ db' \in {db, prev} /\ prev' = db' /\ work' = db'

Next == Begin \/ Change \/ Commit \/ Abort \/ Sync \/ PowerFailure

Spec == Init /\ [][Next]_vars
=============================================================================
