---------------------------- MODULE MCDbTransact ----------------------------
(***************************************************************************)
(* The bounds of the runs of DbTransact: how many changes, cache-full       *)
(* flushes, I/O errors, process crashes and power failures happen.          *)
(***************************************************************************)
EXTENDS DbTransactProps

NoBudget == [e \in Event |-> 0]

(* Two blocks, used or free, and a budget.                                  *)
Small(budget) ==
  {[free |-> 3, super |-> s, left |-> budget] : s \in SUBSET (1..2)}

(* A database that is almost as large as it can be.                         *)
Full == [free |-> NBlocks - 1, super |-> {}, left |-> [NoBudget EXCEPT !.op = 2]]

(* One with room for the first chunk of a flush and not for the second.     *)
HalfFull == [free |-> NBlocks - 4, super |-> {},
             left |-> [NoBudget EXCEPT !.op = 2, !.flush = 1, !.power = 1]]

Power    == [NoBudget EXCEPT !.op = 2, !.flush = 2, !.power = 1]
Faulty   == [NoBudget EXCEPT !.op = 2, !.flush = 2, !.fault = 1, !.kill = 1]
Repeated == [NoBudget EXCEPT !.op = 2, !.flush = 1, !.power = 2]
Mixed    == [NoBudget EXCEPT !.op = 2, !.kill = 1, !.power = 1]

FailureStarts  == Small(Power) \cup Small(Faulty) \cup {Full, HalfFull}
RecoveryStarts == Small(Repeated)
DoubleStarts   == Small(Mixed)
=============================================================================
