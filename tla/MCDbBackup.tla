----------------------------- MODULE MCDbBackup -----------------------------
(***************************************************************************)
(* The bounds of the runs of DbBackup.                                      *)
(***************************************************************************)
EXTENDS DbBackup, TLC

NoBudget == [e \in Event |-> 0]

Snapshot == [NoBudget EXCEPT !.begin = 2, !.write = 2, !.backup = 1, !.other = 1]
Twice    == [NoBudget EXCEPT !.begin = 1, !.write = 2, !.backup = 2, !.other = 1]
Ends     == [NoBudget EXCEPT !.begin = 2, !.write = 2, !.backup = 1, !.other = 1, !.fault = 1]
OneClose == [NoBudget EXCEPT !.begin = 2, !.write = 1, !.backup = 1, !.close = 1]

BackupBudgets   == {Snapshot, Twice, OneClose}
EndsBudgets     == {Ends}
CancelsBudgets  == {OneClose}

Symmetry == Permutations(Thread) \cup Permutations(Value)
=============================================================================
