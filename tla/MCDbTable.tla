------------------------------ MODULE MCDbTable ------------------------------
EXTENDS DbTable, TLC

CONSTANTS n1, n2, i1, i2, i3, fa, fb, t1

Names      == {n1, n2}
IndexNames == {i1, i2, i3}
Fields     == {fa, fb}

NoRecords == [x \in DataBlock |-> None]
OneTable(index) ==
  [t \in TableBlock |-> IF t = t1 THEN [name |-> n1, index |-> index, root |-> NoRoots] ELSE NoTable]

(* One table without records, with an index in each slot that stay, or with *)
(* a free slot between two, or with one index; or no table.                 *)
Full == [i \in Slot |-> CASE i = 1 -> [name |-> i1, fields |-> {fa}]
                         [] i = 2 -> [name |-> i2, fields |-> {fa, fb}]
                         [] OTHER -> [name |-> i3, fields |-> {fb}]]
Gap  == [Full EXCEPT ![1] = Full[2], ![2] = None]

One  == [Full EXCEPT ![1] = None, ![2] = None]

GapStarts   == {[tables |-> OneTable(Gap), data |-> NoRecords, left |-> 1]}
TableStarts == GapStarts \cup
  {[tables |-> OneTable(Full), data |-> NoRecords, left |-> 0],
   [tables |-> [t \in TableBlock |-> NoTable], data |-> NoRecords, left |-> 1],
   [tables |-> OneTable(One), data |-> NoRecords, left |-> 1]}

Symmetry == Permutations(DataBlock) \cup Permutations(Process)
=============================================================================
