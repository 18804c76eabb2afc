------------------------------ MODULE MCDbTree ------------------------------
EXTENDS DbTree

ThirtyKeys == 1..30

(* Bytes of a key by itself with the link to its record, and behind another *)
(* key: the keys of a group of three share one byte, the byte that says how *)
(* many are shared takes its place.                                         *)
Wide       == {3, 4, 6, 9, 11, 12, 14, 16, 19, 23, 25, 27}
FirstBytes == [k \in ThirtyKeys |-> IF k \in Wide THEN 9 ELSE 2]
BehindBytes ==
  [jk \in {p \in ThirtyKeys \X ThirtyKeys : p[1] < p[2]} |->
     FirstBytes[jk[2]] + (IF (jk[1] - 1) \div 3 = (jk[2] - 1) \div 3 THEN 0 ELSE 1)]

(* All thirty keys inserted in steps of s.  The steps and pools are such    *)
(* that deletions make nodes too large at every place where that can happen *)
(* in three levels.                                                         *)
InSteps(s, keys) == [todo |-> [i \in 1..30 |-> (s * i) % 31], pool |-> keys]

FromEmpty  == [todo |-> <<>>, pool |-> {3, 4, 5, 6, 9, 11, 12, 14}]
TreeStarts == {FromEmpty,
               InSteps(1, {5, 7, 14, 19}), InSteps(16, {1, 5, 7, 10}),
               InSteps(28, {5, 7, 8, 26}), InSteps(9, {5, 7, 9, 14, 18})}
=============================================================================
