----------------------------- MODULE OrderedIndex -----------------------------
(***************************************************************************)
(* What a B-tree promises to the record commands (src/lib/db/cmd.c): a set  *)
(* of keys without duplicates, in which an insertion finds the record that  *)
(* already has the key and a deletion the record that has it.               *)
(***************************************************************************)
EXTENDS Integers

CONSTANT Key

VARIABLES
  keys,    \* the keys of the index
  reply    \* what the last call returned

vars == <<keys, reply>>

Insert(k) ==
  \/ k \notin keys /\ keys' = keys \cup {k} /\ reply' = "ok"
  \/ k \in keys /\ keys' = keys /\ reply' = "record_exists"

Remove(k) ==
  \/ k \in keys /\ keys' = keys \ {k} /\ reply' = "ok"
  \/ k \notin keys /\ keys' = keys /\ reply' = "record_not_found"

Init == keys \subseteq Key /\ reply = "ok"

Next == \E k \in Key : Insert(k) \/ Remove(k)

Spec == Init /\ [][Next]_vars
=============================================================================
