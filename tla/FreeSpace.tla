------------------------------ MODULE FreeSpace ------------------------------
(***************************************************************************)
(* What super.c promises to the transactions, which is how DbTransact sees  *)
(* it: the free blocks of the file are a set, a block is taken from it as   *)
(* long as there is one and from the end of the file otherwise, and the     *)
(* chunks of a rollback chain go back to it, or are cut off the file.       *)
(***************************************************************************)
EXTENDS Integers

CONSTANT Limit        \* largest value of top (LINK'max)

CONSTANT None         \* no release is going on
VARIABLES
  top,      \* free_space_link
  free,     \* the free blocks before it
  chunks,   \* the chunks of the rollback chain: first block and size
  before,   \* top, free and chunks before the release of the chain, or None
  full      \* the last call has reported that there is no block

vars == <<top, free, chunks, before, full>>

Blocks(c) == c.first..c.first + c.size - 1
Kept(cs)  == UNION {Blocks(c) : c \in cs}

Now == [top |-> top, free |-> free, chunks |-> chunks]

Init == /\ top = 1 /\ free = {} /\ chunks = {} /\ before = None
        /\ full = FALSE

Take ==
  /\ before = None /\ UNCHANGED <<chunks, before>>
  /\ \/ /\ \E b \in free : free' = free \ {b} /\ top' = top
        /\ full' = FALSE
     \/ free = {} /\ top < Limit /\ top' = top + 1 /\ free' = free /\ full' = FALSE
     \/ free = {} /\ top = Limit /\ UNCHANGED <<top, free>> /\ full' = TRUE

Give ==
  /\ before = None
  /\ \E b \in 1..top - 1 : /\ b \notin free \cup Kept(chunks)
                           /\ free' = free \cup {b}
  /\ UNCHANGED <<top, chunks, before>>

Keep ==
  /\ before = None
  /\ top' \in top + 1..Limit
  /\ chunks' = chunks \cup {[first |-> top, size |-> top' - top]}
  /\ UNCHANGED <<free, before>>

(* A chunk is cut off again before the release.                             *)
Drop ==
  /\ before = None
  /\ \E c \in chunks : /\ c.first + c.size = top /\ top' = c.first
                       /\ chunks' = chunks \ {c}
  /\ UNCHANGED <<free, before>>

Start == before = None /\ before' = Now /\ UNCHANGED <<top, free, chunks>>

(* The newest chunk is the last one of the file.                            *)
Release ==
  /\ before # None
  /\ \E c \in chunks :
       /\ \A d \in chunks : d.first <= c.first
       /\ chunks' = chunks \ {c}
       /\ IF c.first + c.size = top
          THEN \E e \in 1..c.first : /\ e..c.first - 1 \subseteq free
                                     /\ top' = e /\ free' = free \ (e..c.first - 1)
          ELSE top' = top /\ free' = free \cup Blocks(c)
  /\ UNCHANGED before

Done   == /\ before # None /\ chunks = {} /\ before' = None
          /\ UNCHANGED <<top, free, chunks>>

(* A crash, and the release starts again.                                   *)
Again  == /\ before # None /\ before' = before
          /\ top' = before.top /\ free' = before.free /\ chunks' = before.chunks

Next == Take \/ (full' = FALSE /\ (Give \/ Keep \/ Drop \/ Start \/ Release \/ Done \/ Again))

Spec == Init /\ [][Next]_vars
=============================================================================
