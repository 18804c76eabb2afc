-------------------------------- MODULE DbTree --------------------------------
(***************************************************************************)
(* The B-tree of an index (src/lib/db/badd.c, bdelete.c, bsearch.c): keys   *)
(* are inserted and deleted by functions that call themselves for the child *)
(* of a node, and a deletion may make a node too large.                     *)
(*                                                                         *)
(* A step is what such a function does with one node on the way down, or on *)
(* the way back up.  The lock of the database is held until the call ends,  *)
(* and what it changes reaches the file as DbTransact says: no other call   *)
(* sees the nodes in between.                                               *)
(***************************************************************************)
EXTENDS DbNode, FiniteSets

CONSTANT
  Starts      \* what the runs begin with: keys to insert one after the other
              \* and keys to insert and delete from then on

ASSUME StartAssumption ==
  \A s \in Starts : s.todo \in Seq(Key) /\ s.pool \subseteq Key

VARIABLES
  root,      \* index_root_link
  node,      \* the nodes in the blocks that are allocated
  todo,      \* the keys that this behaviour begins with
  pool,      \* the keys that it inserts and deletes then
  status,    \* what the last call returned
  op,        \* the call that is running
  key,       \* its key
  path,      \* the nodes it has open, each with the place where it went on
  back,      \* what the function for the node below the last of them returned
  item,      \* emergeant: the item it sends up when it has split a node
  found,     \* the node of the path that has the key, when it is not a leaf
  smallest,  \* replacement_item: the key that extract_smallest has found
  before     \* what a rollback restores

tree == <<root, node>>
call == <<op, key, path, back, item, found, smallest, before>>
vars == <<root, node, todo, pool, status, call>>

-----------------------------------------------------------------------------
(* Blocks.                                                                  *)
Put(t, b, n) == [c \in DOMAIN t \cup {b} |-> IF c = b THEN n ELSE t[c]]
Drop(t, b)   == [c \in DOMAIN t \ {b} |-> t[c]]

(* allocate_block.                                                          *)
Fresh(t) ==
  CHOOSE b \in 1..Cardinality(DOMAIN t) + 1 :
    /\ b \notin DOMAIN t
    /\ \A c \in 1..b - 1 : c \in DOMAIN t

NoItem == [key |-> 0, child |-> 0]

(* What the function for a node leaves and returns.                         *)
Kept(t, b, n) == [nodes |-> Put(t, b, n), back |-> "fits", item |-> NoItem, errors |-> {}]

Small(t, b, n) ==
  [Kept(t, b, n) EXCEPT !.back = IF Underflows(n) THEN "small" ELSE "fits"]

(* The large node becomes the nodes b and c and an item between them.       *)
PartedAs(t, b, c, s) ==
  [nodes |-> Put(Put(t, b, s.left), c, s.right), back |-> "split",
   item |-> [s.item EXCEPT !.child = c], errors |-> s.errors]

Parted(t, b, c, large) == PartedAs(t, b, c, Split(large))

(* Faulty: compares with the size of the buffer the node is built in.       *)
StoredHuge(t, b, large) ==
  IF Bytes(large) <= 2 * Capacity THEN Kept(t, b, large) ELSE Parted(t, b, Fresh(t), large)

(* insert_item_in_node, when the node with the item is built.               *)
Stored(t, b, large) ==
  IF Bytes(large) <= Capacity THEN Kept(t, b, large) ELSE Parted(t, b, Fresh(t), large)

(* As handle_underflow does it: and whether the node is too small.          *)
Restored(t, b, large) ==
  IF Bytes(large) <= Capacity THEN Small(t, b, large) ELSE Stored(t, b, large)

WithErrors(r, errors) == [r EXCEPT !.errors = @ \cup errors]

-----------------------------------------------------------------------------
(* handle_underflow: the child behind the first i items of n is too small.  *)
(* n is the node of block b, but t does not have it yet, and it may be too  *)
(* large.                                                                   *)

(* Faulty: the block of the node that is gone stays allocated.              *)
MergedKept(t, b, n, j, large) == Small(Put(t, Child(n, j), large), b, Deleted(n, j))

(* The right node is merged into the left one.                              *)
Merged(t, b, n, j, large) ==
  Small(Drop(Put(t, Child(n, j), large), Child(n, j + 1)), b, Deleted(n, j))

(* Both nodes get half of their items, another item goes to the father.     *)
Rebalanced(r, b, n, j) ==
  WithErrors(Restored(r.nodes, b, Inserted(Deleted(n, j), j, <<r.item>>)), r.errors)

HandledWith(t, b, n, j, large) ==
  IF Bytes(large) <= Capacity THEN Merged(t, b, n, j, large)
  ELSE Rebalanced(Parted(t, Child(n, j), Child(n, j + 1), large), b, n, j)

HandledAt(t, b, n, j) ==
  HandledWith(t, b, n, j, Catenated(t[Child(n, j)], n.items[j + 1], t[Child(n, j + 1)]))

HandleUnderflow(t, b, n, i) ==
  HandledAt(t, b, n, IF i = Len(n.items) THEN i - 1 ELSE i)

(* replace_by_smallest, when the smallest key behind item i is known: the   *)
(* key takes the item's place, with what that has done to the child.        *)
Replaced(n, i, k, more) ==
  Inserted(Deleted(n, i - 1), i - 1, <<[key |-> k, child |-> n.items[i].child]>> \o more)

(* Faulty: nobody splits the node.                                          *)
FittedNever(r, b) == r

(* The node may be too large even after a merge has taken an item out of it.*)
Fitted(r, b) ==
  IF Bytes(r.nodes[b]) <= Capacity THEN r
  ELSE WithErrors(Stored(r.nodes, b, r.nodes[b]), r.errors)

ReplaceBySmallest(t, b, n, i) ==
  Fitted(IF back = "small" THEN HandleUnderflow(t, b, Replaced(n, i, smallest, <<>>), i)
         ELSE Small(t, b, Replaced(n, i, smallest, IF back = "split" THEN <<item>> ELSE <<>>)),
         b)

-----------------------------------------------------------------------------
(* A call begins and ends.                                                  *)
Idle == op = "none"

Nothing == [root |-> 0, node |-> [b \in {} |-> 0]]

Begin(o, k) ==
  /\ Idle
  /\ op' = o /\ key' = k /\ before' = [root |-> root, node |-> node]
  /\ UNCHANGED <<tree, pool, status, path, back, item, found, smallest>>

Add(k) ==
  /\ Begin("add", k)
  /\ \/ todo # <<>> /\ k = Head(todo) /\ todo' = Tail(todo)
     \/ todo = <<>> /\ k \in pool /\ UNCHANGED todo

Delete(k) == Begin("delete", k) /\ todo = <<>> /\ k \in pool /\ UNCHANGED todo

End(s) ==
  /\ status' = s /\ UNCHANGED <<todo, pool>>
  /\ op' = "none" /\ key' = 0 /\ path' = <<>> /\ back' = "none" /\ item' = NoItem
  /\ found' = 0 /\ smallest' = 0 /\ before' = Nothing

(* The function for a node returns; its caller has an error or goes on.     *)
Return(r, p, f, s) ==
  IF r.errors # {} THEN End("error") /\ root' = before.root /\ node' = before.node
  ELSE /\ node' = r.nodes /\ back' = r.back /\ item' = r.item
       /\ path' = p /\ found' = f /\ smallest' = s
       /\ UNCHANGED <<root, todo, pool, status, op, key, before>>

GoOn(p, f) ==
  /\ path' = p /\ found' = f
  /\ UNCHANGED <<tree, todo, pool, status, op, key, back, item, smallest, before>>

-----------------------------------------------------------------------------
(* The way down.                                                            *)
Open == path[Len(path)]
Upper == SubSeq(path, 1, Len(path) - 1)

(* fils: the block below the nodes that are open.                           *)
Fils == IF path = <<>> THEN root ELSE Child(node[Open.block], Open.place)

Going(o) == op = o /\ back = "none" /\ found = 0
HasKey   == Fils # 0 /\ Found(node[Fils], key)
Place0   == Before(node[Fils], key)

Into(i) == Append(path, [block |-> Fils, place |-> i])

Descend ==
  /\ Going("add") \/ Going("delete")
  /\ Fils # 0 /\ ~HasKey
  /\ GoOn(Into(Place0), 0)

(* recursive_add.                                                           *)
AddExists == Going("add") /\ HasKey /\ End("record_exists") /\ UNCHANGED tree

AddHere ==
  /\ Going("add") /\ Fils = 0
  /\ back' = "split" /\ item' = [key |-> key, child |-> 0]
  /\ UNCHANGED <<tree, todo, pool, status, op, key, path, found, smallest, before>>

(* recursive_delete.                                                        *)
DeleteMissing == Going("delete") /\ Fils = 0 /\ End("record_not_found") /\ UNCHANGED tree

Shortened(i) == Small(node, Fils, Deleted(node[Fils], i))

DeleteHere ==
  /\ Going("delete") /\ HasKey /\ node[Fils].next0 = 0
  /\ Return(Shortened(Place0), path, 0, 0)

DeleteInner ==
  /\ Going("delete") /\ HasKey /\ node[Fils].next0 # 0
  /\ GoOn(Into(Place0 + 1), Len(path) + 1)

(* extract_smallest.                                                        *)
Extracting == op = "delete" /\ back = "none" /\ found # 0

ExtractDeeper == Extracting /\ node[Fils].next0 # 0 /\ GoOn(Into(0), found)

ExtractHere ==
  /\ Extracting /\ node[Fils].next0 = 0
  /\ Return(Shortened(0), path, found, node[Fils].items[1].key)

-----------------------------------------------------------------------------
(* The way up.                                                              *)
AtFound == path # <<>> /\ Len(path) = found

PassItem ==
  /\ back = "split" /\ path # <<>> /\ ~AtFound
  /\ Return(Stored(node, Open.block,
                   Inserted(node[Open.block], Open.place, <<item>>)),
            Upper, found, smallest)

PassSmall ==
  /\ back = "small" /\ path # <<>> /\ ~AtFound
  /\ Return(HandleUnderflow(node, Open.block, node[Open.block], Open.place),
            Upper, found, smallest)

PassUp == back = "fits" /\ found # 0 /\ ~AtFound /\ GoOn(Upper, found)

Replace ==
  /\ back # "none" /\ AtFound
  /\ Return(ReplaceBySmallest(node, Open.block, node[Open.block], Open.place), Upper, 0, 0)

(* Nothing is left to do for the nodes above.                               *)
Done == back = "fits" /\ found = 0 /\ End("ok") /\ UNCHANGED tree

(* The tree gets a new level.                                               *)
NewRoot ==
  /\ back = "split" /\ path = <<>>
  /\ End("ok")
  /\ root' = Fresh(node)
  /\ node' = Put(node, Fresh(node), [next0 |-> root, items |-> <<item>>])

(* An empty root gives way to its only child, or to nothing.                *)
SmallRoot ==
  /\ back = "small" /\ path = <<>>
  /\ End("ok")
  /\ IF Bytes(node[root]) <= Link
     THEN root' = node[root].next0 /\ node' = Drop(node, root)
     ELSE UNCHANGED tree

-----------------------------------------------------------------------------
Init ==
  /\ \E s \in Starts : todo = s.todo /\ pool = s.pool
  /\ root = Nothing.root /\ node = Nothing.node /\ status = "ok"
  /\ op = "none" /\ key = 0 /\ path = <<>> /\ back = "none" /\ item = NoItem
  /\ found = 0 /\ smallest = 0 /\ before = Nothing

Down == Descend \/ AddExists \/ AddHere \/ DeleteMissing \/ DeleteHere \/ DeleteInner
          \/ ExtractDeeper \/ ExtractHere

Up == PassItem \/ PassSmall \/ PassUp \/ Replace \/ Done \/ NewRoot \/ SmallRoot

Next == (\E k \in Key : Add(k) \/ Delete(k)) \/ Down \/ Up

Spec == Init /\ [][Next]_vars

-----------------------------------------------------------------------------
(* search_btree: the record to return "so far" is kept while the search     *)
(* goes down.  Probe keys are 0 and above all keys for DB_FIRST and DB_LAST.*)
Mode == {"smaller", "equal", "equal_or_smaller", "larger", "equal_or_larger"}

Leftwards(mode)  == mode \in {"smaller", "equal_or_smaller"}
Rightwards(mode) == mode \in {"larger", "equal_or_larger"}

(* Faulty: forgets what a node further up had.                              *)
BestHere(n, j, best) == IF j \in 1..Len(n.items) THEN n.items[j].key ELSE 0

Best(n, j, best) == IF j \in 1..Len(n.items) THEN n.items[j].key ELSE best

(* One round of the loop, in node n behind whose first i items k belongs.   *)
SearchNode(n, i, k, mode, best) ==
  IF Found(n, k)
  THEN CASE mode = "smaller" -> [fils |-> Child(n, i), best |-> Best(n, i, best)]
         [] mode = "larger"  -> [fils |-> Child(n, i + 1), best |-> Best(n, i + 2, best)]
         [] OTHER            -> [fils |-> 0, best |-> k]
  ELSE [fils |-> Child(n, i),
        best |-> CASE Leftwards(mode)  -> Best(n, i, best)
                   [] Rightwards(mode) -> Best(n, i + 1, best)
                   [] OTHER            -> best]

SearchRound(s, k, mode) ==
  IF s.fils = 0 THEN s
  ELSE SearchNode(node[s.fils], Before(node[s.fils], k), k, mode, s.best)

Search(k, mode) ==
  LET at[l \in 0..Cardinality(DOMAIN node)] ==
        IF l = 0 THEN [fils |-> root, best |-> 0] ELSE SearchRound(at[l - 1], k, mode)
  IN  at[Cardinality(DOMAIN node)].best

-----------------------------------------------------------------------------
(* Every variable has its type, and what is in the file fits there.         *)
TypeOK ==
  /\ root \in Block \cup {0} /\ pool \subseteq Key /\ todo \in Seq(Key)
  /\ DOMAIN node \subseteq Block /\ \A b \in DOMAIN node : node[b] \in Node
  /\ \A b \in DOMAIN node : Bytes(node[b]) <= Capacity
  /\ status \in {"ok", "record_exists", "record_not_found", "error"}
  /\ op \in {"none", "add", "delete"} /\ key \in Key \cup {0}
  /\ path \in Seq([block : Block, place : Nat]) /\ found \in 0..Len(path)
  /\ back \in {"none", "fits", "small", "split"} /\ item \in Item \cup {NoItem}
  /\ smallest \in Key \cup {0}

Levels == 0..Cardinality(DOMAIN node)

(* The nodes l levels below block b.                                        *)
Level(b, l) ==
  LET at[i \in Levels] ==
        IF i = 0 THEN {b} \ {0}
        ELSE UNION {Children(node[c]) : c \in at[i - 1] \cap DOMAIN node}
  IN  at[l]

Subtree(b) == UNION {Level(b, l) : l \in Levels}

(* Every node has at least one item, and a child before, between and behind *)
(* its items or none at all, and all leaves are on one level: compute_fils  *)
(* reads an item before it tests for the end of the node, handle_underflow  *)
(* has a node beside the one that is too small.  The keys of a node are in  *)
(* their order, and the keys below a child are between its neighbours.      *)
WellFormed ==
  Idle =>
    /\ \A b \in DOMAIN node :
         LET n == node[b]
         IN  /\ n.items # <<>>
             /\ \A i \in 1..Len(n.items) : (n.items[i].child = 0) = (n.next0 = 0)
             /\ \A i \in 2..Len(n.items) : n.items[i - 1].key < n.items[i].key
             /\ \A i \in 0..Len(n.items) : \A c \in Subtree(Child(n, i)) :
                  \A k \in KeysIn(node[c]) : InGap(n, i, k)
    /\ \A l \in Levels : \A b, c \in Level(root, l) : (node[b].next0 = 0) = (node[c].next0 = 0)

(* No block of an index is lost or used twice, whatever is split or merged. *)
NoNodeLost ==
  Idle =>
    /\ DOMAIN node = Subtree(root)
    /\ \A b, c \in DOMAIN node : b # c => Children(node[b]) \cap Children(node[c]) = {}
    /\ \A b \in DOMAIN node : node[b].next0 # 0 =>
         \A i, j \in 0..Len(node[b].items) : i # j => Child(node[b], i) # Child(node[b], j)

(* badd.c:709-716, fs.h:55: a node that is too large has three items and a  *)
(* place to be split, and fits into the buffer it is built in.              *)
NoInternalError == status # "error"

Contents(t) == UNION {KeysIn(t[b]) : b \in DOMAIN t}

Largest(set)  == IF set = {} THEN 0 ELSE CHOOSE m \in set : \A c \in set : c <= m
Smallest(set) == IF set = {} THEN 0 ELSE CHOOSE m \in set : \A c \in set : m <= c

(* Best key for a mode by definition, 0 if there is none.                   *)
Wanted(keys, k, mode) ==
  CASE mode = "equal"            -> IF k \in keys THEN k ELSE 0
    [] mode = "smaller"          -> Largest({c \in keys : c < k})
    [] mode = "equal_or_smaller" -> Largest({c \in keys : c <= k})
    [] mode = "larger"           -> Smallest({c \in keys : c > k})
    [] mode = "equal_or_larger"  -> Smallest({c \in keys : c >= k})

(* A search in any mode, for a key that is there or not, finds what a walk  *)
(* through all of the keys would.                                           *)
SearchesAgree ==
  Idle => \A k \in Key \cup {0}, mode \in Mode :
            Search(k, mode) = Wanted(Contents(node), k, mode)

Index == INSTANCE OrderedIndex
           WITH keys <- Contents(IF Idle THEN node ELSE before.node), reply <- status

(* The tree is the set of keys that the insertions and deletions make.      *)
ImplementsIndex == Index!Spec
=============================================================================
