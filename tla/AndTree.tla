------------------------------ MODULE AndTree ------------------------------
(***************************************************************************)
(* libraries/c4rt/src/andtree.c: the balanced search tree (an Andersson    *)
(* tree) that addrman.c orders its vnodes with and connman.c finds its     *)
(* clients with.                                                           *)
(*                                                                         *)
(* A node is named by the data it carries.  andtree_remove moves the data  *)
(* of a neighbour into the removed node and frees the neighbour's node, so *)
(* there the node changes its name.  Nil is both NULL and the sentinel,    *)
(* whose level is 0 and whose leaves are itself; rotate also writes the    *)
(* sentinel's parent, which nothing reads.                                 *)
(***************************************************************************)
EXTENDS Integers, FiniteSets, Sequences

CONSTANTS Data,      \* what can be stored
          get_key,   \* data -> key
          Key,       \* the keys that are looked up
          Half       \* 2^31: an int is in -Half .. Half - 1

Nil == 0
Int32 == -Half .. Half - 1

ASSUME DataAssumption == IsFiniteSet(Data) /\ Nil \notin Data
ASSUME KeyAssumption  == Key \subseteq Int32 /\ get_key \in [Data -> Key]

(* The difference of two keys must be an int: what andtree_compare takes    *)
(* on trust.  Offsets and sizes in pages are such keys.                     *)
ASSUME CompareAssumption == \A j, k \in Key : j - k \in Int32

VARIABLE tree   \* [root, nodes, node]

LEFT == 1
RIGHT == 2
Opposite(dir) == 3 - dir

Unused == [parent |-> Nil, leaves |-> <<Nil, Nil>>, level |-> 0]

andtree_init ==
  tree = [root |-> Nil, nodes |-> 0, node |-> [n \in Data \cup {Nil} |-> Unused]]

is_nil(t, n) == t.node[n].level = 0
level(t, n) == t.node[n].level
leaf(t, n, dir) == t.node[n].leaves[dir]
parent(t, n) == t.node[n].parent

andtree_compare(key, n) == key - get_key[n]

(* Descending from a node: equal keys are looked for to the left. *)
direction(diff) == IF diff <= 0 THEN LEFT ELSE RIGHT

-----------------------------------------------------------------------------
(* Lookups. *)

RECURSIVE find_outermost(_, _, _)
find_outermost(t, n, dir) ==
  IF is_nil(t, leaf(t, n, dir)) THEN n ELSE find_outermost(t, leaf(t, n, dir), dir)

find_min_node(t, n) == IF is_nil(t, n) THEN Nil ELSE find_outermost(t, n, LEFT)
find_max_node(t, n) == IF is_nil(t, n) THEN Nil ELSE find_outermost(t, n, RIGHT)

RECURSIVE find_from(_, _, _)
find_from(t, n, key) ==
  IF is_nil(t, n) \/ andtree_compare(key, n) = 0 THEN n
  ELSE find_from(t, leaf(t, n, direction(andtree_compare(key, n))), key)

andtree_find_key(t, key) == find_from(t, t.root, key)

(* Mutant of andtree_find_dupe_data: searches one side of an equal key. *)
RECURSIVE find_dupe_left(_, _, _)
find_dupe_left(t, n, data) ==
  IF is_nil(t, n) \/ n = data THEN n
  ELSE find_dupe_left(t, leaf(t, n, direction(andtree_compare(get_key[data], n))),
                      data)

(* Among equal keys both sides have to be searched. *)
RECURSIVE andtree_find_dupe_data(_, _, _)
andtree_find_dupe_data(t, n, data) ==
  LET diff == andtree_compare(get_key[data], n)
      down(dir) == andtree_find_dupe_data(t, leaf(t, n, dir), data)
  IN  IF is_nil(t, n) \/ n = data THEN n
      ELSE IF diff = 0 /\ down(LEFT) # Nil THEN down(LEFT)
      ELSE IF diff = 0 /\ down(RIGHT) # Nil THEN down(RIGHT)
      ELSE down(direction(diff))

andtree_find_data(t, data) ==
  LET top == find_from(t, t.root, get_key[data])
  IN  andtree_find_dupe_data(t, top, data)

RECURSIVE do_find_at_least(_, _, _)
do_find_at_least(t, n, key) ==
  LET diff == andtree_compare(key, n)
      found == do_find_at_least(t, leaf(t, n, direction(diff)), key)
  IN  IF is_nil(t, n) \/ diff = 0 THEN n
      ELSE IF diff < 0 /\ ~(found # Nil /\ andtree_compare(key, found) > diff)
           THEN n ELSE found

andtree_find_at_least(t, key) == do_find_at_least(t, t.root, key)

(* Up through the parents while the way up comes from the dir side. *)
RECURSIVE climb(_, _, _, _)
climb(t, last, p, dir) ==
  IF ~is_nil(t, p) /\ leaf(t, p, dir) = last THEN climb(t, p, parent(t, p), dir)
  ELSE p

andtree_next(t, n) ==
  LET right == find_min_node(t, leaf(t, n, RIGHT))
  IN  IF right # Nil THEN right ELSE climb(t, n, parent(t, n), RIGHT)

andtree_previous(t, n) ==
  LET left == find_max_node(t, leaf(t, n, LEFT))
  IN  IF left # Nil THEN left ELSE climb(t, n, parent(t, n), LEFT)

-----------------------------------------------------------------------------
(* Rotations. *)

parentside(t, n) == IF leaf(t, parent(t, n), LEFT) # n THEN RIGHT ELSE LEFT

SetParent(t, n, p) == IF n = Nil THEN t ELSE [t EXCEPT !.node[n].parent = p]

replace_in_parent(t, n, value) ==
  LET p == parent(t, n)
      hung == IF p = Nil THEN t
              ELSE [t EXCEPT !.node[p].leaves[parentside(t, n)] = value]
  IN  SetParent(hung, value, p)

(* The node that rises is leaf(t, n, Opposite(dir)). *)
rotate(t, n, dir) ==
  LET temp == leaf(t, n, Opposite(dir))
      inner == leaf(t, temp, dir)
      t1 == [t EXCEPT !.node[n].leaves[Opposite(dir)] = inner,
                      !.node[temp].leaves[dir] = n]
      t2 == replace_in_parent(SetParent(t1, inner, n), n, temp)
  IN  [t2 EXCEPT !.node[n].parent = temp,
                 !.root = IF @ = n THEN temp ELSE @]

(* andtree_skew and andtree_split give back the tree and the node on top. *)
RECURSIVE andtree_skew(_, _)
andtree_skew(t, n) ==
  LET ret == leaf(t, n, LEFT)
      turned == rotate(t, n, RIGHT)
  IN  IF is_nil(t, n) \/ level(t, ret) # level(t, n) THEN <<t, n>>
      ELSE <<andtree_skew(turned, leaf(turned, ret, RIGHT))[1], ret>>

RECURSIVE andtree_split(_, _)
andtree_split(t, n) ==
  LET ret == leaf(t, n, RIGHT)
      turned == [rotate(t, n, LEFT) EXCEPT !.node[ret].level = @ + 1]
  IN  IF is_nil(t, n) \/ level(t, leaf(t, ret, RIGHT)) # level(t, n)
      THEN <<t, n>>
      ELSE <<andtree_split(turned, leaf(turned, ret, RIGHT))[1], ret>>

-----------------------------------------------------------------------------
(* Insertion: an equal key goes to the right. *)

RECURSIVE BinInsertAt(_, _, _)
BinInsertAt(t, temp, n) ==
  LET dir == IF andtree_compare(get_key[n], temp) < 0 THEN LEFT ELSE RIGHT
  IN  IF is_nil(t, leaf(t, temp, dir))
      THEN [t EXCEPT !.node[temp].leaves[dir] = n, !.node[n].parent = temp]
      ELSE BinInsertAt(t, leaf(t, temp, dir), n)

andtree_bin_insert(t, n) ==
  IF is_nil(t, t.root) THEN [t EXCEPT !.root = n] ELSE BinInsertAt(t, t.root, n)

RECURSIVE andtree_insert_repair(_, _)
andtree_insert_repair(t, n) ==
  LET skewed == andtree_skew(t, n)
      split == andtree_split(skewed[1], skewed[2])
  IN  IF n = Nil THEN t
      ELSE andtree_insert_repair(split[1], parent(split[1], split[2]))

make_andnode(t, n) == [t EXCEPT !.node[n] = [Unused EXCEPT !.level = 1]]

InsertInto(t, n) ==
  [andtree_insert_repair(andtree_bin_insert(make_andnode(t, n), n), n)
     EXCEPT !.nodes = @ + 1]

-----------------------------------------------------------------------------
(* Removal. *)

do_remove_node(t, n, replacement) ==
  LET cut == replace_in_parent(t, n, replacement)
  IN  [cut EXCEPT !.root = IF @ = n THEN replacement ELSE @,
                  !.nodes = @ - 1,
                  !.node[n] = Unused]

(* node->data = data: the node goes by its new data's name. *)
SetData(t, n, data) ==
  LET as(x) == IF x = n THEN data ELSE x
      moved(nd) == [nd EXCEPT !.parent = as(@),
                              !.leaves = <<as(@[1]), as(@[2])>>]
  IN  [t EXCEPT !.root = as(@),
                !.node = [x \in DOMAIN t.node |->
                            IF x = data THEN moved(t.node[n])
                            ELSE IF x = n THEN Unused ELSE moved(t.node[x])]]

(* Mutant of RepairLevels: without the second split and skew, the ones the  *)
(* comment in andtree_remove_repair cannot explain.                         *)
RepairLevels_once(t, n) ==
  LET lowered == [t EXCEPT !.node[n].level = @ - 1]
      right == leaf(t, n, RIGHT)
      capped == IF level(lowered, right) > level(lowered, n)
                THEN [lowered EXCEPT !.node[right].level = level(lowered, n)]
                ELSE lowered
      skewed == andtree_skew(capped, n)
  IN  andtree_split(skewed[1], skewed[2])

(* One turn of the loop that repairs levels on the way up from a removal.   *)
RepairLevels(t, n) ==
  LET lowered == [t EXCEPT !.node[n].level = @ - 1]
      right == leaf(t, n, RIGHT)
      capped == IF level(lowered, right) > level(lowered, n)
                THEN [lowered EXCEPT !.node[right].level = level(lowered, n)]
                ELSE lowered
      skewed == andtree_skew(capped, n)
      split == andtree_split(skewed[1], skewed[2])
      again == andtree_split(split[1], leaf(split[1], split[2], LEFT))
  IN  andtree_skew(again[1], split[2])

RECURSIVE RepairUp(_, _)
RepairUp(t, n) ==
  LET low == \E dir \in {LEFT, RIGHT} : level(t, leaf(t, n, dir)) < level(t, n) - 1
      fixed == IF low THEN RepairLevels(t, n) ELSE <<t, n>>
  IN  IF is_nil(t, n) THEN t ELSE RepairUp(fixed[1], parent(fixed[1], fixed[2]))

(* The node's place is taken by its predecessor, or else its successor.     *)
andtree_remove_repair(t, n) ==
  LET before == find_max_node(t, leaf(t, n, LEFT))
      successor == IF before # Nil THEN before
                   ELSE find_min_node(t, leaf(t, n, RIGHT))
      child == IF is_nil(t, leaf(t, successor, LEFT))
               THEN leaf(t, successor, RIGHT) ELSE leaf(t, successor, LEFT)
      from == parent(t, successor)
  IN  IF successor = Nil
      THEN RepairUp(do_remove_node(t, n, Nil), parent(t, n))
      ELSE RepairUp(SetData(do_remove_node(t, successor, child), n, successor),
                    IF from = n THEN successor ELSE from)

-----------------------------------------------------------------------------
Present == {d \in Data : ~is_nil(tree, d)}

(* Callers insert each datum once. *)
andtree_insert(d) ==
  /\ d \notin Present
  /\ tree' = InsertInto(tree, d)

(* Mutant of andtree_remove_data: takes any datum with the key. *)
remove_any_data(d) ==
  LET n == andtree_find_key(tree, get_key[d]) IN
  tree' = IF n = Nil THEN tree ELSE andtree_remove_repair(tree, n)

andtree_remove_data(d) ==
  LET n == andtree_find_data(tree, d) IN
  tree' = IF n = Nil THEN tree ELSE andtree_remove_repair(tree, n)

andtree_remove_key(key) ==
  LET n == andtree_find_key(tree, key) IN
  tree' = IF n = Nil THEN tree ELSE andtree_remove_repair(tree, n)

Init == andtree_init

Next == \/ \E d \in Data : andtree_insert(d) \/ andtree_remove_data(d)
        \/ \E key \in Key : andtree_remove_key(key)

Spec == Init /\ [][Next]_tree

-----------------------------------------------------------------------------
(* The data below a node from left to right. *)
RECURSIVE InOrder(_)
InOrder(n) ==
  IF n = Nil THEN <<>>
  ELSE InOrder(leaf(tree, n, LEFT)) \o <<n>> \o InOrder(leaf(tree, n, RIGHT))

(* Every node in use hangs in the tree exactly once, below the node its     *)
(* parent field names, and tree->nodes counts them: rotations and removals  *)
(* keep both directions of every link (next and previous climb parents).    *)
(* The sentinel is untouched: rotate would turn it into a node if it ever   *)
(* took it for one.                                                         *)
Linked ==
  LET walk == InOrder(tree.root) IN
  /\ tree.node[Nil] = Unused
  /\ Len(walk) = tree.nodes
  /\ tree.nodes = Cardinality(Present)
  /\ {walk[i] : i \in DOMAIN walk} = Present
  /\ \A n \in Present :
       /\ parent(tree, n) = Nil <=> n = tree.root
       /\ \A dir \in {LEFT, RIGHT} :
            leaf(tree, n, dir) # Nil => parent(tree, leaf(tree, n, dir)) = n

(* The levels of an Andersson tree, which bound its depth by twice the      *)
(* logarithm of its size.  Stronger than check_tree, which lets a node      *)
(* above level 1 lack a child.                                              *)
Balanced ==
  \A n \in Present :
    LET l == level(tree, n) IN
    /\ level(tree, leaf(tree, n, LEFT)) = l - 1
    /\ level(tree, leaf(tree, n, RIGHT)) \in {l - 1, l}
    /\ level(tree, leaf(tree, leaf(tree, n, RIGHT), RIGHT)) < l

(* Insertions and removals with their rotations leave a linked and balanced *)
(* tree.                                                                    *)
WellFormed == Linked /\ Balanced

(* Every lookup answers what a search of the plain set would: the key, the  *)
(* very datum even among equal keys, the least key that is enough.          *)
LookupsAgree ==
  LET keys == {get_key[d] : d \in Present} IN
  /\ \A d \in Data :
       andtree_find_data(tree, d) = IF d \in Present THEN d ELSE Nil
  /\ \A k \in Key :
       LET found == andtree_find_key(tree, k)
           least == andtree_find_at_least(tree, k)
       IN  /\ found = Nil <=> k \notin keys
           /\ found # Nil => get_key[found] = k
           /\ least = Nil <=> \A j \in keys : j < k
           /\ least # Nil => /\ get_key[least] >= k
                             /\ \A j \in keys : j >= k => get_key[least] <= j

(* The tree is in key order and next and previous step through it, ending   *)
(* with nil at both ends: addrman.c finds a vnode's neighbours this way.    *)
WalksInOrder ==
  LET walk == InOrder(tree.root)
      at(i) == IF i \in DOMAIN walk THEN walk[i] ELSE Nil
  IN  \A i \in DOMAIN walk :
        /\ i > 1 => get_key[walk[i - 1]] <= get_key[walk[i]]
        /\ andtree_next(tree, walk[i]) = at(i + 1)
        /\ andtree_previous(tree, walk[i]) = at(i - 1)

(* To its users the tree is a sorted set: every lookup and every walk       *)
(* agrees with the data that were inserted and not removed.                 *)
IsSortedSet == LookupsAgree /\ WalksInOrder

(* A removal takes out one datum, the one named or one with the key named,  *)
(* and an insertion adds one: copying data between nodes loses no other.    *)
RemovesOnlyOne ==
  [][/\ Cardinality(Present \ Present') <= 1
     /\ Present' \subseteq Present \/ Present \subseteq Present'
     /\ \A d \in Data :
          andtree_remove_data(d) /\ d \in Present => Present' = Present \ {d}]_tree
=============================================================================
