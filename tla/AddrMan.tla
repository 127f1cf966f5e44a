------------------------------ MODULE AddrMan ------------------------------
(***************************************************************************)
(* libraries/c4rt/src/addrman.c: the allocator of virtual address ranges   *)
(* behind c4_memobj_region_map.  A region of Pages pages is cut into       *)
(* vnodes; the layout tree orders all of them by offset, the free_nodes    *)
(* tree orders the free ones by size.  A vnode is named by its offset.     *)
(*                                                                         *)
(* The trees are andtree.c's: here a set of vnodes that can be asked for   *)
(* its members in key order.  Which of several free vnodes of the best     *)
(* size is found depends on the tree's shape, so any of them may be.       *)
(*                                                                         *)
(* Callers ask for at least one byte and free what they were given once;   *)
(* addrman.c takes both on trust (its asserts are commented out).          *)
(***************************************************************************)
EXTENDS Integers

CONSTANTS Pages,      \* the pages of the region
          PageSize,   \* bytes in a page
          MaxBytes    \* bound: the largest request

ASSUME PagesAssumption    == Pages \in Nat \ {0}
ASSUME PageSizeAssumption == PageSize \in Nat \ {0}
ASSUME MaxBytesAssumption == MaxBytes \in Nat

NoNode == -1          \* NULL
Offsets == 0 .. Pages - 1

VARIABLES layout,      \* the offsets of the vnodes in the layout tree
          free_nodes,  \* the offsets of the vnodes in the free_nodes tree
          size,        \* vnode -> its size in pages
          is_free,     \* the vnodes whose is_free flag is set
          temp,        \* the vnode free_vnode's loop is merging, or NoNode
          held         \* what callers hold: pairs <<offset, pages>>

vars == <<layout, free_nodes, size, is_free, temp, held>>

(* c4rt_vaddr_region_create: one free vnode covers the region. *)
c4rt_vaddr_region_create ==
  /\ layout = {0}
  /\ free_nodes = {0}
  /\ size = [o \in Offsets |-> IF o = 0 THEN Pages ELSE 0]
  /\ is_free = {0}

Init ==
  /\ c4rt_vaddr_region_create
  /\ temp = NoNode
  /\ held = {}

(* The bytes of a request rounded up to whole pages. *)
pages_of(bytes) ==
  bytes \div PageSize + (IF bytes % PageSize # 0 THEN 1 ELSE 0)

(* andtree_find_at_least on free_nodes: the smallest vnode that is enough. *)
find_at_least(node, pages) ==
  /\ node \in free_nodes
  /\ size[node] >= pages
  /\ \A m \in free_nodes : size[m] >= pages => size[node] <= size[m]

(* Mutant of split_vnode: an exact fit stays on the free list. *)
split_vnode_kept(node, pages) ==
  LET rest == node + pages IN
  IF pages # size[node]
  THEN /\ free_nodes' = (free_nodes \ {node}) \cup {rest}
       /\ layout' = layout \cup {rest}
       /\ size' = [size EXCEPT ![node] = pages, ![rest] = size[node] - pages]
       /\ is_free' = (is_free \ {node}) \cup {rest}
  ELSE UNCHANGED <<layout, free_nodes, size, is_free>>

(* Takes node off the free list and, if it is larger than asked, cuts it    *)
(* in two: the rest becomes a free vnode of its own.                        *)
split_vnode(node, pages) ==
  LET rest == node + pages IN
  IF pages # size[node]
  THEN /\ free_nodes' = (free_nodes \ {node}) \cup {rest}
       /\ layout' = layout \cup {rest}
       /\ size' = [size EXCEPT ![node] = pages, ![rest] = size[node] - pages]
       /\ is_free' = (is_free \ {node}) \cup {rest}
  ELSE /\ free_nodes' = free_nodes \ {node}
       /\ is_free' = is_free \ {node}
       /\ UNCHANGED <<layout, size>>

(* The vnode found is cut to size, and becomes the caller's. *)
alloc_vnode(node, pages) ==
  /\ temp = NoNode
  /\ find_at_least(node, pages)
  /\ split_vnode(node, pages)
  /\ held' = held \cup {<<node, pages>>}
  /\ UNCHANGED temp

c4rt_vaddr_alloc(bytes) == \E node \in Offsets : alloc_vnode(node, pages_of(bytes))

(* No free vnode is large enough: the caller gets NULL. *)
c4rt_vaddr_alloc_fails(bytes) ==
  /\ temp = NoNode
  /\ \A node \in free_nodes : size[node] < pages_of(bytes)
  /\ UNCHANGED vars

(* The vnode at the address goes back on the free list and free_vnode's     *)
(* loop starts from it; nobody looks whether it was free already.           *)
give_back(offset) ==
  /\ is_free' = is_free \cup {offset}
  /\ free_nodes' = free_nodes \cup {offset}
  /\ held' = held \ {<<offset, size[offset]>>}
  /\ temp' = offset
  /\ UNCHANGED <<layout, size>>

c4rt_vaddr_free(offset) ==
  /\ temp = NoNode
  /\ <<offset, size[offset]>> \in held
  /\ offset \in layout
  /\ give_back(offset)

(* No vnode starts at the address: find_key returns NULL and nothing is     *)
(* freed.                                                                   *)
c4rt_vaddr_free_unknown(offset) ==
  /\ temp = NoNode
  /\ offset \notin layout
  /\ UNCHANGED vars

(* andtree_previous and andtree_next in the layout tree. *)
Previous(p, node) == /\ p \in layout /\ p < node
                     /\ \A q \in layout : q < node => q <= p
Following(n, node) == /\ n \in layout /\ node < n
                      /\ \A q \in layout : node < q => n <= q

Mergeable(a, b) == a \in is_free /\ b \in is_free

(* try_merge of two neighbours: upper disappears into lower. *)
try_merge(lower, upper) ==
  /\ layout' = layout \ {upper}
  /\ free_nodes' = (free_nodes \ {lower, upper}) \cup {lower}
  /\ size' = [size EXCEPT ![lower] = size[lower] + size[upper]]
  /\ temp' = lower
  /\ UNCHANGED <<is_free, held>>

(* Mutant of PreviousFree and NextFree: that side is never merged. *)
NeverFree == FALSE

PreviousFree == \E p \in layout : Previous(p, temp) /\ Mergeable(p, temp)
NextFree     == \E n \in layout : Following(n, temp) /\ Mergeable(temp, n)

(* One turn of free_vnode's loop: merge with the previous vnode, else with  *)
(* the next one, else stop.                                                 *)
MergePrevious ==
  /\ temp # NoNode
  /\ \E p \in layout : /\ Previous(p, temp) /\ Mergeable(p, temp)
                       /\ try_merge(p, temp)

MergeNext ==
  /\ temp # NoNode
  /\ ~PreviousFree
  /\ \E n \in layout : /\ Following(n, temp) /\ Mergeable(temp, n)
                       /\ try_merge(temp, n)

MergeDone ==
  /\ temp # NoNode
  /\ ~PreviousFree /\ ~NextFree
  /\ temp' = NoNode
  /\ UNCHANGED <<layout, free_nodes, size, is_free, held>>

free_vnode == MergePrevious \/ MergeNext \/ MergeDone

Next ==
  \/ \E bytes \in 1 .. MaxBytes :
       c4rt_vaddr_alloc(bytes) \/ c4rt_vaddr_alloc_fails(bytes)
  \/ \E offset \in Offsets :
       c4rt_vaddr_free(offset) \/ c4rt_vaddr_free_unknown(offset)
  \/ free_vnode

(* A free that has started is finished by the thread that called it. *)
Spec == Init /\ [][Next]_vars /\ WF_vars(free_vnode)

-----------------------------------------------------------------------------
(* Offsets stay inside the region and no vnode outgrows it. *)
TypeOK ==
  /\ layout \subseteq Offsets
  /\ free_nodes \subseteq Offsets
  /\ size \in [Offsets -> 0 .. Pages]
  /\ is_free \subseteq Offsets
  /\ temp \in Offsets \cup {NoNode}
  /\ held \subseteq Offsets \X (1 .. Pages)

(* The vnodes of the layout tree tile the region: each is non-empty, ends   *)
(* where the next begins or at the end of the region, and every page is in  *)
(* one.                                                                     *)
Tiling ==
  /\ \A o \in layout :
       /\ size[o] > 0
       /\ o + size[o] \in layout \cup {Pages}
       /\ \A p \in layout : o < p => o + size[o] <= p
  /\ \A g \in Offsets : \E o \in layout : o <= g /\ g < o + size[o]

(* The two trees agree: free_nodes holds exactly the free vnodes of layout  *)
(* (the asserts addrman.c has commented out), and the others are exactly    *)
(* what callers hold.                                                       *)
TreesAgree ==
  /\ free_nodes = layout \cap is_free
  /\ held = {<<o, size[o]>> : o \in layout \ is_free}
  /\ temp # NoNode => temp \in free_nodes

(* Two free vnodes are neighbours only while one of them is being merged.   *)
Coalesced ==
  \A o \in free_nodes :
    o + size[o] \in free_nodes => temp \in {o, o + size[o]}

(* Between calls, an allocation fails only when callers hold a page of      *)
(* every run that long: freed neighbours are always usable as one.          *)
NoFalseExhaustion ==
  temp = NoNode =>
    \A first \in Offsets, length \in 1 .. Pages :
      /\ first + length <= Pages
      /\ \A r \in held : first + length <= r[1] \/ r[1] + r[2] <= first
      => \E o \in free_nodes : size[o] >= length

Runs == INSTANCE RegionAlloc WITH Units <- Pages

(* Callers are given disjoint runs inside the region. *)
IsRegionAlloc == Runs!Spec
=============================================================================
