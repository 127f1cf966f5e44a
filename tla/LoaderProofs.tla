---------------------------- MODULE LoaderProofs ----------------------------
(***************************************************************************)
(* The address allocator (AddrMan), and a program's memory objects and the *)
(* programs it spawns, proved for every region, layout of pages, set of    *)
(* files and of calls that the assumptions of AddrMan, Memory and Loader   *)
(* allow: the allocator keeps its region in order and is used as it        *)
(* expects, each object keeps its pages, nothing is mapped over a page in  *)
(* use, and each new program has its segments and finds its arguments.     *)
(***************************************************************************)
EXTENDS Loader, SequenceTheorems, WellFoundedInduction, TLAPS

(* A request of at least one byte is at least one page. *)
LEMMA PagesOfLemma ==
  ASSUME NEW bytes \in 1 .. MaxBytes
  PROVE  pages_of(bytes) \in Nat \ {0}
<1>1. bytes \in Nat
  BY MaxBytesAssumption
<1>2. bytes \div PageSize >= 0 /\ bytes \div PageSize \in Int
  BY <1>1, PageSizeAssumption
<1>3. bytes % PageSize \in 0 .. PageSize - 1
  BY <1>1, PageSizeAssumption
<1>4. bytes = PageSize * (bytes \div PageSize) + (bytes % PageSize)
  BY <1>1, PageSizeAssumption
<1>5. bytes \div PageSize = 0 => bytes % PageSize # 0
  BY <1>1, <1>2, <1>3, <1>4, PageSizeAssumption
<1>. QED
  BY <1>2, <1>5 DEF pages_of

(* The inductive invariant: Tiling and TreesAgree need each other in the    *)
(* split and the merge, and Coalesced needs both to know that the           *)
(* neighbours the loop looks at are the adjacent vnodes.                    *)
IInv == TypeOK /\ Tiling /\ TreesAgree /\ Coalesced

(* A new region is one free vnode. *)
LEMMA InitInv == Init => IInv
<1>. SUFFICES ASSUME Init
              PROVE  IInv
  OBVIOUS
<1>. USE PagesAssumption DEF Init, c4rt_vaddr_region_create, Offsets, NoNode
<1>1. TypeOK
  BY DEF TypeOK
<1>2. Tiling
  <2>1. size[0] = Pages /\ layout = {0}
    OBVIOUS
  <2>2. \A g \in Offsets : 0 <= g /\ g < 0 + size[0]
    BY <2>1
  <2>3. size[0] > 0 /\ 0 + size[0] = Pages /\ ~(0 < 0)
    BY <2>1
  <2>. QED
    BY <2>1, <2>2, <2>3, Zenon DEF Tiling
<1>3. TreesAgree
  BY DEF TreesAgree
<1>4. Coalesced
  BY DEF Coalesced
<1>. QED
  BY <1>1, <1>2, <1>3, <1>4 DEF IInv

(* The facts about a vnode of the layout that the steps below use. *)
LEMMA NodeFacts ==
  ASSUME IInv, NEW o \in layout
  PROVE  /\ o \in Nat /\ o < Pages
         /\ size[o] \in Nat /\ size[o] > 0 /\ o + size[o] <= Pages
         /\ o \in free_nodes <=> o \in is_free
         /\ o + size[o] \in layout \cup {Pages}
         /\ \A p \in layout : o < p => o + size[o] <= p
<1>1. o \in Nat /\ o < Pages /\ size[o] \in Nat
  BY PagesAssumption DEF IInv, TypeOK, Offsets
<1>2. /\ size[o] > 0 /\ o + size[o] \in layout \cup {Pages}
      /\ \A p \in layout : o < p => o + size[o] <= p
  BY DEF IInv, Tiling
<1>3. o + size[o] <= Pages
  BY <1>1, <1>2, PagesAssumption DEF IInv, TypeOK, Offsets
<1>4. o \in free_nodes <=> o \in is_free
  BY DEF IInv, TreesAgree
<1>. QED
  BY <1>1, <1>2, <1>3, <1>4

(* Handing out a vnode, whole or cut in two, keeps the invariant. *)
LEMMA AllocInv ==
  ASSUME IInv, NEW bytes \in 1 .. MaxBytes, c4rt_vaddr_alloc(bytes)
  PROVE  IInv'
<1>. DEFINE pages == pages_of(bytes)
<1>1. pages \in Nat \ {0}
  BY PagesOfLemma
<1>. HIDE DEF pages
<1>2. PICK node \in Offsets :
        /\ find_at_least(node, pages)
        /\ split_vnode(node, pages)
        /\ held' = held \cup {<<node, pages>>}
  BY DEF c4rt_vaddr_alloc, alloc_vnode, pages
<1>3. /\ temp = NoNode /\ temp' = NoNode
      /\ node \in free_nodes /\ node \in layout /\ node \in is_free
      /\ size[node] >= pages
  BY <1>2 DEF c4rt_vaddr_alloc, alloc_vnode, find_at_least, IInv, TreesAgree
<1>4. /\ node \in Nat /\ node < Pages /\ size[node] \in Nat
      /\ node + size[node] <= Pages
  BY <1>3, NodeFacts
<1>5. CASE pages = size[node]
  <2>1. /\ free_nodes' = free_nodes \ {node}
        /\ is_free' = is_free \ {node}
        /\ layout' = layout /\ size' = size
    BY <1>2, <1>5 DEF split_vnode
  <2>2. TypeOK'
    BY <1>1, <1>2, <1>3, <1>4, <1>5, <2>1, PagesAssumption DEF IInv, TypeOK
  <2>3. Tiling'
    BY <2>1 DEF IInv, Tiling
  <2>4. TreesAgree'
    BY <1>2, <1>3, <1>5, <2>1 DEF IInv, TreesAgree, TypeOK
  <2>5. Coalesced'
    BY <1>3, <2>1 DEF IInv, Coalesced
  <2>. QED
    BY <2>2, <2>3, <2>4, <2>5 DEF IInv
<1>6. CASE pages # size[node]
  <2>. DEFINE rest == node + pages
  <2>1. /\ free_nodes' = (free_nodes \ {node}) \cup {rest}
        /\ layout' = layout \cup {rest}
        /\ size' = [size EXCEPT ![node] = pages, ![rest] = size[node] - pages]
        /\ is_free' = (is_free \ {node}) \cup {rest}
    BY <1>2, <1>6 DEF split_vnode
  <2>2. /\ rest \in Offsets /\ node < rest /\ rest < node + size[node]
        /\ pages < size[node] /\ pages \in 1 .. Pages
        /\ size[node] - pages \in 1 .. Pages
        /\ rest + (size[node] - pages) = node + size[node]
        /\ rest = node + pages /\ rest \in Nat
    BY <1>1, <1>3, <1>4, <1>6, PagesAssumption DEF Offsets
  <2>. HIDE DEF rest
  <2>3. rest \notin layout
    BY <1>3, <1>4, <2>2, NodeFacts
  <2>4. size' \in [Offsets -> 0 .. Pages]
    BY <1>2, <2>1, <2>2, PagesAssumption DEF IInv, TypeOK
  <2>5. /\ size'[node] = pages /\ size'[rest] = size[node] - pages
        /\ \A o \in layout : o # node => size'[o] = size[o]
    BY <1>2, <2>1, <2>2, <2>3 DEF IInv, TypeOK
  <2>6. TypeOK'
    BY <1>2, <1>3, <2>1, <2>2, <2>4 DEF IInv, TypeOK
  <2>7. Tiling'
    <3>1. ASSUME NEW o \in layout'
          PROVE  /\ size'[o] > 0
                 /\ o + size'[o] \in layout' \cup {Pages}
                 /\ \A p \in layout' : o < p => o + size'[o] <= p
      <4>a. \A p \in layout : p \in Nat /\ (node < p => node + size[node] <= p)
        BY <1>3, NodeFacts
      <4>1. CASE o = node
        <5>1. size'[o] = pages /\ o + size'[o] = rest
          BY <4>1, <2>2, <2>5
        <5>2. \A p \in layout' : o < p => rest <= p
          BY <4>1, <4>a, <1>4, <2>1, <2>2
        <5>. QED
          BY <5>1, <5>2, <2>1, <2>2
      <4>2. CASE o = rest
        <5>1. size'[o] > 0 /\ o + size'[o] = node + size[node]
          BY <4>2, <2>2, <2>5
        <5>2. node + size[node] \in layout \cup {Pages}
          BY <1>3, NodeFacts
        <5>3. \A p \in layout' : o < p => node + size[node] <= p
          BY <4>2, <4>a, <1>4, <2>1, <2>2
        <5>4. o + size'[o] \in layout' \cup {Pages}
          <6>1. node + size[node] \in layout' \cup {Pages}
            BY <5>2, <2>1
          <6>. QED
            BY <5>1, <6>1
        <5>5. \A p \in layout' : o < p => o + size'[o] <= p
          BY <5>1, <5>3, Zenon
        <5>. QED
          BY <5>1, <5>4, <5>5, Zenon
      <4>3. CASE o \in layout /\ o # node
        <5>1. /\ size'[o] = size[o] /\ o \in Nat /\ size[o] \in Nat
              /\ size[o] > 0 /\ o + size[o] \in layout \cup {Pages}
              /\ \A p \in layout : o < p => o + size[o] <= p
          BY <4>3, <2>5, NodeFacts
        <5>2. o < rest => o + size[o] <= rest
          <6>1. CASE o < node
            BY <6>1, <5>1, <1>3, <1>4, <2>2
          <6>2. CASE node < o
            BY <6>2, <4>3, <4>a, <5>1, <1>4, <2>2
          <6>. QED
            BY <6>1, <6>2, <4>3, <5>1, <1>4
        <5>. QED
          BY <5>1, <5>2, <2>1
      <4>. QED
        BY <4>1, <4>2, <4>3, <2>1
    <3>2. ASSUME NEW g \in Offsets
          PROVE  \E o \in layout' : o <= g /\ g < o + size'[o]
      <4>1. PICK o \in layout : o <= g /\ g < o + size[o]
        BY DEF IInv, Tiling
      <4>2. CASE o # node
        BY <4>1, <4>2, <2>1, <2>5
      <4>3. CASE o = node /\ g < rest
        BY <4>1, <4>3, <1>3, <2>1, <2>2, <2>5
      <4>4. CASE o = node /\ rest <= g
        BY <4>1, <4>4, <2>1, <2>2, <2>5
      <4>. QED
        BY <4>2, <4>3, <4>4, <2>2 DEF Offsets
    <3>. QED
      BY <3>1, <3>2 DEF Tiling
  <2>8. TreesAgree'
    <3>1. free_nodes' = layout' \cap is_free'
      BY <1>3, <2>1, <2>2, <2>3 DEF IInv, TreesAgree
    <3>2. layout' \ is_free' = (layout \ is_free) \cup {node}
      BY <1>3, <2>1, <2>2, <2>3
    <3>3. \A o \in layout \ is_free : size'[o] = size[o]
      BY <1>3, <2>5
    <3>4. held' = {<<o, size'[o]>> : o \in layout' \ is_free'}
      BY <1>2, <2>5, <3>2, <3>3 DEF IInv, TreesAgree
    <3>. QED
      BY <1>3, <3>1, <3>4 DEF TreesAgree
  <2>9. Coalesced'
    <3>. SUFFICES ASSUME NEW o \in free_nodes', o + size'[o] \in free_nodes'
                  PROVE  FALSE
      BY DEF Coalesced
    <3>1. CASE o = rest
      <4>1. node + size[node] \in free_nodes
        BY <3>1, <2>1, <2>2, <2>5, <1>4
      <4>. QED
        BY <4>1, <1>3, <1>4 DEF IInv, Coalesced, NoNode
    <3>2. CASE o # rest
      <4>1. o \in free_nodes /\ o # node /\ o \in layout /\ size'[o] = size[o]
        BY <3>2, <2>1, <2>5 DEF IInv, TreesAgree
      <4>2. o + size[o] \in free_nodes
        <5>1. o + size[o] # rest
          BY <4>1, <2>2, <2>3, <1>3, <1>4, NodeFacts DEF Offsets
        <5>. QED
          BY <4>1, <5>1, <2>1
      <4>3. o \in Nat /\ o + size[o] \in Nat
        BY <4>1, NodeFacts
      <4>. QED
        BY <4>1, <4>2, <4>3, <1>3 DEF IInv, Coalesced, NoNode
    <3>. QED
      BY <3>1, <3>2
  <2>. QED
    BY <2>6, <2>7, <2>8, <2>9 DEF IInv
<1>. QED
  BY <1>5, <1>6

(* Giving a vnode back keeps the invariant: it is the one being merged. *)
LEMMA FreeInv ==
  ASSUME IInv, NEW offset \in Offsets, c4rt_vaddr_free(offset)
  PROVE  IInv'
<1>1. /\ offset \in layout /\ offset \notin is_free
      /\ is_free' = is_free \cup {offset}
      /\ free_nodes' = free_nodes \cup {offset}
      /\ held' = held \ {<<offset, size[offset]>>}
      /\ temp = NoNode /\ temp' = offset /\ layout' = layout /\ size' = size
  BY DEF c4rt_vaddr_free, give_back, IInv, TreesAgree
<1>2. TypeOK'
  BY <1>1 DEF IInv, TypeOK
<1>3. Tiling'
  BY <1>1 DEF IInv, Tiling
<1>4. TreesAgree'
  BY <1>1 DEF IInv, TreesAgree
<1>5. Coalesced'
  <2>. SUFFICES ASSUME NEW o \in free_nodes', o + size'[o] \in free_nodes'
                PROVE  temp' \in {o, o + size'[o]}
    BY DEF Coalesced
  <2>1. CASE o # offset /\ o + size[o] # offset
    <3>1. o \in free_nodes /\ o + size[o] \in free_nodes /\ o \in layout
      BY <2>1, <1>1 DEF IInv, TreesAgree
    <3>2. o \in Nat /\ o + size[o] \in Nat
      BY <3>1, NodeFacts
    <3>. QED
      BY <3>1, <3>2, <1>1 DEF IInv, Coalesced, NoNode
  <2>. QED
    BY <2>1, <1>1
<1>. QED
  BY <1>2, <1>3, <1>4, <1>5 DEF IInv

(* Merging two adjacent free vnodes, one of them the loop's, keeps the      *)
(* invariant.                                                               *)
LEMMA MergeInv ==
  ASSUME IInv, NEW lower \in layout, NEW upper \in layout,
         lower + size[lower] = upper, lower \in is_free, upper \in is_free,
         temp \in {lower, upper}, try_merge(lower, upper)
  PROVE  IInv'
<1>1. /\ layout' = layout \ {upper}
      /\ free_nodes' = (free_nodes \ {lower, upper}) \cup {lower}
      /\ size' = [size EXCEPT ![lower] = size[lower] + size[upper]]
      /\ temp' = lower /\ is_free' = is_free /\ held' = held
  BY DEF try_merge
<1>2. /\ lower \in Nat /\ upper \in Nat /\ size[lower] \in Nat
      /\ size[upper] \in Nat /\ size[lower] > 0 /\ size[upper] > 0
      /\ upper + size[upper] \in layout \cup {Pages}
      /\ upper + size[upper] <= Pages
      /\ lower \in free_nodes /\ upper \in free_nodes /\ lower < upper
  BY NodeFacts
<1>3. size[lower] + size[upper] \in 0 .. Pages
  BY <1>2, PagesAssumption
<1>4. /\ size' \in [Offsets -> 0 .. Pages]
      /\ size'[lower] = size[lower] + size[upper]
      /\ \A o \in layout : o # lower => size'[o] = size[o]
  BY <1>1, <1>3 DEF IInv, TypeOK
<1>5. TypeOK'
  BY <1>1, <1>4 DEF IInv, TypeOK
<1>6. Tiling'
  <2>1. ASSUME NEW o \in layout'
        PROVE  /\ size'[o] > 0
               /\ o + size'[o] \in layout' \cup {Pages}
               /\ \A p \in layout' : o < p => o + size'[o] <= p
    <3>1. CASE o = lower
      <4>1. o + size'[o] = upper + size[upper] /\ size'[o] > 0
        BY <3>1, <1>2, <1>4
      <4>2. upper + size[upper] \in layout' \cup {Pages}
        BY <1>1, <1>2
      <4>3. ASSUME NEW p \in layout', o < p
            PROVE  upper + size[upper] <= p
        <5>1. p \in layout /\ p # upper /\ p \in Nat /\ upper <= p
          BY <4>3, <3>1, <1>1, NodeFacts
        <5>. QED
          BY <5>1, <1>2, NodeFacts
      <4>. QED
        BY <4>1, <4>2, <4>3
    <3>2. CASE o # lower
      <4>1. /\ o \in layout /\ o # upper /\ size'[o] = size[o]
            /\ o \in Nat /\ size[o] \in Nat /\ size[o] > 0
            /\ o + size[o] \in layout \cup {Pages}
            /\ \A p \in layout : o < p => o + size[o] <= p
        BY <3>2, <1>1, <1>4, NodeFacts
      <4>2. o + size[o] # upper
        <5>1. CASE o < lower
          BY <5>1, <4>1, <1>2
        <5>2. CASE lower < o
          <6>1. upper <= o
            BY <5>2, <4>1, NodeFacts
          <6>. QED
            BY <6>1, <4>1, <1>2
        <5>. QED
          BY <5>1, <5>2, <3>2, <4>1, <1>2
      <4>. QED
        BY <4>1, <4>2, <1>1
    <3>. QED
      BY <3>1, <3>2
  <2>2. ASSUME NEW g \in Offsets
        PROVE  \E o \in layout' : o <= g /\ g < o + size'[o]
    <3>1. PICK o \in layout : o <= g /\ g < o + size[o]
      BY DEF IInv, Tiling
    <3>2. g \in Nat
      BY DEF Offsets
    <3>3. CASE o \notin {lower, upper}
      BY <3>1, <3>3, <1>1, <1>4
    <3>4. CASE o \in {lower, upper}
      <4>1. lower <= g /\ g < lower + size'[lower]
        BY <3>1, <3>2, <3>4, <1>2, <1>4
      <4>2. lower \in layout'
        BY <1>1, <1>2
      <4>. QED
        BY <4>1, <4>2
    <3>. QED
      BY <3>3, <3>4
  <2>. QED
    BY <2>1, <2>2 DEF Tiling
<1>7. TreesAgree'
  <2>1. free_nodes' = layout' \cap is_free'
    BY <1>1, <1>2 DEF IInv, TreesAgree
  <2>2. layout' \ is_free' = layout \ is_free
    BY <1>1
  <2>3. \A o \in layout \ is_free : size'[o] = size[o]
    BY <1>4
  <2>4. held' = {<<o, size'[o]>> : o \in layout' \ is_free'}
    BY <1>1, <2>2, <2>3 DEF IInv, TreesAgree
  <2>5. temp' \in free_nodes'
    BY <1>1
  <2>. QED
    BY <2>1, <2>4, <2>5 DEF TreesAgree
<1>8. Coalesced'
  <2>. SUFFICES ASSUME NEW o \in free_nodes', o + size'[o] \in free_nodes',
                       o # lower
                PROVE  o + size'[o] = lower
    BY <1>1 DEF Coalesced
  <2>1. o \in layout /\ o \in free_nodes /\ o # upper /\ size'[o] = size[o]
    BY <1>1, <1>4 DEF IInv, TreesAgree
  <2>2. o + size[o] \in free_nodes /\ o + size[o] # upper
    BY <1>1, <1>2, <2>1
  <2>. QED
    BY <2>1, <2>2 DEF IInv, Coalesced
<1>. QED
  BY <1>5, <1>6, <1>7, <1>8 DEF IInv

(* A turn of free_vnode's loop keeps the invariant: by Tiling the vnode     *)
(* before temp ends where temp begins, and the one after begins where temp  *)
(* ends.                                                                    *)
LEMMA LoopInv ==
  ASSUME IInv, free_vnode
  PROVE  IInv'
<1>1. CASE MergePrevious
  <2>1. PICK p \in layout : /\ Previous(p, temp) /\ Mergeable(p, temp)
                            /\ try_merge(p, temp)
    BY <1>1 DEF MergePrevious
  <2>2. temp \in layout
    BY <1>1 DEF MergePrevious, IInv, TreesAgree
  <2>3. p + size[p] = temp
    <3>1. p < temp /\ \A q \in layout : q < temp => q <= p
      BY <2>1 DEF Previous
    <3>2. /\ p \in Nat /\ size[p] \in Nat /\ size[p] > 0 /\ p + size[p] <= temp
          /\ p + size[p] \in layout \cup {Pages}
          /\ temp \in Nat /\ temp < Pages
      BY <2>2, <3>1, NodeFacts
    <3>3. p + size[p] \in layout
      BY <3>2, PagesAssumption
    <3>. QED
      BY <3>1, <3>2, <3>3
  <2>. QED
    BY <2>1, <2>2, <2>3, MergeInv DEF Mergeable
<1>2. CASE MergeNext
  <2>1. PICK n \in layout : /\ Following(n, temp) /\ Mergeable(temp, n)
                            /\ try_merge(temp, n)
    BY <1>2 DEF MergeNext
  <2>2. temp \in layout
    BY <1>2 DEF MergeNext, IInv, TreesAgree
  <2>3. temp + size[temp] = n
    <3>1. temp < n /\ \A q \in layout : temp < q => n <= q
      BY <2>1 DEF Following
    <3>2. /\ temp \in Nat /\ size[temp] \in Nat /\ size[temp] > 0
          /\ temp + size[temp] <= n
          /\ temp + size[temp] \in layout \cup {Pages}
          /\ n \in Nat /\ n < Pages
      BY <2>2, <3>1, NodeFacts
    <3>3. temp + size[temp] \in layout
      BY <3>2, PagesAssumption
    <3>. QED
      BY <3>1, <3>2, <3>3
  <2>. QED
    BY <2>1, <2>2, <2>3, MergeInv DEF Mergeable
<1>3. CASE MergeDone
  <2>1. /\ temp # NoNode /\ temp' = NoNode /\ temp \in layout /\ temp \in is_free
        /\ UNCHANGED <<layout, free_nodes, size, is_free, held>>
    BY <1>3 DEF MergeDone, IInv, TreesAgree
  <2>2. ASSUME NEW o \in free_nodes, o + size[o] \in free_nodes
        PROVE  FALSE
    <3>1. /\ o \in layout /\ o \in is_free
          /\ o + size[o] \in layout /\ o + size[o] \in is_free
      BY <2>2 DEF IInv, TreesAgree
    <3>2. /\ o \in Nat /\ size[o] \in Nat /\ size[o] > 0
          /\ \A q \in layout : q \in Nat /\ (o < q => o + size[o] <= q)
      BY <3>1, NodeFacts
    <3>3. temp \in {o, o + size[o]}
      BY <2>2 DEF IInv, Coalesced
    <3>4. CASE temp = o
      <4>1. Following(o + size[o], temp) /\ Mergeable(temp, o + size[o])
        BY <3>1, <3>2, <3>4 DEF Following, Mergeable
      <4>. QED
        BY <4>1, <3>1, <1>3 DEF MergeDone, NextFree
    <3>5. CASE temp = o + size[o]
      <4>1. Previous(o, temp) /\ Mergeable(o, temp)
        BY <3>1, <3>2, <3>5 DEF Previous, Mergeable
      <4>. QED
        BY <4>1, <3>1, <1>3 DEF MergeDone, PreviousFree
    <3>. QED
      BY <3>3, <3>4, <3>5
  <2>3. TypeOK' /\ Tiling' /\ TreesAgree'
    BY <2>1 DEF IInv, TypeOK, Tiling, TreesAgree
  <2>4. Coalesced'
    BY <2>1, <2>2 DEF Coalesced
  <2>. QED
    BY <2>3, <2>4 DEF IInv
<1>. QED
  BY <1>1, <1>2, <1>3 DEF free_vnode

(* Every step keeps the invariant. *)
LEMMA NextInv == IInv /\ [Next]_vars => IInv'
<1>. SUFFICES ASSUME IInv, [Next]_vars
              PROVE  IInv'
  OBVIOUS
<1>1. ASSUME NEW bytes \in 1 .. MaxBytes, c4rt_vaddr_alloc(bytes)
      PROVE  IInv'
  BY <1>1, AllocInv
<1>2. ASSUME NEW offset \in Offsets, c4rt_vaddr_free(offset)
      PROVE  IInv'
  BY <1>2, FreeInv
<1>3. CASE free_vnode
  BY <1>3, LoopInv
<1>4. CASE UNCHANGED vars
  BY <1>4 DEF vars, IInv, TypeOK, Tiling, TreesAgree, Coalesced
<1>. QED
  BY <1>1, <1>2, <1>3, <1>4
     DEF Next, c4rt_vaddr_alloc_fails, c4rt_vaddr_free_unknown

(* The invariant holds in every reachable state. *)
LEMMA Invariance == Spec => []IInv
BY InitInv, NextInv, PTL DEF Spec

-----------------------------------------------------------------------------
(* Sizes and offsets stay inside the region. *)
THEOREM TypeCorrect == Spec => []TypeOK
<1>1. IInv => TypeOK
  BY DEF IInv
<1>. QED
  BY <1>1, Invariance, PTL

(* The layout tree always describes the whole region, with no gap and no    *)
(* overlap.                                                                 *)
THEOREM RegionTiled == Spec => []Tiling
<1>1. IInv => Tiling
  BY DEF IInv
<1>. QED
  BY <1>1, Invariance, PTL

(* The asserts that addrman.c leaves commented out would hold: what is      *)
(* taken off free_nodes or layout is always there.                          *)
THEOREM TreesConsistent == Spec => []TreesAgree
<1>1. IInv => TreesAgree
  BY DEF IInv
<1>. QED
  BY <1>1, Invariance, PTL

(* free_vnode's loop leaves no two free neighbours behind. *)
THEOREM FreeNeighboursMerged == Spec => []Coalesced
<1>1. IInv => Coalesced
  BY DEF IInv
<1>. QED
  BY <1>1, Invariance, PTL

(* A run nobody holds a page of lies inside one free vnode.                 *)
LEMMA RunsAreFound == IInv => NoFalseExhaustion
<1>. SUFFICES ASSUME IInv, temp = NoNode,
                     NEW first \in Offsets, NEW length \in 1 .. Pages,
                     first + length <= Pages,
                     \A r \in held : \/ first + length <= r[1]
                                     \/ r[1] + r[2] <= first
              PROVE  \E o \in free_nodes : size[o] >= length
  BY DEF NoFalseExhaustion
<1>1. first \in Nat /\ length \in Nat /\ length > 0
  BY PagesAssumption DEF Offsets
<1>2. PICK o \in layout : o <= first /\ first < o + size[o]
  BY DEF IInv, Tiling
<1>3. \A p \in layout :
        p \notin is_free =>
          \/ first + length <= p
          \/ p + size[p] <= first
  <2>. SUFFICES ASSUME NEW p \in layout, p \notin is_free
                PROVE  \/ first + length <= p
                       \/ p + size[p] <= first
    OBVIOUS
  <2>1. <<p, size[p]>> \in held
    BY DEF IInv, TreesAgree
  <2>. QED
    BY <2>1
<1>4. /\ o \in Nat /\ size[o] \in Nat
      /\ o + size[o] \in layout \cup {Pages}
      /\ o \in free_nodes <=> o \in is_free
  BY NodeFacts
<1>5. o \in free_nodes
  BY <1>1, <1>2, <1>3, <1>4
<1>6. CASE first + length <= o + size[o]
  BY <1>1, <1>2, <1>4, <1>5, <1>6
<1>7. CASE o + size[o] < first + length
  <2>. DEFINE e == o + size[o]
  <2>1. e \in layout /\ e \in Nat /\ first < e /\ e < first + length
    BY <1>1, <1>2, <1>4, <1>7, PagesAssumption
  <2>. HIDE DEF e
  <2>2. size[e] \in Nat /\ (e \in free_nodes <=> e \in is_free)
    BY <2>1, NodeFacts
  <2>3. e \in free_nodes
    BY <1>1, <1>3, <2>1, <2>2
  <2>4. o # NoNode /\ e # NoNode
    BY <1>4, <2>1 DEF NoNode
  <2>. QED
    BY <1>5, <2>3, <2>4 DEF IInv, Coalesced, e
<1>. QED
  BY <1>1, <1>4, <1>6, <1>7

(* c4rt_vaddr_alloc returns NULL only when no run is long enough. *)
THEOREM AllocFindsRuns == Spec => []NoFalseExhaustion
BY RunsAreFound, Invariance, PTL

(* A step of the allocator hands out one run, takes one back or does        *)
(* neither.                                                                 *)
LEMMA RunsStep == IInv /\ [Next]_vars => [Runs!Next]_held
<1>. SUFFICES ASSUME IInv, [Next]_vars
              PROVE  [Runs!Next]_held
  OBVIOUS
<1>1. ASSUME NEW bytes \in 1 .. MaxBytes, c4rt_vaddr_alloc(bytes)
      PROVE  Runs!Next
  <2>. DEFINE pages == pages_of(bytes)
  <2>1. pages \in Nat \ {0}
    BY PagesOfLemma
  <2>. HIDE DEF pages
  <2>2. PICK node \in Offsets :
          /\ find_at_least(node, pages)
          /\ held' = held \cup {<<node, pages>>}
    BY <1>1 DEF c4rt_vaddr_alloc, alloc_vnode, pages
  <2>3. /\ node \in layout /\ node \in is_free /\ pages <= size[node]
        /\ node \in Nat /\ size[node] \in Nat /\ node + size[node] <= Pages
    BY <2>1, <2>2, NodeFacts DEF find_at_least, IInv, TreesAgree
  <2>4. ASSUME NEW r \in held
        PROVE  Runs!Disjoint(r, <<node, pages>>)
    <3>1. PICK o \in layout \ is_free : r = <<o, size[o]>>
      BY DEF IInv, TreesAgree
    <3>2. /\ o \in Nat /\ size[o] \in Nat /\ o # node
          /\ o < node => o + size[o] <= node
          /\ node < o => node + size[node] <= o
      BY <2>3, <3>1, NodeFacts
    <3>3. o + size[o] <= node \/ node + pages <= o
      BY <2>1, <2>3, <3>2
    <3>. QED
      BY <3>1, <3>3 DEF Runs!Disjoint
  <2>5. /\ node \in 0 .. Pages - 1 /\ pages \in 1 .. Pages
        /\ node + pages <= Pages
    BY <2>1, <2>3, PagesAssumption
  <2>6. Runs!Alloc(node, pages)
    BY <2>2, <2>4, <2>5 DEF Runs!Alloc
  <2>. QED
    BY <2>5, <2>6 DEF Runs!Next
<1>2. ASSUME NEW offset \in Offsets, c4rt_vaddr_free(offset)
      PROVE  Runs!Next
  BY <1>2 DEF c4rt_vaddr_free, give_back, Runs!Next, Runs!Free
<1>3. CASE free_vnode
  BY <1>3 DEF free_vnode, MergePrevious, MergeNext, MergeDone, try_merge
<1>4. CASE UNCHANGED vars
  BY <1>4 DEF vars
<1>. QED
  BY <1>1, <1>2, <1>3, <1>4
     DEF Next, c4rt_vaddr_alloc_fails, c4rt_vaddr_free_unknown

(* Callers get disjoint runs inside the region: addrman.c implements        *)
(* RegionAlloc.                                                             *)
THEOREM AddrManRefines == Spec => IsRegionAlloc
<1>1. Init => Runs!Init
  BY DEF Init, Runs!Init
<1>. QED
  BY <1>1, RunsStep, Invariance, PTL DEF Spec, IsRegionAlloc, Runs!Spec

-----------------------------------------------------------------------------

Region == Base .. Base + Pages - 1
Frame == Obj \cup FrameId \cup {BootFrame}

-----------------------------------------------------------------------------
(* The inductive invariant, for memory objects. *)

(* Objects that hold their range of the region. *)
Holds(o) == obj[o].live /\ o # freeing

MemTypeOK ==
  /\ aspace \in [Space -> [PageNumbers -> (Frame \X Nat) \cup {NoFrame}]]
  /\ obj \in [Obj -> [live : BOOLEAN, vaddr : Nat, pages : Nat, mapped : BOOLEAN]]
  /\ freeing \in Obj \cup {NoObj}

InRegion ==
  \A o \in Obj :
    /\ obj[o].mapped => Holds(o)
    /\ Holds(o) => /\ obj[o].pages > 0 /\ Base <= obj[o].vaddr
                   /\ obj[o].vaddr + obj[o].pages <= Base + Pages

HeldByObjects == held = {<<obj[o].vaddr - Base, obj[o].pages>> : o \in {x \in Obj : Holds(x)}}

RangesDiffer ==
  \A o, x \in Obj : Holds(o) /\ Holds(x) /\ o # x => obj[o].vaddr # obj[x].vaddr

(* Only c4_memobj_free is inside the allocator's loop, and never while      *)
(* elf_load runs.                                                           *)
OneCall ==
  /\ freeing = NoObj => temp = NoNode
  /\ freeing # NoObj => pc = "idle"

RegionMapped ==
  \A p \in Region :
    /\ \A o \in Obj : obj[o].mapped /\ Covers(o, p) => aspace[Self][p] = <<o, p - obj[o].vaddr>>
    /\ aspace[Self][p] # NoFrame => \E o \in Obj : obj[o].mapped /\ Covers(o, p)

MemInv == MemTypeOK /\ InRegion /\ HeldByObjects /\ RangesDiffer /\ RegionMapped

-----------------------------------------------------------------------------
(* The inductive invariant, for elf_load. *)

BeginsWith(buf, file) == \A k \in 1 .. Len(file) : buf[k] = file[k]

LoadTypeOK ==
  /\ progbuf \in Seq(Nat) /\ Len(progbuf) = ProgSize
  /\ pc \in {"idle", "push", "map", "copy"}
  /\ made \in 0 .. MaxSpawns
  /\ seg \in Nat
  /\ frames = [f \in FrameId |-> frames[f]]
  /\ thread \in [Child -> [entry : Nat, stack : Int, runs : BOOLEAN]]
  /\ asked = [c \in Child |-> asked[c]]

(* A buffer that looks like an ELF file has one at its beginning. *)
BufferRight ==
  elf_is_valid(progbuf) => \E file \in Files : HasHeader(file) /\ BeginsWith(progbuf, file)

AtWork ==
  /\ pc # "idle" => /\ made > 0 /\ elf_is_valid(progbuf) /\ seg <= e_phnum(progbuf)
                    /\ HasHeader(asked[made].file) => BeginsWith(progbuf, asked[made].file)
  /\ pc = "push" => seg = 0
  /\ pc = "copy" => seg < e_phnum(progbuf)
  /\ \A c \in 1 .. made : /\ asked[c].file \in Files
                          /\ \E call \in Calls : asked[c].argv = call[1] /\ asked[c].envp = call[2]
  /\ \A c \in Child : thread[c].runs => c <= made /\ (c = made => pc = "idle")

(* The frame elf_load has in the window, if it has one. *)
InWindow == IF pc = "push" THEN StackOf(made) ELSE <<made, seg>>

WindowUse ==
  /\ \A p \in PageNumbers \ Region :
       aspace[Self][p] # NoFrame => /\ pc \in {"push", "copy"}
                                    /\ aspace[Self][p][1] = InWindow
                                    /\ aspace[Self][Window] = <<InWindow, 0>>
  /\ pc = "push" => aspace[Self][Window] = <<InWindow, 0>>
  /\ pc = "copy" /\ elf_get_phdr(progbuf, seg).filesz > 0 => aspace[Self][Window] = <<InWindow, 0>>

(* What is mapped in the space of a program. *)
Reached == IF pc = "copy" THEN seg + 1 ELSE seg

ChildSpaces ==
  \A c \in Child, p \in PageNumbers :
    aspace[c][p] # NoFrame =>
      /\ c <= made
      /\ c = made /\ pc # "idle" =>
           \/ p \in {StackPage, BootPage}
           \/ \E i \in 0 .. Reached - 1 : p \in Touched(progbuf, i)

(* What elf_load has done for a program's segments. *)
Mapped(c, i) ==
  LET first == elf_get_phdr(asked[c].file, i).vaddr \div PageSize IN
  \A p \in Touched(asked[c].file, i) : aspace[c][p] = << <<c, i>>, p - first>>

Copied(c, i) ==
  LET h == elf_get_phdr(asked[c].file, i) IN
  \A k \in 0 .. h.filesz - 1 :
    frames[<<c, i>>][(h.vaddr % PageSize) + k] = asked[c].file[h.offset + k + 1]

Finished(c) == c < made \/ pc = "idle"

SegmentsOf(c) ==
  HasHeader(asked[c].file) =>
    /\ thread[c].entry = e_entry(asked[c].file)
    /\ \A i \in 0 .. e_phnum(asked[c].file) - 1 :
         /\ Finished(c) \/ i < Reached => Mapped(c, i)
         /\ Finished(c) \/ i < seg => Copied(c, i)

SegmentsDone == \A c \in 1 .. made : SegmentsOf(c)

LoadInv == LoadTypeOK /\ BufferRight /\ AtWork

LInv == IInv /\ MemInv /\ OneCall /\ LoadInv /\ WindowUse /\ ChildSpaces /\ SegmentsDone

-----------------------------------------------------------------------------
(* Facts about the constants and the kernel's calls. *)

AsType == [Space -> [PageNumbers -> (Frame \X Nat) \cup {NoFrame}]]

(* The general region and the window are pages of an address space, apart   *)
(* from each other, and the new programs have address spaces of their own.  *)
LEMMA Places ==
  /\ Region \subseteq PageNumbers /\ PageNumbers \subseteq Nat
  /\ Base \in Nat /\ Window \in Nat /\ Window \in PageNumbers \ Region
  /\ Self \in Space /\ \A c \in Child : c \in Space /\ c # Self
<1>1. Window \in Window .. Window + FramePages - 1
  BY BoundsAssumption, PlacesAssumption
<1>. QED
  BY <1>1, LayoutAssumption, PlacesAssumption, SpaceAssumption DEF Region

(* No mapping looks like an empty page. *)
LEMMA MappingIsNot ==
  ASSUME NEW f \in Frame, NEW n \in Nat
  PROVE  <<f, n>> # NoFrame
BY FramesAssumption DEF Frame

(* What c4_addrspace_map changes. *)
Maps(as, new, s, f, n, at) ==
  /\ new \in AsType
  /\ \A t \in Space : t # s => new[t] = as[t]
  /\ \A p \in PageNumbers :
       /\ at <= p /\ p < at + n => new[s][p] = <<f, p - at>>
       /\ ~(at <= p /\ p < at + n) => new[s][p] = as[s][p]

(* c4_addrspace_map has the frame's pages where it was asked to put them    *)
(* and leaves the other pages and spaces alone.                             *)
LEMMA MapLemma ==
  ASSUME NEW as \in AsType, NEW s \in Space, NEW f \in Frame,
         NEW n \in Nat, NEW at \in Nat, NEW new,
         new = c4_addrspace_map(as, s, f, n, at)
  PROVE  Maps(as, new, s, f, n, at)
<1>. DEFINE row == [p \in PageNumbers |->
                     IF at <= p /\ p < at + n THEN <<f, p - at>> ELSE as[s][p]]
<1>1. new = [as EXCEPT ![s] = row]
  BY DEF c4_addrspace_map
<1>2. ASSUME NEW p \in PageNumbers
      PROVE  row[p] \in (Frame \X Nat) \cup {NoFrame}
  <2>1. p \in Nat /\ as[s][p] \in (Frame \X Nat) \cup {NoFrame}
    BY Places, ZenonT(30) DEF AsType
  <2>2. at <= p => p - at \in Nat
    BY <2>1
  <2>. QED BY <2>1, <2>2
<1>3. row \in [PageNumbers -> (Frame \X Nat) \cup {NoFrame}]
  BY <1>2
<1>4. \A p \in PageNumbers :
        /\ at <= p /\ p < at + n => row[p] = <<f, p - at>>
        /\ ~(at <= p /\ p < at + n) => row[p] = as[s][p]
  OBVIOUS
<1>. HIDE DEF row
<1>5. new \in AsType /\ new[s] = row /\ \A t \in Space : t # s => new[t] = as[t]
  BY <1>1, <1>3 DEF AsType
<1>. QED BY <1>4, <1>5 DEF Maps

(* What c4_addrspace_unmap changes. *)
Unmaps(as, new, s, at) ==
  /\ new \in AsType
  /\ \A t \in Space : t # s => new[t] = as[t]
  /\ as[s][at] = NoFrame => \A p \in PageNumbers : new[s][p] = as[s][p]
  /\ \A p \in PageNumbers :
       /\ new[s][p] \in {as[s][p], NoFrame}
       /\ as[s][p] = NoFrame => new[s][p] = NoFrame
       /\ as[s][at] # NoFrame /\ as[s][p] # NoFrame =>
            IF as[s][p][1] = as[s][at][1] THEN new[s][p] = NoFrame ELSE new[s][p] = as[s][p]

(* c4_addrspace_unmap takes all pages of the frame at a page from a space   *)
(* and leaves the other frames and spaces alone.                            *)
LEMMA UnmapLemma ==
  ASSUME NEW as \in AsType, NEW s \in Space, NEW at \in PageNumbers, NEW new,
         new = c4_addrspace_unmap(as, s, at)
  PROVE  Unmaps(as, new, s, at)
<1>. DEFINE row == [p \in PageNumbers |->
                     IF as[s][at] # NoFrame /\ as[s][p] # NoFrame /\ as[s][p][1] = as[s][at][1]
                     THEN NoFrame ELSE as[s][p]]
<1>1. new = [as EXCEPT ![s] = row]
  BY DEF c4_addrspace_unmap
<1>2. row \in [PageNumbers -> (Frame \X Nat) \cup {NoFrame}]
  BY DEF AsType
<1>3. \A p \in PageNumbers :
        row[p] = IF as[s][at] # NoFrame /\ as[s][p] # NoFrame /\ as[s][p][1] = as[s][at][1]
                 THEN NoFrame ELSE as[s][p]
  OBVIOUS
<1>. HIDE DEF row
<1>4. new \in AsType /\ new[s] = row /\ \A t \in Space : t # s => new[t] = as[t]
  BY <1>1, <1>2 DEF AsType
<1>. QED BY <1>3, <1>4 DEF Unmaps

-----------------------------------------------------------------------------
(* Memory objects. *)

(* The types of an object's fields, and of the addresses it covers. *)
LEMMA ObjTypes ==
  ASSUME MemTypeOK, NEW o \in Obj
  PROVE  /\ obj[o].live \in BOOLEAN /\ obj[o].mapped \in BOOLEAN
         /\ obj[o].vaddr \in Nat /\ obj[o].pages \in Nat
         /\ obj[o] = [live |-> obj[o].live, vaddr |-> obj[o].vaddr,
                      pages |-> obj[o].pages, mapped |-> obj[o].mapped]
BY DEF MemTypeOK

(* An object that holds a range holds a vnode that is not free. *)
LEMMA ObjectVnode ==
  ASSUME IInv, MemTypeOK, InRegion, HeldByObjects, NEW o \in Obj, Holds(o)
  PROVE  /\ obj[o].vaddr - Base \in layout
         /\ obj[o].vaddr - Base \notin is_free
         /\ size[obj[o].vaddr - Base] = obj[o].pages
<1>1. <<obj[o].vaddr - Base, obj[o].pages>> \in held
  BY DEF HeldByObjects
<1>2. PICK n \in layout \ is_free : <<obj[o].vaddr - Base, obj[o].pages>> = <<n, size[n]>>
  BY <1>1 DEF IInv, TreesAgree
<1>. QED BY <1>2

(* Two objects that hold ranges cover different pages. *)
LEMMA ObjectsDisjoint ==
  ASSUME IInv, MemTypeOK, InRegion, HeldByObjects, RangesDiffer,
         NEW o \in Obj, NEW x \in Obj, o # x, Holds(o), Holds(x),
         NEW p \in Nat, Covers(o, p)
  PROVE  ~Covers(x, p)
<1>. DEFINE a == obj[o].vaddr - Base
            b == obj[x].vaddr - Base
<1>1. /\ obj[o].vaddr \in Nat /\ obj[x].vaddr \in Nat /\ Base \in Nat
      /\ obj[o].pages \in Nat /\ obj[x].pages \in Nat /\ obj[o].vaddr # obj[x].vaddr
  BY ObjTypes, Places DEF RangesDiffer
<1>2. a \in layout /\ b \in layout /\ size[a] = obj[o].pages /\ size[b] = obj[x].pages
  BY ObjectVnode
<1>3. a \in Int /\ b \in Int /\ a # b
  BY <1>1
<1>. HIDE DEF a, b
<1>4. (a < b => a + size[a] <= b) /\ (b < a => b + size[b] <= a)
  BY <1>2, NodeFacts
<1>5. a + obj[o].pages <= b \/ b + obj[x].pages <= a
  BY <1>1, <1>2, <1>3, <1>4
<1>6. obj[o].vaddr + obj[o].pages <= obj[x].vaddr \/ obj[x].vaddr + obj[x].pages <= obj[o].vaddr
  BY <1>1, <1>5 DEF a, b
<1>. QED BY <1>1, <1>6 DEF Covers

(* A free vnode has no page that an object covers. *)
LEMMA FreeVnode ==
  ASSUME IInv, MemTypeOK, InRegion, HeldByObjects, NEW n \in free_nodes,
         NEW x \in Obj, Holds(x), NEW p \in Nat, Base + n <= p, p < Base + n + size[n]
  PROVE  ~Covers(x, p) /\ obj[x].vaddr # Base + n
<1>. DEFINE b == obj[x].vaddr - Base
<1>1. /\ obj[x].vaddr \in Nat /\ Base \in Nat /\ obj[x].pages \in Nat
  BY ObjTypes, Places
<1>2. b \in layout /\ b \notin is_free /\ size[b] = obj[x].pages
  BY ObjectVnode
<1>3. n \in layout /\ n \in is_free /\ n \in Nat
  BY NodeFacts DEF IInv, TreesAgree
<1>4. b \in Int /\ b # n /\ obj[x].vaddr = Base + b
  BY <1>1, <1>2, <1>3
<1>. HIDE DEF b
<1>5. /\ (n < b => n + size[n] <= b) /\ (b < n => b + size[b] <= n)
      /\ size[n] \in Nat
  BY <1>2, <1>3, NodeFacts
<1>6. n + size[n] <= b \/ b + obj[x].pages <= n
  BY <1>2, <1>3, <1>4, <1>5
<1>. QED BY <1>1, <1>3, <1>4, <1>5, <1>6 DEF Covers

(* What a step on memory objects does to the address spaces: it maps what   *)
(* was not mapped, inside of the region, and unmaps.                        *)
MemStep ==
  /\ \A t \in Space : t # Self => aspace'[t] = aspace[t]
  /\ \A p \in PageNumbers :
       /\ aspace[Self][p] # NoFrame => aspace'[Self][p] \in {aspace[Self][p], NoFrame}
       /\ p \notin Region /\ aspace[Self][p] = NoFrame => aspace'[Self][p] = NoFrame

(* An object that is made holds what the region has handed out. *)
LEMMA AllocMem ==
  ASSUME IInv, MemInv, NEW o \in Obj, NEW bytes \in Sizes, freeing = NoObj, ~obj[o].live,
         freeing' = NoObj, NEW node \in Offsets,
         alloc_vnode(node, pages_of(bytes)), MapAt(o, node, pages_of(bytes))
  PROVE  MemInv' /\ MemStep
<1>. DEFINE pages == pages_of(bytes)
<1>. USE DEF MemInv
<1>1. pages \in Nat \ {0}
  BY PagesOfLemma, SizesAssumption
<1>2. /\ node \in free_nodes /\ pages <= size[node] /\ held' = held \cup {<<node, pages>>}
  BY DEF alloc_vnode, find_at_least
<1>3. PICK mapped \in BOOLEAN :
        /\ obj' = [obj EXCEPT ![o] = [live |-> TRUE, vaddr |-> Base + node,
                                      pages |-> pages, mapped |-> mapped]]
        /\ aspace' = IF mapped THEN c4_addrspace_map(aspace, Self, o, pages, Base + node)
                     ELSE aspace
  BY DEF MapAt
<1>. HIDE DEF pages
<1>4. /\ node \in Nat /\ size[node] \in Nat /\ node + size[node] <= Pages
      /\ Base \in Nat /\ Self \in Space /\ Pages \in Nat
  BY <1>2, NodeFacts, Places, PagesAssumption DEF IInv, TreesAgree
<1>5. Base + node \in Nat /\ o \in Frame /\ pages \in Nat /\ aspace \in AsType
  BY <1>1, <1>4 DEF Frame, MemTypeOK, AsType
<1>6. /\ obj'[o].live /\ obj'[o].vaddr = Base + node /\ obj'[o].pages = pages
      /\ obj'[o].mapped = mapped
      /\ \A x \in Obj : x # o => obj'[x] = obj[x]
      /\ obj' \in [Obj -> [live : BOOLEAN, vaddr : Nat, pages : Nat, mapped : BOOLEAN]]
  BY <1>3, <1>5 DEF MemTypeOK
<1>7. /\ aspace' \in AsType
      /\ \A t \in Space : t # Self => aspace'[t] = aspace[t]
      /\ \A p \in PageNumbers :
           /\ mapped /\ Base + node <= p /\ p < Base + node + pages
                => aspace'[Self][p] = <<o, p - (Base + node)>>
           /\ ~(mapped /\ Base + node <= p /\ p < Base + node + pages)
                => aspace'[Self][p] = aspace[Self][p]
  <2>1. CASE mapped
    <3>1. aspace' = c4_addrspace_map(aspace, Self, o, pages, Base + node)
      BY <1>3, <2>1
    <3>2. Maps(aspace, aspace', Self, o, pages, Base + node)
      BY <3>1, <1>4, <1>5, MapLemma
    <3>. QED BY <3>2, <2>1 DEF Maps
  <2>2. CASE ~mapped
    BY <1>3, <1>5, <2>2
  <2>. QED BY <2>1, <2>2
<1>8. /\ ~Holds(o) /\ Holds(o)' /\ ~obj[o].mapped
      /\ \A x \in Obj : x # o => (Holds(x)' <=> Holds(x))
  BY <1>6, SpaceAssumption DEF Holds, InRegion
<1>9. ASSUME NEW x \in Obj, Holds(x), NEW p \in Nat, Base + node <= p, p < Base + node + pages
      PROVE  ~Covers(x, p) /\ obj[x].vaddr # Base + node
  <2>1. p < Base + node + size[node]
    BY <1>2, <1>4, <1>5, <1>9
  <2>. QED BY <2>1, <1>2, <1>9, FreeVnode
<1>10. \A p \in Region : p \in Nat /\ p \in PageNumbers
  BY Places
<1>11. ASSUME NEW p \in PageNumbers, Base + node <= p, p < Base + node + pages
       PROVE  p \in Region /\ aspace[Self][p] = NoFrame
  <2>1. p \in Nat
    BY Places
  <2>2. p \in Region
    BY <2>1, <1>2, <1>4, <1>5, <1>11 DEF Region
  <2>3. ASSUME NEW x \in Obj, obj[x].mapped, Covers(x, p)
        PROVE  FALSE
    BY <2>1, <2>3, <1>9, <1>11 DEF InRegion
  <2>. QED BY <2>2, <2>3 DEF RegionMapped
<1>12. MemTypeOK'
  BY <1>6, <1>7, SpaceAssumption DEF MemTypeOK, AsType
<1>13. InRegion'
  <2>. SUFFICES ASSUME NEW x \in Obj
                PROVE  /\ obj'[x].mapped => Holds(x)'
                       /\ Holds(x)' => /\ obj'[x].pages > 0 /\ Base <= obj'[x].vaddr
                                       /\ obj'[x].vaddr + obj'[x].pages <= Base + Pages
    BY DEF InRegion
  <2>1. CASE x = o
    <3>1. pages > 0 /\ Base <= Base + node /\ Base + node + pages <= Base + Pages
      BY <1>1, <1>2, <1>4
    <3>. QED BY <2>1, <3>1, <1>6, <1>8
  <2>2. CASE x # o
    BY <2>2, <1>6, <1>8 DEF InRegion
  <2>. QED BY <2>1, <2>2
<1>14. HeldByObjects'
  <2>1. <<obj'[o].vaddr - Base, obj'[o].pages>> = <<node, pages>>
    BY <1>4, <1>6
  <2>2. ASSUME NEW x \in Obj, x # o
        PROVE  /\ <<obj'[x].vaddr - Base, obj'[x].pages>> = <<obj[x].vaddr - Base, obj[x].pages>>
               /\ Holds(x)' <=> Holds(x)
    BY <1>6, <1>8, <2>2
  <2>3. ASSUME NEW r
        PROVE  r \in held' <=> \E x \in Obj : Holds(x)' /\ r = <<obj'[x].vaddr - Base, obj'[x].pages>>
    <3>1. r \in held' <=> r = <<node, pages>> \/ r \in held
      BY <1>2
    <3>2. r \in held <=> \E x \in Obj : Holds(x) /\ r = <<obj[x].vaddr - Base, obj[x].pages>>
      BY DEF HeldByObjects
    <3>. QED BY <3>1, <3>2, <2>1, <2>2, <1>8, Zenon
  <2>. QED BY <2>3 DEF HeldByObjects
<1>15. RangesDiffer'
  <2>1. Base + node <= Base + node /\ Base + node < Base + node + pages
    BY <1>1, <1>5
  <2>2. \A x \in Obj : Holds(x) => obj[x].vaddr # Base + node
    BY <1>5, <1>9, <2>1
  <2>. QED BY <2>2, <1>6, <1>8 DEF RangesDiffer
<1>16. RegionMapped'
  <2>. SUFFICES ASSUME NEW p \in Region
                PROVE  /\ \A x \in Obj : obj'[x].mapped /\ Covers(x, p)'
                            => aspace'[Self][p] = <<x, p - obj'[x].vaddr>>
                       /\ aspace'[Self][p] # NoFrame
                            => \E x \in Obj : obj'[x].mapped /\ Covers(x, p)'
    BY DEF RegionMapped
  <2>1. /\ Covers(o, p)' <=> Base + node <= p /\ p < Base + node + pages
        /\ \A x \in Obj : x # o => (Covers(x, p)' <=> Covers(x, p))
    BY <1>6 DEF Covers
  <2>2. p \in Nat /\ p \in PageNumbers
    BY <1>10
  <2>3. CASE Covers(o, p)' /\ mapped
    <3>1. aspace'[Self][p] = <<o, p - obj'[o].vaddr>>
      BY <1>6, <1>7, <2>1, <2>2, <2>3
    <3>2. \A x \in Obj : x # o => ~(obj[x].mapped /\ Covers(x, p))
      BY <1>9, <2>1, <2>2, <2>3 DEF InRegion
    <3>. QED BY <3>1, <3>2, <2>1, <2>3, <1>6
  <2>4. CASE ~(Covers(o, p)' /\ mapped)
    <3>1. aspace'[Self][p] = aspace[Self][p]
      BY <1>7, <2>1, <2>2, <2>4
    <3>2. /\ \A x \in Obj : obj[x].mapped /\ Covers(x, p) => aspace[Self][p] = <<x, p - obj[x].vaddr>>
          /\ aspace[Self][p] # NoFrame => \E x \in Obj : obj[x].mapped /\ Covers(x, p)
      BY DEF RegionMapped
    <3>. QED BY <3>1, <3>2, <2>1, <2>4, <1>6, <1>8
  <2>. QED BY <2>3, <2>4
<1>17. MemStep
  BY <1>7, <1>11 DEF MemStep
<1>. QED BY <1>12, <1>13, <1>14, <1>15, <1>16, <1>17

(* The steps of the memory objects that keep the region's runs. *)
LEMMA MemFrame ==
  ASSUME MemInv, held' = held, obj' = obj, freeing' = freeing,
         aspace' \in AsType, \A p \in Region : aspace'[Self][p] = aspace[Self][p]
  PROVE  MemInv'
<1>. USE DEF MemInv
<1>1. MemTypeOK'
  BY DEF MemTypeOK, AsType
<1>2. InRegion' /\ RangesDiffer'
  BY DEF InRegion, RangesDiffer, Holds
<1>3. HeldByObjects'
  BY DEF HeldByObjects, Holds
<1>4. RegionMapped'
  BY DEF RegionMapped, Covers
<1>. QED BY <1>1, <1>2, <1>3, <1>4

(* c4_memobj_free gives the region a range that it has handed out. *)
LEMMA FreeUses ==
  ASSUME IInv, MemInv, temp = NoNode, freeing = NoObj,
         NEW o \in Obj, c4_memobj_free(o)
  PROVE  /\ Next /\ c4rt_vaddr_free(obj[o].vaddr - Base)
         /\ held' = held \ {<<obj[o].vaddr - Base, obj[o].pages>>}
<1>. DEFINE offset == obj[o].vaddr - Base
<1>1. Holds(o)
  BY SpaceAssumption DEF c4_memobj_free, Holds
<1>2. offset \in layout /\ offset \notin is_free /\ size[offset] = obj[o].pages
  BY <1>1, ObjectVnode DEF MemInv
<1>3. give_back(offset) /\ offset \in Offsets
  BY <1>2 DEF c4_memobj_free, IInv, TypeOK
<1>4. <<offset, size[offset]>> \in held
  BY <1>2 DEF IInv, TreesAgree
<1>. HIDE DEF offset
<1>5. c4rt_vaddr_free(offset)
  BY <1>2, <1>3, <1>4 DEF c4rt_vaddr_free
<1>6. Next
  BY <1>3, <1>5 DEF Next
<1>7. held' = held \ {<<offset, obj[o].pages>>}
  BY <1>2, <1>3 DEF give_back
<1>. QED BY <1>5, <1>6, <1>7 DEF offset

(* An object that is freed takes its frame, and nothing else, out of the    *)
(* address space.                                                           *)
LEMMA FreeMem ==
  ASSUME IInv, MemInv, temp = NoNode, NEW o \in Obj, c4_memobj_free(o)
  PROVE  MemInv' /\ MemStep
<1>. USE DEF MemInv
<1>1. /\ freeing = NoObj /\ obj[o].live /\ aspace' = c4_memobj_unmap(o)
      /\ obj' = [obj EXCEPT ![o].mapped = FALSE] /\ freeing' = o
  BY DEF c4_memobj_free
<1>2. held' = held \ {<<obj[o].vaddr - Base, obj[o].pages>>}
  BY <1>1, FreeUses
<1>3. /\ obj'[o].live = obj[o].live /\ obj'[o].vaddr = obj[o].vaddr
      /\ obj'[o].pages = obj[o].pages /\ obj'[o].mapped = FALSE
      /\ \A x \in Obj : x # o => obj'[x] = obj[x]
      /\ obj' \in [Obj -> [live : BOOLEAN, vaddr : Nat, pages : Nat, mapped : BOOLEAN]]
  BY <1>1 DEF MemTypeOK
<1>4. /\ Holds(o) /\ ~Holds(o)'
      /\ \A x \in Obj : x # o => (Holds(x)' <=> Holds(x))
  BY <1>1, <1>3, SpaceAssumption DEF Holds
<1>5. aspace \in AsType /\ Self \in Space
  BY Places DEF MemTypeOK, AsType
<1>6. \A x \in Obj : obj[x].vaddr \in Nat /\ obj[x].pages \in Nat
  BY ObjTypes
<1>7. /\ obj[o].vaddr \in Region /\ obj[o].vaddr \in PageNumbers
      /\ Covers(o, obj[o].vaddr)
  <2>1. /\ obj[o].pages > 0 /\ Base <= obj[o].vaddr
        /\ obj[o].vaddr + obj[o].pages <= Base + Pages
    BY <1>4 DEF InRegion
  <2>2. obj[o].vaddr \in Region /\ Covers(o, obj[o].vaddr)
    BY <2>1, <1>6, Places, PagesAssumption DEF Region, Covers
  <2>. QED BY <2>2, Places
<1>8. /\ aspace' \in AsType /\ \A t \in Space : t # Self => aspace'[t] = aspace[t]
      /\ \A p \in PageNumbers :
           /\ aspace'[Self][p] \in {aspace[Self][p], NoFrame}
           /\ aspace[Self][p] = NoFrame => aspace'[Self][p] = NoFrame
      /\ ~obj[o].mapped => aspace' = aspace
      /\ obj[o].mapped => Unmaps(aspace, aspace', Self, obj[o].vaddr)
  <2>1. CASE obj[o].mapped
    <3>1. aspace' = c4_addrspace_unmap(aspace, Self, obj[o].vaddr)
      BY <1>1, <2>1 DEF c4_memobj_unmap
    <3>2. Unmaps(aspace, aspace', Self, obj[o].vaddr)
      BY <3>1, <1>5, <1>7, UnmapLemma
    <3>. QED BY <3>2, <2>1 DEF Unmaps
  <2>2. CASE ~obj[o].mapped
    BY <1>1, <1>5, <2>2 DEF c4_memobj_unmap
  <2>. QED BY <2>1, <2>2
<1>9. MemTypeOK'
  BY <1>1, <1>3, <1>8 DEF MemTypeOK, AsType
<1>10. InRegion'
  BY <1>3, <1>4 DEF InRegion
<1>11. HeldByObjects'
  <2>1. ASSUME NEW x \in Obj, x # o
        PROVE  /\ <<obj'[x].vaddr - Base, obj'[x].pages>> = <<obj[x].vaddr - Base, obj[x].pages>>
               /\ Holds(x)' <=> Holds(x)
               /\ Holds(x) => <<obj[x].vaddr - Base, obj[x].pages>>
                                # <<obj[o].vaddr - Base, obj[o].pages>>
    <3>1. Holds(x) => obj[x].vaddr # obj[o].vaddr
      BY <2>1, <1>4 DEF RangesDiffer
    <3>2. Holds(x) => obj[x].vaddr - Base # obj[o].vaddr - Base
      BY <3>1, <1>6, Places
    <3>. QED BY <2>1, <3>2, <1>3, <1>4
  <2>2. ASSUME NEW r
        PROVE  r \in held' <=> \E x \in Obj : Holds(x)' /\ r = <<obj'[x].vaddr - Base, obj'[x].pages>>
    <3>1. r \in held' <=> r # <<obj[o].vaddr - Base, obj[o].pages>> /\ r \in held
      BY <1>2
    <3>2. r \in held <=> \E x \in Obj : Holds(x) /\ r = <<obj[x].vaddr - Base, obj[x].pages>>
      BY DEF HeldByObjects
    <3>. QED BY <3>1, <3>2, <2>1, <1>4, Zenon
  <2>. QED BY <2>2 DEF HeldByObjects
<1>12. RangesDiffer'
  BY <1>3, <1>4 DEF RangesDiffer
<1>13. RegionMapped'
  <2>. SUFFICES ASSUME NEW p \in Region
                PROVE  /\ \A x \in Obj : obj'[x].mapped /\ Covers(x, p)'
                            => aspace'[Self][p] = <<x, p - obj'[x].vaddr>>
                       /\ aspace'[Self][p] # NoFrame
                            => \E x \in Obj : obj'[x].mapped /\ Covers(x, p)'
    BY DEF RegionMapped
  <2>1. \A x \in Obj : x # o => (Covers(x, p)' <=> Covers(x, p))
    BY <1>3 DEF Covers
  <2>2. p \in PageNumbers /\ p \in Nat
    BY Places
  <2>3. /\ \A x \in Obj : obj[x].mapped /\ Covers(x, p) => aspace[Self][p] = <<x, p - obj[x].vaddr>>
        /\ aspace[Self][p] # NoFrame => \E x \in Obj : obj[x].mapped /\ Covers(x, p)
    BY DEF RegionMapped
  <2>4. obj[o].mapped => aspace[Self][obj[o].vaddr] = <<o, 0>> /\ <<o, 0>> # NoFrame
    <3>1. obj[o].mapped => aspace[Self][obj[o].vaddr] = <<o, obj[o].vaddr - obj[o].vaddr>>
      BY <1>7 DEF RegionMapped
    <3>2. obj[o].vaddr - obj[o].vaddr = 0 /\ o \in Frame
      BY <1>6 DEF Frame
    <3>. QED BY <3>1, <3>2, MappingIsNot
  <2>5. ASSUME NEW x \in Obj, x # o, obj[x].mapped, Covers(x, p)
        PROVE  aspace'[Self][p] = aspace[Self][p]
    <3>1. aspace[Self][p] = <<x, p - obj[x].vaddr>>
      BY <2>3, <2>5
    <3>2. x \in Frame /\ p - obj[x].vaddr \in Nat
      BY <2>2, <2>5, <1>6 DEF Covers, Frame
    <3>3. aspace[Self][p] # NoFrame /\ aspace[Self][p][1] = x
      BY <3>1, <3>2, MappingIsNot
    <3>4. obj[o].mapped => aspace[Self][obj[o].vaddr][1] = o
      BY <2>4
    <3>. QED BY <3>3, <3>4, <2>2, <2>4, <2>5, <1>8 DEF Unmaps
  <2>6. ASSUME obj[o].mapped, Covers(o, p)
        PROVE  aspace'[Self][p] = NoFrame
    <3>1. aspace[Self][p] = <<o, p - obj[o].vaddr>>
      BY <2>3, <2>6
    <3>2. aspace[Self][p][1] = o /\ aspace[Self][obj[o].vaddr][1] = o
      BY <3>1, <2>4, <2>6
    <3>. QED BY <3>2, <2>2, <2>4, <2>6, <1>8 DEF Unmaps
  <2>7. ASSUME NEW x \in Obj, obj'[x].mapped, Covers(x, p)'
        PROVE  aspace'[Self][p] = <<x, p - obj'[x].vaddr>>
    BY <2>1, <2>3, <2>5, <2>7, <1>3
  <2>8. ASSUME aspace'[Self][p] # NoFrame
        PROVE  \E x \in Obj : obj'[x].mapped /\ Covers(x, p)'
    <3>1. aspace[Self][p] # NoFrame
      BY <2>2, <2>8, <1>8
    <3>2. PICK x \in Obj : obj[x].mapped /\ Covers(x, p)
      BY <3>1, <2>3
    <3>3. x # o
      BY <3>2, <2>6, <2>8
    <3>. QED BY <3>2, <3>3, <2>1, <1>3
  <2>. QED BY <2>7, <2>8
<1>14. MemStep
  BY <1>8 DEF MemStep
<1>. QED BY <1>9, <1>10, <1>11, <1>12, <1>13, <1>14

(* When c4_memobj_free returns, the object is none. *)
LEMMA DestroyMem ==
  ASSUME MemInv, c4_memobj_destroy, held' = held
  PROVE  MemInv' /\ MemStep
<1>. USE DEF MemInv
<1>1. /\ freeing \in Obj /\ freeing' = NoObj /\ aspace' = aspace
      /\ obj' = [obj EXCEPT ![freeing] = Unused]
  BY DEF c4_memobj_destroy, MemTypeOK
<1>2. /\ ~obj'[freeing].live /\ ~obj'[freeing].mapped
      /\ \A x \in Obj : x # freeing => obj'[x] = obj[x]
      /\ obj' \in [Obj -> [live : BOOLEAN, vaddr : Nat, pages : Nat, mapped : BOOLEAN]]
  BY <1>1 DEF Unused, MemTypeOK
<1>3. /\ ~Holds(freeing) /\ ~obj[freeing].mapped
      /\ \A x \in Obj : Holds(x)' <=> Holds(x) /\ x # freeing
  BY <1>1, <1>2, SpaceAssumption DEF Holds, InRegion
<1>4. MemTypeOK'
  BY <1>1, <1>2 DEF MemTypeOK
<1>5. InRegion' /\ RangesDiffer'
  BY <1>2, <1>3 DEF InRegion, RangesDiffer
<1>6. HeldByObjects'
  <2>1. ASSUME NEW r
        PROVE  r \in held' <=> \E x \in Obj : Holds(x)' /\ r = <<obj'[x].vaddr - Base, obj'[x].pages>>
    <3>1. r \in held <=> \E x \in Obj : Holds(x) /\ r = <<obj[x].vaddr - Base, obj[x].pages>>
      BY DEF HeldByObjects
    <3>2. \A x \in Obj : Holds(x) => Holds(x)' /\ obj'[x] = obj[x]
      BY <1>2, <1>3
    <3>3. \A x \in Obj : Holds(x)' => Holds(x) /\ obj'[x] = obj[x]
      BY <1>2, <1>3
    <3>. QED BY <3>1, <3>2, <3>3, Zenon
  <2>. QED BY <2>1 DEF HeldByObjects
<1>7. RegionMapped'
  <2>1. \A x \in Obj : obj'[x].mapped <=> obj[x].mapped
    BY <1>1, <1>2, <1>3
  <2>2. \A x \in Obj : obj'[x].mapped => obj'[x] = obj[x]
    BY <1>2
  <2>3. \A x \in Obj : obj[x].mapped => obj'[x] = obj[x]
    BY <1>2, <1>3
  <2>. QED BY <1>1, <2>1, <2>2, <2>3 DEF RegionMapped, Covers
<1>8. MemStep
  BY <1>1 DEF MemStep
<1>. QED BY <1>4, <1>5, <1>6, <1>7, <1>8

(* Every step on memory objects is one the allocator expects. *)
LEMMA MemNextLemma ==
  ASSUME IInv, MemInv, freeing = NoObj => temp = NoNode, MemNext
  PROVE  /\ [Next]_vars /\ MemInv' /\ MemStep
         /\ freeing' = NoObj => temp' = NoNode
<1>1. ASSUME aspace' = aspace
      PROVE  MemStep /\ (MemInv => aspace' \in AsType)
  BY <1>1 DEF MemStep, MemInv, MemTypeOK, AsType
<1>2. ASSUME NEW o \in Obj, NEW bytes \in Sizes, c4_memobj_alloc(o, bytes)
      PROVE  /\ [Next]_vars /\ MemInv' /\ MemStep
             /\ freeing' = NoObj /\ temp' = NoNode
  <2>1. freeing = NoObj /\ ~obj[o].live /\ freeing' = NoObj /\ temp = NoNode
    BY <1>2 DEF c4_memobj_alloc
  <2>2. bytes \in 1 .. MaxBytes
    BY SizesAssumption
  <2>3. ASSUME NEW node \in Offsets, alloc_vnode(node, pages_of(bytes)),
               MapAt(o, node, pages_of(bytes))
        PROVE  Next /\ MemInv' /\ MemStep /\ temp' = NoNode
    <3>1. c4rt_vaddr_alloc(bytes) /\ temp' = NoNode
      BY <2>1, <2>3 DEF c4rt_vaddr_alloc, alloc_vnode
    <3>2. Next
      BY <2>2, <3>1 DEF Next
    <3>3. MemInv' /\ MemStep
      BY <2>1, <2>3, AllocMem
    <3>. QED BY <3>1, <3>2, <3>3
  <2>4. ASSUME c4rt_vaddr_alloc_fails(bytes), UNCHANGED <<obj, aspace>>
        PROVE  UNCHANGED vars /\ MemInv' /\ MemStep /\ temp' = NoNode
    <3>1. UNCHANGED vars /\ held' = held /\ temp' = NoNode /\ obj' = obj /\ aspace' = aspace
      BY <2>1, <2>4 DEF c4rt_vaddr_alloc_fails, vars
    <3>2. MemInv'
      BY <1>1, <2>1, <3>1, MemFrame
    <3>. QED BY <1>1, <3>1, <3>2
  <2>. QED BY <1>2, <2>1, <2>3, <2>4 DEF c4_memobj_alloc, c4_memobj_region_map
<1>3. ASSUME NEW o \in Obj, c4_memobj_free(o)
      PROVE  [Next]_vars /\ MemInv' /\ MemStep /\ freeing' # NoObj
  <2>1. freeing = NoObj /\ temp = NoNode /\ freeing' # NoObj
    BY <1>3, SpaceAssumption DEF c4_memobj_free
  <2>. QED BY <1>3, <2>1, FreeUses, FreeMem
<1>4. ASSUME Merge
      PROVE  [Next]_vars /\ MemInv' /\ MemStep /\ freeing' # NoObj
  <2>1. /\ temp # NoNode /\ free_vnode /\ held' = held
        /\ aspace' = aspace /\ obj' = obj /\ freeing' = freeing
    BY <1>4 DEF Merge, memvars, MergePrevious, MergeNext, try_merge, free_vnode
  <2>2. MemInv'
    BY <1>1, <2>1, MemFrame
  <2>. QED BY <1>1, <2>1, <2>2 DEF Next
<1>5. ASSUME c4_memobj_destroy
      PROVE  [Next]_vars /\ MemInv' /\ MemStep /\ temp' = NoNode
  <2>1. held' = held /\ temp' = NoNode /\ [Next]_vars
    BY <1>5 DEF c4_memobj_destroy, MergeDone, vars, Next, free_vnode
  <2>. QED BY <1>5, <2>1, DestroyMem
<1>. QED BY <1>2, <1>3, <1>4, <1>5 DEF MemNext

-----------------------------------------------------------------------------
(* The image in the buffer. *)

(* A size is a whole number of pages, at least one if there is anything.    *)
LEMMA PagesNat ==
  ASSUME NEW n \in Nat
  PROVE  pages_of(n) \in Nat /\ (n > 0 => pages_of(n) > 0)
<1>1. n \div PageSize \in Int /\ n \div PageSize >= 0
  BY PageSizeAssumption
<1>2. n % PageSize \in 0 .. PageSize - 1
  BY PageSizeAssumption
<1>3. n = PageSize * (n \div PageSize) + (n % PageSize)
  BY PageSizeAssumption
<1>4. n > 0 /\ n \div PageSize = 0 => n % PageSize # 0
  BY <1>2, <1>3, PageSizeAssumption
<1>. QED BY <1>1, <1>4 DEF pages_of

(* What elf_load may rely on in a segment's header, h, at pages pages.      *)
GoodSegment(h, pages) ==
  /\ h.offset \in Nat /\ h.vaddr \in Nat /\ h.filesz \in Nat /\ h.memsz \in Nat
  /\ h.offset + h.filesz <= ProgSize
  /\ (h.vaddr % PageSize) + h.filesz <= pages_of(h.memsz) * PageSize
  /\ pages_of(h.memsz) \in 0 .. FramePages
  /\ h.filesz > 0 => pages_of(h.memsz) > 0
  /\ pages \subseteq PageNumbers \ {StackPage, BootPage}

(* The segments of a file with a header. *)
LEMMA FileLemma ==
  ASSUME NEW file \in Files, HasHeader(file)
  PROVE  /\ file \in Seq(Nat) /\ Len(file) \in 4 .. ProgSize /\ elf_is_valid(file)
         /\ e_phnum(file) \in 0 .. MaxSegments /\ e_phoff(file) \in Nat
         /\ e_phoff(file) + 4 * e_phnum(file) <= Len(file)
<1>1. /\ file \in Seq(Nat) /\ Len(file) <= ProgSize /\ Len(file) >= 4 /\ elf_is_valid(file)
      /\ e_phnum(file) <= MaxSegments /\ e_phoff(file) + 4 * e_phnum(file) <= Len(file)
  BY FilesAssumption DEF HasHeader
<1>2. Len(file) \in Nat /\ file[3] \in Nat /\ file[4] \in Nat
  BY <1>1
<1>. QED BY <1>1, <1>2, BoundsAssumption DEF e_phnum, e_phoff

(* An entry of a table of four-cell headers is inside what holds the table. *)
LEMMA EntryInside ==
  ASSUME NEW o \in Nat, NEW n \in Nat, NEW len \in Nat, o + 4 * n <= len,
         NEW i \in 0 .. n - 1
  PROVE  o + 4 * i \in Nat /\ o + 4 * i + 4 <= len
OBVIOUS

(* Their headers are good, and they need different pages. *)
LEMMA SegmentLemma ==
  ASSUME NEW file \in Files, HasHeader(file), NEW i \in 0 .. e_phnum(file) - 1
  PROVE  /\ GoodSegment(elf_get_phdr(file, i), Touched(file, i))
         /\ elf_get_phdr(file, i).offset + elf_get_phdr(file, i).filesz <= Len(file)
         /\ \A j \in 0 .. i - 1 : Touched(file, i) \cap Touched(file, j) = {}
<1>. DEFINE at == e_phoff(file) + 4 * i
            h == elf_get_phdr(file, i)
<1>1. /\ file \in Seq(Nat) /\ Len(file) \in 4 .. ProgSize
      /\ e_phnum(file) \in 0 .. MaxSegments /\ e_phoff(file) \in Nat
      /\ e_phoff(file) + 4 * e_phnum(file) <= Len(file)
  BY FileLemma
<1>2. at \in Nat /\ at + 4 <= Len(file)
  <2>1. e_phoff(file) \in Nat /\ e_phnum(file) \in Nat /\ Len(file) \in Nat
    BY <1>1
  <2>2. e_phoff(file) + 4 * e_phnum(file) <= Len(file) /\ i \in 0 .. e_phnum(file) - 1
    BY <1>1
  <2>. QED BY <2>1, <2>2, EntryInside, Zenon
<1>3. /\ h.offset = file[at + 1] /\ h.vaddr = file[at + 2]
      /\ h.filesz = file[at + 3] /\ h.memsz = file[at + 4]
  BY DEF elf_get_phdr
<1>4. /\ h.offset + h.filesz <= Len(file) /\ h.filesz <= h.memsz
      /\ (h.vaddr % PageSize) + h.memsz <= pages_of(h.memsz) * PageSize
      /\ pages_of(h.memsz) <= FramePages
      /\ Touched(file, i) \subseteq PageNumbers \ {StackPage, BootPage}
      /\ \A j \in 0 .. i - 1 : Touched(file, i) \cap Touched(file, j) = {}
  BY FilesAssumption
<1>. HIDE DEF at, h
<1>5. /\ at + 1 \in 1 .. Len(file) /\ at + 2 \in 1 .. Len(file)
      /\ at + 3 \in 1 .. Len(file) /\ at + 4 \in 1 .. Len(file)
  BY <1>1, <1>2
<1>6. \A k \in 1 .. Len(file) : file[k] \in Nat
  BY <1>1, SMTT(30)
<1>7. h.offset \in Nat /\ h.vaddr \in Nat /\ h.filesz \in Nat /\ h.memsz \in Nat
  BY <1>3, <1>5, <1>6
<1>8. h.vaddr % PageSize \in Nat /\ pages_of(h.memsz) \in Nat /\ PageSize \in Nat
  BY <1>7, PagesNat, PageSizeAssumption
<1>9. pages_of(h.memsz) * PageSize \in Nat
  BY <1>8
<1>10. (h.vaddr % PageSize) + h.filesz <= pages_of(h.memsz) * PageSize
  BY <1>4, <1>7, <1>8, <1>9
<1>11. h.filesz > 0 => pages_of(h.memsz) > 0
  <2>1. h.filesz > 0 => h.memsz > 0
    BY <1>4, <1>7
  <2>. QED BY <2>1, <1>7, PagesNat
<1>12. GoodSegment(h, Touched(file, i))
  <2>1. h.offset + h.filesz <= ProgSize
    <3>1. Len(file) \in Nat /\ ProgSize \in Nat /\ Len(file) <= ProgSize
      BY <1>1, BoundsAssumption
    <3>2. h.offset \in Nat /\ h.filesz \in Nat /\ h.offset + h.filesz <= Len(file)
      BY <1>4, <1>7, Zenon
    <3>. QED BY <3>1, <3>2
  <2>2. pages_of(h.memsz) \in 0 .. FramePages
    BY <1>4, <1>8, BoundsAssumption
  <2>. QED BY <1>4, <1>7, <1>10, <1>11, <2>1, <2>2 DEF GoodSegment
<1>. QED BY <1>4, <1>12 DEF h

(* A buffer that begins with a file has its headers. *)
LEMMA BufferLemma ==
  ASSUME NEW buf, NEW file \in Files, HasHeader(file), BeginsWith(buf, file)
  PROVE  /\ e_entry(buf) = e_entry(file) /\ e_phnum(buf) = e_phnum(file)
         /\ elf_is_valid(buf)
         /\ \A i \in 0 .. e_phnum(file) - 1 :
              /\ elf_get_phdr(buf, i) = elf_get_phdr(file, i)
              /\ Touched(buf, i) = Touched(file, i)
<1>1. /\ file \in Seq(Nat) /\ Len(file) \in 4 .. ProgSize /\ elf_is_valid(file)
      /\ e_phnum(file) \in 0 .. MaxSegments /\ e_phoff(file) \in Nat
      /\ e_phoff(file) + 4 * e_phnum(file) <= Len(file)
  BY FileLemma
<1>2. \A k \in 1 .. Len(file) : buf[k] = file[k]
  BY DEF BeginsWith
<1>3. 1 \in 1 .. Len(file) /\ 2 \in 1 .. Len(file) /\ 3 \in 1 .. Len(file) /\ 4 \in 1 .. Len(file)
  BY <1>1, BoundsAssumption
<1>4. /\ e_entry(buf) = e_entry(file) /\ e_phnum(buf) = e_phnum(file)
      /\ elf_is_valid(buf) /\ e_phoff(buf) = e_phoff(file)
  BY <1>1, <1>2, <1>3 DEF e_entry, e_phnum, e_phoff, elf_is_valid
<1>5. ASSUME NEW i \in 0 .. e_phnum(file) - 1
      PROVE  elf_get_phdr(buf, i) = elf_get_phdr(file, i)
  <2>. DEFINE at == e_phoff(file) + 4 * i
  <2>1. at \in Nat /\ at + 4 <= Len(file)
    <3>1. e_phoff(file) \in Nat /\ e_phnum(file) \in Nat /\ Len(file) \in Nat
      BY <1>1
    <3>2. e_phoff(file) + 4 * e_phnum(file) <= Len(file) /\ i \in 0 .. e_phnum(file) - 1
      BY <1>1, <1>5, Zenon
    <3>. QED BY <3>1, <3>2, EntryInside, Zenon
  <2>. HIDE DEF at
  <2>2. /\ at + 1 \in 1 .. Len(file) /\ at + 2 \in 1 .. Len(file)
        /\ at + 3 \in 1 .. Len(file) /\ at + 4 \in 1 .. Len(file)
    BY <1>1, <2>1
  <2>3. /\ buf[at + 1] = file[at + 1] /\ buf[at + 2] = file[at + 2]
        /\ buf[at + 3] = file[at + 3] /\ buf[at + 4] = file[at + 4]
    BY <1>2, <2>2
  <2>. QED BY <1>4, <2>3 DEF elf_get_phdr, at
<1>. QED BY <1>4, <1>5 DEF Touched

(* While elf_load is at work the buffer holds a file. *)
LEMMA WorkLemma ==
  ASSUME LoadInv, pc # "idle"
  PROVE  /\ made \in Child /\ made \in 1 .. made /\ e_phnum(progbuf) \in 0 .. MaxSegments
         /\ \A i \in 0 .. e_phnum(progbuf) - 1 :
              /\ GoodSegment(elf_get_phdr(progbuf, i), Touched(progbuf, i))
              /\ \A j \in 0 .. i - 1 : Touched(progbuf, i) \cap Touched(progbuf, j) = {}
<1>1. made \in Child /\ made \in 1 .. made /\ elf_is_valid(progbuf)
  BY BoundsAssumption DEF LoadInv, AtWork, LoadTypeOK, Child
<1>2. PICK file \in Files : HasHeader(file) /\ BeginsWith(progbuf, file)
  BY <1>1 DEF LoadInv, BufferRight
<1>3. e_phnum(file) \in 0 .. MaxSegments
  BY <1>2, FileLemma
<1>4. /\ e_phnum(progbuf) = e_phnum(file)
      /\ \A i \in 0 .. e_phnum(file) - 1 :
           /\ elf_get_phdr(progbuf, i) = elf_get_phdr(file, i)
           /\ Touched(progbuf, i) = Touched(file, i)
  BY <1>2, BufferLemma
<1>5. ASSUME NEW i \in 0 .. e_phnum(progbuf) - 1, NEW j \in 0 .. i - 1
      PROVE  Touched(progbuf, i) \cap Touched(progbuf, j) = {}
  <2>1. i \in 0 .. e_phnum(file) - 1 /\ j \in 0 .. e_phnum(file) - 1
    BY <1>3, <1>4, <1>5, BoundsAssumption
  <2>2. Touched(file, i) \cap Touched(file, j) = {}
    BY <1>2, <2>1, SegmentLemma
  <2>. QED BY <1>4, <2>1, <2>2
<1>6. \A i \in 0 .. e_phnum(progbuf) - 1 :
        GoodSegment(elf_get_phdr(progbuf, i), Touched(progbuf, i))
  BY <1>2, <1>4, SegmentLemma
<1>. QED BY <1>1, <1>3, <1>4, <1>5, <1>6

-----------------------------------------------------------------------------
(* The steps of elf_load. *)

(* Reading a file over the last one leaves the new file, or, if that is     *)
(* empty, what was there.                                                   *)
LEMMA SpawnBuffer ==
  ASSUME LoadTypeOK, BufferRight, NEW file \in Files,
         progbuf' = file \o SubSeq(progbuf, Len(file) + 1, ProgSize)
  PROVE  /\ progbuf' \in Seq(Nat) /\ Len(progbuf') = ProgSize
         /\ BeginsWith(progbuf', file) /\ BufferRight'
<1>1. file \in Seq(Nat) /\ Len(file) \in 0 .. ProgSize /\ ProgSize \in Nat
  BY FilesAssumption, BoundsAssumption
<1>2. progbuf \in Seq(Nat) /\ Len(progbuf) = ProgSize
  BY DEF LoadTypeOK
<1>. DEFINE rest == SubSeq(progbuf, Len(file) + 1, ProgSize)
<1>3. /\ rest \in Seq(Nat) /\ Len(rest) = ProgSize - Len(file)
      /\ \A k \in 1 .. ProgSize - Len(file) : rest[k] = progbuf[Len(file) + k]
  <2>1. Len(file) + 1 \in 1 .. ProgSize + 1
    BY <1>1
  <2>2. \A k \in 1 .. ProgSize - Len(file) :
          /\ Len(file) + k \in 1 .. ProgSize /\ Len(file) + k = Len(file) + 1 + k - 1
          /\ progbuf[Len(file) + k] \in Nat
    BY <1>1, <1>2
  <2>. QED BY <2>1, <2>2, <1>1, <1>2, SMTT(30)
<1>. HIDE DEF rest
<1>4. progbuf' = file \o rest
  BY DEF rest
<1>5. /\ progbuf' \in Seq(Nat) /\ Len(progbuf') = Len(file) + Len(rest)
      /\ \A k \in 1 .. Len(file) : progbuf'[k] = file[k]
      /\ \A k \in 1 .. Len(progbuf') : k > Len(file) => progbuf'[k] = rest[k - Len(file)]
  <2>1. /\ progbuf' \in Seq(Nat) /\ Len(progbuf') = Len(file) + Len(rest)
        /\ \A k \in 1 .. Len(file) + Len(rest) :
             progbuf'[k] = IF k <= Len(file) THEN file[k] ELSE rest[k - Len(file)]
    <3>1. file \in Seq(Nat) /\ rest \in Seq(Nat)
      BY <1>1, <1>3
    <3>2. /\ file \o rest \in Seq(Nat) /\ Len(file \o rest) = Len(file) + Len(rest)
          /\ \A k \in 1 .. Len(file) + Len(rest) :
               (file \o rest)[k] = IF k <= Len(file) THEN file[k] ELSE rest[k - Len(file)]
      BY <3>1, ConcatProperties, Zenon
    <3>. QED BY <3>2, <1>4, Zenon
  <2>2. Len(file) \in Nat /\ Len(rest) \in Nat
    BY <1>1, <1>3
  <2>3. ASSUME NEW k \in 1 .. Len(file)
        PROVE  progbuf'[k] = file[k]
    <3>1. k \in 1 .. Len(file) + Len(rest) /\ k <= Len(file)
      BY <2>2, <2>3
    <3>. QED BY <2>1, <3>1, Zenon
  <2>4. ASSUME NEW k \in 1 .. Len(progbuf'), k > Len(file)
        PROVE  progbuf'[k] = rest[k - Len(file)]
    <3>1. k \in 1 .. Len(file) + Len(rest)
      BY <2>1, <2>4, Zenon
    <3>2. ~(k <= Len(file))
      BY <2>2, <2>4, <3>1
    <3>. QED BY <2>1, <3>1, <3>2, Zenon
  <2>. QED BY <2>1, <2>3, <2>4, Zenon
<1>6. Len(progbuf') = ProgSize /\ BeginsWith(progbuf', file)
  BY <1>1, <1>3, <1>5 DEF BeginsWith
<1>7. CASE file = << >>
  <2>1. Len(file) = 0
    BY <1>7
  <2>2. ASSUME NEW k \in 1 .. ProgSize
        PROVE  progbuf'[k] = progbuf[k]
    <3>1. k \in 1 .. Len(progbuf') /\ k > Len(file) /\ k - Len(file) = k
          /\ k \in 1 .. ProgSize - Len(file) /\ Len(file) + k = k
      BY <1>1, <1>6, <2>1, <2>2
    <3>. QED BY <3>1, <1>3, <1>5
  <2>3. progbuf' = progbuf
    BY <2>2, <1>2, <1>5, <1>6, SeqEqual
  <2>4. elf_is_valid(progbuf)' <=> elf_is_valid(progbuf)
    BY <2>3 DEF elf_is_valid
  <2>5. ASSUME NEW f \in Files, BeginsWith(progbuf, f)
        PROVE  BeginsWith(progbuf', f)
    BY <2>3, <2>5 DEF BeginsWith
  <2>. QED BY <1>5, <1>6, <2>4, <2>5 DEF BufferRight
<1>8. CASE file # << >>
  <2>1. Len(file) # 0
    BY <1>1, <1>8
  <2>2. progbuf'[1] = file[1]
    BY <1>1, <1>5, <2>1
  <2>3. elf_is_valid(progbuf)' => HasHeader(file)
    BY <1>8, <2>2, FilesAssumption DEF elf_is_valid
  <2>. QED BY <1>5, <1>6, <2>3 DEF BufferRight
<1>. QED BY <1>7, <1>8

(* A program whose segments are in place keeps them as long as its space    *)
(* and its frames are left alone.                                           *)
LEMMA SegFrame ==
  ASSUME NEW c \in Child, SegmentsOf(c), Finished(c), asked[c].file \in Files,
         asked'[c] = asked[c], thread'[c].entry = thread[c].entry, aspace'[c] = aspace[c],
         \A j \in 0 .. MaxSegments : frames'[<<c, j>>] = frames[<<c, j>>]
  PROVE  SegmentsOf(c)'
<1>1. ASSUME NEW i \in 0 .. e_phnum(asked[c].file) - 1, HasHeader(asked[c].file)
      PROVE  Mapped(c, i)' /\ Copied(c, i)'
  <2>1. Mapped(c, i) /\ Copied(c, i)
    BY <1>1 DEF SegmentsOf
  <2>2. i \in 0 .. MaxSegments
    BY <1>1, FileLemma, BoundsAssumption
  <2>. QED BY <2>1, <2>2 DEF Mapped, Copied
<1>. QED BY <1>1 DEF SegmentsOf

(* elf_load's window is clear before it maps a frame there. *)
LEMMA WindowClear ==
  ASSUME WindowUse, pc \notin {"push", "copy"}, NEW p \in PageNumbers \ Region
  PROVE  aspace[Self][p] = NoFrame
BY DEF WindowUse

(* The pages a frame takes in the window. *)
LEMMA WindowPages ==
  ASSUME NEW n \in 0 .. FramePages, NEW p \in PageNumbers, Window <= p, p < Window + n
  PROVE  p \notin Region
<1>1. p \in Window .. Window + FramePages - 1
  BY Places, BoundsAssumption
<1>. QED BY <1>1, PlacesAssumption DEF Region

(* When elf_load has written a frame it clears the window, and no object of *)
(* the spawner loses a page.                                                *)
LEMMA WindowUnmap ==
  ASSUME MemInv, LoadInv, WindowUse, pc \in {"push", "copy"},
         aspace' = c4_addrspace_unmap(aspace, Self, Window)
  PROVE  /\ aspace' \in AsType
         /\ \A t \in Space : t # Self => aspace'[t] = aspace[t]
         /\ \A p \in Region : aspace'[Self][p] = aspace[Self][p]
         /\ \A p \in PageNumbers \ Region : aspace'[Self][p] = NoFrame
<1>1. aspace \in AsType /\ Self \in Space /\ Window \in PageNumbers
  BY Places DEF MemInv, MemTypeOK, AsType
<1>2. Unmaps(aspace, aspace', Self, Window)
  BY <1>1, UnmapLemma
<1>3. InWindow \in FrameId
  <2>1. made \in Child
    BY WorkLemma
  <2>2. pc = "copy" => seg \in 0 .. MaxSegments
    <3>1. pc = "copy" => e_phnum(progbuf) \in 0 .. MaxSegments /\ seg < e_phnum(progbuf) /\ seg \in Nat
      BY WorkLemma DEF LoadInv, AtWork, LoadTypeOK
    <3>. QED BY <3>1, BoundsAssumption
  <2>3. MaxSegments \in 0 .. MaxSegments
    BY BoundsAssumption
  <2>. QED BY <2>1, <2>2, <2>3 DEF InWindow, StackOf, FrameId
<1>4. <<InWindow, 0>> # NoFrame
  BY <1>3, MappingIsNot DEF Frame
<1>5. aspace[Self][Window] # NoFrame => aspace[Self][Window] = <<InWindow, 0>>
  BY Places DEF WindowUse
<1>6. ASSUME NEW p \in Region
      PROVE  aspace'[Self][p] = aspace[Self][p]
  <2>1. p \in PageNumbers
    BY Places
  <2>2. CASE aspace[Self][p] = NoFrame
    BY <1>2, <2>1, <2>2 DEF Unmaps
  <2>3. CASE aspace[Self][p] # NoFrame
    <3>1. PICK o \in Obj : aspace[Self][p] = <<o, p - obj[o].vaddr>>
      BY <2>3 DEF MemInv, RegionMapped
    <3>2. aspace[Self][p][1] = o /\ o # InWindow
      BY <3>1, <1>3, FramesAssumption
    <3>3. aspace[Self][Window] # NoFrame => aspace[Self][Window][1] = InWindow
      BY <1>5
    <3>. QED BY <3>2, <3>3, <1>2, <2>1, <2>3 DEF Unmaps
  <2>. QED BY <2>2, <2>3
<1>7. ASSUME NEW p \in PageNumbers \ Region
      PROVE  aspace'[Self][p] = NoFrame
  <2>1. CASE aspace[Self][p] = NoFrame
    BY <1>2, <2>1 DEF Unmaps
  <2>2. CASE aspace[Self][p] # NoFrame
    <3>1. aspace[Self][p][1] = InWindow /\ aspace[Self][Window] = <<InWindow, 0>>
      BY <2>2 DEF WindowUse
    <3>2. aspace[Self][Window][1] = InWindow
      BY <3>1
    <3>. QED BY <3>1, <3>2, <1>2, <1>4, <2>2 DEF Unmaps
  <2>. QED BY <2>1, <2>2
<1>. QED BY <1>2, <1>6, <1>7 DEF Unmaps

-----------------------------------------------------------------------------
(* Pages and cells. *)

(* A further page is a page further. *)
LEMMA PagesApart ==
  ASSUME NEW a \in Int, NEW b \in Int, a < b
  PROVE  PageSize * a + PageSize <= PageSize * b
<1>1. PageSize \in Nat /\ PageSize > 0
  BY PageSizeAssumption
<1>. DEFINE d == b - a - 1
<1>2. d \in Nat /\ b = a + 1 + d
  OBVIOUS
<1>. HIDE DEF d
<1>3. PageSize * b = PageSize * a + PageSize + PageSize * d
  BY <1>1, <1>2
<1>4. PageSize * d >= 0
  BY <1>1, <1>2
<1>. QED BY <1>1, <1>2, <1>3, <1>4

(* An address is its page and its place there, in one way only. *)
LEMMA AddressLemma ==
  ASSUME NEW x \in Nat
  PROVE  /\ x \div PageSize \in Nat /\ x % PageSize \in 0 .. PageSize - 1
         /\ x = PageSize * (x \div PageSize) + (x % PageSize)
<1>1. PageSize \in Nat /\ PageSize > 0
  BY PageSizeAssumption
<1>2. x \div PageSize \in Int /\ x \div PageSize >= 0
  BY <1>1
<1>. QED BY <1>1, <1>2

(* See AddressLemma. *)
LEMMA PageOf ==
  ASSUME NEW q \in Nat, NEW r \in 0 .. PageSize - 1, NEW x \in Nat, x = q * PageSize + r
  PROVE  x \div PageSize = q /\ x % PageSize = r
<1>. DEFINE d == x \div PageSize
            m == x % PageSize
<1>1. /\ d \in Nat /\ m \in 0 .. PageSize - 1 /\ x = PageSize * d + m
      /\ PageSize \in Nat /\ PageSize > 0
  BY AddressLemma, PageSizeAssumption, SMTT(30)
<1>. HIDE DEF d, m
<1>2. x = PageSize * q + r /\ r \in Nat /\ m \in Nat /\ r < PageSize /\ m < PageSize
  BY <1>1
<1>. DEFINE A == PageSize * q
            B == PageSize * d
<1>3. A \in Int /\ B \in Int /\ x = A + r /\ x = B + m
  BY <1>1, <1>2
<1>4. (d < q => B + PageSize <= A) /\ (q < d => A + PageSize <= B)
  BY <1>1, PagesApart
<1>. HIDE DEF A, B
<1>5. ~(d < q) /\ ~(q < d)
  BY <1>1, <1>2, <1>3, <1>4
<1>6. d = q
  BY <1>1, <1>5
<1>7. A = B
  BY <1>6 DEF A, B
<1>8. m = r
  BY <1>2, <1>3, <1>7
<1>. QED BY <1>6, <1>8 DEF d, m

(* Where a cell of a segment is that begins at address v: on one of the     *)
(* pages from v's on, and at the same place of the frame that is mapped     *)
(* there as in the window.                                                  *)
LEMMA CellLemma ==
  ASSUME NEW v \in Nat, NEW k \in Nat, NEW n \in Nat,
         (v % PageSize) + k < n * PageSize
  PROVE  LET page  == (v + k) \div PageSize
             first == v \div PageSize
         IN /\ page \in first .. first + n - 1
            /\ (page - first) * PageSize + ((v + k) % PageSize) = (v % PageSize) + k
<1>. DEFINE page == (v + k) \div PageSize
            s == (v + k) % PageSize
            first == v \div PageSize
            r == v % PageSize
<1>1. /\ first \in Nat /\ r \in 0 .. PageSize - 1 /\ v = PageSize * first + r
      /\ PageSize \in Nat /\ PageSize > 0
  BY AddressLemma, PageSizeAssumption
<1>2. page \in Nat /\ s \in 0 .. PageSize - 1 /\ v + k = PageSize * page + s
  BY AddressLemma
<1>3. r + k < PageSize * n
  BY <1>1
<1>. HIDE DEF page, s, first, r
<1>. DEFINE F == PageSize * first
            P == PageSize * page
            L == PageSize * (first + n)
<1>4. /\ F \in Int /\ P \in Int /\ L \in Int /\ L = F + PageSize * n
      /\ (page - first) * PageSize = P - F /\ v = F + r /\ v + k = P + s
  BY <1>1, <1>2
<1>5. PageSize * n \in Int
  BY <1>1
<1>6. /\ page < first => P + PageSize <= F
      /\ first + n < page => L + PageSize <= P
      /\ first + n = page => L = P
  BY <1>1, <1>2, PagesApart
<1>. HIDE DEF F, P, L
<1>7. P + s < L
  BY <1>1, <1>2, <1>3, <1>4, <1>5
<1>8. ~(page < first)
  BY <1>1, <1>2, <1>4, <1>6
<1>9. ~(first + n < page) /\ first + n # page
  BY <1>1, <1>2, <1>4, <1>6, <1>7
<1>10. page \in first .. first + n - 1
  BY <1>1, <1>2, <1>8, <1>9
<1>11. (page - first) * PageSize + s = r + k
  BY <1>1, <1>2, <1>4
<1>. QED BY <1>10, <1>11 DEF page, s, first, r

-----------------------------------------------------------------------------
(* What each step keeps, memory objects and elf_load together. *)

(* Nothing is mapped over a page that is in use. *)
Untouched ==
  \A s \in Space, p \in PageNumbers :
    aspace[s][p] # NoFrame => aspace'[s][p] \in {aspace[s][p], NoFrame}

(* A step that leaves the allocator, the objects and the region's pages.    *)
LEMMA LoaderFrame ==
  ASSUME LInv, UNCHANGED vars, obj' = obj, freeing' = freeing, freeing = NoObj \/ pc' = "idle",
         aspace' \in AsType, \A p \in Region : aspace'[Self][p] = aspace[Self][p]
  PROVE  IInv' /\ MemInv' /\ OneCall'
<1>1. IInv'
  BY NextInv DEF LInv
<1>2. held' = held /\ temp' = temp
  BY DEF vars
<1>3. MemInv'
  BY <1>2, MemFrame DEF LInv
<1>. QED BY <1>1, <1>2, <1>3 DEF LInv, OneCall

(* What elf_load has left behind stays while memory objects come and go.    *)
LEMMA IdleFrame ==
  ASSUME LInv, UNCHANGED <<progbuf, pc, made, seg, frames, thread, asked>>, pc = "idle", MemStep
  PROVE  LoadInv' /\ WindowUse' /\ ChildSpaces' /\ SegmentsDone'
<1>1. LoadInv'
  <2>1. LoadTypeOK' /\ BufferRight'
    BY DEF LInv, LoadInv, LoadTypeOK, BufferRight, BeginsWith
  <2>2. AtWork'
    BY DEF LInv, LoadInv, AtWork, BeginsWith
  <2>. QED BY <2>1, <2>2 DEF LoadInv
<1>2. WindowUse'
  <2>1. \A p \in PageNumbers \ Region : aspace'[Self][p] = NoFrame
    BY WindowClear DEF LInv, MemStep
  <2>. QED BY <2>1 DEF WindowUse
<1>3. \A c \in Child : aspace'[c] = aspace[c]
  BY Places DEF MemStep
<1>4. ChildSpaces'
  BY <1>3 DEF LInv, ChildSpaces
<1>5. SegmentsDone'
  <2>. SUFFICES ASSUME NEW c \in 1 .. made
                PROVE  SegmentsOf(c)'
    BY DEF SegmentsDone
  <2>1. c \in Child /\ SegmentsOf(c) /\ Finished(c) /\ asked[c].file \in Files
    <3>1. made \in 0 .. MaxSpawns /\ SegmentsDone
      BY DEF LInv, LoadInv, LoadTypeOK
    <3>2. \A x \in 1 .. made : asked[x].file \in Files
      BY DEF LInv, LoadInv, AtWork
    <3>. QED BY <3>1, <3>2, BoundsAssumption DEF SegmentsDone, Finished, Child
  <2>. QED BY <2>1, <1>3, SegFrame
<1>. QED BY <1>1, <1>2, <1>4, <1>5

(* Memory objects. *)
LEMMA MemoryStep ==
  ASSUME LInv, pc = "idle", MemNext, UNCHANGED loadvars
  PROVE  LInv' /\ [Next]_vars /\ Untouched
<1>1. /\ [Next]_vars /\ MemInv' /\ MemStep
      /\ freeing' = NoObj => temp' = NoNode
  BY MemNextLemma DEF LInv, OneCall
<1>2. UNCHANGED <<progbuf, pc, made, seg, frames, thread, asked>>
  BY DEF loadvars
<1>3. IInv'
  BY <1>1, NextInv DEF LInv
<1>4. OneCall'
  BY <1>1, <1>2 DEF OneCall
<1>5. LoadInv' /\ WindowUse' /\ ChildSpaces' /\ SegmentsDone'
  BY <1>1, <1>2, IdleFrame
<1>6. Untouched
  <2>. SUFFICES ASSUME NEW s \in Space, NEW p \in PageNumbers, aspace[s][p] # NoFrame
                PROVE  aspace'[s][p] \in {aspace[s][p], NoFrame}
    BY DEF Untouched
  <2>1. CASE s = Self
    BY <1>1, <2>1 DEF MemStep
  <2>2. CASE s # Self
    BY <1>1, <2>2 DEF MemStep
  <2>. QED BY <2>1, <2>2
<1>. QED BY <1>1, <1>3, <1>4, <1>5, <1>6 DEF LInv

(* The new program's own first steps, and steps that change nothing here.   *)
LEMMA SameStep ==
  ASSUME LInv, UNCHANGED <<vars, memvars, progbuf, pc, made, seg, frames, thread, asked>>
  PROVE  LInv' /\ [Next]_vars /\ Untouched
<1>1. aspace' = aspace /\ obj' = obj /\ freeing' = freeing /\ UNCHANGED vars
  BY DEF memvars
<1>2. IInv' /\ MemInv' /\ OneCall'
  BY <1>1, LoaderFrame DEF LInv, OneCall, MemInv, MemTypeOK, AsType
<1>3. LoadInv'
  <2>1. LoadTypeOK' /\ BufferRight'
    BY DEF LInv, LoadInv, LoadTypeOK, BufferRight, BeginsWith
  <2>2. AtWork'
    BY DEF LInv, LoadInv, AtWork, BeginsWith
  <2>. QED BY <2>1, <2>2 DEF LoadInv
<1>4. WindowUse'
  BY <1>1 DEF LInv, WindowUse, InWindow
<1>5. ChildSpaces'
  BY <1>1 DEF LInv, ChildSpaces, Reached
<1>6. SegmentsDone'
  BY <1>1 DEF LInv, SegmentsDone, SegmentsOf, Finished, Reached, Mapped, Copied
<1>. QED BY <1>1, <1>2, <1>3, <1>4, <1>5, <1>6 DEF LInv, Untouched

(* When the last segment is in place the program runs. *)
LEMMA ContinueStep ==
  ASSUME LInv, ContinueThread
  PROVE  LInv' /\ [Next]_vars /\ Untouched
<1>. USE DEF LInv
<1>1. /\ pc = "map" /\ pc' = "idle" /\ seg = e_phnum(progbuf) /\ seg' = seg
      /\ thread' = [thread EXCEPT ![made].runs = TRUE]
      /\ aspace' = aspace /\ obj' = obj /\ freeing' = freeing /\ UNCHANGED vars
      /\ progbuf' = progbuf /\ made' = made /\ frames' = frames /\ asked' = asked
  BY DEF ContinueThread, memvars
<1>2. /\ made \in Child /\ made \in 1 .. made /\ LoadTypeOK /\ BufferRight /\ AtWork
      /\ made \in 0 .. MaxSpawns
  BY <1>1, WorkLemma DEF LoadInv, LoadTypeOK
<1>3. thread \in [Child -> [entry : Nat, stack : Int, runs : BOOLEAN]]
  BY <1>2 DEF LoadTypeOK
<1>4. /\ thread' \in [Child -> [entry : Nat, stack : Int, runs : BOOLEAN]]
      /\ \A x \in Child : /\ thread'[x].entry = thread[x].entry
                          /\ x # made => thread'[x].runs = thread[x].runs
  BY <1>1, <1>2, <1>3
<1>5. IInv' /\ MemInv' /\ OneCall'
  BY <1>1, LoaderFrame DEF MemInv, MemTypeOK, AsType
<1>6. LoadInv'
  <2>1. LoadTypeOK'
    BY <1>1, <1>2, <1>4 DEF LoadTypeOK
  <2>2. BufferRight'
    BY <1>1, <1>2 DEF BufferRight
  <2>3. AtWork'
    <3>1. \A c \in Child : thread'[c].runs => c <= made
      <4>1. made <= made
        BY <1>2
      <4>. QED BY <4>1, <1>2, <1>4 DEF AtWork
    <3>. QED BY <3>1, <1>1, <1>2 DEF AtWork
  <2>. QED BY <2>1, <2>2, <2>3 DEF LoadInv
<1>7. WindowUse'
  <2>1. \A p \in PageNumbers \ Region : aspace'[Self][p] = NoFrame
    BY <1>1, WindowClear
  <2>. QED BY <1>1, <2>1 DEF WindowUse
<1>8. ChildSpaces'
  BY <1>1 DEF ChildSpaces
<1>9. SegmentsDone'
  <2>. SUFFICES ASSUME NEW c \in 1 .. made
                PROVE  SegmentsOf(c)'
    BY <1>1 DEF SegmentsDone
  <2>1. c \in Child /\ SegmentsOf(c) /\ (c # made => Finished(c)) /\ asked[c].file \in Files
    BY <1>2, BoundsAssumption DEF SegmentsDone, Finished, Child, AtWork
  <2>2. CASE c # made
    BY <1>1, <1>4, <2>1, <2>2, SegFrame
  <2>3. CASE c = made
    <3>. SUFFICES ASSUME HasHeader(asked[c].file), NEW i \in 0 .. e_phnum(asked[c].file) - 1
                  PROVE  Mapped(c, i)' /\ Copied(c, i)' /\ thread[c].entry = e_entry(asked[c].file)
      BY <1>1, <1>4, <2>1 DEF SegmentsOf
    <3>1. e_phnum(progbuf) = e_phnum(asked[c].file) /\ e_phnum(progbuf) \in Nat
      BY <1>1, <1>2, <2>3, BufferLemma, WorkLemma DEF AtWork
    <3>2. i < seg /\ i < Reached
      BY <1>1, <3>1 DEF Reached
    <3>3. Mapped(c, i) /\ Copied(c, i) /\ thread[c].entry = e_entry(asked[c].file)
      BY <3>2, <2>1 DEF SegmentsOf
    <3>. QED BY <3>3, <1>1 DEF Mapped, Copied
  <2>. QED BY <2>2, <2>3
<1>. QED BY <1>1, <1>5, <1>6, <1>7, <1>8, <1>9 DEF Untouched

(* A file that is no program, or gets no stack, leaves everything but the   *)
(* buffer alone.                                                            *)
LEMMA NoProgram ==
  ASSUME LInv, NEW file \in Files, pc = "idle",
         progbuf' = file \o SubSeq(progbuf, Len(file) + 1, ProgSize),
         UNCHANGED <<vars, memvars, pc, made, seg, frames, thread, asked>>
  PROVE  LInv' /\ [Next]_vars /\ Untouched
<1>. USE DEF LInv
<1>1. /\ aspace' = aspace /\ obj' = obj /\ freeing' = freeing /\ UNCHANGED vars
      /\ pc' = "idle" /\ made' = made /\ frames' = frames /\ thread' = thread
      /\ asked' = asked /\ seg' = seg
  BY DEF memvars
<1>2. IInv' /\ MemInv' /\ OneCall'
  BY <1>1, LoaderFrame DEF MemInv, MemTypeOK, AsType
<1>3. progbuf' \in Seq(Nat) /\ Len(progbuf') = ProgSize /\ BufferRight'
  BY SpawnBuffer DEF LoadInv
<1>4. LoadInv'
  <2>1. LoadTypeOK'
    BY <1>1, <1>3 DEF LoadInv, LoadTypeOK
  <2>2. AtWork'
    BY <1>1 DEF LoadInv, AtWork
  <2>. QED BY <1>3, <2>1, <2>2 DEF LoadInv
<1>5. WindowUse'
  <2>1. \A p \in PageNumbers \ Region : aspace'[Self][p] = NoFrame
    BY <1>1, WindowClear
  <2>. QED BY <1>1, <2>1 DEF WindowUse
<1>6. ChildSpaces'
  BY <1>1 DEF ChildSpaces
<1>7. SegmentsDone'
  BY <1>1 DEF SegmentsDone, SegmentsOf, Finished, Mapped, Copied
<1>. QED BY <1>1, <1>2, <1>4, <1>5, <1>6, <1>7 DEF Untouched

(* A new program has the boot information and a stack, which the spawner    *)
(* has in its window.                                                       *)
LEMMA NewSpaces ==
  ASSUME LInv, pc = "idle", NEW c \in Child, c = made + 1,
         aspace' = c4_addrspace_map(
                     c4_addrspace_map(
                       c4_addrspace_map(aspace, c, BootFrame, 1, BootPage),
                       Self, StackOf(c), 1, Window),
                     c, StackOf(c), 1, StackPage)
  PROVE  /\ aspace' \in AsType
         /\ \A t \in Space : t \notin {c, Self} => aspace'[t] = aspace[t]
         /\ aspace'[Self][Window] = <<StackOf(c), 0>>
         /\ \A p \in PageNumbers : p # Window => aspace'[Self][p] = aspace[Self][p]
         /\ \A p \in PageNumbers : p \notin {StackPage, BootPage} => aspace'[c][p] = NoFrame
         /\ aspace'[c][StackPage] = <<StackOf(c), 0>>
<1>. DEFINE one == c4_addrspace_map(aspace, c, BootFrame, 1, BootPage)
            two == c4_addrspace_map(one, Self, StackOf(c), 1, Window)
<1>1. /\ aspace \in AsType /\ c \in Space /\ Self \in Space /\ c # Self
      /\ BootFrame \in Frame /\ StackOf(c) \in Frame
      /\ BootPage \in Nat /\ StackPage \in Nat /\ Window \in Nat /\ Window \in PageNumbers
  <2>1. StackOf(c) \in FrameId
    BY BoundsAssumption DEF StackOf, FrameId
  <2>. QED BY <2>1, Places, PlacesAssumption DEF Frame, LInv, MemInv, MemTypeOK, AsType
<1>2. Maps(aspace, one, c, BootFrame, 1, BootPage)
  BY <1>1, MapLemma
<1>. HIDE DEF one
<1>3. Maps(one, two, Self, StackOf(c), 1, Window)
  <2>1. one \in AsType
    BY <1>2 DEF Maps
  <2>. QED BY <2>1, <1>1, MapLemma
<1>4. aspace' = c4_addrspace_map(two, c, StackOf(c), 1, StackPage)
  BY DEF one
<1>. HIDE DEF two
<1>5. Maps(two, aspace', c, StackOf(c), 1, StackPage)
  <2>1. two \in AsType
    BY <1>3 DEF Maps
  <2>. QED BY <2>1, <1>1, <1>4, MapLemma
<1>6. /\ \A t \in Space : t # c => one[t] = aspace[t]
      /\ \A t \in Space : t # Self => two[t] = one[t]
      /\ \A t \in Space : t # c => aspace'[t] = two[t]
  BY <1>2, <1>3, <1>5 DEF Maps
<1>7. \A p \in PageNumbers : p \in Nat
  BY Places
<1>8. two[Self][Window] = <<StackOf(c), 0>>
  <2>1. Window <= Window /\ Window < Window + 1 /\ Window - Window = 0
    BY <1>1
  <2>. QED BY <2>1, <1>1, <1>3 DEF Maps
<1>9. ASSUME NEW p \in PageNumbers, p # Window
      PROVE  two[Self][p] = one[Self][p]
  <2>1. ~(Window <= p /\ p < Window + 1)
    BY <1>1, <1>7, <1>9
  <2>. QED BY <2>1, <1>3 DEF Maps
<1>10. ASSUME NEW p \in PageNumbers, p \notin {StackPage, BootPage}
       PROVE  aspace'[c][p] = NoFrame
  <2>1. ~(StackPage <= p /\ p < StackPage + 1) /\ ~(BootPage <= p /\ p < BootPage + 1)
    BY <1>1, <1>7, <1>10
  <2>2. aspace'[c][p] = two[c][p]
    BY <2>1, <1>5 DEF Maps
  <2>3. two[c][p] = one[c][p]
    BY <1>1, <1>6
  <2>4. one[c][p] = aspace[c][p]
    BY <2>1, <1>2 DEF Maps
  <2>5. aspace[c][p] = NoFrame
    <3>1. ~(c <= made)
      BY BoundsAssumption DEF LInv, LoadInv, LoadTypeOK
    <3>. QED BY <3>1 DEF LInv, ChildSpaces
  <2>. QED BY <2>2, <2>3, <2>4, <2>5
<1>11. aspace' \in AsType
  BY <1>5 DEF Maps
<1>12. aspace'[Self] = two[Self] /\ one[Self] = aspace[Self]
  BY <1>1, <1>6
<1>13. \A t \in Space : t \notin {c, Self} => aspace'[t] = aspace[t]
  BY <1>6
<1>14. aspace'[c][StackPage] = <<StackOf(c), 0>>
  <2>1. StackPage \in PageNumbers /\ StackPage <= StackPage /\ StackPage < StackPage + 1
        /\ StackPage - StackPage = 0
    BY <1>1, PlacesAssumption
  <2>. QED BY <2>1, <1>5 DEF Maps
<1>. QED BY <1>8, <1>9, <1>10, <1>11, <1>12, <1>13, <1>14

(* spawn finds a program in its buffer and has a frame for its stack. *)
Begins(file, call) ==
  /\ elf_is_valid(progbuf') /\ NewProcess(made + 1, progbuf')
  /\ asked' = [asked EXCEPT ![made + 1] = [file |-> file, argv |-> call[1], envp |-> call[2]]]

(* A file that is a program is put to work. *)
LEMMA NewProgram ==
  ASSUME LInv, NEW file \in Files, NEW call \in Calls, spawn(file, call[1], call[2]),
         Begins(file, call)
  PROVE  LInv' /\ [Next]_vars /\ Untouched
<1>. USE DEF LInv
<1>. DEFINE c == made + 1
<1>1. /\ pc = "idle" /\ freeing = NoObj /\ made < MaxSpawns
      /\ progbuf' = file \o SubSeq(progbuf, Len(file) + 1, ProgSize)
      /\ NewProcess(c, progbuf')
      /\ asked' = [asked EXCEPT ![c] = [file |-> file, argv |-> call[1], envp |-> call[2]]]
      /\ UNCHANGED vars /\ obj' = obj /\ freeing' = freeing /\ frames' = frames
  BY DEF spawn, Begins
<1>2. /\ made' = c /\ pc' = "push" /\ seg' = 0
      /\ thread' = [thread EXCEPT ![c].entry = e_entry(progbuf')]
      /\ aspace' = c4_addrspace_map(
                     c4_addrspace_map(
                       c4_addrspace_map(aspace, c, BootFrame, 1, BootPage),
                       Self, StackOf(c), 1, Window),
                     c, StackOf(c), 1, StackPage)
  BY <1>1 DEF NewProcess
<1>3. /\ LoadTypeOK /\ BufferRight /\ AtWork /\ made \in 0 .. MaxSpawns
      /\ thread \in [Child -> [entry : Nat, stack : Int, runs : BOOLEAN]]
  BY DEF LoadInv, LoadTypeOK
<1>4. c \in Child /\ c \in 1 .. MaxSpawns /\ \A x \in 1 .. c : x \in Child /\ (x # c => x \in 1 .. made)
  BY <1>1, <1>3, BoundsAssumption DEF Child
<1>5. /\ progbuf' \in Seq(Nat) /\ Len(progbuf') = ProgSize
      /\ BeginsWith(progbuf', file) /\ BufferRight'
  BY <1>1, <1>3, SpawnBuffer
<1>6. e_entry(progbuf') \in Nat /\ e_phnum(progbuf') \in Nat
  BY <1>5, BoundsAssumption DEF e_entry, e_phnum
<1>7. /\ aspace' \in AsType
      /\ \A t \in Space : t \notin {c, Self} => aspace'[t] = aspace[t]
      /\ aspace'[Self][Window] = <<StackOf(c), 0>>
      /\ \A p \in PageNumbers : p # Window => aspace'[Self][p] = aspace[Self][p]
      /\ \A p \in PageNumbers : p \notin {StackPage, BootPage} => aspace'[c][p] = NoFrame
  BY <1>1, <1>2, <1>4, NewSpaces
<1>8. /\ thread' \in [Child -> [entry : Nat, stack : Int, runs : BOOLEAN]]
      /\ thread'[c].entry = e_entry(progbuf')
      /\ \A x \in Child : /\ thread'[x].runs = thread[x].runs
                          /\ x # c => thread'[x].entry = thread[x].entry
  BY <1>2, <1>3, <1>4, <1>6
<1>9. /\ asked' = [x \in Child |-> asked'[x]]
      /\ asked'[c].file = file /\ asked'[c].argv = call[1] /\ asked'[c].envp = call[2]
      /\ \A x \in Child : x # c => asked'[x] = asked[x]
  BY <1>1, <1>3, <1>4 DEF LoadTypeOK
<1>10. c \in Int /\ made \in Int /\ c > made /\ c > 0 /\ \A x \in Child : x \in Int
  BY <1>3, BoundsAssumption DEF Child
<1>. HIDE DEF c
<1>11. IInv' /\ MemInv' /\ OneCall'
  <2>1. \A p \in Region : aspace'[Self][p] = aspace[Self][p]
    BY <1>7, Places
  <2>. QED BY <2>1, <1>1, <1>7, LoaderFrame
<1>12. LoadTypeOK'
  <2>1. /\ progbuf' \in Seq(Nat) /\ Len(progbuf') = ProgSize
        /\ pc' \in {"idle", "push", "map", "copy"}
        /\ made' \in 0 .. MaxSpawns /\ seg' \in Nat
    BY <1>2, <1>4, <1>5, BoundsAssumption
  <2>2. frames' = [f \in FrameId |-> frames'[f]]
    BY <1>1, <1>3 DEF LoadTypeOK
  <2>. QED BY <2>1, <2>2, <1>8, <1>9 DEF LoadTypeOK
<1>13. AtWork'
  <2>1. ASSUME NEW x \in 1 .. c
        PROVE  /\ asked'[x].file \in Files
               /\ \E k \in Calls : asked'[x].argv = k[1] /\ asked'[x].envp = k[2]
    <3>1. CASE x = c
      BY <1>9, <3>1
    <3>2. CASE x # c
      BY <1>3, <1>4, <1>9, <2>1, <3>2 DEF AtWork
    <3>. QED BY <3>1, <3>2
  <2>2. ASSUME NEW x \in Child, thread'[x].runs
        PROVE  x <= c /\ x # c
    BY <1>3, <1>8, <1>10, <2>2 DEF AtWork
  <2>3. c > 0 /\ 0 <= e_phnum(progbuf') /\ elf_is_valid(progbuf')
    BY <1>6, <1>10 DEF Begins
  <2>4. HasHeader(asked'[c].file) => BeginsWith(progbuf', asked'[c].file)
    BY <1>5, <1>9
  <2>. QED BY <2>1, <2>2, <2>3, <2>4, <1>2 DEF AtWork
<1>14. WindowUse'
  <2>1. InWindow' = StackOf(c)
    BY <1>2 DEF InWindow
  <2>2. \A p \in PageNumbers \ Region : aspace[Self][p] = NoFrame
    BY <1>1, WindowClear
  <2>3. <<StackOf(c), 0>>[1] = StackOf(c)
    OBVIOUS
  <2>. QED BY <2>1, <2>2, <2>3, <1>2, <1>7 DEF WindowUse
<1>15. ChildSpaces'
  <2>. SUFFICES ASSUME NEW x \in Child, NEW p \in PageNumbers, aspace'[x][p] # NoFrame
                PROVE  x <= c /\ (x = c => p \in {StackPage, BootPage})
    BY <1>2 DEF ChildSpaces
  <2>1. CASE x = c
    BY <1>7, <1>10, <2>1
  <2>2. CASE x # c
    <3>1. aspace'[x] = aspace[x]
      BY <1>7, <2>2, Places
    <3>2. x <= made
      BY <3>1 DEF ChildSpaces
    <3>. QED BY <3>2, <1>10, <2>2
  <2>. QED BY <2>1, <2>2
<1>16. SegmentsDone'
  <2>. SUFFICES ASSUME NEW x \in 1 .. c
                PROVE  SegmentsOf(x)'
    BY <1>2 DEF SegmentsDone
  <2>1. CASE x = c
    <3>1. HasHeader(file) => e_entry(progbuf') = e_entry(file)
      BY <1>5, BufferLemma
    <3>2. ~Finished(x)' /\ Reached' = 0 /\ seg' = 0
      BY <1>2, <1>10, <2>1 DEF Finished, Reached
    <3>3. \A n \in Int : \A i \in 0 .. n - 1 : ~(i < 0)
      OBVIOUS
    <3>4. HasHeader(file) => e_phnum(file) \in Int
      BY FileLemma
    <3>5. thread'[x].entry = e_entry(progbuf') /\ asked'[x].file = file
      BY <2>1, <1>8, <1>9
    <3>. QED BY <3>1, <3>2, <3>3, <3>4, <3>5 DEF SegmentsOf
  <2>2. CASE x # c
    <3>1. /\ x \in Child /\ x \in 1 .. made /\ SegmentsOf(x) /\ Finished(x)
          /\ asked[x].file \in Files
      BY <1>1, <1>3, <1>4, <2>2 DEF SegmentsDone, Finished, AtWork
    <3>2. aspace'[x] = aspace[x]
      BY <1>7, <2>2, <3>1, Places
    <3>. QED BY <3>1, <3>2, <1>1, <1>8, <1>9, <2>2, SegFrame
  <2>. QED BY <2>1, <2>2
<1>17. Untouched
  <2>. SUFFICES ASSUME NEW s \in Space, NEW p \in PageNumbers, aspace[s][p] # NoFrame
                PROVE  aspace'[s][p] = aspace[s][p]
    BY DEF Untouched
  <2>1. CASE s = Self
    <3>1. p # Window
      BY <1>1, <2>1, Places, WindowClear
    <3>. QED BY <1>7, <2>1, <3>1
  <2>2. CASE s = c
    <3>1. ~(c <= made)
      BY <1>10
    <3>. QED BY <1>4, <2>2, <3>1 DEF ChildSpaces
  <2>. QED BY <1>7, <2>1, <2>2
<1>. QED BY <1>1, <1>5, <1>11, <1>12, <1>13, <1>14, <1>15, <1>16, <1>17 DEF LoadInv

(* What is written through the window goes to the frame that is there. *)
LEMMA StoreLemma ==
  ASSUME LoadTypeOK, NEW f \in FrameId, aspace[Self][Window] = <<f, 0>>,
         NEW r \in 0 .. PageSize - 1, NEW cells, cells # << >>,
         frames' = Store(frames, Window * PageSize + r, cells)
  PROVE  /\ frames' = [x \in FrameId |-> frames'[x]]
         /\ \A x \in FrameId : x # f => frames'[x] = frames[x]
         /\ \A k \in FrameCells :
              r <= k /\ k < r + Len(cells) => frames'[f][k] = cells[k - r + 1]
<1>. DEFINE addr == Window * PageSize + r
            page == addr \div PageSize
            place == addr % PageSize
            at == aspace[Self][page]
            first == at[2] * PageSize + place
            row == [k \in FrameCells |-> IF first <= k /\ k < first + Len(cells)
                                         THEN cells[k - first + 1] ELSE frames[at[1]][k]]
<1>1. addr \in Nat /\ r \in Nat /\ PageSize \in Nat
  BY Places, PageSizeAssumption
<1>2. page = Window /\ place = r
  BY <1>1, Places, PageOf
<1>3. frames' = [frames EXCEPT ![at[1]] = row]
  BY DEF Store
<1>4. at[1] = f /\ at[2] = 0
  BY <1>2
<1>5. first = r
  <2>1. 0 * PageSize + r = r
    BY <1>1
  <2>. QED BY <2>1, <1>2, <1>4
<1>6. \A k \in FrameCells :
        first <= k /\ k < first + Len(cells) => row[k] = cells[k - first + 1]
  OBVIOUS
<1>7. frames = [x \in FrameId |-> frames[x]]
  BY Zenon DEF LoadTypeOK
<1>. HIDE DEF row, first, at
<1>8. /\ frames' = [x \in FrameId |-> frames'[x]] /\ frames'[f] = row
      /\ \A x \in FrameId : x # f => frames'[x] = frames[x]
  BY <1>3, <1>4, <1>7, Zenon
<1>. QED BY <1>5, <1>6, <1>8

(* The parameters are on the new stack, and the window is clear. *)
LEMMA PushStep ==
  ASSUME LInv, PushStack
  PROVE  LInv' /\ [Next]_vars /\ Untouched
<1>. USE DEF LInv
<1>. DEFINE stack == setup_stack_params(C4_NAMESERVER, asked[made].argv, asked[made].envp)
<1>1. /\ pc = "push" /\ pc' = "map" /\ frames' = Store(frames, From(stack), stack)
      /\ thread' = [thread EXCEPT ![made].stack = To(stack)]
      /\ aspace' = c4_addrspace_unmap(aspace, Self, Window)
      /\ UNCHANGED vars /\ obj' = obj /\ freeing' = freeing
      /\ progbuf' = progbuf /\ made' = made /\ seg' = seg /\ asked' = asked
  BY DEF PushStack
<1>2. /\ LoadTypeOK /\ BufferRight /\ AtWork /\ made \in 0 .. MaxSpawns /\ seg = 0
      /\ thread \in [Child -> [entry : Nat, stack : Int, runs : BOOLEAN]]
      /\ made \in Child /\ made \in 1 .. made /\ freeing = NoObj
  BY <1>1, WorkLemma DEF LoadInv, LoadTypeOK, AtWork, OneCall
<1>3. Len(stack) \in 0 .. STACK_OFFSET /\ STACK_OFFSET \in 0 .. PageSize - 1
  BY <1>2, CallsAssumption DEF AtWork
<1>. HIDE DEF stack
<1>4. /\ STACK_OFFSET - Len(stack) \in 0 .. PageSize - 1
      /\ From(stack) = Window * PageSize + (STACK_OFFSET - Len(stack))
  <2>1. Window * PageSize \in Int
    BY Places, PageSizeAssumption
  <2>. QED BY <2>1, <1>3, PageSizeAssumption DEF From
<1>5. To(stack) \in Int
  <2>1. StackPage \in Nat
    BY Places, PlacesAssumption
  <2>2. StackPage * PageSize \in Int
    BY <2>1, PageSizeAssumption
  <2>. QED BY <2>2, <1>3, PageSizeAssumption DEF To
<1>6. StackOf(made) \in FrameId /\ aspace[Self][Window] = <<StackOf(made), 0>>
  BY <1>1, <1>2, BoundsAssumption DEF StackOf, FrameId, WindowUse, InWindow
<1>7. /\ frames' = [x \in FrameId |-> frames'[x]]
      /\ \A x \in FrameId : x # StackOf(made) => frames'[x] = frames[x]
  <2>1. CASE stack = << >>
    BY <1>1, <1>2, <2>1 DEF Store, LoadTypeOK
  <2>2. CASE stack # << >>
    BY <1>1, <1>2, <1>4, <1>6, <2>2, StoreLemma
  <2>. QED BY <2>1, <2>2
<1>8. /\ thread' \in [Child -> [entry : Nat, stack : Int, runs : BOOLEAN]]
      /\ \A x \in Child : /\ thread'[x].runs = thread[x].runs
                          /\ thread'[x].entry = thread[x].entry
  BY <1>1, <1>2, <1>5
<1>9. /\ aspace' \in AsType
      /\ \A t \in Space : t # Self => aspace'[t] = aspace[t]
      /\ \A p \in Region : aspace'[Self][p] = aspace[Self][p]
      /\ \A p \in PageNumbers \ Region : aspace'[Self][p] = NoFrame
  BY <1>1, WindowUnmap
<1>10. IInv' /\ MemInv' /\ OneCall'
  BY <1>1, <1>2, <1>9, LoaderFrame
<1>11. LoadInv'
  <2>1. LoadTypeOK'
    BY <1>1, <1>2, <1>7, <1>8 DEF LoadTypeOK
  <2>2. BufferRight'
    BY <1>1, <1>2 DEF BufferRight
  <2>3. AtWork'
    BY <1>1, <1>2, <1>8 DEF AtWork
  <2>. QED BY <2>1, <2>2, <2>3 DEF LoadInv
<1>12. WindowUse'
  BY <1>1, <1>9 DEF WindowUse
<1>13. ChildSpaces'
  <2>1. \A c \in Child : aspace'[c] = aspace[c]
    BY <1>9, Places
  <2>2. Reached' = Reached
    BY <1>1 DEF Reached
  <2>. QED BY <2>1, <2>2, <1>1 DEF ChildSpaces
<1>14. SegmentsDone'
  <2>. SUFFICES ASSUME NEW c \in 1 .. made
                PROVE  SegmentsOf(c)'
    BY <1>1 DEF SegmentsDone
  <2>1. /\ c \in Child /\ SegmentsOf(c) /\ (c # made => Finished(c))
        /\ aspace'[c] = aspace[c] /\ asked[c].file \in Files
    BY <1>2, <1>9, Places, BoundsAssumption DEF SegmentsDone, Finished, Child, AtWork
  <2>2. CASE c # made
    <3>1. \A j \in 0 .. MaxSegments : <<c, j>> \in FrameId /\ <<c, j>> # StackOf(made)
      BY <2>1, <2>2 DEF StackOf, FrameId
    <3>2. \A j \in 0 .. MaxSegments : frames'[<<c, j>>] = frames[<<c, j>>]
      BY <3>1, <1>7
    <3>. QED BY <1>1, <1>8, <2>1, <2>2, <3>2, SegFrame
  <2>3. CASE c = made
    <3>1. ~Finished(c)' /\ Reached' = 0 /\ seg' = 0
      BY <1>1, <1>2, <2>3, BoundsAssumption DEF Finished, Reached
    <3>2. HasHeader(asked[c].file) => e_phnum(asked[c].file) \in Int
      BY <1>2, FileLemma DEF AtWork
    <3>3. \A n \in Int : \A i \in 0 .. n - 1 : ~(i < 0)
      OBVIOUS
    <3>4. thread'[c].entry = thread[c].entry /\ asked'[c] = asked[c]
      BY <1>1, <1>8, <2>1
    <3>. QED BY <2>1, <3>1, <3>2, <3>3, <3>4 DEF SegmentsOf
  <2>. QED BY <2>2, <2>3
<1>15. Untouched
  <2>. SUFFICES ASSUME NEW s \in Space, NEW p \in PageNumbers, aspace[s][p] # NoFrame
                PROVE  aspace'[s][p] \in {aspace[s][p], NoFrame}
    BY DEF Untouched
  <2>1. CASE s = Self
    BY <1>9, <2>1
  <2>2. CASE s # Self
    BY <1>9, <2>2
  <2>. QED BY <2>1, <2>2
<1>. QED BY <1>1, <1>10, <1>11, <1>12, <1>13, <1>14, <1>15

(* A segment's frame goes to the window and to its pages of the program.    *)
LEMMA SegmentSpaces ==
  ASSUME LInv, MapSegment
  PROVE  LET h     == elf_get_phdr(progbuf, seg)
             first == h.vaddr \div PageSize
             pages == pages_of(h.memsz)
             f     == <<made, seg>>
         IN /\ aspace' \in AsType /\ f \in FrameId
            /\ \A t \in Space : t \notin {made, Self} => aspace'[t] = aspace[t]
            /\ \A p \in PageNumbers :
                 /\ aspace'[Self][p] = aspace[Self][p]
                      \/ (p \notin Region /\ Window <= p /\ p < Window + pages
                            /\ aspace'[Self][p] = <<f, p - Window>>)
                 /\ p \in Touched(progbuf, seg) => aspace'[made][p] = <<f, p - first>>
                 /\ p \notin Touched(progbuf, seg) => aspace'[made][p] = aspace[made][p]
            /\ pages > 0 => aspace'[Self][Window] = <<f, 0>>
            /\ GoodSegment(h, Touched(progbuf, seg))
            /\ \A j \in 0 .. seg - 1 : Touched(progbuf, seg) \cap Touched(progbuf, j) = {}
<1>. USE DEF LInv
<1>. DEFINE h     == elf_get_phdr(progbuf, seg)
            first == h.vaddr \div PageSize
            pages == pages_of(h.memsz)
            f     == <<made, seg>>
            one   == c4_addrspace_map(aspace, Self, f, pages, Window)
<1>1. /\ pc = "map" /\ seg < e_phnum(progbuf)
      /\ aspace' = c4_addrspace_map(one, made, f, pages, first)
  BY DEF MapSegment
<1>2. /\ made \in Child /\ e_phnum(progbuf) \in 0 .. MaxSegments /\ seg \in Nat
  BY <1>1, WorkLemma DEF LoadInv, LoadTypeOK
<1>3. seg \in 0 .. e_phnum(progbuf) - 1 /\ seg \in 0 .. MaxSegments
  BY <1>1, <1>2, BoundsAssumption
<1>4. /\ GoodSegment(h, Touched(progbuf, seg))
      /\ \A j \in 0 .. seg - 1 : Touched(progbuf, seg) \cap Touched(progbuf, j) = {}
  BY <1>1, <1>3, WorkLemma
<1>5. f \in FrameId /\ f \in Frame
  BY <1>2, <1>3 DEF FrameId, Frame
<1>6. pages \in 0 .. FramePages /\ h.vaddr \in Nat
  BY <1>4 DEF GoodSegment
<1>7. first \in Nat /\ pages \in Nat
  BY <1>6, AddressLemma, BoundsAssumption
<1>8. Touched(progbuf, seg) = first .. first + pages - 1
  BY DEF Touched
<1>9. aspace \in AsType /\ Self \in Space /\ made \in Space /\ made # Self /\ Window \in Nat
  BY <1>2, Places DEF MemInv, MemTypeOK, AsType
<1>. HIDE DEF h, first, pages, f
<1>10. Maps(aspace, one, Self, f, pages, Window)
  BY <1>5, <1>7, <1>9, MapLemma
<1>. HIDE DEF one
<1>11. one \in AsType
  BY <1>10 DEF Maps
<1>12. Maps(one, aspace', made, f, pages, first)
  BY <1>1, <1>5, <1>7, <1>9, <1>11, MapLemma
<1>13. /\ aspace' \in AsType
       /\ \A t \in Space : t \notin {made, Self} => aspace'[t] = aspace[t]
       /\ aspace'[Self] = one[Self] /\ one[made] = aspace[made]
  BY <1>9, <1>10, <1>12 DEF Maps
<1>14. ASSUME NEW p \in PageNumbers
       PROVE  /\ p \in Touched(progbuf, seg) => aspace'[made][p] = <<f, p - first>>
              /\ p \notin Touched(progbuf, seg) => aspace'[made][p] = aspace[made][p]
  <2>1. p \in Nat
    BY Places
  <2>2. p \in Touched(progbuf, seg) <=> first <= p /\ p < first + pages
    BY <2>1, <1>7, <1>8
  <2>. QED BY <2>2, <1>12, <1>13 DEF Maps
<1>15. ASSUME NEW p \in PageNumbers
       PROVE  aspace'[Self][p] = aspace[Self][p]
                \/ (p \notin Region /\ Window <= p /\ p < Window + pages
                      /\ aspace'[Self][p] = <<f, p - Window>>)
  <2>1. Window <= p /\ p < Window + pages => p \notin Region
    BY <1>6, WindowPages
  <2>. QED BY <2>1, <1>10, <1>13 DEF Maps
<1>16. pages > 0 => aspace'[Self][Window] = <<f, 0>>
  <2>1. pages > 0 => Window <= Window /\ Window < Window + pages /\ Window - Window = 0
    BY <1>7, <1>9
  <2>. QED BY <2>1, <1>10, <1>13, Places DEF Maps
<1>. QED BY <1>4, <1>5, <1>13, <1>14, <1>15, <1>16 DEF h, first, pages, f

(* A segment is mapped. *)
LEMMA MapStep ==
  ASSUME LInv, MapSegment
  PROVE  LInv' /\ [Next]_vars /\ Untouched
<1>. USE DEF LInv
<1>. DEFINE h     == elf_get_phdr(progbuf, seg)
            first == h.vaddr \div PageSize
            pages == pages_of(h.memsz)
            f     == <<made, seg>>
<1>1. /\ pc = "map" /\ pc' = "copy" /\ seg < e_phnum(progbuf) /\ seg' = seg
      /\ UNCHANGED vars /\ obj' = obj /\ freeing' = freeing /\ thread' = thread
      /\ progbuf' = progbuf /\ made' = made /\ frames' = frames /\ asked' = asked
  BY DEF MapSegment
<1>2. /\ LoadTypeOK /\ BufferRight /\ AtWork /\ made \in 0 .. MaxSpawns /\ seg \in Nat
      /\ made \in Child /\ made \in 1 .. made /\ freeing = NoObj
  BY <1>1, WorkLemma DEF LoadInv, LoadTypeOK, OneCall
<1>3. /\ aspace' \in AsType /\ f \in FrameId
      /\ \A t \in Space : t \notin {made, Self} => aspace'[t] = aspace[t]
      /\ \A p \in PageNumbers :
           /\ aspace'[Self][p] = aspace[Self][p]
                \/ (p \notin Region /\ Window <= p /\ p < Window + pages
                      /\ aspace'[Self][p] = <<f, p - Window>>)
           /\ p \in Touched(progbuf, seg) => aspace'[made][p] = <<f, p - first>>
           /\ p \notin Touched(progbuf, seg) => aspace'[made][p] = aspace[made][p]
      /\ pages > 0 => aspace'[Self][Window] = <<f, 0>>
      /\ GoodSegment(h, Touched(progbuf, seg))
      /\ \A j \in 0 .. seg - 1 : Touched(progbuf, seg) \cap Touched(progbuf, j) = {}
  BY SegmentSpaces
<1>4. /\ pages \in 0 .. FramePages /\ (h.filesz > 0 => pages > 0)
      /\ Touched(progbuf, seg) \subseteq PageNumbers \ {StackPage, BootPage}
  BY <1>3 DEF GoodSegment
<1>5. h' = h
  BY <1>1
<1>. HIDE DEF h, first, pages, f
<1>6. IInv' /\ MemInv' /\ OneCall'
  <2>1. \A p \in Region : aspace'[Self][p] = aspace[Self][p]
    BY <1>3, Places
  <2>. QED BY <2>1, <1>1, <1>2, <1>3, LoaderFrame
<1>7. LoadInv'
  <2>1. LoadTypeOK' /\ BufferRight'
    BY <1>1, <1>2 DEF LoadTypeOK, BufferRight
  <2>2. AtWork'
    BY <1>1, <1>2 DEF AtWork
  <2>. QED BY <2>1, <2>2 DEF LoadInv
<1>8. WindowUse'
  <2>1. InWindow' = f
    BY <1>1 DEF InWindow, f
  <2>2. ASSUME NEW p \in PageNumbers \ Region, aspace'[Self][p] # NoFrame
        PROVE  aspace'[Self][p][1] = f /\ aspace'[Self][Window] = <<f, 0>>
    <3>1. aspace[Self][p] = NoFrame
      BY <1>1, WindowClear
    <3>2. Window <= p /\ p < Window + pages /\ aspace'[Self][p] = <<f, p - Window>>
      BY <3>1, <1>3, <2>2
    <3>3. pages > 0
      BY <3>2, <1>4, Places, BoundsAssumption
    <3>. QED BY <3>2, <3>3, <1>3
  <2>3. elf_get_phdr(progbuf', seg').filesz > 0 => aspace'[Self][Window] = <<f, 0>>
    BY <1>1, <1>3, <1>4 DEF h
  <2>. QED BY <2>1, <2>2, <2>3, <1>1 DEF WindowUse
<1>9. ChildSpaces'
  <2>1. Reached = seg /\ Reached' = seg + 1
    BY <1>1 DEF Reached
  <2>. SUFFICES ASSUME NEW c \in Child, NEW p \in PageNumbers, aspace'[c][p] # NoFrame
                PROVE  /\ c <= made
                       /\ c = made =>
                            \/ p \in {StackPage, BootPage}
                            \/ \E i \in 0 .. Reached' - 1 : p \in Touched(progbuf, i)
    BY <1>1 DEF ChildSpaces
  <2>2. CASE c # made
    <3>1. aspace'[c] = aspace[c]
      BY <1>3, <2>2, Places
    <3>. QED BY <2>2, <3>1 DEF ChildSpaces
  <2>3. CASE c = made /\ p \in Touched(progbuf, seg)
    <3>1. made <= made /\ seg \in 0 .. (seg + 1) - 1
      BY <1>2
    <3>. QED BY <2>1, <2>3, <3>1
  <2>4. CASE c = made /\ p \notin Touched(progbuf, seg)
    <3>1. aspace[c][p] # NoFrame
      BY <1>3, <2>4
    <3>2. /\ c <= made
          /\ \/ p \in {StackPage, BootPage}
             \/ \E i \in 0 .. Reached - 1 : p \in Touched(progbuf, i)
      BY <1>1, <2>4, <3>1 DEF ChildSpaces
    <3>3. \A i \in 0 .. Reached - 1 : i \in 0 .. Reached' - 1
      BY <1>2, <2>1
    <3>. QED BY <3>2, <3>3
  <2>. QED BY <2>2, <2>3, <2>4
<1>10. SegmentsDone'
  <2>. SUFFICES ASSUME NEW c \in 1 .. made
                PROVE  SegmentsOf(c)'
    BY <1>1 DEF SegmentsDone
  <2>1. /\ c \in Child /\ SegmentsOf(c) /\ (c # made => Finished(c)) /\ asked[c].file \in Files
    BY <1>2, BoundsAssumption DEF SegmentsDone, Finished, Child, AtWork
  <2>2. CASE c # made
    <3>1. aspace'[c] = aspace[c]
      BY <1>3, <2>1, <2>2, Places
    <3>. QED BY <1>1, <2>1, <2>2, <3>1, SegFrame
  <2>3. CASE c = made
    <3>1. ~Finished(c) /\ ~Finished(c)' /\ Reached = seg /\ Reached' = seg + 1
      BY <1>1, <1>2, <2>3, BoundsAssumption DEF Finished, Reached
    <3>. SUFFICES ASSUME HasHeader(asked[c].file), NEW i \in 0 .. e_phnum(asked[c].file) - 1
                  PROVE  /\ i < seg + 1 => Mapped(c, i)'
                         /\ i < seg => Copied(c, i)'
      BY <1>1, <2>1, <3>1 DEF SegmentsOf
    <3>2. /\ e_phnum(asked[c].file) \in Int /\ e_phnum(progbuf) = e_phnum(asked[c].file)
          /\ \A k \in 0 .. e_phnum(asked[c].file) - 1 :
               /\ elf_get_phdr(progbuf, k) = elf_get_phdr(asked[c].file, k)
               /\ Touched(progbuf, k) = Touched(asked[c].file, k)
      BY <1>1, <1>2, <2>1, <2>3, BufferLemma, FileLemma, SMTT(30) DEF AtWork
    <3>3. i < seg => Mapped(c, i) /\ Copied(c, i)
      BY <2>1, <3>1 DEF SegmentsOf
    <3>4. i < seg => Copied(c, i)'
      BY <3>3, <1>1 DEF Copied
    <3>5. ASSUME i < seg, NEW p \in Touched(asked[c].file, i)
          PROVE  aspace'[c][p] = aspace[c][p]
      <4>1. i \in 0 .. seg - 1 /\ p \in Touched(progbuf, i)
        BY <1>2, <3>2, <3>5
      <4>2. p \notin Touched(progbuf, seg)
        BY <4>1, <1>3
      <4>3. p \in PageNumbers
        BY <2>1, SegmentLemma, <3>5 DEF GoodSegment
      <4>. QED BY <4>2, <4>3, <1>3, <2>3
    <3>6. i < seg => Mapped(c, i)'
      BY <3>3, <3>5, <1>1 DEF Mapped
    <3>7. ASSUME i = seg
          PROVE  Mapped(c, i)'
      <4>1. /\ Touched(asked[c].file, i) = Touched(progbuf, seg)
            /\ elf_get_phdr(asked[c].file, i).vaddr \div PageSize = first
        BY <3>2, <3>7 DEF first, h
      <4>2. f = <<c, i>>
        BY <2>3, <3>7 DEF f
      <4>3. \A p \in Touched(asked[c].file, i) : aspace'[c][p] = << <<c, i>>, p - first>>
        BY <4>1, <4>2, <1>3, <1>4, <2>3
      <4>. QED BY <4>1, <4>3, <1>1 DEF Mapped
    <3>8. i < seg + 1 => i < seg \/ i = seg
      BY <1>2, <3>2
    <3>. QED BY <3>4, <3>6, <3>7, <3>8
  <2>. QED BY <2>2, <2>3
<1>11. Untouched
  <2>. SUFFICES ASSUME NEW s \in Space, NEW p \in PageNumbers, aspace[s][p] # NoFrame
                PROVE  aspace'[s][p] = aspace[s][p]
    BY DEF Untouched
  <2>1. CASE s = Self
    BY <1>1, <1>3, <2>1, WindowClear
  <2>2. CASE s = made
    <3>1. p \notin Touched(progbuf, seg)
      <4>1. \/ p \in {StackPage, BootPage}
            \/ \E i \in 0 .. seg - 1 : p \in Touched(progbuf, i)
        BY <1>1, <1>2, <2>2 DEF ChildSpaces, Reached
      <4>. QED BY <4>1, <1>3, <1>4
    <3>. QED BY <1>3, <2>2, <3>1
  <2>. QED BY <1>3, <2>1, <2>2
<1>. QED BY <1>1, <1>6, <1>7, <1>8, <1>9, <1>10, <1>11

(* What a segment has in the file goes to its frame, at the place in a page *)
(* where the segment begins.                                                *)
LEMMA CopyCells ==
  ASSUME LInv, CopySegment
  PROVE  LET h == elf_get_phdr(progbuf, seg)
             f == <<made, seg>>
         IN /\ frames' = [x \in FrameId |-> frames'[x]]
            /\ \A x \in FrameId : x # f => frames'[x] = frames[x]
            /\ \A k \in 0 .. h.filesz - 1 :
                 frames'[f][(h.vaddr % PageSize) + k] = progbuf[h.offset + k + 1]
<1>. USE DEF LInv
<1>. DEFINE h == elf_get_phdr(progbuf, seg)
            f == <<made, seg>>
            r == h.vaddr % PageSize
            cells == SubSeq(progbuf, h.offset + 1, h.offset + h.filesz)
<1>1. pc = "copy" /\ frames' = Store(frames, Window * PageSize + r, cells)
  BY DEF CopySegment
<1>2. /\ made \in Child /\ e_phnum(progbuf) \in 0 .. MaxSegments /\ seg \in Nat
      /\ seg < e_phnum(progbuf) /\ LoadTypeOK /\ progbuf \in Seq(Nat) /\ Len(progbuf) = ProgSize
  BY <1>1, WorkLemma DEF LoadInv, LoadTypeOK, AtWork
<1>3. seg \in 0 .. e_phnum(progbuf) - 1 /\ seg \in 0 .. MaxSegments
  BY <1>2, BoundsAssumption
<1>4. GoodSegment(h, Touched(progbuf, seg))
  BY <1>1, <1>3, WorkLemma
<1>5. f \in FrameId
  BY <1>2, <1>3 DEF FrameId
<1>6. h.filesz > 0 => aspace[Self][Window] = <<f, 0>>
  BY <1>1 DEF WindowUse, InWindow
<1>. HIDE DEF h, f
<1>7. /\ h.offset \in Nat /\ h.vaddr \in Nat /\ h.filesz \in Nat
      /\ h.offset + h.filesz <= ProgSize /\ r + h.filesz <= pages_of(h.memsz) * PageSize
      /\ pages_of(h.memsz) \in 0 .. FramePages
  BY <1>4 DEF GoodSegment
<1>8. r \in 0 .. PageSize - 1
  BY <1>7, AddressLemma
<1>9. /\ Len(cells) = h.filesz
      /\ \A k \in 0 .. h.filesz - 1 : cells[k + 1] = progbuf[h.offset + k + 1]
  <2>1. \A i \in h.offset + 1 .. h.offset + h.filesz : progbuf[i] \in Nat
    BY <1>2, <1>7, BoundsAssumption, SMTT(30)
  <2>. DEFINE lo == h.offset + 1
              hi == h.offset + h.filesz
  <2>2. lo \in Int /\ hi \in Int /\ \A i \in lo .. hi : progbuf[i] \in Nat
    BY <1>7, <2>1
  <2>. HIDE DEF lo, hi
  <2>3. /\ Len(SubSeq(progbuf, lo, hi)) = IF lo <= hi THEN hi - lo + 1 ELSE 0
        /\ \A i \in 1 .. hi - lo + 1 : SubSeq(progbuf, lo, hi)[i] = progbuf[lo + i - 1]
    BY <2>2
  <2>4. cells = SubSeq(progbuf, lo, hi)
    BY DEF lo, hi
  <2>. HIDE DEF cells
  <2>5. /\ Len(cells) = IF lo <= hi THEN hi - lo + 1 ELSE 0
        /\ \A i \in 1 .. hi - lo + 1 : cells[i] = progbuf[lo + i - 1]
    BY <2>3, <2>4, Zenon
  <2>6. Len(cells) = h.filesz
    BY <2>5, <1>7 DEF lo, hi
  <2>7. ASSUME NEW k \in 0 .. h.filesz - 1
        PROVE  cells[k + 1] = progbuf[h.offset + k + 1]
    <3>1. k + 1 \in 1 .. hi - lo + 1 /\ lo + (k + 1) - 1 = h.offset + k + 1
      BY <1>7, <2>7 DEF lo, hi
    <3>. QED BY <2>5, <3>1
  <2>. QED BY <2>6, <2>7
<1>10. h.filesz = 0 => cells = << >>
  BY <1>7, SubSeqEmpty
<1>. HIDE DEF cells, r
<1>11. CASE h.filesz = 0
  <2>1. frames' = frames
    BY <1>1, <1>10, <1>11 DEF Store
  <2>2. \A k \in 0 .. h.filesz - 1 : FALSE
    BY <1>11
  <2>. QED BY <2>1, <2>2, <1>2 DEF LoadTypeOK, f, h
<1>12. CASE h.filesz # 0
  <2>1. h.filesz > 0 /\ cells # << >>
    <3>1. Len(<< >>) = 0
      OBVIOUS
    <3>. QED BY <3>1, <1>7, <1>9, <1>12
  <2>2. /\ frames' = [x \in FrameId |-> frames'[x]]
        /\ \A x \in FrameId : x # f => frames'[x] = frames[x]
        /\ \A k \in FrameCells :
             r <= k /\ k < r + Len(cells) => frames'[f][k] = cells[k - r + 1]
    BY <2>1, <1>1, <1>2, <1>5, <1>6, <1>8, StoreLemma, ZenonT(30)
  <2>3. ASSUME NEW k \in 0 .. h.filesz - 1
        PROVE  frames'[f][r + k] = progbuf[h.offset + k + 1]
    <3>1. pages_of(h.memsz) * PageSize <= FramePages * PageSize
      <4>. DEFINE n == pages_of(h.memsz)
                  m == FramePages - n
      <4>1. n \in Nat /\ m \in Nat /\ FramePages = n + m /\ PageSize \in Nat
        BY <1>7, BoundsAssumption, PageSizeAssumption
      <4>. HIDE DEF n, m
      <4>2. FramePages * PageSize = n * PageSize + m * PageSize /\ m * PageSize >= 0
        BY <4>1
      <4>3. n * PageSize \in Int /\ m * PageSize \in Int
        BY <4>1
      <4>. QED BY <4>2, <4>3 DEF n
    <3>. DEFINE all == FramePages * PageSize
                some == pages_of(h.memsz) * PageSize
    <3>2. all \in Int /\ some \in Int
      BY <1>7, BoundsAssumption, PageSizeAssumption
    <3>3. some <= all /\ r + h.filesz <= some
      BY <3>1, <1>7
    <3>4. FrameCells = 0 .. all - 1
      BY DEF FrameCells
    <3>. HIDE DEF all, some
    <3>5. /\ r + k \in FrameCells /\ r <= r + k /\ r + k < r + Len(cells)
          /\ (r + k) - r + 1 = k + 1
      BY <3>2, <3>3, <3>4, <1>7, <1>8, <1>9, <2>3, PageSizeAssumption
    <3>. QED BY <3>5, <2>2, <2>3, <1>9
  <2>. QED BY <2>2, <2>3 DEF f, h, r
<1>. QED BY <1>11, <1>12

(* A segment is in place. *)
LEMMA CopyStep ==
  ASSUME LInv, CopySegment
  PROVE  LInv' /\ [Next]_vars /\ Untouched
<1>. USE DEF LInv
<1>. DEFINE h == elf_get_phdr(progbuf, seg)
            f == <<made, seg>>
<1>1. /\ pc = "copy" /\ pc' = "map" /\ seg' = seg + 1
      /\ aspace' = c4_addrspace_unmap(aspace, Self, Window)
      /\ UNCHANGED vars /\ obj' = obj /\ freeing' = freeing /\ thread' = thread
      /\ progbuf' = progbuf /\ made' = made /\ asked' = asked
  BY DEF CopySegment
<1>2. /\ LoadTypeOK /\ BufferRight /\ AtWork /\ made \in 0 .. MaxSpawns /\ seg \in Nat
      /\ made \in Child /\ made \in 1 .. made /\ freeing = NoObj
      /\ seg < e_phnum(progbuf) /\ e_phnum(progbuf) \in 0 .. MaxSegments
  BY <1>1, WorkLemma DEF LoadInv, LoadTypeOK, OneCall, AtWork
<1>3. seg \in 0 .. MaxSegments /\ seg + 1 <= e_phnum(progbuf) /\ seg + 1 \in Nat
  BY <1>2, BoundsAssumption
<1>4. /\ frames' = [x \in FrameId |-> frames'[x]]
      /\ \A x \in FrameId : x # f => frames'[x] = frames[x]
      /\ \A k \in 0 .. h.filesz - 1 :
           frames'[f][(h.vaddr % PageSize) + k] = progbuf[h.offset + k + 1]
  BY CopyCells
<1>. HIDE DEF h
<1>5. /\ aspace' \in AsType
      /\ \A t \in Space : t # Self => aspace'[t] = aspace[t]
      /\ \A p \in Region : aspace'[Self][p] = aspace[Self][p]
      /\ \A p \in PageNumbers \ Region : aspace'[Self][p] = NoFrame
  BY <1>1, WindowUnmap
<1>6. \A c \in Child : aspace'[c] = aspace[c]
  BY <1>5, Places
<1>7. IInv' /\ MemInv' /\ OneCall'
  BY <1>1, <1>2, <1>5, LoaderFrame
<1>8. LoadInv'
  <2>1. LoadTypeOK'
    BY <1>1, <1>2, <1>3, <1>4 DEF LoadTypeOK
  <2>2. BufferRight'
    BY <1>1, <1>2 DEF BufferRight
  <2>3. AtWork'
    BY <1>1, <1>2, <1>3 DEF AtWork
  <2>. QED BY <2>1, <2>2, <2>3 DEF LoadInv
<1>9. WindowUse'
  BY <1>1, <1>5 DEF WindowUse
<1>10. Reached = seg + 1 /\ Reached' = seg + 1
  BY <1>1 DEF Reached
<1>11. ChildSpaces'
  BY <1>1, <1>6, <1>10 DEF ChildSpaces
<1>12. SegmentsDone'
  <2>. SUFFICES ASSUME NEW c \in 1 .. made
                PROVE  SegmentsOf(c)'
    BY <1>1 DEF SegmentsDone
  <2>1. /\ c \in Child /\ SegmentsOf(c) /\ (c # made => Finished(c)) /\ asked[c].file \in Files
    BY <1>2, BoundsAssumption DEF SegmentsDone, Finished, Child, AtWork
  <2>2. ASSUME NEW j \in 0 .. MaxSegments, <<c, j>> # f
        PROVE  frames'[<<c, j>>] = frames[<<c, j>>]
    BY <1>4, <2>1, <2>2 DEF FrameId
  <2>3. CASE c # made
    <3>1. \A j \in 0 .. MaxSegments : frames'[<<c, j>>] = frames[<<c, j>>]
      BY <2>2, <2>3
    <3>. QED BY <1>1, <1>6, <2>1, <2>3, <3>1, SegFrame
  <2>4. CASE c = made
    <3>1. ~Finished(c) /\ ~Finished(c)'
      BY <1>1, <1>2, <2>4, BoundsAssumption DEF Finished
    <3>. SUFFICES ASSUME HasHeader(asked[c].file), NEW i \in 0 .. e_phnum(asked[c].file) - 1,
                         i < seg + 1
                  PROVE  Mapped(c, i)' /\ Copied(c, i)'
      BY <1>1, <1>10, <2>1, <3>1 DEF SegmentsOf
    <3>2. /\ e_phnum(asked[c].file) \in 0 .. MaxSegments
          /\ elf_get_phdr(progbuf, i) = elf_get_phdr(asked[c].file, i)
          /\ BeginsWith(progbuf, asked[c].file)
      BY <1>1, <1>2, <2>1, <2>4, BufferLemma, FileLemma DEF AtWork
    <3>3. Mapped(c, i)'
      <4>1. Mapped(c, i)
        BY <1>10, <2>1 DEF SegmentsOf
      <4>. QED BY <4>1, <1>1, <1>6, <2>1 DEF Mapped
    <3>4. CASE i < seg
      <4>1. Copied(c, i)
        BY <2>1, <3>4 DEF SegmentsOf
      <4>2. i \in 0 .. MaxSegments /\ <<c, i>> # f
        BY <1>2, <3>2, <3>4, BoundsAssumption
      <4>3. frames'[<<c, i>>] = frames[<<c, i>>]
        BY <4>2, <2>2
      <4>. QED BY <3>3, <4>1, <4>3, <1>1 DEF Copied
    <3>5. CASE i = seg
      <4>1. h = elf_get_phdr(asked[c].file, i) /\ f = <<c, i>>
        BY <3>2, <3>5, <2>4 DEF h
      <4>2. /\ GoodSegment(h, Touched(asked[c].file, i))
            /\ h.offset + h.filesz <= Len(asked[c].file)
            /\ Len(asked[c].file) \in 4 .. ProgSize
        BY <4>1, <2>1, SegmentLemma, FileLemma
      <4>3. ASSUME NEW k \in 0 .. h.filesz - 1
            PROVE  frames'[<<c, i>>][(h.vaddr % PageSize) + k] = asked[c].file[h.offset + k + 1]
        <5>1. h.offset \in Nat /\ h.filesz \in Nat
          BY <4>2 DEF GoodSegment
        <5>2. h.offset + k + 1 \in 1 .. Len(asked[c].file)
          <6>1. Len(asked[c].file) \in Nat /\ h.offset + h.filesz <= Len(asked[c].file)
            BY <4>2, BoundsAssumption
          <6>2. k \in Nat /\ k < h.filesz
            BY <5>1, <4>3
          <6>. QED BY <5>1, <6>1, <6>2, SMTT(30)
        <5>. QED BY <5>2, <4>1, <4>3, <3>2, <1>4 DEF BeginsWith
      <4>. QED BY <3>3, <4>1, <4>3, <1>1 DEF Copied
    <3>6. i < seg \/ i = seg
      BY <1>2, <3>2
    <3>. QED BY <3>3, <3>4, <3>5, <3>6
  <2>. QED BY <2>3, <2>4
<1>13. Untouched
  <2>. SUFFICES ASSUME NEW s \in Space, NEW p \in PageNumbers, aspace[s][p] # NoFrame
                PROVE  aspace'[s][p] \in {aspace[s][p], NoFrame}
    BY DEF Untouched
  <2>1. CASE s = Self
    BY <1>5, <2>1
  <2>2. CASE s # Self
    BY <1>5, <2>2
  <2>. QED BY <2>1, <2>2
<1>. QED BY <1>1, <1>7, <1>8, <1>9, <1>11, <1>12, <1>13

-----------------------------------------------------------------------------
(* At first nothing is mapped and no program has been made. *)
LEMMA ProcessInitInv == ProcessInit => LInv
<1>. SUFFICES ASSUME ProcessInit
              PROVE  LInv
  OBVIOUS
<1>1. /\ Init /\ aspace = [s \in Space |-> [p \in PageNumbers |-> NoFrame]]
      /\ obj = [o \in Obj |-> Unused] /\ freeing = NoObj
      /\ progbuf = [k \in 1 .. ProgSize |-> 0] /\ pc = "idle" /\ made = 0 /\ seg = 0
      /\ frames = [f \in FrameId |-> [k \in FrameCells |-> Junk]]
      /\ thread = [c \in Child |-> NoThread] /\ asked = [c \in Child |-> NoCall]
  BY DEF ProcessInit, MemInit
<1>2. IInv
  BY <1>1, InitInv
<1>3. MemInv
  <2>1. \A o \in Obj : obj[o] = Unused /\ ~obj[o].live /\ ~obj[o].mapped /\ ~Holds(o)
    BY <1>1 DEF Unused, Holds
  <2>2. MemTypeOK
    BY <1>1 DEF MemTypeOK, Unused
  <2>3. InRegion /\ RangesDiffer
    BY <2>1 DEF InRegion, RangesDiffer
  <2>4. HeldByObjects
    BY <1>1, <2>1 DEF HeldByObjects, Init
  <2>5. \A s \in Space, p \in PageNumbers : aspace[s][p] = NoFrame
    BY <1>1
  <2>6. RegionMapped
    BY <2>1, <2>5, Places DEF RegionMapped
  <2>. QED BY <2>2, <2>3, <2>4, <2>6 DEF MemInv
<1>4. OneCall
  BY <1>1 DEF OneCall, Init
<1>5. LoadInv
  <2>1. progbuf \in Seq(Nat) /\ Len(progbuf) = ProgSize
    BY <1>1, BoundsAssumption
  <2>2. \A c \in Child : thread[c].runs = FALSE
    BY <1>1 DEF NoThread
  <2>3. LoadTypeOK
    <3>1. made \in 0 .. MaxSpawns /\ seg \in Nat /\ pc \in {"idle", "push", "map", "copy"}
      BY <1>1, BoundsAssumption
    <3>2. thread \in [Child -> [entry : Nat, stack : Int, runs : BOOLEAN]]
      BY <1>1 DEF NoThread
    <3>3. frames = [f \in FrameId |-> frames[f]] /\ asked = [c \in Child |-> asked[c]]
      BY <1>1
    <3>. QED BY <2>1, <3>1, <3>2, <3>3 DEF LoadTypeOK
  <2>4. BufferRight
    <3>1. progbuf[1] = 0
      BY <1>1, BoundsAssumption
    <3>. QED BY <3>1, FilesAssumption DEF BufferRight, elf_is_valid
  <2>5. AtWork
    <3>1. \A c \in 1 .. made : FALSE
      BY <1>1
    <3>. QED BY <1>1, <2>2, <3>1 DEF AtWork
  <2>. QED BY <2>3, <2>4, <2>5 DEF LoadInv
<1>6. \A s \in Space, p \in PageNumbers : aspace[s][p] = NoFrame
  BY <1>1
<1>7. WindowUse /\ ChildSpaces
  BY <1>1, <1>6, Places DEF WindowUse, ChildSpaces
<1>8. SegmentsDone
  BY <1>1 DEF SegmentsDone
<1>. QED BY <1>2, <1>3, <1>4, <1>5, <1>7, <1>8 DEF LInv

(* Every step keeps the invariant, is a step the allocator allows or none   *)
(* of its own, and maps nothing over a page in use.                         *)
LEMMA ProcessNextInv ==
  LInv /\ [ProcessNext]_pvars => LInv' /\ [Next]_vars /\ Untouched
<1>. SUFFICES ASSUME LInv, [ProcessNext]_pvars
              PROVE  LInv' /\ [Next]_vars /\ Untouched
  OBVIOUS
<1>1. CASE pc = "idle" /\ ~stopped /\ MemNext /\ UNCHANGED loadvars
  BY <1>1, MemoryStep
<1>2. ASSUME NEW file \in Files, NEW call \in Calls, spawn(file, call[1], call[2])
      PROVE  LInv' /\ [Next]_vars /\ Untouched
  <2>1. CASE Begins(file, call)
    BY <1>2, <2>1, NewProgram
  <2>2. CASE ~Begins(file, call)
    <3>1. /\ pc = "idle" /\ progbuf' = file \o SubSeq(progbuf, Len(file) + 1, ProgSize)
          /\ UNCHANGED <<vars, memvars, pc, made, seg, frames, thread, asked>>
      BY <1>2, <2>2 DEF spawn, memvars, Begins
    <3>. QED BY <3>1, NoProgram
  <2>. QED BY <2>1, <2>2
<1>3. CASE elf_load_full
  <2>1. CASE CopyFaults
    <3>1. UNCHANGED <<vars, memvars, progbuf, pc, made, seg, frames, thread, asked>>
      BY <2>1 DEF CopyFaults
    <3>. QED BY <3>1, SameStep
  <2>. QED BY <1>3, <2>1, PushStep, MapStep, CopyStep, ContinueStep DEF elf_load_full
<1>4. CASE Starts
  <2>1. UNCHANGED <<vars, memvars, progbuf, pc, made, seg, frames, thread, asked>>
    BY <1>4 DEF Starts, _start
  <2>. QED BY <2>1, SameStep
<1>5. CASE UNCHANGED pvars
  <2>1. UNCHANGED <<vars, memvars, progbuf, pc, made, seg, frames, thread, asked>>
    BY <1>5 DEF pvars, loadvars
  <2>. QED BY <2>1, SameStep
<1>. QED BY <1>1, <1>2, <1>3, <1>4, <1>5 DEF ProcessNext

(* So the invariant holds throughout. *)
LEMMA ProcessInvariant == ProcessSpec => []LInv
<1>1. LInv /\ [ProcessNext]_pvars => LInv'
  BY ProcessNextInv
<1>. QED BY <1>1, ProcessInitInv, PTL DEF ProcessSpec

-----------------------------------------------------------------------------
(* AllocatorUsed, up to fairness: mem.c asks for a byte at least, gives     *)
(* each range back once, and never enters the allocator while a free is     *)
(* being finished.                                                          *)
THEOREM AllocatorUsedRight == ProcessSpec => Init /\ [][Next]_vars
<1>1. LInv /\ [ProcessNext]_pvars => [Next]_vars
  BY ProcessNextInv
<1>2. ProcessInit => Init
  BY DEF ProcessInit, MemInit
<1>. QED BY <1>1, <1>2, ProcessInvariant, PTL DEF ProcessSpec

(* The runs a program's memory objects are given are disjoint and inside    *)
(* the region, and stay theirs until they are freed.                        *)
THEOREM ObjectsGetRuns == ProcessSpec => IsRegionAlloc
<1>1. Init => Runs!Init
  BY DEF Init, Runs!Init
<1>2. LInv => IInv
  BY DEF LInv
<1>. QED BY <1>1, <1>2, RunsStep, AllocatorUsedRight, ProcessInvariant, PTL
            DEF IsRegionAlloc, Runs!Spec

(* A memory object is refused a range only when there is none. *)
THEOREM ObjectsFindRuns == ProcessSpec => []NoFalseExhaustion
<1>1. LInv => NoFalseExhaustion
  BY RunsAreFound DEF LInv
<1>. QED BY <1>1, ProcessInvariant, PTL

(* The ranges taken are those of the objects there are, and each mapped     *)
(* object has its whole frame at its own pages.                             *)
THEOREM ObjectsKeepPages == ProcessSpec => []ObjectsApart
<1>1. LInv => ObjectsApart
  BY DEF LInv, MemInv, HeldByObjects, RegionMapped, Region, Holds, ObjectsApart
<1>. QED BY <1>1, ProcessInvariant, PTL

(* Nothing is mapped over a page that is in use, by memory objects, in the  *)
(* window or in a new program.                                              *)
THEOREM PagesNotRemapped == ProcessSpec => NothingRemapped
<1>1. LInv /\ [ProcessNext]_pvars
        => [\A s \in Space, p \in PageNumbers :
              aspace[s][p] # NoFrame => aspace'[s][p] \in {aspace[s][p], NoFrame}]_aspace
  BY ProcessNextInv DEF Untouched
<1>. QED BY <1>1, ProcessInvariant, PTL DEF ProcessSpec, NothingRemapped

(* A program that runs has each segment of its file at its address, where   *)
(* it reads them through its own mapping, and the file's entry: the part of *)
(* ProgramStarts that is about the image.                                   *)
THEOREM SegmentsInPlace == ProcessSpec => [](\A c \in Child : SegmentsLoaded(c))
<1>1. LInv => \A c \in Child : SegmentsLoaded(c)
  <2>. SUFFICES ASSUME LInv, NEW c \in Child, thread[c].runs, HasHeader(asked[c].file)
                PROVE  /\ thread[c].entry = e_entry(asked[c].file)
                       /\ \A i \in 0 .. e_phnum(asked[c].file) - 1 :
                            LET h == elf_get_phdr(asked[c].file, i) IN
                            \A k \in 0 .. h.filesz - 1 :
                              Load(c, h.vaddr + k) = asked[c].file[h.offset + k + 1]
    BY DEF SegmentsLoaded
  <2>1. c \in 1 .. made /\ Finished(c)
    <3>1. c <= made /\ (c = made => pc = "idle") /\ made \in 0 .. MaxSpawns /\ c \in 1 .. MaxSpawns
      BY Zenon DEF LInv, LoadInv, LoadTypeOK, AtWork, Child
    <3>. QED BY <3>1, BoundsAssumption DEF Finished
  <2>2. SegmentsOf(c) /\ asked[c].file \in Files
    BY <2>1, Zenon DEF LInv, LoadInv, SegmentsDone, AtWork
  <2>3. ASSUME NEW i \in 0 .. e_phnum(asked[c].file) - 1,
               NEW k \in 0 .. elf_get_phdr(asked[c].file, i).filesz - 1
        PROVE  Load(c, elf_get_phdr(asked[c].file, i).vaddr + k)
                 = asked[c].file[elf_get_phdr(asked[c].file, i).offset + k + 1]
    <3>. DEFINE h == elf_get_phdr(asked[c].file, i)
                page == (h.vaddr + k) \div PageSize
                place == (h.vaddr + k) % PageSize
                first == h.vaddr \div PageSize
                r == h.vaddr % PageSize
                n == pages_of(h.memsz)
    <3>1. Mapped(c, i) /\ Copied(c, i)
      BY <2>1, <2>2, <2>3 DEF SegmentsOf
    <3>2. GoodSegment(h, Touched(asked[c].file, i))
      BY <2>2, <2>3, SegmentLemma
    <3>3. Touched(asked[c].file, i) = first .. first + n - 1
      BY DEF Touched
    <3>4. \A p \in Touched(asked[c].file, i) : aspace[c][p] = << <<c, i>>, p - first>>
      BY <3>1 DEF Mapped
    <3>5. frames[<<c, i>>][r + k] = asked[c].file[h.offset + k + 1]
      BY <3>1, <2>3 DEF Copied
    <3>6. k \in 0 .. h.filesz - 1
      BY <2>3
    <3>. HIDE DEF h
    <3>7. /\ h.vaddr \in Nat /\ h.filesz \in Nat /\ k \in Nat /\ n \in Nat
          /\ r + h.filesz <= n * PageSize
      BY <3>2, <3>6, BoundsAssumption DEF GoodSegment
    <3>. HIDE DEF n
    <3>8. r \in Nat /\ n * PageSize \in Int
      <4>1. r \in 0 .. PageSize - 1 /\ PageSize \in Nat
        BY <3>7, AddressLemma, PageSizeAssumption
      <4>2. n * PageSize \in Int
        BY <4>1, <3>7
      <4>3. r \in Nat
        BY <4>1
      <4>. QED BY <4>2, <4>3
    <3>. HIDE DEF r
    <3>9. r + k < n * PageSize
      BY <3>6, <3>7, <3>8
    <3>10. page \in first .. first + n - 1 /\ (page - first) * PageSize + place = r + k
      BY <3>7, <3>9, CellLemma DEF r
    <3>. HIDE DEF first, place, page
    <3>11. aspace[c][page] = << <<c, i>>, page - first>>
      BY <3>3, <3>4, <3>10
    <3>12. aspace[c][page][1] = <<c, i>> /\ aspace[c][page][2] = page - first
      BY <3>11
    <3>13. frames[aspace[c][page][1]][aspace[c][page][2] * PageSize + place]
             = asked[c].file[h.offset + k + 1]
      BY <3>5, <3>10, <3>12
    <3>. QED BY <3>13, Zenon DEF Load, Cell, page, place, h
  <2>. QED BY <2>2, <2>3 DEF SegmentsOf
<1>. QED BY <1>1, ProcessInvariant, PTL

-----------------------------------------------------------------------------
(* Induction, without a predicate for a parameter. *)

(* A set of numbers that is not empty has a least one. *)
LEMMA LeastNumber ==
  ASSUME NEW T, T \subseteq Nat, T # {}
  PROVE  \E m \in T : \A k \in T : m <= k
<1>. DEFINE R == {p \in Nat \X Nat : p[1] < p[2]}
<1>1. R = OpToRel(<, Nat)
  BY DEF OpToRel
<1>2. IsWellFoundedOn(R, Nat)
  BY <1>1, NatLessThanWellFounded
<1>. HIDE DEF R
<1>3. PICK m \in T : \A k \in T : ~(<<k, m>> \in R)
  BY <1>2, WFMin
<1>4. ASSUME NEW k \in T
      PROVE  m <= k
  <2>1. <<k, m>> \notin R /\ k \in Nat /\ m \in Nat
    BY <1>3
  <2>2. ~(k < m)
    BY <2>1 DEF R
  <2>. QED BY <2>1, <2>2
<1>. QED BY <1>4

(* Induction, over a set: what holds of 0 and of n + 1 whenever it holds of *)
(* n holds of every number.                                                 *)
LEMMA SetInduction ==
  ASSUME NEW T, 0 \in T, \A n \in Nat : n \in T => n + 1 \in T
  PROVE  \A n \in Nat : n \in T
<1>. DEFINE S == {n \in Nat : n \notin T}
<1>. SUFFICES ASSUME S # {} PROVE FALSE
  OBVIOUS
<1>1. PICK m \in S : \A k \in S : m <= k
  <2>1. S \subseteq Nat
    OBVIOUS
  <2>. HIDE DEF S
  <2>. QED BY <2>1, LeastNumber
<1>2. m \in Nat /\ m # 0 /\ m - 1 \in Nat /\ m - 1 \notin S
  BY <1>1
<1>3. m - 1 \in T /\ m - 1 + 1 = m
  BY <1>2
<1>. QED BY <1>1, <1>2, <1>3

-----------------------------------------------------------------------------
(* Strings pushed on a stack, and what PushStrings recurs by. *)
Pushes(f, stack, things, n) ==
  f = [i \in 0 .. n |-> IF i = 0 THEN stack ELSE elf_push_str(f[i - 1], things[i])]

(* What the definition of PushStrings stands for. *)
LEMMA PushStringsIs ==
  ASSUME NEW stack, NEW things
  PROVE  PushStrings(stack, things) = CHOOSE f : Pushes(f, stack, things, Len(things))
BY DEF PushStrings, Pushes

(* There are stacks that recur so, for any number of strings. *)
LEMMA PushesExist ==
  ASSUME NEW stack, NEW things
  PROVE  \A n \in Nat : \E f : Pushes(f, stack, things, n)
<1>. DEFINE T == {n \in Nat : \E f : Pushes(f, stack, things, n)}
<1>1. 0 \in T
  <2>1. Pushes([i \in 0 .. 0 |-> stack], stack, things, 0)
    BY DEF Pushes
  <2>. QED BY <2>1
<1>2. ASSUME NEW n \in Nat, n \in T
      PROVE  n + 1 \in T
  <2>1. PICK f : Pushes(f, stack, things, n)
    BY <1>2
  <2>. DEFINE g == [i \in 0 .. n + 1 |-> IF i = n + 1 THEN elf_push_str(f[n], things[n + 1]) ELSE f[i]]
  <2>2. \A i \in 0 .. n : f[i] = IF i = 0 THEN stack ELSE elf_push_str(f[i - 1], things[i])
    BY <2>1 DEF Pushes
  <2>3. \A i \in 0 .. n + 1 : g[i] = IF i = 0 THEN stack ELSE elf_push_str(g[i - 1], things[i])
    <3>. SUFFICES ASSUME NEW i \in 0 .. n + 1
                  PROVE  g[i] = IF i = 0 THEN stack ELSE elf_push_str(g[i - 1], things[i])
      OBVIOUS
    <3>1. CASE i = n + 1
      BY <3>1
    <3>2. CASE i # n + 1
      BY <3>2, <2>2
    <3>. QED BY <3>1, <3>2
  <2>4. Pushes(g, stack, things, n + 1)
    <3>1. g = [i \in 0 .. n + 1 |-> g[i]]
      OBVIOUS
    <3>. HIDE DEF g
    <3>. QED BY <2>3, <3>1 DEF Pushes
  <2>. QED BY <2>4
<1>3. \A n \in Nat : n \in T
  <2>. HIDE DEF T
  <2>. QED BY <1>1, <1>2, SetInduction
<1>. QED BY <1>3

(* So PushStrings recurs so itself. *)
LEMMA PushStringsStep ==
  ASSUME NEW stack, NEW things \in Seq(Str)
  PROVE  Pushes(PushStrings(stack, things), stack, things, Len(things))
<1>1. \E f : Pushes(f, stack, things, Len(things))
  <2>1. Len(things) \in Nat
    OBVIOUS
  <2>. QED BY <2>1, PushesExist
<1>. QED BY <1>1, PushStringsIs

(* The stacks elf_copy_strlist goes through. *)
Pushed(f, stack, things) ==
  /\ f[0] = stack
  /\ \A i \in 1 .. Len(things) : f[i] = things[i] \o <<0>> \o f[i - 1]
  /\ \A i \in 0 .. Len(things) : f[i] \in Seq(Int)

(* Each string is pushed with its zero, on the stack so far. *)
LEMMA PushStringsAre ==
  ASSUME NEW stack \in Seq(Int), NEW things \in Seq(Str)
  PROVE  Pushed(PushStrings(stack, things), stack, things)
<1>. DEFINE f == PushStrings(stack, things)
            n == Len(things)
            T == {i \in Nat : i <= n => f[i] \in Seq(Int)}
<1>1. Pushes(f, stack, things, n) /\ n \in Nat
  BY PushStringsStep
<1>. HIDE DEF f, n
<1>2. f[0] = stack /\ \A i \in 1 .. n : f[i] = elf_push_str(f[i - 1], things[i])
  <2>1. \A i \in 0 .. n : f[i] = IF i = 0 THEN stack ELSE elf_push_str(f[i - 1], things[i])
    BY <1>1 DEF Pushes
  <2>. QED BY <1>1, <2>1
<1>3. \A i \in 1 .. n : things[i] \in Seq(Int)
  <2>1. \A i \in 1 .. n : things[i] \in Seq(Nat \ {0})
    BY DEF n, Str
  <2>. QED BY <2>1
<1>4. 0 \in T
  BY <1>2
<1>5. ASSUME NEW i \in Nat, i \in T PROVE i + 1 \in T
  <2>. SUFFICES ASSUME i + 1 <= n PROVE f[i + 1] \in Seq(Int)
    OBVIOUS
  <2>1. f[i] \in Seq(Int) /\ i + 1 \in 1 .. n /\ i + 1 - 1 = i
    BY <1>1, <1>5
  <2>2. f[i + 1] = elf_push_str(f[i + 1 - 1], things[i + 1])
    BY <1>2, <2>1
  <2>3. f[i + 1] = things[i + 1] \o <<0>> \o f[i]
    BY <2>1, <2>2 DEF elf_push_str
  <2>. QED BY <1>3, <2>1, <2>3
<1>6. \A i \in Nat : i \in T
  <2>. HIDE DEF T
  <2>. QED BY <1>4, <1>5, SetInduction
<1>7. \A i \in 0 .. n : f[i] \in Seq(Int)
  BY <1>1, <1>6
<1>. QED BY <1>2, <1>7 DEF Pushed, elf_push_str, f, n

-----------------------------------------------------------------------------
(* A stack read back. *)

OnStack(c, s) == \A k \in 1 .. Len(s) : Load(c, To(s) + k - 1) = s[k]

(* Where the stack begins. *)
LEMMA StackTop ==
  /\ StackPage \in Nat \ {0} /\ PageSize \in Nat \ {0} /\ STACK_OFFSET \in 0 .. PageSize - 1
  /\ StackPage * PageSize \in Nat \ {0}
<1>1. STACK_OFFSET \in 0 .. PageSize - 1
  BY CallsAssumption, Zenon
<1>2. StackPage \in Nat \ {0} /\ PageSize \in Nat \ {0}
  BY PlacesAssumption, LayoutAssumption, PageSizeAssumption
<1>3. StackPage * PageSize \in Nat \ {0}
  BY <1>2
<1>. QED BY <1>1, <1>2, <1>3

(* A place on the stack is on the stack's page. *)
LEMMA StackPlace ==
  ASSUME NEW n \in 0 .. STACK_OFFSET, NEW a, a = StackPage * PageSize + STACK_OFFSET - n
  PROVE  /\ a \in Nat \ {0} /\ a \div PageSize = StackPage
         /\ a % PageSize = STACK_OFFSET - n
<1>1. /\ StackPage \in Nat /\ StackPage # 0 /\ PageSize \in Nat \ {0}
      /\ STACK_OFFSET - n \in 0 .. PageSize - 1 /\ STACK_OFFSET \in Nat
  BY StackTop
<1>. DEFINE base == StackPage * PageSize
<1>2. base \in Nat /\ base # 0
  BY <1>1
<1>3. a = base + (STACK_OFFSET - n)
  BY <1>1, <1>2
<1>. HIDE DEF base
<1>4. a \in Nat \ {0}
  BY <1>1, <1>2, <1>3
<1>5. a = StackPage * PageSize + (STACK_OFFSET - n)
  BY <1>3 DEF base
<1>6. a \div PageSize = StackPage /\ a % PageSize = STACK_OFFSET - n
  BY <1>1, <1>4, <1>5, PageOf
<1>. QED BY <1>4, <1>6

(* What was pushed first is higher up, and stays there. *)
LEMMA StackBelow ==
  ASSUME NEW c, NEW p \in Seq(Int), NEW t \in Seq(Int), NEW s, s = p \o t, OnStack(c, s)
  PROVE  OnStack(c, t)
<1>1. s \in Seq(Int) /\ Len(s) = Len(p) + Len(t) /\ \A k \in 1 .. Len(t) : s[Len(p) + k] = t[k]
  OBVIOUS
<1>. DEFINE top == StackPage * PageSize + STACK_OFFSET
<1>2. top \in Int /\ To(s) = top - Len(s) /\ To(t) = top - Len(t)
  BY StackTop DEF To
<1>. SUFFICES ASSUME NEW k \in 1 .. Len(t) PROVE Load(c, To(t) + k - 1) = t[k]
  BY DEF OnStack
<1>3. Len(p) \in Nat /\ Len(t) \in Nat
  OBVIOUS
<1>4. Len(p) + k \in 1 .. Len(s) /\ To(s) + (Len(p) + k) - 1 = To(t) + k - 1
  <2>. HIDE DEF top
  <2>. QED BY <1>1, <1>2, <1>3
<1>5. Load(c, To(s) + (Len(p) + k) - 1) = s[Len(p) + k]
  BY <1>4 DEF OnStack
<1>. QED BY <1>1, <1>4, <1>5

(* A string or a list of pointers that ends with a zero is found again. *)
LEMMA ReadBack ==
  ASSUME NEW c, NEW str \in Str, NEW t \in Seq(Int), NEW s, s = str \o << 0 >> \o t,
         OnStack(c, s), Len(s) \in 0 .. STACK_OFFSET
  PROVE  UpToZero(c, To(s)) = str
<1>. DEFINE r == To(s) % PageSize
            page == To(s) \div PageSize
            n == Len(str)
            Ends(k) == /\ Cell(c, page, k) = 0
                       /\ \A j \in r .. k - 1 : Cell(c, page, j) # 0
<1>1. /\ str \in Seq(Int) /\ n \in Nat /\ Len(s) > n
      /\ \A k \in 1 .. n : s[k] = str[k] /\ str[k] # 0
      /\ s[n + 1] = 0 /\ Len(s) \in Nat
  BY DEF Str
<1>2. /\ To(s) \in Nat \ {0} /\ page = StackPage /\ r = STACK_OFFSET - Len(s)
      /\ STACK_OFFSET \in 0 .. PageSize - 1 /\ PageSize \in Nat /\ r \in Nat
  <2>1. To(s) = StackPage * PageSize + STACK_OFFSET - Len(s)
    BY DEF To
  <2>2. /\ To(s) \in Nat \ {0} /\ To(s) \div PageSize = StackPage
        /\ To(s) % PageSize = STACK_OFFSET - Len(s)
    BY <2>1, StackPlace
  <2>. QED BY <2>2, StackTop
<1>. HIDE DEF n, r, page
<1>3. \A k \in 1 .. Len(s) : Cell(c, page, r + k - 1) = s[k]
  <2>. SUFFICES ASSUME NEW k \in 1 .. Len(s) PROVE Cell(c, page, r + k - 1) = s[k]
    OBVIOUS
  <2>. DEFINE a == To(s) + k - 1
  <2>1. /\ Len(s) - k + 1 \in 0 .. STACK_OFFSET
        /\ a = StackPage * PageSize + STACK_OFFSET - (Len(s) - k + 1)
    <3>. DEFINE base == StackPage * PageSize
    <3>1. base \in Int /\ To(s) = base + STACK_OFFSET - Len(s)
      BY StackTop DEF To
    <3>. HIDE DEF base
    <3>2. a = base + STACK_OFFSET - (Len(s) - k + 1)
      BY <1>1, <1>2, <3>1
    <3>3. Len(s) - k + 1 \in 0 .. STACK_OFFSET
      BY <1>1, <1>2
    <3>. QED BY <3>2, <3>3 DEF base
  <2>2. Load(c, a) = s[k]
    BY DEF OnStack
  <2>. HIDE DEF a
  <2>3. a \div PageSize = page /\ a % PageSize = STACK_OFFSET - (Len(s) - k + 1)
    BY <1>2, <2>1, StackPlace
  <2>4. STACK_OFFSET - (Len(s) - k + 1) = r + k - 1
    BY <1>2
  <2>. QED BY <2>2, <2>3, <2>4 DEF Load
<1>4. r + n \in r .. PageSize - 1 /\ Ends(r + n)
  <2>1. r + n \in r .. PageSize - 1
    BY <1>1, <1>2
  <2>2. Cell(c, page, r + n) = 0
    <3>1. n + 1 \in 1 .. Len(s) /\ r + (n + 1) - 1 = r + n
      BY <1>1, <1>2
    <3>. QED BY <1>1, <1>3, <3>1
  <2>3. ASSUME NEW j \in r .. (r + n) - 1 PROVE Cell(c, page, j) # 0
    <3>1. j - r + 1 \in 1 .. n /\ j - r + 1 \in 1 .. Len(s) /\ j = r + (j - r + 1) - 1
      BY <1>1, <1>2
    <3>. QED BY <1>1, <1>3, <3>1
  <2>. QED BY <2>1, <2>2, <2>3, Zenon
<1>5. ASSUME NEW k \in r .. PageSize - 1, Ends(k) PROVE k = r + n
  <2>1. ~(k < r + n)
    BY <1>1, <1>2, <1>4, <1>5
  <2>2. ~(r + n < k)
    BY <1>1, <1>2, <1>4, <1>5
  <2>. QED BY <1>1, <1>2, <2>1, <2>2
<1>6. (CHOOSE k \in r .. PageSize - 1 : Ends(k)) = r + n
  <2>. HIDE DEF Ends
  <2>. QED BY <1>4, <1>5
<1>7. UpToZero(c, To(s)) = [k \in 1 .. (r + n) - r |-> Load(c, To(s) + k - 1)]
  BY <1>6, Zenon DEF UpToZero, r, page
<1>8. (r + n) - r = n
  BY <1>1, <1>2
<1>9. \A k \in 1 .. n : Load(c, To(s) + k - 1) = str[k]
  <2>1. \A k \in 1 .. n : k \in 1 .. Len(s)
    BY <1>1
  <2>. QED BY <1>1, <2>1 DEF OnStack
<1>10. str = [k \in 1 .. n |-> str[k]]
  BY <1>1 DEF n
<1>. QED BY <1>7, <1>8, <1>9, <1>10

(* The strings are found where elf_copy_strlist has put them. *)
LEMMA StringsBack ==
  ASSUME NEW c, NEW stack \in Seq(Int), NEW things \in Seq(Str), NEW s,
         s = elf_copy_strlist(stack, things),
         OnStack(c, s), Len(s) \in 0 .. STACK_OFFSET
  PROVE  /\ Strings(c, UpToZero(c, To(s))) = things
         /\ OnStack(c, stack) /\ Len(stack) \in 0 .. STACK_OFFSET
<1>. DEFINE f == PushStrings(stack, things)
            n == Len(things)
            list == [i \in 1 .. n |-> To(f[i])]
            T == {k \in Nat : k <= n => /\ OnStack(c, f[n - k])
                                         /\ Len(f[n - k]) \in 0 .. STACK_OFFSET}
<1>1. /\ f[0] = stack /\ n \in Nat
      /\ \A i \in 1 .. n : f[i] = things[i] \o <<0>> \o f[i - 1]
      /\ \A i \in 0 .. n : f[i] \in Seq(Int)
      /\ \A i \in 1 .. n : things[i] \in Str
  <2>1. n \in Nat /\ \A i \in 1 .. n : things[i] \in Str
    OBVIOUS
  <2>2. Pushed(f, stack, things)
    BY PushStringsAre, Zenon
  <2>. QED BY <2>1, <2>2, Zenon DEF Pushed
<1>2. s = list \o <<0>> \o f[n]
  BY DEF elf_copy_strlist, PushList
<1>. HIDE DEF f, n
<1>3. \A i \in 0 .. n : Len(f[i]) \in Nat /\ To(f[i]) \in Int
  <2>. SUFFICES ASSUME NEW i \in 0 .. n PROVE Len(f[i]) \in Nat /\ To(f[i]) \in Int
    OBVIOUS
  <2>1. Len(f[i]) \in Nat
    BY <1>1
  <2>. QED BY <2>1, StackTop DEF To
<1>4. list \in Seq(Int) /\ Len(list) = n
  BY <1>1, <1>3
<1>5. STACK_OFFSET \in Nat
  BY StackTop
<1>6. 0 \in T
  <2>. DEFINE p == list \o <<0>>
  <2>1. p \in Seq(Int) /\ f[n] \in Seq(Int) /\ n - 0 = n /\ Len(f[n]) \in Nat
    BY <1>1, <1>4
  <2>2. s = p \o f[n] /\ Len(s) = Len(p) + Len(f[n]) /\ Len(p) \in Nat
    BY <1>1, <1>2, <1>4, <2>1
  <2>. HIDE DEF p, list
  <2>3. OnStack(c, f[n])
    BY <2>1, <2>2, StackBelow
  <2>. QED BY <1>5, <2>1, <2>2, <2>3
<1>7. ASSUME NEW k \in Nat, k \in T PROVE k + 1 \in T
  <2>. SUFFICES ASSUME k + 1 <= n
                PROVE  OnStack(c, f[n - (k + 1)]) /\ Len(f[n - (k + 1)]) \in 0 .. STACK_OFFSET
    OBVIOUS
  <2>. DEFINE i == n - k
              g == f[i - 1]
              p == things[i] \o <<0>>
  <2>1. /\ i \in 1 .. n /\ i - 1 \in 0 .. n /\ n - (k + 1) = i - 1
        /\ OnStack(c, f[i]) /\ Len(f[i]) \in 0 .. STACK_OFFSET
    BY <1>1, <1>7
  <2>. HIDE DEF i
  <2>2. p \in Seq(Int) /\ g \in Seq(Int)
    <3>1. things[i] \in Seq(Nat \ {0})
      BY <1>1, <2>1 DEF Str
    <3>2. things[i] \in Seq(Int)
      BY <3>1
    <3>. QED BY <1>1, <2>1, <3>2
  <2>3. f[i] = p \o g
    <3>1. f[i] = things[i] \o <<0>> \o g
      BY <1>1, <2>1
    <3>. QED BY <3>1
  <2>. HIDE DEF p, g
  <2>4. OnStack(c, g)
    BY <2>1, <2>2, <2>3, StackBelow
  <2>5. Len(g) \in 0 .. STACK_OFFSET
    BY <1>5, <2>1, <2>2, <2>3
  <2>. QED BY <2>1, <2>4, <2>5 DEF g
<1>8. \A k \in Nat : k \in T
  <2>. HIDE DEF T
  <2>. QED BY <1>6, <1>7, SetInduction
<1>9. \A i \in 0 .. n : OnStack(c, f[i]) /\ Len(f[i]) \in 0 .. STACK_OFFSET
  <2>. SUFFICES ASSUME NEW i \in 0 .. n PROVE OnStack(c, f[i]) /\ Len(f[i]) \in 0 .. STACK_OFFSET
    OBVIOUS
  <2>1. n - i \in Nat /\ n - i <= n /\ n - (n - i) = i
    BY <1>1
  <2>. QED BY <1>8, <2>1
<1>10. list \in Str
  <2>1. ASSUME NEW i \in 1 .. n PROVE To(f[i]) \in Nat \ {0}
    <3>1. Len(f[i]) \in 0 .. STACK_OFFSET
      BY <1>1, <1>9
    <3>. QED BY <3>1, StackPlace DEF To
  <2>. QED BY <1>1, <2>1 DEF Str
<1>11. UpToZero(c, To(s)) = list
  <2>1. f[n] \in Seq(Int)
    BY <1>1
  <2>. HIDE DEF list
  <2>. QED BY <1>2, <1>10, <2>1, ReadBack
<1>12. \A i \in 1 .. n : UpToZero(c, list[i]) = things[i]
  <2>. SUFFICES ASSUME NEW i \in 1 .. n PROVE UpToZero(c, To(f[i])) = things[i]
    OBVIOUS
  <2>1. /\ things[i] \in Str /\ f[i - 1] \in Seq(Int) /\ f[i] = things[i] \o <<0>> \o f[i - 1]
        /\ OnStack(c, f[i]) /\ Len(f[i]) \in 0 .. STACK_OFFSET
    <3>1. i \in 0 .. n /\ i - 1 \in 0 .. n
      BY <1>1
    <3>. QED BY <1>1, <1>9, <3>1, Zenon
  <2>. QED BY <2>1, ReadBack
<1>13. Strings(c, UpToZero(c, To(s))) = things
  <2>1. things = [i \in 1 .. n |-> things[i]]
    BY DEF n
  <2>2. Strings(c, list) = [i \in 1 .. n |-> UpToZero(c, list[i])]
    BY <1>4 DEF Strings
  <2>. HIDE DEF list
  <2>. QED BY <1>11, <1>12, <2>1, <2>2
<1>. QED BY <1>1, <1>9, <1>13

(* elf_copy_strlist leaves a stack. *)
LEMMA CopyType ==
  ASSUME NEW stack \in Seq(Int), NEW things \in Seq(Str)
  PROVE  elf_copy_strlist(stack, things) \in Seq(Int)
<1>. DEFINE f == PushStrings(stack, things)
            n == Len(things)
            list == [i \in 1 .. n |-> To(f[i])]
<1>1. n \in Nat /\ \A i \in 0 .. n : f[i] \in Seq(Int)
  <2>1. n \in Nat
    OBVIOUS
  <2>2. Pushed(f, stack, things)
    BY PushStringsAre, Zenon
  <2>. QED BY <2>1, <2>2, Zenon DEF Pushed
<1>. HIDE DEF f, n
<1>2. ASSUME NEW i \in 1 .. n PROVE To(f[i]) \in Int
  <2>1. Len(f[i]) \in Nat
    BY <1>1
  <2>. QED BY <2>1, StackTop DEF To
<1>3. list \in Seq(Int)
  BY <1>1, <1>2
<1>4. list \o <<0>> \o f[n] \in Seq(Int)
  <2>1. f[n] \in Seq(Int)
    BY <1>1
  <2>. HIDE DEF list
  <2>. QED BY <1>3, <2>1
<1>. QED BY <1>4 DEF elf_copy_strlist, PushList, f, n

(* The parameters are found above the return address, and the lists of      *)
(* strings through them.                                                    *)
LEMMA ParamsBack ==
  ASSUME NEW c, NEW argv \in Seq(Str), NEW envp \in Seq(Str), NEW s,
         s = setup_stack_params(C4_NAMESERVER, argv, envp),
         OnStack(c, s), Len(s) \in 0 .. STACK_OFFSET
  PROVE  /\ Load(c, To(s) + 4) = C4RT_INIT_MAGIC /\ Load(c, To(s) + 1) = C4_NAMESERVER
         /\ Strings(c, UpToZero(c, Load(c, To(s) + 2))) = argv
         /\ Strings(c, UpToZero(c, Load(c, To(s) + 3))) = envp
<1>. DEFINE a == elf_copy_strlist(<< >>, argv)
            e == elf_copy_strlist(a, envp)
            p == <<0, C4_NAMESERVER, To(a), To(e), C4RT_INIT_MAGIC>>
<1>1. << >> \in Seq(Int)
  OBVIOUS
<1>2. a \in Seq(Int)
  BY <1>1, CopyType
<1>. HIDE DEF a
<1>3. e \in Seq(Int)
  BY <1>2, CopyType
<1>. HIDE DEF e
<1>4. C4RT_INIT_MAGIC \in Nat /\ C4_NAMESERVER = 5
  <2>1. C4RT_INIT_MAGIC \in Nat
    BY CallsAssumption, Zenon
  <2>. QED BY <2>1 DEF C4_NAMESERVER
<1>5. To(a) \in Int /\ To(e) \in Int /\ To(s) \in Int
  <2>1. Len(a) \in Nat /\ Len(e) \in Nat /\ Len(s) \in Int
    BY <1>2, <1>3
  <2>. QED BY <2>1, StackTop DEF To
<1>6. s = p \o e
  BY DEF setup_stack_params, PushParams, a, e
<1>7. p \in Seq(Int) /\ Len(p) = 5
  BY <1>4, <1>5
<1>8. /\ Len(s) = 5 + Len(e) /\ Len(e) \in Nat
      /\ s[2] = C4_NAMESERVER /\ s[3] = To(a) /\ s[4] = To(e) /\ s[5] = C4RT_INIT_MAGIC
  BY <1>3, <1>5, <1>6, <1>7
<1>9. /\ Load(c, To(s) + 1) = s[2] /\ Load(c, To(s) + 2) = s[3]
      /\ Load(c, To(s) + 3) = s[4] /\ Load(c, To(s) + 4) = s[5]
  <2>1. /\ 2 \in 1 .. Len(s) /\ 3 \in 1 .. Len(s) /\ 4 \in 1 .. Len(s) /\ 5 \in 1 .. Len(s)
        /\ To(s) + 2 - 1 = To(s) + 1 /\ To(s) + 3 - 1 = To(s) + 2
        /\ To(s) + 4 - 1 = To(s) + 3 /\ To(s) + 5 - 1 = To(s) + 4
    BY <1>5, <1>8
  <2>. QED BY <2>1 DEF OnStack
<1>10. OnStack(c, e) /\ Len(e) \in 0 .. STACK_OFFSET
  <2>1. OnStack(c, e)
    <3>. HIDE DEF p
    <3>. QED BY <1>3, <1>6, <1>7, StackBelow
  <2>. QED BY <1>8, <2>1, StackTop
<1>11. Strings(c, UpToZero(c, To(e))) = envp /\ OnStack(c, a) /\ Len(a) \in 0 .. STACK_OFFSET
  BY <1>2, <1>10, StringsBack DEF e
<1>12. Strings(c, UpToZero(c, To(a))) = argv
  BY <1>1, <1>11, StringsBack DEF a
<1>. QED BY <1>8, <1>9, <1>11, <1>12

-----------------------------------------------------------------------------
(* The inductive invariant, for the parameters. *)

ParamsOf(c) == setup_stack_params(C4_NAMESERVER, asked[c].argv, asked[c].envp)

Written(c) ==
  \A k \in 1 .. Len(ParamsOf(c)) :
    frames[StackOf(c)][STACK_OFFSET - Len(ParamsOf(c)) + (k - 1)] = ParamsOf(c)[k]

(* elf_load is still to write the parameters. *)
Unwritten(c) == c = made /\ pc = "push"

StackReady(c) ==
  /\ aspace[c][StackPage] = <<StackOf(c), 0>>
  /\ cspace[c][C4_NAMESERVER] = <<"nameserver">>
  /\ ~Unwritten(c) => thread[c].stack = To(ParamsOf(c)) /\ Written(c)

Started(c) == got[c].seen => thread[c].runs /\ ParametersFound(c)

PInv ==
  /\ cspace = [c \in Child |-> [s \in Slot |-> cspace[c][s]]]
  /\ got = [c \in Child |-> got[c]]
  /\ \A c \in 1 .. made : StackReady(c)
  /\ \A c \in Child : Started(c)

(* A program keeps its stack and what it found as long as nothing of it is  *)
(* touched.                                                                 *)
LEMMA StackKept ==
  ASSUME NEW c, StackReady(c), aspace'[c][StackPage] = aspace[c][StackPage],
         cspace'[c][C4_NAMESERVER] = cspace[c][C4_NAMESERVER], Unwritten(c) => Unwritten(c)',
         thread'[c].stack = thread[c].stack, frames'[StackOf(c)] = frames[StackOf(c)],
         asked'[c] = asked[c]
  PROVE  StackReady(c)'
<1>1. ParamsOf(c)' = ParamsOf(c)
  BY DEF ParamsOf
<1>2. Written(c) => Written(c)'
  BY <1>1 DEF Written
<1>. QED BY <1>1, <1>2 DEF StackReady

(* See StackKept. *)
LEMMA StartKept ==
  ASSUME NEW c, Started(c), got'[c] = got[c],
         thread[c].runs => thread'[c].runs /\ asked'[c] = asked[c] /\ cspace'[c] = cspace[c]
  PROVE  Started(c)'
BY DEF Started, ParametersFound

(* The programs there are, and where their stacks are. *)
LEMMA StackFrames ==
  ASSUME LInv, NEW c \in 1 .. made
  PROVE  /\ c \in Child /\ c \in Space /\ c # Self /\ StackOf(c) \in FrameId
         /\ \A d \in 1 .. made, i \in 0 .. MaxSegments - 1 : StackOf(c) # <<d, i>>
         /\ \A d \in 1 .. made : d # c => StackOf(c) # StackOf(d)
         /\ C4_NAMESERVER \in Slot /\ StackPage \in PageNumbers
<1>1. c \in Child
  BY BoundsAssumption DEF LInv, LoadInv, LoadTypeOK, Child
<1>2. StackOf(c) \in FrameId
  BY <1>1, BoundsAssumption DEF StackOf, FrameId
<1>3. C4_NAMESERVER \in Slot
  BY BoundsAssumption DEF Slot, C4_NAMESERVER, C4_DEFAULT_OBJECT_END
<1>4. \A d \in 1 .. made, i \in 0 .. MaxSegments - 1 : StackOf(c) # <<d, i>>
  BY BoundsAssumption DEF StackOf
<1>5. \A d \in 1 .. made : d # c => StackOf(c) # StackOf(d)
  BY DEF StackOf
<1>. QED BY <1>1, <1>2, <1>3, <1>4, <1>5, Places, PlacesAssumption

(* A step that leaves the programs' spaces, stacks and threads. *)
LEMMA ParamsKept ==
  ASSUME LInv, PInv, UNCHANGED <<pc, made, thread, asked, cspace, got>>,
         \A c \in 1 .. made : /\ aspace'[c][StackPage] = aspace[c][StackPage]
                              /\ frames'[StackOf(c)] = frames[StackOf(c)]
  PROVE  PInv'
<1>1. \A c \in 1 .. made : StackReady(c)'
  <2>. SUFFICES ASSUME NEW c \in 1 .. made PROVE StackReady(c)'
    OBVIOUS
  <2>1. StackReady(c) /\ (Unwritten(c) => Unwritten(c)')
    BY DEF PInv, Unwritten
  <2>. QED BY <2>1, StackKept
<1>2. \A c \in Child : Started(c)'
  BY StartKept DEF PInv
<1>. QED BY <1>1, <1>2 DEF PInv

(* A new program has its stack mapped and the name server in its slot.      *)
LEMMA NewParams ==
  ASSUME LInv, PInv, NEW file \in Files, NEW call \in Calls, spawn(file, call[1], call[2]),
         Begins(file, call)
  PROVE  PInv'
<1>. DEFINE c == made + 1
<1>1. /\ pc = "idle" /\ made < MaxSpawns /\ NewProcess(c, progbuf')
      /\ asked' = [asked EXCEPT ![c] = [file |-> file, argv |-> call[1], envp |-> call[2]]]
      /\ frames' = frames /\ got' = got
  BY DEF spawn, Begins
<1>2. /\ made' = c /\ pc' = "push"
      /\ thread' = [thread EXCEPT ![c].entry = e_entry(progbuf')]
      /\ aspace' = c4_addrspace_map(
                     c4_addrspace_map(
                       c4_addrspace_map(aspace, c, BootFrame, 1, BootPage),
                       Self, StackOf(c), 1, Window),
                     c, StackOf(c), 1, StackPage)
      /\ cspace' = [cspace EXCEPT ![c] = [@ EXCEPT
                     ![C4_SERV_PORT] = <<"port", c>>, ![C4_CURRENT_ADDRSPACE] = <<"aspace", c>>,
                     ![C4_BOOT_INFO] = <<"bootinfo">>, ![C4_PAGER] = <<"pager">>,
                     ![C4_NAMESERVER] = <<"nameserver">>]]
  BY <1>1 DEF NewProcess
<1>3. /\ made \in 0 .. MaxSpawns /\ asked = [x \in Child |-> asked[x]] /\ MaxSpawns \in Nat
      /\ thread \in [Child -> [entry : Nat, stack : Int, runs : BOOLEAN]]
  BY BoundsAssumption DEF LInv, LoadInv, LoadTypeOK
<1>4. c \in Child /\ \A x \in 1 .. c : x \in Child /\ (x # c => x \in 1 .. made)
  BY <1>1, <1>3 DEF Child
<1>5. /\ \A t \in Space : t \notin {c, Self} => aspace'[t] = aspace[t]
      /\ aspace'[c][StackPage] = <<StackOf(c), 0>>
  BY <1>1, <1>2, <1>4, NewSpaces
<1>6. /\ cspace' = [x \in Child |-> [s \in Slot |-> cspace'[x][s]]]
      /\ cspace'[c][C4_NAMESERVER] = <<"nameserver">>
      /\ \A x \in Child : x # c => cspace'[x] = cspace[x]
  <2>1. C4_NAMESERVER \in Slot
    BY BoundsAssumption DEF Slot, C4_NAMESERVER, C4_DEFAULT_OBJECT_END
  <2>2. cspace = [x \in Child |-> [s \in Slot |-> cspace[x][s]]]
    BY DEF PInv
  <2>. DEFINE row == [cspace[c] EXCEPT
                     ![C4_SERV_PORT] = <<"port", c>>, ![C4_CURRENT_ADDRSPACE] = <<"aspace", c>>,
                     ![C4_BOOT_INFO] = <<"bootinfo">>, ![C4_PAGER] = <<"pager">>,
                     ![C4_NAMESERVER] = <<"nameserver">>]
  <2>3. cspace' = [cspace EXCEPT ![c] = row]
    BY <1>2, Zenon
  <2>4. row = [s \in Slot |-> row[s]] /\ row[C4_NAMESERVER] = <<"nameserver">>
    BY <1>4, <2>1, <2>2
  <2>. HIDE DEF row
  <2>. QED BY <1>4, <2>2, <2>3, <2>4
<1>7. \A x \in Child : /\ thread'[x].runs = thread[x].runs
                       /\ x # c => thread'[x] = thread[x] /\ asked'[x] = asked[x]
  BY <1>1, <1>2, <1>3, <1>4
<1>8. ~thread[c].runs
  <2>1. \A x \in Child : thread[x].runs => x <= made
    BY DEF LInv, LoadInv, AtWork
  <2>. QED BY <1>3, <1>4, <2>1
<1>9. ASSUME NEW x \in 1 .. c PROVE StackReady(x)'
  <2>1. CASE x = c
    <3>1. Unwritten(x)'
      BY <1>2, <2>1 DEF Unwritten
    <3>2. aspace'[x][StackPage] = <<StackOf(x), 0>> /\ cspace'[x][C4_NAMESERVER] = <<"nameserver">>
      BY <1>5, <1>6, <2>1
    <3>. QED BY <3>1, <3>2 DEF StackReady
  <2>2. CASE x # c
    <3>1. x \in 1 .. made /\ x \in Child /\ x \in Space /\ x # Self /\ StackReady(x)
      BY <1>4, <2>2, Places DEF PInv
    <3>2. ~Unwritten(x)
      BY <1>1 DEF Unwritten
    <3>. HIDE DEF c
    <3>. QED BY <1>1, <1>5, <1>6, <1>7, <2>2, <3>1, <3>2, StackKept
  <2>. QED BY <2>1, <2>2
<1>10. ASSUME NEW x \in Child PROVE Started(x)'
  <2>1. Started(x) /\ got'[x] = got[x]
    BY <1>1 DEF PInv
  <2>2. thread[x].runs => thread'[x].runs /\ asked'[x] = asked[x] /\ cspace'[x] = cspace[x]
    BY <1>6, <1>7, <1>8
  <2>. QED BY <2>1, <2>2, StartKept
<1>. QED BY <1>1, <1>2, <1>6, <1>9, <1>10 DEF PInv

(* Pushing writes the parameters to the program's own frame. *)
LEMMA PushParamsStep ==
  ASSUME LInv, PInv, PushStack
  PROVE  PInv'
<1>. DEFINE stack == ParamsOf(made)
<1>1. /\ pc = "push" /\ pc' = "map" /\ frames' = Store(frames, From(stack), stack)
      /\ thread' = [thread EXCEPT ![made].stack = To(stack)]
      /\ aspace' = c4_addrspace_unmap(aspace, Self, Window)
      /\ made' = made /\ asked' = asked /\ cspace' = cspace /\ got' = got
  BY DEF PushStack, ParamsOf
<1>2. /\ LoadTypeOK /\ made \in 1 .. made /\ AtWork /\ made \in Child
      /\ thread \in [Child -> [entry : Nat, stack : Int, runs : BOOLEAN]]
  BY <1>1, WorkLemma DEF LInv, LoadInv, LoadTypeOK
<1>3. Len(stack) \in 0 .. STACK_OFFSET /\ STACK_OFFSET \in 0 .. PageSize - 1 /\ PageSize \in Nat
  <2>1. PICK call \in Calls : asked[made].argv = call[1] /\ asked[made].envp = call[2]
    BY <1>2 DEF AtWork
  <2>2. Len(setup_stack_params(C4_NAMESERVER, call[1], call[2])) \in 0 .. STACK_OFFSET
    BY CallsAssumption, Zenon
  <2>. QED BY <2>1, <2>2, StackTop DEF ParamsOf
<1>4. ParamsOf(made)' = stack
  BY <1>1 DEF ParamsOf
<1>. HIDE DEF stack
<1>5. /\ StackOf(made) \in FrameId /\ aspace[Self][Window] = <<StackOf(made), 0>>
  BY <1>1, <1>2, StackFrames DEF LInv, WindowUse, InWindow
<1>. DEFINE r == STACK_OFFSET - Len(stack)
<1>6. r \in 0 .. PageSize - 1 /\ From(stack) = Window * PageSize + r
  <2>1. Window * PageSize \in Int
    BY Places, PageSizeAssumption
  <2>. QED BY <2>1, <1>3 DEF From
<1>7. /\ \A x \in FrameId : x # StackOf(made) => frames'[x] = frames[x]
      /\ \A k \in 1 .. Len(stack) : frames'[StackOf(made)][r + (k - 1)] = stack[k]
  <2>1. CASE stack = << >>
    <3>1. \A k \in 1 .. Len(stack) : FALSE
      BY <2>1
    <3>. QED BY <1>1, <2>1, <3>1 DEF Store
  <2>2. CASE stack # << >>
    <3>. HIDE DEF r
    <3>1. /\ \A x \in FrameId : x # StackOf(made) => frames'[x] = frames[x]
          /\ \A k \in FrameCells :
               r <= k /\ k < r + Len(stack) => frames'[StackOf(made)][k] = stack[k - r + 1]
      BY <1>1, <1>2, <1>5, <1>6, <2>2, StoreLemma
    <3>2. ASSUME NEW k \in 1 .. Len(stack)
          PROVE  frames'[StackOf(made)][r + (k - 1)] = stack[k]
      <4>1. FramePages * PageSize >= PageSize /\ FramePages * PageSize \in Int
        BY BoundsAssumption, StackTop
      <4>2. r + (k - 1) \in 0 .. PageSize - 1 /\ r <= r + (k - 1) /\ r + (k - 1) < r + Len(stack)
            /\ (r + (k - 1)) - r + 1 = k
        BY <1>3, <1>6 DEF r
      <4>3. r + (k - 1) \in FrameCells
        BY <1>3, <4>1, <4>2 DEF FrameCells
      <4>. QED BY <3>1, <4>2, <4>3
    <3>. QED BY <3>1, <3>2
  <2>. QED BY <2>1, <2>2
<1>8. /\ \A x \in Child : thread'[x].runs = thread[x].runs /\ (x # made => thread'[x] = thread[x])
      /\ thread'[made].stack = To(stack)
  BY <1>1, <1>2
<1>9. \A t \in Space : t # Self => aspace'[t] = aspace[t]
  BY <1>1, WindowUnmap DEF LInv
<1>10. ASSUME NEW x \in 1 .. made PROVE StackReady(x)'
  <2>1. /\ x \in Child /\ StackReady(x) /\ aspace'[x] = aspace[x] /\ StackOf(x) \in FrameId
        /\ x # made => StackOf(x) # StackOf(made)
    BY <1>2, <1>9, StackFrames DEF PInv
  <2>2. CASE x = made
    <3>1. Written(made)'
      BY <1>1, <1>4, <1>7 DEF Written
    <3>. QED BY <1>1, <1>4, <1>8, <2>1, <2>2, <3>1 DEF StackReady
  <2>3. CASE x # made
    <3>1. ~Unwritten(x) /\ frames'[StackOf(x)] = frames[StackOf(x)]
      BY <1>7, <2>1, <2>3 DEF Unwritten
    <3>. QED BY <1>1, <1>8, <2>1, <2>3, <3>1, StackKept
  <2>. QED BY <2>2, <2>3
<1>11. \A x \in Child : Started(x)'
  BY <1>1, <1>8, StartKept DEF PInv
<1>. QED BY <1>1, <1>10, <1>11 DEF PInv

(* A segment is mapped beside the stack. *)
LEMMA MapParams ==
  ASSUME LInv, PInv, MapSegment
  PROVE  PInv'
<1>1. /\ pc = "map" /\ pc' = "copy"
      /\ UNCHANGED <<made, frames, cspace, thread, asked, got>>
  BY DEF MapSegment
<1>2. made \in Child /\ made \in 1 .. made
  BY <1>1, WorkLemma DEF LInv
<1>3. /\ \A t \in Space : t \notin {made, Self} => aspace'[t] = aspace[t]
      /\ aspace'[made][StackPage] = aspace[made][StackPage]
  <2>. DEFINE h == elf_get_phdr(progbuf, seg)
              touched == Touched(progbuf, seg)
  <2>1. /\ \A t \in Space : t \notin {made, Self} => aspace'[t] = aspace[t]
        /\ \A p \in PageNumbers : p \notin touched => aspace'[made][p] = aspace[made][p]
        /\ GoodSegment(h, touched)
    BY SegmentSpaces, Zenon
  <2>2. StackPage \notin touched /\ StackPage \in PageNumbers
    BY <2>1, PlacesAssumption DEF GoodSegment
  <2>. QED BY <2>1, <2>2
<1>4. ASSUME NEW c \in 1 .. made PROVE StackReady(c)'
  <2>1. c \in Space /\ c # Self /\ StackReady(c) /\ ~Unwritten(c)
    BY <1>1, StackFrames DEF PInv, Unwritten
  <2>2. aspace'[c][StackPage] = aspace[c][StackPage]
    BY <1>3, <2>1
  <2>. QED BY <1>1, <2>1, <2>2, StackKept
<1>5. \A c \in Child : Started(c)'
  BY <1>1, StartKept DEF PInv
<1>. QED BY <1>1, <1>4, <1>5 DEF PInv

(* A segment is copied to another frame, and its capability to another slot. *)
LEMMA CopyParams ==
  ASSUME LInv, PInv, CopySegment
  PROVE  PInv'
<1>1. /\ pc = "copy" /\ pc' = "map" /\ UNCHANGED <<made, thread, asked, got>>
      /\ aspace' = c4_addrspace_unmap(aspace, Self, Window)
      /\ cspace' = [cspace EXCEPT ![made][C4_DEFAULT_OBJECT_END + seg] = <<"frame", made, seg>>]
  BY DEF CopySegment
<1>2. /\ made \in Child /\ made \in 1 .. made /\ seg \in Nat /\ seg < MaxSegments /\ AtWork
      /\ thread \in [Child -> [entry : Nat, stack : Int, runs : BOOLEAN]]
  <2>1. e_phnum(progbuf) \in 0 .. MaxSegments /\ made \in Child /\ made \in 1 .. made
    BY <1>1, WorkLemma DEF LInv
  <2>2. seg \in Nat /\ seg < e_phnum(progbuf) /\ AtWork
        /\ thread \in [Child -> [entry : Nat, stack : Int, runs : BOOLEAN]]
    BY <1>1 DEF LInv, LoadInv, LoadTypeOK, AtWork
  <2>. QED BY <2>1, <2>2, BoundsAssumption
<1>3. \A x \in FrameId : x # <<made, seg>> => frames'[x] = frames[x]
  BY CopyCells, Zenon
<1>4. \A t \in Space : t # Self => aspace'[t] = aspace[t]
  BY <1>1, WindowUnmap DEF LInv
<1>5. /\ cspace' = [c \in Child |-> [s \in Slot |-> cspace'[c][s]]]
      /\ \A c \in Child : /\ c # made => cspace'[c] = cspace[c]
                          /\ cspace'[c][C4_NAMESERVER] = cspace[c][C4_NAMESERVER]
  <2>1. cspace = [c \in Child |-> [s \in Slot |-> cspace[c][s]]]
    BY DEF PInv
  <2>2. C4_NAMESERVER \in Slot /\ C4_DEFAULT_OBJECT_END + seg # C4_NAMESERVER
    BY <1>2, BoundsAssumption DEF Slot, C4_NAMESERVER, C4_DEFAULT_OBJECT_END
  <2>. QED BY <1>1, <1>2, <2>1, <2>2
<1>6. ASSUME NEW c \in 1 .. made PROVE StackReady(c)'
  <2>1. c \in Child /\ c \in Space /\ c # Self /\ StackOf(c) \in FrameId /\ StackOf(c) # <<made, seg>>
    BY <1>2, StackFrames, BoundsAssumption
  <2>2. StackReady(c) /\ ~Unwritten(c) /\ frames'[StackOf(c)] = frames[StackOf(c)]
    BY <1>1, <1>3, <2>1 DEF PInv, Unwritten
  <2>. QED BY <1>1, <1>4, <1>5, <2>1, <2>2, StackKept
<1>7. ASSUME NEW c \in Child PROVE Started(c)'
  <2>1. thread[c].runs => c # made
    BY <1>1, <1>2 DEF AtWork
  <2>2. Started(c)
    BY DEF PInv
  <2>. QED BY <1>1, <1>5, <2>1, <2>2, StartKept
<1>. QED BY <1>1, <1>5, <1>6, <1>7 DEF PInv

(* The thread is continued with the stack it has. *)
LEMMA ContinueParams ==
  ASSUME LInv, PInv, ContinueThread
  PROVE  PInv'
<1>1. /\ pc = "map" /\ pc' = "idle" /\ UNCHANGED <<made, frames, cspace, asked, got, aspace>>
      /\ thread' = [thread EXCEPT ![made].runs = TRUE]
  BY DEF ContinueThread, memvars
<1>2. /\ thread \in [Child -> [entry : Nat, stack : Int, runs : BOOLEAN]] /\ made \in Child
  BY <1>1, WorkLemma DEF LInv, LoadInv, LoadTypeOK
<1>3. \A c \in Child : /\ thread'[c].stack = thread[c].stack
                       /\ thread[c].runs => thread'[c].runs
  BY <1>1, <1>2
<1>4. ASSUME NEW c \in 1 .. made PROVE StackReady(c)'
  <2>1. c \in Child /\ StackReady(c) /\ ~Unwritten(c)
    BY <1>1, StackFrames DEF PInv, Unwritten
  <2>. QED BY <1>1, <1>3, <2>1, StackKept
<1>5. \A c \in Child : Started(c)'
  BY <1>1, <1>3, StartKept DEF PInv
<1>. QED BY <1>1, <1>4, <1>5 DEF PInv

(* What _start reads is what elf_load has pushed. *)
LEMMA StartParams ==
  ASSUME LInv, PInv, NEW c \in Child, _start(c)
  PROVE  PInv'
<1>. DEFINE s == ParamsOf(c)
            esp == thread[c].stack
            magic == Load(c, esp + 4) = C4RT_INIT_MAGIC
            Given(list) == IF magic THEN Strings(c, UpToZero(c, list)) ELSE << >>
            args == Given(Load(c, esp + 2))
            env == Given(Load(c, esp + 3))
            ns == Load(c, esp + 1)
<1>1. /\ thread[c].runs
      /\ got' = [got EXCEPT ![c] = [args |-> args, env |-> env, nameserv |-> ns, seen |-> TRUE]]
      /\ UNCHANGED <<pc, made, frames, cspace, thread, asked, aspace>>
  BY Zenon DEF _start, memvars
<1>2. c \in 1 .. made /\ ~Unwritten(c)
  <2>1. c <= made /\ (c = made => pc = "idle") /\ made \in 0 .. MaxSpawns /\ c \in 1 .. MaxSpawns
    BY <1>1, Zenon DEF LInv, LoadInv, LoadTypeOK, AtWork, Child
  <2>. QED BY <2>1, BoundsAssumption DEF Unwritten
<1>3. StackReady(c) /\ esp = To(s) /\ Written(c)
  BY <1>2 DEF PInv, StackReady
<1>4. PICK call \in Calls : asked[c].argv = call[1] /\ asked[c].envp = call[2]
  BY <1>2 DEF LInv, LoadInv, AtWork
<1>5. /\ call[1] \in Seq(Str) /\ call[2] \in Seq(Str)
      /\ s = setup_stack_params(C4_NAMESERVER, call[1], call[2])
      /\ Len(s) \in 0 .. STACK_OFFSET
  BY <1>4, CallsAssumption, Zenon DEF ParamsOf
<1>. HIDE DEF s
<1>6. OnStack(c, s)
  <2>. SUFFICES ASSUME NEW k \in 1 .. Len(s) PROVE Load(c, To(s) + k - 1) = s[k]
    BY DEF OnStack
  <2>. DEFINE a == To(s) + k - 1
              n == Len(s) - (k - 1)
              base == StackPage * PageSize
  <2>1. /\ base \in Nat /\ STACK_OFFSET \in Nat /\ Len(s) \in Nat /\ PageSize \in Nat
    BY <1>5, StackTop
  <2>2. To(s) = base + STACK_OFFSET - Len(s)
    BY DEF To
  <2>. HIDE DEF base
  <2>3. n \in 0 .. STACK_OFFSET /\ a = base + STACK_OFFSET - n
    BY <1>5, <2>1, <2>2
  <2>4. STACK_OFFSET - n = STACK_OFFSET - Len(s) + (k - 1)
    BY <2>1
  <2>. HIDE DEF a, n
  <2>5. a \div PageSize = StackPage /\ a % PageSize = STACK_OFFSET - n
    BY <2>3, StackPlace DEF base
  <2>6. aspace[c][StackPage][1] = StackOf(c) /\ aspace[c][StackPage][2] = 0
    BY <1>3 DEF StackReady
  <2>7. 0 * PageSize + (STACK_OFFSET - n) = STACK_OFFSET - n /\ STACK_OFFSET - n \in Int
    BY <2>1, <2>3
  <2>8. frames[StackOf(c)][STACK_OFFSET - n] = s[k]
    BY <1>3, <2>4 DEF Written, s
  <2>9. Load(c, a) = s[k]
    BY <2>5, <2>6, <2>7, <2>8 DEF Load, Cell
  <2>. QED BY <2>9 DEF a
<1>7. /\ Load(c, To(s) + 4) = C4RT_INIT_MAGIC /\ Load(c, To(s) + 1) = C4_NAMESERVER
      /\ Strings(c, UpToZero(c, Load(c, To(s) + 2))) = call[1]
      /\ Strings(c, UpToZero(c, Load(c, To(s) + 3))) = call[2]
  BY <1>5, <1>6, ParamsBack
<1>8. args = call[1] /\ env = call[2] /\ ns = C4_NAMESERVER
  BY <1>3, <1>7
<1>. HIDE DEF args, env, ns
<1>10. /\ got' = [x \in Child |-> got'[x]] /\ \A x \in Child : x # c => got'[x] = got[x]
       /\ got'[c].args = args /\ got'[c].env = env /\ got'[c].nameserv = ns
  BY <1>1 DEF PInv
<1>11. cspace[c][C4_NAMESERVER] = <<"nameserver">>
  BY <1>3 DEF StackReady
<1>12. Started(c)'
  BY <1>1, <1>4, <1>8, <1>10, <1>11 DEF Started, ParametersFound
<1>13. ASSUME NEW x \in Child, x # c PROVE Started(x)'
  BY <1>1, <1>10, <1>13, StartKept DEF PInv
<1>14. ASSUME NEW x \in 1 .. made PROVE StackReady(x)'
  <2>1. StackReady(x) /\ (Unwritten(x) => Unwritten(x)')
    BY <1>1 DEF PInv, Unwritten
  <2>. QED BY <1>1, <2>1, StackKept
<1>. QED BY <1>1, <1>10, <1>12, <1>13, <1>14 DEF PInv

(* There are no programs at first. *)
LEMMA ParamsInit == ProcessInit => PInv
<1>. SUFFICES ASSUME ProcessInit PROVE PInv
  OBVIOUS
<1>1. /\ made = 0 /\ cspace = [c \in Child |-> [s \in Slot |-> << >>]]
      /\ got = [c \in Child |-> NotYet]
  BY DEF ProcessInit
<1>2. \A c \in Child : ~got[c].seen
  BY <1>1 DEF NotYet
<1>3. \A c \in 1 .. made : StackReady(c)
  BY <1>1
<1>. QED BY <1>1, <1>2, <1>3 DEF PInv, Started

(* Every step keeps the parameters. *)
LEMMA ParamsNext == LInv /\ PInv /\ [ProcessNext]_pvars => PInv'
<1>. SUFFICES ASSUME LInv, PInv, [ProcessNext]_pvars
              PROVE  PInv'
  OBVIOUS
<1>1. CASE pc = "idle" /\ ~stopped /\ MemNext /\ UNCHANGED loadvars
  <2>1. MemStep
    BY <1>1, MemNextLemma DEF LInv, OneCall
  <2>2. UNCHANGED <<pc, made, thread, asked, cspace, got, frames>>
    BY <1>1 DEF loadvars
  <2>3. \A c \in 1 .. made : aspace'[c] = aspace[c]
    BY <2>1, StackFrames DEF MemStep
  <2>. QED BY <2>2, <2>3, ParamsKept
<1>2. ASSUME NEW file \in Files, NEW call \in Calls, spawn(file, call[1], call[2])
      PROVE  PInv'
  <2>1. CASE Begins(file, call)
    BY <1>2, <2>1, NewParams
  <2>2. CASE ~Begins(file, call)
    <3>1. UNCHANGED <<pc, made, thread, asked, cspace, got, frames, aspace>>
      BY <1>2, <2>2 DEF spawn, Begins
    <3>. QED BY <3>1, ParamsKept
  <2>. QED BY <2>1, <2>2
<1>3. CASE elf_load_full
  <2>1. CASE CopyFaults
    <3>1. UNCHANGED <<pc, made, thread, asked, cspace, got, frames, aspace>>
      BY <2>1 DEF CopyFaults, memvars
    <3>. QED BY <3>1, ParamsKept
  <2>. QED BY <1>3, <2>1, PushParamsStep, MapParams, CopyParams, ContinueParams DEF elf_load_full
<1>4. CASE Starts
  BY <1>4, StartParams DEF Starts
<1>5. CASE UNCHANGED pvars
  <2>1. UNCHANGED <<pc, made, thread, asked, cspace, got, frames, aspace>>
    BY <1>5 DEF pvars, loadvars, memvars
  <2>. QED BY <2>1, ParamsKept
<1>. QED BY <1>1, <1>2, <1>3, <1>4, <1>5 DEF ProcessNext

(* A program that is started finds every segment of its file at its         *)
(* address, and _start the arguments, the environment and the name server   *)
(* the spawner gave to elf_load.                                            *)
THEOREM ProgramsStart == ProcessSpec => []ProgramStarts
<1>1. LInv /\ PInv /\ [ProcessNext]_pvars => PInv'
  BY ParamsNext
<1>2. ProcessSpec => []PInv
  BY <1>1, ParamsInit, ProcessInvariant, PTL DEF ProcessSpec
<1>3. PInv => \A c \in Child : ParametersFound(c)
  BY DEF PInv, Started, ParametersFound
<1>4. (\A c \in Child : SegmentsLoaded(c)) /\ (\A c \in Child : ParametersFound(c)) => ProgramStarts
  BY DEF ProgramStarts
<1>. QED BY <1>2, <1>3, <1>4, SegmentsInPlace, PTL
=============================================================================
