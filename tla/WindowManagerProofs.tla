------------------------- MODULE WindowManagerProofs -------------------------
(***************************************************************************)
(* The window manager, for every set of clients, every screen, window,     *)
(* border and cursor size, every MAX_UPDATES and every mouse: as long as   *)
(* the two threads do not get into each other's calls on the list, no      *)
(* window is lost or met twice, and whenever event_loop waits with nothing *)
(* to redraw the framebuffer shows the windows and the mouse.              *)
(*                                                                         *)
(* The list is related to a sequence s of its nodes.  First the numbers    *)
(* and the pointers, then the walks along them, then s through every step, *)
(* and last what each cell of the screen shows.                            *)
(***************************************************************************)
EXTENDS WindowManager, FiniteSetTheorems, SequenceTheorems, WellFoundedInduction, TLAPS

-----------------------------------------------------------------------------
(* Numbers, and induction without a predicate for a parameter. *)

(* A set of numbers that is not empty has a least one. *)
LEMMA LeastNumber ==
  ASSUME NEW T, T \subseteq Nat, T # {}
  PROVE  \E m \in T : \A k \in T : m <= k
<1>. DEFINE R == {p \in Nat \X Nat : p[1] < p[2]}
<1>1. R = OpToRel(<, Nat)
  BY DEF OpToRel
<1>2. IsWellFoundedOn(R, Nat)
  BY <1>1, NatLessThanWellFounded
<1>. HIDE DEF R
<1>3. PICK m \in T : \A k \in T : ~(<<k, m>> \in R)
  BY <1>2, WFMin
<1>4. ASSUME NEW k \in T
      PROVE  m <= k
  <2>1. <<k, m>> \notin R /\ k \in Nat /\ m \in Nat
    BY <1>3
  <2>2. ~(k < m)
    BY <2>1 DEF R
  <2>. QED BY <2>1, <2>2
<1>. QED BY <1>4

(* Induction over a set. *)
LEMMA SetInduction ==
  ASSUME NEW T, 0 \in T, \A n \in Nat : n \in T => n + 1 \in T
  PROVE  \A n \in Nat : n \in T
<1>. DEFINE S == {n \in Nat : n \notin T}
<1>. SUFFICES ASSUME S # {} PROVE FALSE
  OBVIOUS
<1>1. PICK m \in S : \A k \in S : m <= k
  <2>1. S \subseteq Nat
    OBVIOUS
  <2>. HIDE DEF S
  <2>. QED BY <2>1, LeastNumber
<1>2. m \in Nat /\ m # 0 /\ m - 1 \in Nat /\ m - 1 \notin S
  BY <1>1
<1>3. m - 1 \in T /\ m - 1 + 1 = m
  BY <1>2
<1>. QED BY <1>1, <1>2, <1>3

(* The least of a set of numbers. *)
LEMMA MinIs ==
  ASSUME NEW T, T \subseteq Nat, T # {}
  PROVE  Min(T) \in T /\ \A k \in T : Min(T) <= k
<1>1. \E m \in T : \A k \in T : m <= k
  BY LeastNumber
<1>. QED BY <1>1 DEF Min

(* The greatest of a set of numbers up to n. *)
LEMMA MaxIs ==
  ASSUME NEW n \in Nat, NEW T, T \subseteq 1 .. n, T # {}
  PROVE  Max(T) \in T /\ \A k \in T : k <= Max(T)
<1>. DEFINE U == {m \in Nat : \A k \in T : k <= m}
<1>1. U \subseteq Nat /\ n \in U
  OBVIOUS
<1>. HIDE DEF U
<1>2. PICK m \in U : \A k \in U : m <= k
  BY <1>1, LeastNumber
<1>3. m \in T
  <2>. SUFFICES ASSUME m \notin T PROVE FALSE
    OBVIOUS
  <2>1. PICK k \in T : TRUE
    OBVIOUS
  <2>2. m \in Nat /\ \A j \in T : j <= m /\ j # m /\ j \in Nat /\ j >= 1
    BY <1>2 DEF U
  <2>3. m - 1 \in U
    BY <2>1, <2>2 DEF U
  <2>. QED BY <1>2, <2>2, <2>3
<1>4. \A k \in T : m >= k
  BY <1>2 DEF U
<1>. QED BY <1>3, <1>4 DEF Max

-----------------------------------------------------------------------------
(* Types. *)

Places == Nodes \cup {Null}
Wins == [id : Client \cup {"none"}, x : 0 .. Width]
NodeType == [prev : Places, next : Places, win : Wins]
Lists == [start : Places, end : Places, used : SUBSET Nodes, node : [Nodes -> NodeType]]

(* The numbers up to n. *)
LEMMA UpTo ==
  ASSUME NEW n \in Nat
  PROVE  IsFiniteSet(1 .. n) /\ Cardinality(1 .. n) = n
<1>1. 1 \in Int /\ n \in Int
  OBVIOUS
<1>2. IsFiniteSet(1 .. n)
  BY <1>1, FS_Interval
<1>3. Cardinality(1 .. n) = IF 1 > n THEN 0 ELSE n - 1 + 1
  BY <1>1, FS_Interval
<1>. QED BY <1>2, <1>3

(* A node is a positive number, and there are some. *)
LEMMA NodesAre ==
  /\ Nodes \subseteq Nat /\ Null \notin Nodes /\ IsFiniteSet(Nodes)
  /\ Cardinality(Client) \in Nat /\ Cardinality(Nodes) = Cardinality(Client) + 1
<1>1. Cardinality(Client) \in Nat
  BY ClientAssumption, FS_CardinalityType
<1>2. IsFiniteSet(Nodes) /\ Cardinality(Nodes) = Cardinality(Client) + 1
  BY <1>1, FS_Interval DEF Nodes
<1>. QED BY <1>1, <1>2 DEF Nodes, Null

(* A window that is dragged stays on the screen. *)
LEMMA DraggedType ==
  ASSUME NEW win \in Wins, NEW dx \in Int
  PROVE  Dragged(win, dx) \in Wins /\ Dragged(win, dx).id = win.id
BY SizeAssumption DEF Dragged, Wins, normalize_point

-----------------------------------------------------------------------------
(* What the list's functions make of the pointers. *)

(* window_list_insert, up to the links. *)
Linking(m, l, n, win) ==
  /\ m \in Lists /\ m.start = l.start /\ m.end = l.end /\ m.used = l.used \cup {n}
  /\ m.node[n].prev = l.end /\ m.node[n].next = Null /\ m.node[n].win = win
  /\ \A k \in Nodes \ {n} : /\ m.node[k].prev = l.node[k].prev /\ m.node[k].win = l.node[k].win
                            /\ m.node[k].next = IF k = l.end THEN n ELSE l.node[k].next
(* InsertLink does that to the links. *)
LEMMA LinkMakes ==
  ASSUME NEW l \in Lists, NEW n \in Nodes, n # l.end, NEW win \in Wins
  PROVE  Linking(InsertLink(l, n, win), l, n, win)
<1>. DEFINE nd == [prev |-> l.end, next |-> Null, win |-> win]
            l0 == [l EXCEPT !.used = l.used \cup {n}]
            l1 == [l0 EXCEPT !.node[n] = nd]
            l2 == [l1 EXCEPT !.node[l.end].next = n]
<1>0. /\ l = [start |-> l.start, end |-> l.end, used |-> l.used, node |-> l.node]
      /\ l.start \in Places /\ l.end \in Places /\ l.used \subseteq Nodes /\ l.node \in [Nodes -> NodeType]
  BY DEF Lists
<1>1. InsertLink(l, n, win) = IF l.end = Null THEN l1 ELSE l2
  BY DEF InsertLink
<1>2. l0 = [start |-> l.start, end |-> l.end, used |-> l.used \cup {n}, node |-> l.node]
  BY <1>0
<1>3. nd \in NodeType
  BY <1>0 DEF NodeType, Places
<1>. HIDE DEF l0, nd
<1>4. l1 = [start |-> l.start, end |-> l.end, used |-> l.used \cup {n}, node |-> [l.node EXCEPT ![n] = nd]]
  BY <1>2
<1>5. [l.node EXCEPT ![n] = nd] \in [Nodes -> NodeType]
  BY <1>0, <1>3
<1>6. CASE l.end = Null
  <2>1. InsertLink(l, n, win) = l1
    BY <1>1, <1>6
  <2>2. l1 \in Lists
    BY <1>0, <1>4, <1>5 DEF Lists
  <2>. QED BY <1>0, <1>4, <1>6, <2>1, <2>2, NodesAre DEF Linking, nd
<1>7. CASE l.end # Null
  <2>0. l.end \in Nodes
    BY <1>0, <1>7 DEF Places
  <2>. DEFINE f == [l.node EXCEPT ![n] = nd]
              g == [f EXCEPT ![l.end] = [f[l.end] EXCEPT !.next = n]]
  <2>1. InsertLink(l, n, win) = l2
    BY <1>1, <1>7
  <2>. HIDE DEF f
  <2>2. l1 = [start |-> l.start, end |-> l.end, used |-> l.used \cup {n}, node |-> f]
    BY <1>4 DEF f
  <2>. HIDE DEF l1
  <2>3. l2 = [start |-> l.start, end |-> l.end, used |-> l.used \cup {n}, node |-> g]
    BY <2>2
  <2>4. f \in [Nodes -> NodeType] /\ f[n] = nd /\ \A k \in Nodes \ {n} : f[k] = l.node[k]
    BY <1>0, <1>5 DEF f
  <2>5. [f[l.end] EXCEPT !.next = n] \in NodeType
    BY <2>0, <2>4 DEF NodeType, Places
  <2>6. g \in [Nodes -> NodeType]
    BY <2>4, <2>5
  <2>7. l2 \in Lists
    BY <1>0, <2>3, <2>6 DEF Lists
  <2>8. \A k \in Nodes : k # l.end => g[k] = f[k]
    BY <2>4
  <2>9. g[l.end].next = n /\ g[l.end].prev = f[l.end].prev /\ g[l.end].win = f[l.end].win
    BY <2>0, <2>4 DEF NodeType
  <2>. HIDE DEF g, l2
  <2>10. /\ l2.start = l.start /\ l2.end = l.end /\ l2.used = l.used \cup {n} /\ l2.node = g
    BY <2>3
  <2>11. g[n].prev = l.end /\ g[n].next = Null /\ g[n].win = win
    BY <2>4, <2>8 DEF nd
  <2>12. ASSUME NEW k \in Nodes \ {n}
         PROVE  /\ g[k].prev = l.node[k].prev /\ g[k].win = l.node[k].win
                /\ g[k].next = IF k = l.end THEN n ELSE l.node[k].next
    BY <2>4, <2>8, <2>9
  <2>. QED BY <2>1, <2>7, <2>10, <2>11, <2>12 DEF Linking
<1>. QED BY <1>6, <1>7

(* The rest of window_list_insert. *)
LEMMA FirstMakes ==
  ASSUME NEW l \in Lists, NEW n \in Nodes
  PROVE  LET m == InsertFirst(l, n)
         IN /\ m \in Lists /\ m.start = (IF l.start = Null THEN n ELSE l.start)
            /\ m.end = l.end /\ m.used = l.used /\ m.node = l.node
BY DEF InsertFirst, Lists, Places

(* InsertLast sets the end, and nothing else. *)
LEMMA LastMakes ==
  ASSUME NEW l \in Lists, NEW n \in Nodes
  PROVE  LET m == InsertLast(l, n)
         IN m \in Lists /\ m.end = n /\ m.start = l.start /\ m.used = l.used /\ m.node = l.node
BY DEF InsertLast, Lists, Places

(* One field of one node is written. *)
SetNext(l, p, q) == [l EXCEPT !.node[p].next = q]
SetPrev(l, p, q) == [l EXCEPT !.node[p].prev = q]
SameButNodes(m, l) == m \in Lists /\ m.start = l.start /\ m.end = l.end /\ m.used = l.used
(* What such a write leaves behind. *)
LEMMA SetNextMakes ==
  ASSUME NEW l \in Lists, NEW p \in Nodes, NEW q \in Places
  PROVE  /\ SameButNodes(SetNext(l, p, q), l)
         /\ \A k \in Nodes : /\ SetNext(l, p, q).node[k].next = IF k = p THEN q ELSE l.node[k].next
                             /\ SetNext(l, p, q).node[k].prev = l.node[k].prev
                             /\ SetNext(l, p, q).node[k].win = l.node[k].win
<1>. DEFINE m == SetNext(l, p, q)
            g == [l.node EXCEPT ![p] = [l.node[p] EXCEPT !.next = q]]
<1>1. /\ l = [start |-> l.start, end |-> l.end, used |-> l.used, node |-> l.node]
      /\ l.start \in Places /\ l.end \in Places /\ l.used \subseteq Nodes /\ l.node \in [Nodes -> NodeType]
  BY DEF Lists
<1>2. m = [start |-> l.start, end |-> l.end, used |-> l.used, node |-> g]
  BY <1>1 DEF SetNext
<1>3. [l.node[p] EXCEPT !.next = q] \in NodeType
  BY <1>1 DEF NodeType
<1>4. g \in [Nodes -> NodeType] /\ g[p] = [l.node[p] EXCEPT !.next = q] /\ \A k \in Nodes : k # p => g[k] = l.node[k]
  BY <1>1, <1>3
<1>5. g[p].next = q /\ g[p].prev = l.node[p].prev /\ g[p].win = l.node[p].win
  BY <1>1 DEF NodeType
<1>. HIDE DEF m, g
<1>6. m.start = l.start /\ m.end = l.end /\ m.used = l.used /\ m.node = g /\ m \in Lists
  BY <1>1, <1>2, <1>4 DEF Lists
<1>7. \A k \in Nodes : /\ m.node[k].next = IF k = p THEN q ELSE l.node[k].next
                       /\ m.node[k].prev = l.node[k].prev /\ m.node[k].win = l.node[k].win
  BY <1>4, <1>5, <1>6
<1>. QED BY <1>6, <1>7 DEF SameButNodes, m

(* The same of prev. *)
LEMMA SetPrevMakes ==
  ASSUME NEW l \in Lists, NEW p \in Nodes, NEW q \in Places
  PROVE  /\ SameButNodes(SetPrev(l, p, q), l)
         /\ \A k \in Nodes : /\ SetPrev(l, p, q).node[k].prev = IF k = p THEN q ELSE l.node[k].prev
                             /\ SetPrev(l, p, q).node[k].next = l.node[k].next
                             /\ SetPrev(l, p, q).node[k].win = l.node[k].win
<1>. DEFINE m == SetPrev(l, p, q)
            g == [l.node EXCEPT ![p] = [l.node[p] EXCEPT !.prev = q]]
<1>1. /\ l = [start |-> l.start, end |-> l.end, used |-> l.used, node |-> l.node]
      /\ l.start \in Places /\ l.end \in Places /\ l.used \subseteq Nodes /\ l.node \in [Nodes -> NodeType]
  BY DEF Lists
<1>2. m = [start |-> l.start, end |-> l.end, used |-> l.used, node |-> g]
  BY <1>1 DEF SetPrev
<1>3. [l.node[p] EXCEPT !.prev = q] \in NodeType
  BY <1>1 DEF NodeType
<1>4. g \in [Nodes -> NodeType] /\ g[p] = [l.node[p] EXCEPT !.prev = q] /\ \A k \in Nodes : k # p => g[k] = l.node[k]
  BY <1>1, <1>3
<1>5. g[p].prev = q /\ g[p].next = l.node[p].next /\ g[p].win = l.node[p].win
  BY <1>1 DEF NodeType
<1>. HIDE DEF m, g
<1>6. m.start = l.start /\ m.end = l.end /\ m.used = l.used /\ m.node = g /\ m \in Lists
  BY <1>1, <1>2, <1>4 DEF Lists
<1>7. \A k \in Nodes : /\ m.node[k].prev = IF k = p THEN q ELSE l.node[k].prev
                       /\ m.node[k].next = l.node[k].next /\ m.node[k].win = l.node[k].win
  BY <1>4, <1>5, <1>6
<1>. QED BY <1>6, <1>7 DEF SameButNodes, m

(* window_list_remove, up to the links: each neighbour there is gets the    *)
(* other one.                                                               *)
Unlinking(m, l, n) ==
  /\ SameButNodes(m, l)
  /\ \A k \in Nodes : /\ m.node[k].next = IF k = l.node[n].prev THEN l.node[n].next ELSE l.node[k].next
                      /\ m.node[k].prev = IF k = l.node[n].next THEN l.node[n].prev ELSE l.node[k].prev
                      /\ m.node[k].win = l.node[k].win
(* RemoveLinks does that. *)
LEMMA UnlinkMakes ==
  ASSUME NEW l \in Lists, NEW n \in Nodes
  PROVE  Unlinking(RemoveLinks(l, n), l, n)
<1>. DEFINE p == l.node[n].prev
            q == l.node[n].next
            l1 == IF p = Null THEN l ELSE SetNext(l, p, q)
            m == RemoveLinks(l, n)
<1>1. p \in Places /\ q \in Places
  BY DEF Lists, NodeType
<1>2. m = IF q = Null THEN l1 ELSE SetPrev(l1, q, p)
  BY DEF RemoveLinks, SetNext, SetPrev
<1>. HIDE DEF p, q, m
<1>3. /\ SameButNodes(l1, l)
      /\ \A k \in Nodes : /\ l1.node[k].next = IF k = p THEN q ELSE l.node[k].next
                          /\ l1.node[k].prev = l.node[k].prev
                          /\ l1.node[k].win = l.node[k].win
  <2>1. CASE p = Null
    BY <2>1, NodesAre DEF SameButNodes
  <2>2. CASE p # Null
    <3>1. p \in Nodes /\ l1 = SetNext(l, p, q)
      BY <1>1, <2>2 DEF Places
    <3>. HIDE DEF l1
    <3>. QED BY <1>1, <3>1, SetNextMakes
  <2>. QED BY <2>1, <2>2
<1>. HIDE DEF l1
<1>4. l1 \in Lists
  BY <1>3 DEF SameButNodes
<1>5. /\ SameButNodes(m, l1)
      /\ \A k \in Nodes : /\ m.node[k].prev = IF k = q THEN p ELSE l1.node[k].prev
                          /\ m.node[k].next = l1.node[k].next
                          /\ m.node[k].win = l1.node[k].win
  <2>1. CASE q = Null
    BY <1>2, <1>4, <2>1, NodesAre DEF SameButNodes
  <2>2. CASE q # Null
    <3>1. q \in Nodes /\ m = SetPrev(l1, q, p)
      BY <1>1, <1>2, <2>2 DEF Places
    <3>. QED BY <1>1, <1>4, <3>1, SetPrevMakes
  <2>. QED BY <2>1, <2>2
<1>. QED BY <1>3, <1>5 DEF Unlinking, SameButNodes, p, q, m

(* The rest of window_list_remove. *)
LEMMA EndsMakes ==
  ASSUME NEW l \in Lists, NEW n \in Nodes
  PROVE  LET m == RemoveEnds(l, n)
         IN /\ m \in Lists /\ m.node = l.node /\ m.used = l.used \ {n}
            /\ m.start = (IF l.start = n THEN l.node[n].next ELSE l.start)
            /\ m.end = (IF l.end = n THEN l.node[n].prev ELSE l.end)
<1>. DEFINE a == IF l.start = n THEN l.node[n].next ELSE l.start
            b == IF l.end = n THEN l.node[n].prev ELSE l.end
            u == l.used \ {n}
            l1 == [l EXCEPT !.start = a]
            l2 == [l1 EXCEPT !.end = b]
            l3 == [l2 EXCEPT !.used = u]
<1>1. /\ l = [start |-> l.start, end |-> l.end, used |-> l.used, node |-> l.node]
      /\ a \in Places /\ b \in Places /\ u \subseteq Nodes /\ l.node \in [Nodes -> NodeType]
  BY DEF Lists, NodeType
<1>2. RemoveEnds(l, n) = l3
  BY DEF RemoveEnds
<1>. HIDE DEF a, b, u
<1>3. l1 = [start |-> a, end |-> l.end, used |-> l.used, node |-> l.node]
  BY <1>1
<1>. HIDE DEF l1
<1>4. l2 = [start |-> a, end |-> b, used |-> l.used, node |-> l.node]
  BY <1>3
<1>. HIDE DEF l2
<1>5. l3 = [start |-> a, end |-> b, used |-> u, node |-> l.node]
  BY <1>4
<1>. HIDE DEF l3
<1>6. l3 \in Lists /\ l3.start = a /\ l3.end = b /\ l3.used = u /\ l3.node = l.node
  BY <1>1, <1>5 DEF Lists
<1>. QED BY <1>2, <1>6 DEF a, b, u

(* A window that is dragged. *)
SetWin(l, n, win) == [l EXCEPT !.node[n].win = win]
(* Dragging touches no link. *)
LEMMA SetWinMakes ==
  ASSUME NEW l \in Lists, NEW n \in Nodes, NEW win \in Wins
  PROVE  /\ SameButNodes(SetWin(l, n, win), l)
         /\ \A k \in Nodes : /\ SetWin(l, n, win).node[k].win = IF k = n THEN win ELSE l.node[k].win
                             /\ SetWin(l, n, win).node[k].prev = l.node[k].prev
                             /\ SetWin(l, n, win).node[k].next = l.node[k].next
<1>. DEFINE m == SetWin(l, n, win)
            g == [l.node EXCEPT ![n] = [l.node[n] EXCEPT !.win = win]]
<1>1. /\ l = [start |-> l.start, end |-> l.end, used |-> l.used, node |-> l.node]
      /\ l.start \in Places /\ l.end \in Places /\ l.used \subseteq Nodes /\ l.node \in [Nodes -> NodeType]
  BY DEF Lists
<1>2. m = [start |-> l.start, end |-> l.end, used |-> l.used, node |-> g]
  BY <1>1 DEF SetWin
<1>3. [l.node[n] EXCEPT !.win = win] \in NodeType
  BY <1>1 DEF NodeType
<1>4. g \in [Nodes -> NodeType] /\ g[n] = [l.node[n] EXCEPT !.win = win] /\ \A k \in Nodes : k # n => g[k] = l.node[k]
  BY <1>1, <1>3
<1>5. g[n].win = win /\ g[n].prev = l.node[n].prev /\ g[n].next = l.node[n].next
  BY <1>1 DEF NodeType
<1>. HIDE DEF m, g
<1>6. m.start = l.start /\ m.end = l.end /\ m.used = l.used /\ m.node = g /\ m \in Lists
  BY <1>1, <1>2, <1>4 DEF Lists
<1>7. \A k \in Nodes : /\ m.node[k].win = IF k = n THEN win ELSE l.node[k].win
                       /\ m.node[k].prev = l.node[k].prev /\ m.node[k].next = l.node[k].next
  BY <1>4, <1>5, <1>6
<1>. QED BY <1>6, <1>7 DEF SameButNodes, m

-----------------------------------------------------------------------------
(* A list as the sequence of its nodes. *)

At(s, k) == IF k \in 1 .. Len(s) THEN s[k] ELSE Null
Distinct(s) == \A j, k \in 1 .. Len(s) : s[j] = s[k] => j = k
Linked(l, s) == \A k \in 1 .. Len(s) : l.node[s[k]].prev = At(s, k - 1) /\ l.node[s[k]].next = At(s, k + 1)

(* Between calls. *)
Whole(l, s) == Linked(l, s) /\ l.used = Range(s) /\ l.start = At(s, 1) /\ l.end = At(s, Len(s))

(* Halfway through a removal: nobody points to n any more but the ends. *)
Unlinked(l, s, n) ==
  /\ Linked(l, s) /\ n \in Nodes \ Range(s) /\ l.used = Range(s) \cup {n}
  /\ \E p \in 0 .. Len(s) :
       /\ l.node[n].prev = At(s, p) /\ l.node[n].next = At(s, p + 1)
       /\ l.start = (IF p = 0 THEN n ELSE At(s, 1))
       /\ l.end = (IF p = Len(s) THEN n ELSE At(s, Len(s)))

(* Halfway through an insertion: n is linked and not the end yet. *)
Hung(l, s, n) ==
  /\ Linked(l, s) /\ l.used = Range(s) /\ s # << >> /\ s[Len(s)] = n
  /\ l.end = At(s, Len(s) - 1)
HungFirst(l, s, n) == Hung(l, s, n) /\ l.start = (IF Len(s) = 1 THEN Null ELSE s[1])
HungLast(l, s, n) == Hung(l, s, n) /\ l.start = s[1]

(* Members of a sequence. *)
LEMMA Members ==
  ASSUME NEW S, NEW s \in Seq(S)
  PROVE  /\ Len(s) \in Nat /\ Range(s) \subseteq S
         /\ \A k \in 1 .. Len(s) : s[k] \in Range(s) /\ s[k] \in S
         /\ \A x \in Range(s) : \E k \in 1 .. Len(s) : x = s[k]
BY DEF Range

(* A place of a sequence of nodes. *)
LEMMA AtIs ==
  ASSUME NEW s \in Seq(Nodes), NEW k \in Int
  PROVE  /\ k \in 1 .. Len(s) => At(s, k) = s[k] /\ At(s, k) \in Nodes
         /\ k \notin 1 .. Len(s) => At(s, k) = Null
         /\ At(s, k) \in Places
BY NodesAre DEF At, Places

(* Nodes at different places differ. *)
LEMMA AtDiffers ==
  ASSUME NEW s \in Seq(Nodes), Distinct(s), NEW j \in 1 .. Len(s), NEW k \in Int
  PROVE  s[j] = At(s, k) <=> j = k
<1>1. s[j] \in Nodes /\ s[j] # Null
  BY NodesAre
<1>. QED BY <1>1 DEF At, Distinct

(* window_list_insert. *)
LEMMA LinkKeeps ==
  ASSUME NEW s \in Seq(Nodes), Distinct(s), NEW l \in Lists, Whole(l, s),
         NEW n \in Nodes \ Range(s), NEW win \in Wins,
         NEW m, Linking(m, l, n, win), NEW t, t = Append(s, n)
  PROVE  t \in Seq(Nodes) /\ Distinct(t) /\ HungFirst(m, t, n)
<1>1. /\ t \in Seq(Nodes) /\ Len(t) = Len(s) + 1 /\ t[Len(s) + 1] = n /\ Len(s) \in Nat
      /\ \A k \in 1 .. Len(s) : t[k] = s[k]
  OBVIOUS
<1>2. \A k \in 1 .. Len(s) : s[k] \in Nodes /\ s[k] # n
  BY Members
<1>3. Distinct(t)
  BY <1>1, <1>2 DEF Distinct
<1>4. \A k \in Int : k <= Len(s) => At(t, k) = At(s, k)
  BY <1>1 DEF At
<1>5. At(t, Len(s) + 1) = n /\ At(t, Len(s) + 2) = Null
  BY <1>1 DEF At
<1>6. ASSUME NEW k \in 1 .. Len(t)
      PROVE  m.node[t[k]].prev = At(t, k - 1) /\ m.node[t[k]].next = At(t, k + 1)
  <2>1. CASE k = Len(s) + 1
    <3>1. t[k] = n /\ k - 1 = Len(s) /\ k + 1 = Len(s) + 2
      BY <1>1, <2>1
    <3>2. m.node[n].prev = l.end /\ m.node[n].next = Null /\ l.end = At(s, Len(s))
      BY DEF Linking, Whole
    <3>3. At(t, Len(s)) = At(s, Len(s))
      BY <1>1, <1>4
    <3>. QED BY <1>5, <3>1, <3>2, <3>3
  <2>2. CASE k # Len(s) + 1
    <3>1. k \in 1 .. Len(s) /\ t[k] = s[k] /\ s[k] \in Nodes \ {n} /\ k \in Int /\ k - 1 \in Int /\ k + 1 \in Int
      BY <1>1, <1>2, <2>2
    <3>2. /\ m.node[s[k]].prev = l.node[s[k]].prev
          /\ m.node[s[k]].next = IF s[k] = l.end THEN n ELSE l.node[s[k]].next
      BY <3>1 DEF Linking
    <3>3. l.node[s[k]].prev = At(s, k - 1) /\ l.node[s[k]].next = At(s, k + 1) /\ l.end = At(s, Len(s))
      BY <3>1 DEF Whole, Linked
    <3>4. s[k] = l.end <=> k = Len(s)
      BY <1>1, <3>1, <3>3, AtDiffers
    <3>5. At(t, k - 1) = At(s, k - 1)
      BY <1>1, <1>4, <3>1
    <3>6. CASE k = Len(s)
      BY <1>5, <3>1, <3>2, <3>3, <3>4, <3>5, <3>6
    <3>7. CASE k # Len(s)
      <4>1. At(t, k + 1) = At(s, k + 1)
        BY <1>1, <1>4, <3>1, <3>7
      <4>. QED BY <3>1, <3>2, <3>3, <3>4, <3>5, <3>7, <4>1
    <3>. QED BY <3>6, <3>7
  <2>. QED BY <2>1, <2>2
<1>7. Linked(m, t)
  BY <1>6 DEF Linked
<1>8. Range(t) = Range(s) \cup {n}
  <2>1. DOMAIN t = 1 .. Len(s) + 1 /\ DOMAIN s = 1 .. Len(s)
    BY <1>1
  <2>. QED BY <1>1, <2>1 DEF Range
<1>9. m.used = Range(t) /\ m.end = At(t, Len(t) - 1)
  <2>1. m.end = At(s, Len(s)) /\ m.used = Range(s) \cup {n}
    BY DEF Linking, Whole
  <2>2. At(t, Len(s)) = At(s, Len(s)) /\ Len(t) - 1 = Len(s)
    BY <1>1, <1>4
  <2>. QED BY <1>8, <2>1, <2>2
<1>10. m.start = IF Len(t) = 1 THEN Null ELSE t[1]
  <2>1. m.start = At(s, 1)
    BY DEF Linking, Whole
  <2>. QED BY <1>1, <2>1 DEF At
<1>. QED BY <1>1, <1>3, <1>7, <1>9, <1>10 DEF HungFirst, Hung

(* The next step of window_list_insert: the node is reachable from the      *)
(* start.                                                                   *)
LEMMA FirstKeeps ==
  ASSUME NEW s \in Seq(Nodes), NEW l \in Lists, NEW n, HungFirst(l, s, n)
  PROVE  HungLast(InsertFirst(l, n), s, n) /\ InsertFirst(l, n) \in Lists /\ n \in Nodes
<1>1. s # << >> /\ Len(s) \in Nat /\ Len(s) >= 1 /\ s[Len(s)] = n /\ s[Len(s)] \in Nodes /\ s[1] \in Nodes
  BY DEF HungFirst, Hung
<1>2. LET m == InsertFirst(l, n)
      IN /\ m \in Lists /\ m.start = (IF l.start = Null THEN n ELSE l.start)
         /\ m.end = l.end /\ m.used = l.used /\ m.node = l.node
  BY <1>1, FirstMakes
<1>3. (IF l.start = Null THEN n ELSE l.start) = s[1]
  BY <1>1, NodesAre DEF HungFirst
<1>. QED BY <1>1, <1>2, <1>3 DEF HungFirst, HungLast, Hung, Linked

(* Its last step: the list is whole, with the node at the end. *)
LEMMA LastKeeps ==
  ASSUME NEW s \in Seq(Nodes), NEW l \in Lists, NEW n, HungLast(l, s, n)
  PROVE  Whole(InsertLast(l, n), s) /\ InsertLast(l, n) \in Lists
<1>1. s # << >> /\ Len(s) \in Nat /\ Len(s) >= 1 /\ s[Len(s)] = n /\ s[Len(s)] \in Nodes
  BY DEF HungLast, Hung
<1>2. LET m == InsertLast(l, n)
      IN m \in Lists /\ m.end = n /\ m.start = l.start /\ m.used = l.used /\ m.node = l.node
  BY <1>1, LastMakes
<1>3. At(s, 1) = s[1] /\ At(s, Len(s)) = n
  BY <1>1 DEF At
<1>. QED BY <1>1, <1>2, <1>3 DEF HungLast, Hung, Whole, Linked

(* A sequence without one of its members. *)
LEMMA RemovedIs ==
  ASSUME NEW s \in Seq(Nodes), NEW q \in 1 .. Len(s), NEW t, t = RemoveAt(s, q)
  PROVE  /\ t \in Seq(Nodes) /\ Len(t) = Len(s) - 1
         /\ \A k \in 1 .. Len(t) : t[k] = IF k < q THEN s[k] ELSE s[k + 1]
<1>. DEFINE a == SubSeq(s, 1, q - 1)
            b == SubSeq(s, q + 1, Len(s))
<1>1. a \in Seq(Nodes) /\ Len(a) = q - 1 /\ \A k \in 1 .. q - 1 : a[k] = s[k]
  OBVIOUS
<1>2. b \in Seq(Nodes) /\ Len(b) = Len(s) - q /\ \A k \in 1 .. Len(s) - q : b[k] = s[q + k]
  <2>1. b \in Seq(Nodes) /\ Len(b) = Len(s) - q
    OBVIOUS
  <2>2. ASSUME NEW k \in 1 .. Len(s) - q PROVE b[k] = s[q + k]
    <3>1. b[k] = s[(q + 1) + k - 1] /\ (q + 1) + k - 1 = q + k
      OBVIOUS
    <3>. QED BY <3>1
  <2>. QED BY <2>1, <2>2
<1>3. t = a \o b
  BY DEF RemoveAt
<1>. HIDE DEF a, b
<1>4. t \in Seq(Nodes) /\ Len(t) = Len(a) + Len(b)
  BY ONLY <1>1, <1>2, <1>3, ConcatProperties
<1>5. \A k \in 1 .. Len(a) + Len(b) : t[k] = IF k <= Len(a) THEN a[k] ELSE b[k - Len(a)]
  <2>1. a \in Seq(Nodes) /\ b \in Seq(Nodes)
    BY <1>1, <1>2
  <2>. QED BY ONLY <1>3, <2>1, ConcatProperties
<1>6. ASSUME NEW k \in 1 .. Len(t) PROVE t[k] = IF k < q THEN s[k] ELSE s[k + 1]
  <2>1. CASE k < q
    BY <1>1, <1>2, <1>4, <1>5, <2>1
  <2>2. CASE ~(k < q)
    <3>1. k - (q - 1) \in 1 .. Len(s) - q /\ q + (k - (q - 1)) = k + 1 /\ ~(k <= q - 1) /\ k \in 1 .. Len(a) + Len(b)
      BY <1>1, <1>2, <1>4, <2>2
    <3>2. t[k] = b[k - (q - 1)]
      BY <1>1, <1>5, <3>1
    <3>. QED BY <1>2, <2>2, <3>1, <3>2
  <2>. QED BY <2>1, <2>2
<1>. QED BY <1>1, <1>2, <1>4, <1>6

(* window_list_remove. *)
LEMMA UnlinkKeeps ==
  ASSUME NEW s \in Seq(Nodes), Distinct(s), NEW l \in Lists, Whole(l, s),
         NEW q \in 1 .. Len(s), NEW n, n = s[q],
         NEW m, Unlinking(m, l, n), NEW t, t = RemoveAt(s, q)
  PROVE  t \in Seq(Nodes) /\ Distinct(t) /\ Unlinked(m, t, n)
<1>1. /\ t \in Seq(Nodes) /\ Len(t) = Len(s) - 1 /\ Len(s) \in Nat /\ q \in Int
      /\ \A k \in 1 .. Len(t) : t[k] = IF k < q THEN s[k] ELSE s[k + 1]
  BY RemovedIs
<1>2. Distinct(t)
  <2>. SUFFICES ASSUME NEW j \in 1 .. Len(t), NEW k \in 1 .. Len(t), t[j] = t[k] PROVE j = k
    BY DEF Distinct
  <2>1. PICK a \in 1 .. Len(s) : t[j] = s[a] /\ a = IF j < q THEN j ELSE j + 1
    BY <1>1
  <2>2. PICK b \in 1 .. Len(s) : t[k] = s[b] /\ b = IF k < q THEN k ELSE k + 1
    BY <1>1
  <2>3. a = b
    BY <2>1, <2>2 DEF Distinct
  <2>. QED BY <2>1, <2>2, <2>3
<1>3. \A k \in Int : At(t, k) = IF k < q THEN At(s, k) ELSE At(s, k + 1)
  BY <1>1 DEF At
<1>4. l.node[n].prev = At(s, q - 1) /\ l.node[n].next = At(s, q + 1) /\ n \in Nodes
  BY DEF Whole, Linked
<1>5. ASSUME NEW j \in 1 .. Len(s)
      PROVE  /\ m.node[s[j]].next = IF j = q - 1 THEN At(s, q + 1) ELSE At(s, j + 1)
             /\ m.node[s[j]].prev = IF j = q + 1 THEN At(s, q - 1) ELSE At(s, j - 1)
  <2>1. s[j] \in Nodes /\ q - 1 \in Int /\ q + 1 \in Int
    OBVIOUS
  <2>2. /\ m.node[s[j]].next = IF s[j] = l.node[n].prev THEN l.node[n].next ELSE l.node[s[j]].next
        /\ m.node[s[j]].prev = IF s[j] = l.node[n].next THEN l.node[n].prev ELSE l.node[s[j]].prev
    BY <2>1 DEF Unlinking
  <2>3. l.node[s[j]].prev = At(s, j - 1) /\ l.node[s[j]].next = At(s, j + 1)
    BY DEF Whole, Linked
  <2>4. (s[j] = At(s, q - 1) <=> j = q - 1) /\ (s[j] = At(s, q + 1) <=> j = q + 1)
    BY <2>1, AtDiffers
  <2>. QED BY <1>4, <2>2, <2>3, <2>4
<1>6. ASSUME NEW k \in 1 .. Len(t)
      PROVE  m.node[t[k]].prev = At(t, k - 1) /\ m.node[t[k]].next = At(t, k + 1)
  <2>1. k \in Int /\ k - 1 \in Int /\ k + 1 \in Int
    OBVIOUS
  <2>2. /\ At(t, k - 1) = IF k - 1 < q THEN At(s, k - 1) ELSE At(s, (k - 1) + 1)
        /\ At(t, k + 1) = IF k + 1 < q THEN At(s, k + 1) ELSE At(s, (k + 1) + 1)
    BY <1>3, <2>1, Zenon
  <2>3. CASE k < q
    <3>1. k \in 1 .. Len(s) /\ t[k] = s[k] /\ k # q + 1
      BY <1>1, <2>3
    <3>2. m.node[s[k]].prev = At(s, k - 1) /\ m.node[s[k]].next = IF k = q - 1 THEN At(s, q + 1) ELSE At(s, k + 1)
      BY <1>5, <3>1
    <3>3. CASE k = q - 1
      <4>1. q + 1 = (k + 1) + 1 /\ ~(k + 1 < q) /\ k - 1 < q
        BY <3>3
      <4>. QED BY <2>2, <3>1, <3>2, <3>3, <4>1
    <3>4. CASE k # q - 1
      <4>1. k + 1 < q /\ k - 1 < q
        BY <1>1, <2>3, <3>4
      <4>. QED BY <2>2, <3>1, <3>2, <3>4, <4>1
    <3>. QED BY <3>3, <3>4
  <2>4. CASE ~(k < q)
    <3>1. /\ k + 1 \in 1 .. Len(s) /\ t[k] = s[k + 1] /\ k + 1 # q - 1 /\ ~(k + 1 < q) /\ (k + 1) - 1 = (k - 1) + 1
      BY <1>1, <2>4
    <3>2. /\ m.node[s[k + 1]].next = At(s, (k + 1) + 1)
          /\ m.node[s[k + 1]].prev = IF k + 1 = q + 1 THEN At(s, q - 1) ELSE At(s, (k + 1) - 1)
      BY <1>5, <3>1
    <3>3. CASE k = q
      <4>1. k + 1 = q + 1 /\ k - 1 < q /\ k - 1 = q - 1
        BY <3>3
      <4>. QED BY <2>2, <3>1, <3>2, <4>1
    <3>4. CASE k # q
      <4>1. k + 1 # q + 1 /\ ~(k - 1 < q)
        BY <1>1, <2>4, <3>4
      <4>. QED BY <2>2, <3>1, <3>2, <4>1
    <3>. QED BY <3>3, <3>4
  <2>. QED BY <2>3, <2>4
<1>7. Range(s) = Range(t) \cup {n} /\ n \notin Range(t)
  <2>1. DOMAIN t = 1 .. Len(s) - 1 /\ DOMAIN s = 1 .. Len(s)
    BY <1>1
  <2>2. n \notin Range(t)
    <3>. SUFFICES ASSUME NEW k \in 1 .. Len(t), t[k] = s[q] PROVE FALSE
      BY <1>1, <2>1 DEF Range
    <3>1. PICK a \in 1 .. Len(s) : t[k] = s[a] /\ a # q
      BY <1>1
    <3>. QED BY <3>1 DEF Distinct
  <2>3. Range(t) \cup {n} \subseteq Range(s)
    <3>1. \A k \in 1 .. Len(t) : t[k] \in Range(s)
      BY <1>1, <2>1 DEF Range
    <3>. QED BY <1>1, <2>1, <3>1 DEF Range
  <2>4. ASSUME NEW a \in 1 .. Len(s) PROVE s[a] \in Range(t) \cup {n}
    <3>1. CASE a = q
      BY <3>1
    <3>2. CASE a < q
      <4>1. a \in 1 .. Len(t) /\ t[a] = s[a]
        BY <1>1, <3>2
      <4>. QED BY <1>1, <4>1 DEF Range
    <3>3. CASE a > q
      <4>1. a - 1 \in 1 .. Len(t) /\ ~(a - 1 < q) /\ (a - 1) + 1 = a
        BY <1>1, <3>3
      <4>2. t[a - 1] = s[a]
        BY <1>1, <4>1
      <4>. QED BY <1>1, <4>1, <4>2 DEF Range
    <3>. QED BY <1>1, <3>1, <3>2, <3>3
  <2>5. Range(s) \subseteq Range(t) \cup {n}
    <3>1. Range(s) = {s[a] : a \in 1 .. Len(s)}
      BY <2>1 DEF Range
    <3>. QED BY <2>4, <3>1
  <2>. QED BY <2>2, <2>3, <2>5
<1>8. m.used = Range(t) \cup {n} /\ m.start = At(s, 1) /\ m.end = At(s, Len(s))
  BY <1>7 DEF Unlinking, SameButNodes, Whole
<1>9. m.node[n].prev = At(t, q - 1) /\ m.node[n].next = At(t, (q - 1) + 1)
  <2>1. m.node[s[q]].prev = At(s, q - 1) /\ m.node[s[q]].next = At(s, q + 1)
    BY <1>1, <1>5
  <2>2. At(t, q - 1) = At(s, q - 1) /\ At(t, (q - 1) + 1) = At(s, q + 1)
    <3>1. q - 1 \in Int /\ q - 1 < q /\ (q - 1) + 1 = q /\ ~(q < q)
      BY <1>1
    <3>. QED BY <1>1, <1>3, <3>1
  <2>. QED BY <2>1, <2>2
<1>10. At(s, 1) = IF q - 1 = 0 THEN n ELSE At(t, 1)
  <2>1. CASE q = 1
    BY <1>1, <2>1 DEF At
  <2>2. CASE q # 1
    <3>1. 1 < q /\ q - 1 # 0 /\ 1 \in Int
      BY <1>1, <2>2
    <3>. QED BY <1>3, <3>1
  <2>. QED BY <2>1, <2>2
<1>11. At(s, Len(s)) = IF q - 1 = Len(t) THEN n ELSE At(t, Len(t))
  <2>1. CASE q = Len(s)
    BY <1>1, <2>1 DEF At
  <2>2. CASE q # Len(s)
    <3>1. ~(Len(t) < q) /\ q - 1 # Len(t) /\ Len(t) \in Int /\ Len(t) + 1 = Len(s)
      BY <1>1, <2>2
    <3>. QED BY <1>3, <3>1
  <2>. QED BY <2>1, <2>2
<1>12. q - 1 \in 0 .. Len(t)
  BY <1>1
<1>. QED BY <1>1, <1>2, <1>4, <1>6, <1>7, <1>8, <1>9, <1>10, <1>11, <1>12 DEF Unlinked, Linked

(* The end of a removal. *)
LEMMA EndsKeeps ==
  ASSUME NEW s \in Seq(Nodes), NEW l \in Lists, NEW n, Unlinked(l, s, n)
  PROVE  Whole(RemoveEnds(l, n), s) /\ RemoveEnds(l, n) \in Lists
<1>. DEFINE m == RemoveEnds(l, n)
<1>1. n \in Nodes \ Range(s) /\ l.used = Range(s) \cup {n} /\ Len(s) \in Nat
  BY DEF Unlinked
<1>2. PICK p \in 0 .. Len(s) :
         /\ l.node[n].prev = At(s, p) /\ l.node[n].next = At(s, p + 1)
         /\ l.start = (IF p = 0 THEN n ELSE At(s, 1))
         /\ l.end = (IF p = Len(s) THEN n ELSE At(s, Len(s)))
  BY DEF Unlinked
<1>3. /\ m \in Lists /\ m.node = l.node /\ m.used = l.used \ {n}
      /\ m.start = (IF l.start = n THEN l.node[n].next ELSE l.start)
      /\ m.end = (IF l.end = n THEN l.node[n].prev ELSE l.end)
  BY <1>1, EndsMakes
<1>. HIDE DEF m
<1>4. ASSUME NEW k \in Int PROVE At(s, k) # n
  <2>1. n # Null
    BY <1>1, NodesAre
  <2>2. \A j \in 1 .. Len(s) : s[j] \in Range(s)
    BY Members
  <2>. QED BY <1>1, <2>1, <2>2 DEF At
<1>5. m.start = At(s, 1)
  <2>1. CASE p = 0
    BY <1>2, <1>3, <2>1
  <2>2. CASE p # 0
    BY <1>2, <1>3, <1>4, <2>2
  <2>. QED BY <2>1, <2>2
<1>6. m.end = At(s, Len(s))
  <2>1. CASE p = Len(s)
    BY <1>2, <1>3, <2>1
  <2>2. CASE p # Len(s)
    <3>1. l.end = At(s, Len(s)) /\ l.end # n
      BY <1>1, <1>2, <1>4, <2>2
    <3>. QED BY <1>3, <3>1
  <2>. QED BY <2>1, <2>2
<1>7. m.used = Range(s) /\ Linked(m, s)
  BY <1>1, <1>3 DEF Unlinked, Linked
<1>. QED BY <1>3, <1>5, <1>6, <1>7 DEF Whole, m

(* Two lists that differ in windows only. *)
SameLinks(m, l) ==
  /\ SameButNodes(m, l)
  /\ \A k \in Nodes : m.node[k].prev = l.node[k].prev /\ m.node[k].next = l.node[k].next
(* A window dragged leaves the list as it is. *)
LEMMA WinKeeps ==
  ASSUME NEW s \in Seq(Nodes), NEW l \in Lists, NEW m, SameLinks(m, l), NEW n
  PROVE  /\ Whole(l, s) => Whole(m, s)
         /\ HungFirst(l, s, n) => HungFirst(m, s, n)
         /\ HungLast(l, s, n) => HungLast(m, s, n)
<1>1. Linked(l, s) => Linked(m, s)
  BY DEF Linked, SameLinks
<1>. QED BY <1>1 DEF Whole, HungFirst, HungLast, Hung, SameLinks, SameButNodes

-----------------------------------------------------------------------------
(* Walks along the links. *)

Follow(l, link, at) == IF at = Null THEN Null ELSE l.node[at][link]
Walk(f, l, from, link, n) == f = [k \in 0 .. n |-> IF k = 0 THEN from ELSE Follow(l, link, f[k - 1])]

(* There is such a walk of any length. *)
LEMMA WalkExists ==
  ASSUME NEW l, NEW from, NEW link
  PROVE  \A n \in Nat : \E f : Walk(f, l, from, link, n)
<1>. DEFINE T == {n \in Nat : \E f : Walk(f, l, from, link, n)}
<1>1. 0 \in T
  <2>1. Walk([k \in 0 .. 0 |-> from], l, from, link, 0)
    BY DEF Walk
  <2>. QED BY <2>1
<1>2. ASSUME NEW n \in Nat, n \in T
      PROVE  n + 1 \in T
  <2>1. PICK f : Walk(f, l, from, link, n)
    BY <1>2
  <2>. DEFINE g == [k \in 0 .. n + 1 |-> IF k = n + 1 THEN Follow(l, link, f[n]) ELSE f[k]]
  <2>2. \A k \in 0 .. n : f[k] = IF k = 0 THEN from ELSE Follow(l, link, f[k - 1])
    BY <2>1 DEF Walk
  <2>3. \A k \in 0 .. n + 1 : g[k] = IF k = 0 THEN from ELSE Follow(l, link, g[k - 1])
    <3>. SUFFICES ASSUME NEW k \in 0 .. n + 1
                  PROVE  g[k] = IF k = 0 THEN from ELSE Follow(l, link, g[k - 1])
      OBVIOUS
    <3>1. CASE k = n + 1
      BY <3>1
    <3>2. CASE k # n + 1
      BY <3>2, <2>2
    <3>. QED BY <3>1, <3>2
  <2>4. Walk(g, l, from, link, n + 1)
    <3>1. g = [k \in 0 .. n + 1 |-> g[k]]
      OBVIOUS
    <3>. HIDE DEF g
    <3>. QED BY <2>3, <3>1 DEF Walk
  <2>. QED BY <2>4
<1>3. \A n \in Nat : n \in T
  <2>. HIDE DEF T
  <2>. QED BY <1>1, <1>2, SetInduction
<1>. QED BY <1>3

(* Along follows the link until there is no node, and no further than there *)
(* are nodes.                                                               *)
Steps(f, l, from, link, n) ==
  f[0] = from /\ \A k \in 0 .. n - 1 : f[k + 1] = Follow(l, link, f[k])
Walked(f, j, l, from, link, n) ==
  /\ j \in 0 .. n + 1 /\ Steps(f, l, from, link, n)
  /\ \A k \in 0 .. n : f[k] # Null <=> k < j
  /\ Along(l, from, link) = [k \in 1 .. j |-> f[k - 1]]
(* Along is such a walk, up to where it ends. *)
LEMMA AlongSteps ==
  ASSUME NEW l, NEW from, NEW link, NEW n, n = Cardinality(Nodes)
  PROVE  \E f, j : Walked(f, j, l, from, link, n)
<1>. DEFINE f == CHOOSE g : Walk(g, l, from, link, n)
            met == {k \in DOMAIN f : f[k] # Null}
<1>1. n \in Nat
  BY NodesAre
<1>2. Walk(f, l, from, link, n)
  BY <1>1, WalkExists
<1>3. Along(l, from, link) = [k \in 1 .. Cardinality(met) |-> f[k - 1]]
  BY DEF Along, Walk, Follow
<1>. HIDE DEF f
<1>4. DOMAIN f = 0 .. n /\ \A k \in 0 .. n : f[k] = IF k = 0 THEN from ELSE Follow(l, link, f[k - 1])
  BY <1>2 DEF Walk
<1>5. Steps(f, l, from, link, n)
  <2>1. f[0] = from
    BY <1>1, <1>4
  <2>2. ASSUME NEW k \in 0 .. n - 1 PROVE f[k + 1] = Follow(l, link, f[k])
    <3>1. k + 1 \in 0 .. n /\ k + 1 # 0 /\ (k + 1) - 1 = k
      BY <1>1
    <3>. QED BY <1>4, <3>1
  <2>. QED BY <2>1, <2>2 DEF Steps
<1>6. ASSUME NEW a \in 0 .. n, f[a] = Null
      PROVE  \A k \in 0 .. n : k >= a => f[k] = Null
  <2>. DEFINE T == {d \in Nat : a + d <= n => f[a + d] = Null}
  <2>1. 0 \in T
    BY <1>6
  <2>2. ASSUME NEW d \in Nat, d \in T PROVE d + 1 \in T
    <3>. SUFFICES ASSUME a + (d + 1) <= n PROVE f[a + (d + 1)] = Null
      OBVIOUS
    <3>1. a + d \in 0 .. n - 1 /\ (a + d) + 1 = a + (d + 1) /\ a + d <= n
      BY <1>1
    <3>2. f[(a + d) + 1] = Follow(l, link, f[a + d]) /\ f[a + d] = Null
      BY <1>5, <2>2, <3>1 DEF Steps
    <3>. QED BY <3>1, <3>2 DEF Follow
  <2>3. \A d \in Nat : d \in T
    <3>. HIDE DEF T
    <3>. QED BY <2>1, <2>2, SetInduction
  <2>. SUFFICES ASSUME NEW k \in 0 .. n, k >= a PROVE f[k] = Null
    OBVIOUS
  <2>4. k - a \in Nat /\ a + (k - a) = k
    OBVIOUS
  <2>. QED BY <2>3, <2>4
<1>7. \E j \in 0 .. n + 1 : \A k \in 0 .. n : f[k] # Null <=> k < j
  <2>. DEFINE nulls == {k \in 0 .. n : f[k] = Null}
  <2>1. CASE nulls = {}
    BY <1>1, <2>1
  <2>2. CASE nulls # {}
    <3>1. nulls \subseteq Nat
      BY <1>1
    <3>2. PICK a \in nulls : \A k \in nulls : a <= k
      BY <2>2, <3>1, LeastNumber
    <3>3. a \in 0 .. n + 1 /\ a \in 0 .. n /\ f[a] = Null
      BY <1>1, <3>2
    <3>4. \A k \in 0 .. n : k >= a => f[k] = Null
      BY <1>6, <3>3
    <3>. QED BY <1>1, <3>2, <3>3, <3>4
  <2>. QED BY <2>1, <2>2
<1>8. PICK j \in 0 .. n + 1 : \A k \in 0 .. n : f[k] # Null <=> k < j
  BY <1>7
<1>9. met = 0 .. j - 1
  BY <1>1, <1>4, <1>8
<1>10. Cardinality(met) = j
  <2>1. 0 \in Int /\ j - 1 \in Int
    BY <1>1
  <2>2. Cardinality(0 .. j - 1) = IF 0 > j - 1 THEN 0 ELSE (j - 1) - 0 + 1
    BY <2>1, FS_Interval
  <2>. HIDE DEF met
  <2>. QED BY <1>1, <1>9, <2>2
<1>. HIDE DEF met
<1>. QED BY <1>3, <1>5, <1>8, <1>10 DEF Walked

(* A walk stays among nodes that the links do not leave. *)
LEMMA AlongStays ==
  ASSUME NEW l, NEW from, NEW link, NEW S, S \subseteq Nodes, from \in S \cup {Null},
         \A x \in S : l.node[x][link] \in S \cup {Null}
  PROVE  \E j \in Nat : /\ Along(l, from, link) \in [1 .. j -> S]
                        /\ DOMAIN Along(l, from, link) = 1 .. j
<1>. DEFINE n == Cardinality(Nodes)
<1>1. n \in Nat
  BY NodesAre
<1>0. PICK f, j : Walked(f, j, l, from, link, n)
  BY AlongSteps
<1>2. /\ j \in 0 .. n + 1 /\ Steps(f, l, from, link, n)
      /\ \A k \in 0 .. n : f[k] # Null <=> k < j
      /\ Along(l, from, link) = [k \in 1 .. j |-> f[k - 1]]
  BY <1>0 DEF Walked
<1>. HIDE DEF n
<1>. DEFINE T == {d \in Nat : d <= n => f[d] \in S \cup {Null}}
<1>3. 0 \in T
  BY <1>2 DEF Steps
<1>4. ASSUME NEW d \in Nat, d \in T PROVE d + 1 \in T
  <2>. SUFFICES ASSUME d + 1 <= n PROVE f[d + 1] \in S \cup {Null}
    OBVIOUS
  <2>1. d \in 0 .. n - 1 /\ d <= n
    BY <1>1
  <2>2. f[d + 1] = Follow(l, link, f[d]) /\ f[d] \in S \cup {Null}
    BY <1>2, <1>4, <2>1 DEF Steps
  <2>. QED BY <2>2 DEF Follow
<1>5. \A d \in Nat : d \in T
  <2>. HIDE DEF T
  <2>. QED BY <1>3, <1>4, SetInduction
<1>6. ASSUME NEW k \in 1 .. j PROVE f[k - 1] \in S
  <2>1. k - 1 \in 0 .. n /\ k - 1 \in Nat /\ k - 1 < j /\ k - 1 <= n
    BY <1>1, <1>2
  <2>2. f[k - 1] # Null
    BY <1>2, <2>1
  <2>3. f[k - 1] \in S \cup {Null}
    BY <1>5, <2>1
  <2>. QED BY <2>2, <2>3
<1>. HIDE DEF T
<1>7. j \in Nat /\ [k \in 1 .. j |-> f[k - 1]] \in [1 .. j -> S]
  BY <1>1, <1>2, <1>6
<1>. QED BY <1>2, <1>7

(* A walk from the first of some nodes, each of which has the next, meets   *)
(* them all.                                                                *)
LEMMA AlongFollows ==
  ASSUME NEW l, NEW from, NEW link, NEW r \in Seq(Nodes), Len(r) <= Cardinality(Nodes),
         from = At(r, 1), \A k \in 1 .. Len(r) : l.node[r[k]][link] = At(r, k + 1)
  PROVE  Along(l, from, link) = r
<1>. DEFINE n == Cardinality(Nodes)
<1>1. n \in Nat /\ Len(r) \in Nat /\ Len(r) <= n
  BY NodesAre
<1>0. PICK f, j : Walked(f, j, l, from, link, n)
  BY AlongSteps
<1>2. /\ j \in 0 .. n + 1 /\ Steps(f, l, from, link, n)
      /\ \A k \in 0 .. n : f[k] # Null <=> k < j
      /\ Along(l, from, link) = [k \in 1 .. j |-> f[k - 1]]
  BY <1>0 DEF Walked
<1>. HIDE DEF n
<1>. DEFINE T == {d \in Nat : d <= n => f[d] = At(r, d + 1)}
<1>3. 0 \in T
  BY <1>2 DEF Steps
<1>4. ASSUME NEW d \in Nat, d \in T PROVE d + 1 \in T
  <2>. SUFFICES ASSUME d + 1 <= n PROVE f[d + 1] = At(r, (d + 1) + 1)
    OBVIOUS
  <2>1. d \in 0 .. n - 1 /\ d <= n
    BY <1>1
  <2>2. f[d + 1] = Follow(l, link, f[d]) /\ f[d] = At(r, d + 1)
    BY <1>2, <1>4, <2>1 DEF Steps
  <2>3. CASE d + 1 \in 1 .. Len(r)
    <3>1. At(r, d + 1) = r[d + 1] /\ r[d + 1] # Null
      BY <2>3, NodesAre DEF At
    <3>. QED BY <2>2, <2>3, <3>1 DEF Follow
  <2>4. CASE d + 1 \notin 1 .. Len(r)
    <3>1. At(r, d + 1) = Null /\ At(r, (d + 1) + 1) = Null
      BY <1>1, <2>4 DEF At
    <3>. QED BY <2>2, <3>1 DEF Follow
  <2>. QED BY <2>3, <2>4
<1>5. \A d \in Nat : d \in T
  <2>. HIDE DEF T
  <2>. QED BY <1>3, <1>4, SetInduction
<1>6. \A k \in 0 .. n : f[k] = At(r, k + 1)
  BY <1>1, <1>5
<1>. HIDE DEF T
<1>7. ASSUME NEW k \in 0 .. n PROVE k < Len(r) <=> k < j
  <2>1. k < Len(r) <=> k + 1 \in 1 .. Len(r)
    BY <1>1
  <2>2. k + 1 \in 1 .. Len(r) <=> At(r, k + 1) # Null
    BY NodesAre DEF At
  <2>. QED BY <1>2, <1>6, <2>1, <2>2
<1>8. j = Len(r)
  <2>1. j < Len(r) => j \in 0 .. n
    BY <1>1, <1>2
  <2>2. Len(r) < j => Len(r) \in 0 .. n
    BY <1>1, <1>2
  <2>. QED BY <1>1, <1>2, <1>7, <2>1, <2>2
<1>9. \A k \in 1 .. Len(r) : f[k - 1] = r[k]
  <2>. SUFFICES ASSUME NEW k \in 1 .. Len(r) PROVE f[k - 1] = r[k]
    OBVIOUS
  <2>1. k - 1 \in 0 .. n /\ (k - 1) + 1 = k
    BY <1>1
  <2>. QED BY <1>6, <2>1 DEF At
<1>10. r = [k \in 1 .. Len(r) |-> r[k]]
  OBVIOUS
<1>. QED BY <1>2, <1>8, <1>9, <1>10

(* There are no more places in a list than nodes. *)
LEMMA DistinctFits ==
  ASSUME NEW s \in Seq(Nodes), Distinct(s)
  PROVE  Len(s) <= Cardinality(Nodes)
<1>1. s \in Injection(1 .. Len(s), Nodes)
  BY DEF Injection, Distinct, IsInjective
<1>2. Len(s) \in Nat /\ Cardinality(1 .. Len(s)) = Len(s)
  BY UpTo
<1>. QED BY <1>1, <1>2, NodesAre, FS_Injection

(* A walk along next meets the nodes in order, and back along prev in       *)
(* reverse.                                                                 *)
LEMMA ForwardIs ==
  ASSUME NEW s \in Seq(Nodes), Distinct(s), NEW l, Linked(l, s), l.start = At(s, 1)
  PROVE  Forward(l) = s
<1>1. \A k \in 1 .. Len(s) : l.node[s[k]]["next"] = At(s, k + 1)
  BY DEF Linked
<1>. QED BY <1>1, AlongFollows, DistinctFits DEF Forward

(* From a start that is not set, nothing is met. *)
LEMMA ForwardNone ==
  ASSUME NEW l, l.start = Null
  PROVE  Forward(l) = << >>
<1>1. PICK r : r = << >>
  OBVIOUS
<1>2. r \in Seq(Nodes) /\ Len(r) = 0 /\ l.start = At(r, 1)
  BY <1>1 DEF At
<1>3. Len(r) <= Cardinality(Nodes)
  BY <1>2, NodesAre
<1>4. \A k \in 1 .. Len(r) : l.node[r[k]]["next"] = At(r, k + 1)
  BY <1>2
<1>5. Along(l, l.start, "next") = r
  BY <1>2, <1>3, <1>4, AlongFollows
<1>. QED BY <1>1, <1>5 DEF Forward

(* And from the end, the nodes in reverse. *)
LEMMA BackwardIs ==
  ASSUME NEW s \in Seq(Nodes), Distinct(s), NEW l, Linked(l, s), l.end = At(s, Len(s))
  PROVE  Backward(l) = Reverse(s) /\ Reverse(Reverse(s)) = s
<1>. DEFINE n == Len(s)
            r == Reverse(s)
<1>1. n \in Nat /\ \A k \in 1 .. n : s[k] \in Nodes
  OBVIOUS
<1>2. r \in Seq(Nodes) /\ Len(r) = n /\ \A k \in 1 .. n : r[k] = s[(n - k) + 1]
  <2>1. \A k \in 1 .. n : (n - k) + 1 \in 1 .. n
    BY <1>1
  <2>2. r = [k \in 1 .. n |-> s[(n - k) + 1]]
    BY DEF Reverse
  <2>. HIDE DEF r, n
  <2>3. r \in [1 .. n -> Nodes]
    BY <1>1, <2>1, <2>2
  <2>. QED BY <1>1, <2>2, <2>3
<1>3. Reverse(r) = s
  <2>1. Reverse(r) = [k \in 1 .. Len(r) |-> r[(Len(r) - k) + 1]]
    BY DEF Reverse
  <2>2. s = [k \in 1 .. n |-> s[k]]
    OBVIOUS
  <2>. HIDE DEF r, n
  <2>3. ASSUME NEW k \in 1 .. n PROVE r[(n - k) + 1] = s[k]
    <3>1. (n - k) + 1 \in 1 .. n /\ (n - ((n - k) + 1)) + 1 = k
      BY <1>1
    <3>. QED BY <1>2, <3>1
  <2>. QED BY <1>2, <2>1, <2>2, <2>3
<1>4. l.end = At(r, 1)
  <2>. HIDE DEF r
  <2>. QED BY <1>1, <1>2 DEF At
<1>5. ASSUME NEW k \in 1 .. n PROVE l.node[r[k]]["prev"] = At(r, k + 1)
  <2>1. (n - k) + 1 \in 1 .. n /\ ((n - k) + 1) - 1 = n - k
    BY <1>1
  <2>2. l.node[s[(n - k) + 1]]["prev"] = At(s, ((n - k) + 1) - 1)
    BY <2>1 DEF Linked
  <2>3. At(s, n - k) = At(r, k + 1)
    <3>1. CASE k = n
      <4>1. At(s, n - k) = Null
        BY <1>1, <3>1 DEF At
      <4>. HIDE DEF r
      <4>2. At(r, k + 1) = Null
        BY <1>1, <1>2, <3>1 DEF At
      <4>. QED BY <4>1, <4>2
    <3>2. CASE k # n
      <4>1. n - k \in 1 .. n /\ k + 1 \in 1 .. n /\ (n - (k + 1)) + 1 = n - k
        BY <1>1, <3>2
      <4>2. At(s, n - k) = s[n - k]
        BY <4>1 DEF At
      <4>. HIDE DEF r
      <4>. QED BY <1>2, <4>1, <4>2 DEF At
    <3>. QED BY <3>1, <3>2
  <2>. HIDE DEF r
  <2>. QED BY <1>2, <2>1, <2>2, <2>3
<1>6. n <= Cardinality(Nodes)
  BY DistinctFits
<1>. HIDE DEF n, r
<1>7. Along(l, l.end, "prev") = r
  <2>1. r \in Seq(Nodes) /\ Len(r) <= Cardinality(Nodes)
    BY <1>2, <1>6
  <2>2. \A k \in 1 .. Len(r) : l.node[r[k]]["prev"] = At(r, k + 1)
    BY <1>2, <1>5
  <2>. QED BY <1>4, <2>1, <2>2, AlongFollows
<1>. QED BY <1>3, <1>7 DEF Backward, r

-----------------------------------------------------------------------------
(* The invariant: s are the nodes in the order of the windows. *)

Raising == {"links", "ends", "link", "first", "last", "raised"}
EventType == [pc : {"draw", "copy", "reset", "wait", "more"} \cup Raising, up_x : Int, node : Places, win : Wins]
ServerType == [pc : {"listen", "link", "first", "last", "update", "fill"}, client : Client \cup {"none"},
               node : Places, win : Wins]
ClientType == [Client -> [pc : {"start", "new", "loop"}, keys : Nat, drawn : Nat]]
TypeOK == list \in Lists /\ event \in EventType /\ server \in ServerType /\ client \in ClientType

(* How far the thread in the list has come. *)
ListIs(s) ==
  /\ event.pc = "ends" => Unlinked(list, s, event.node)
  /\ event.pc = "first" => HungFirst(list, s, event.node)
  /\ event.pc = "last" => HungLast(list, s, event.node)
  /\ server.pc = "first" => HungFirst(list, s, server.node)
  /\ server.pc = "last" => HungLast(list, s, server.node)
  /\ event.pc \notin Halfway /\ server.pc \notin Halfway => Whole(list, s)

(* The windows that should be in the list: all that were made, but for the  *)
(* one the server has not entered yet and the one being raised.             *)
Made == {c \in Client : client[c].pc # "start"}
Coming == IF server.pc = "link" THEN {server.client} ELSE {}
Going == IF event.pc \in {"ends", "link"} THEN {event.win.id} ELSE {}
Listed == (Made \ Coming) \ Going

IdsAre(l, s, A) ==
  /\ \A k \in 1 .. Len(s) : l.node[s[k]].win.id \in A
  /\ \A j, k \in 1 .. Len(s) : l.node[s[j]].win.id = l.node[s[k]].win.id => j = k
  /\ \A c \in A : \E k \in 1 .. Len(s) : l.node[s[k]].win.id = c
Ids(s) == IdsAre(list, s, Listed)

(* What each thread has in hand. *)
Threads(s) ==
  /\ ~(event.pc \in Halfway /\ server.pc \in Halfway)
  /\ server.pc # "listen" => server.client \in Made /\ server.win.id = server.client
  /\ server.pc \in {"first", "last"} => list.node[server.node].win = server.win
  /\ event.pc = "links" => \E k \in 1 .. Len(s) : s[k] = event.node /\ list.node[s[k]].win = event.win
  /\ event.pc \in {"ends", "link"} => event.win.id \in Made \ Coming

Kept(s) == s \in Seq(Nodes) /\ Distinct(s) /\ TypeOK /\ ListIs(s) /\ Ids(s) /\ Threads(s)

(* At first there is no window. *)
LEMMA InitKept ==
  ASSUME Init
  PROVE  Kept(<< >>)
<1>1. PICK s : s = << >>
  OBVIOUS
<1>2. s \in Seq(Nodes) /\ Len(s) = 0 /\ Range(s) = {} /\ Distinct(s)
  BY <1>1 DEF Range, Distinct
<1>3. NoWin \in Wins /\ Null \in Places
  BY SizeAssumption DEF NoWin, Wins, Places
<1>4. list.start = Null /\ list.end = Null /\ list.used = {} /\ list \in Lists
  <2>1. [n \in Nodes |-> [prev |-> Null, next |-> Null, win |-> NoWin]] \in [Nodes -> NodeType]
    BY <1>3 DEF NodeType
  <2>. QED BY <1>3, <2>1 DEF Init, Lists
<1>5. event \in EventType /\ server \in ServerType /\ client \in ClientType
  BY <1>3 DEF Init, EventType, ServerType, ClientType
<1>6. event.pc = "draw" /\ server.pc = "listen" /\ \A c \in Client : client[c].pc = "start"
  BY DEF Init
<1>7. ListIs(s)
  BY <1>2, <1>4, <1>6 DEF ListIs, Whole, Linked, At, Halfway
<1>8. Listed = {}
  BY <1>6 DEF Listed, Made
<1>9. Ids(s) /\ Threads(s)
  BY <1>2, <1>6, <1>8 DEF Ids, IdsAre, Threads, Halfway
<1>. QED BY <1>1, <1>2, <1>4, <1>5, <1>7, <1>9 DEF Kept, TypeOK

(* While nobody is in the list there is room for one more node. *)
LEMMA Room ==
  ASSUME NEW s, Kept(s), Whole(list, s)
  PROVE  FreeNode(list) \in Nodes \ Range(s)
<1>1. s \in Seq(Nodes) /\ Distinct(s) /\ Len(s) \in Nat /\ list.used = Range(s)
  BY DEF Kept, Whole
<1>2. Nodes \ Range(s) # {}
  <2>. SUFFICES ASSUME Nodes \subseteq Range(s) PROVE FALSE
    OBVIOUS
  <2>. DEFINE f == [k \in 1 .. Len(s) |-> list.node[s[k]].win.id]
  <2>1. IsFiniteSet(1 .. Len(s)) /\ Cardinality(1 .. Len(s)) = Len(s)
    BY <1>1, UpTo
  <2>2. f \in Injection(1 .. Len(s), Client)
    <3>1. \A k \in 1 .. Len(s) : list.node[s[k]].win.id \in Client
      BY DEF Kept, Ids, IdsAre, Listed, Made
    <3>2. \A j, k \in 1 .. Len(s) : list.node[s[j]].win.id = list.node[s[k]].win.id => j = k
      BY DEF Kept, Ids, IdsAre
    <3>. QED BY <3>1, <3>2 DEF Injection, IsInjective
  <2>3. Len(s) <= Cardinality(Client)
    BY <2>1, <2>2, ClientAssumption, FS_Injection
  <2>4. s \in Surjection(1 .. Len(s), Nodes)
    <3>1. s \in [1 .. Len(s) -> Nodes]
      BY <1>1
    <3>2. \A x \in Nodes : \E k \in 1 .. Len(s) : s[k] = x
      BY <1>1, Members
    <3>. QED BY <3>1, <3>2 DEF Surjection
  <2>5. Cardinality(Nodes) <= Len(s)
    BY <2>1, <2>4, FS_Surjection
  <2>. QED BY <1>1, <2>3, <2>5, NodesAre
<1>3. Nodes \ Range(s) \subseteq Nat
  BY NodesAre
<1>. QED BY <1>1, <1>2, <1>3, MinIs DEF FreeNode

(* Steps that leave the list and the server alone. *)
LEMMA KeptStays ==
  ASSUME NEW s, Kept(s), UNCHANGED <<list, server>>, client' \in ClientType, Made' = Made,
         event' \in EventType, event.pc \notin Surgery, event'.pc \notin Surgery
  PROVE  Kept(s)'
<1>1. event.pc \notin Halfway /\ event'.pc \notin Halfway /\ event.pc \notin {"link", "links", "ends", "first", "last"}
      /\ event'.pc \notin {"link", "links", "ends", "first", "last"}
  BY DEF Surgery, Halfway
<1>2. Listed' = Listed
  BY <1>1 DEF Listed, Coming, Going
<1>3. ListIs(s)'
  BY <1>1 DEF Kept, ListIs
<1>4. Ids(s)'
  BY <1>2 DEF Kept, Ids
<1>5. Threads(s)'
  BY <1>1 DEF Kept, Threads
<1>. QED BY <1>3, <1>4, <1>5 DEF Kept, TypeOK

(* The windows of a list with one more, and with one less. *)
LEMMA LinkIds ==
  ASSUME NEW s \in Seq(Nodes), NEW l, NEW A, IdsAre(l, s, A), NEW n \in Nodes \ Range(s),
         NEW win, win.id \notin A, NEW m, Linking(m, l, n, win), NEW t, t = Append(s, n)
  PROVE  IdsAre(m, t, A \cup {win.id})
<1>1. /\ Len(t) = Len(s) + 1 /\ t[Len(s) + 1] = n /\ Len(s) \in Nat
      /\ \A k \in 1 .. Len(s) : t[k] = s[k]
  OBVIOUS
<1>2. \A k \in 1 .. Len(s) : m.node[t[k]].win.id = l.node[s[k]].win.id
  <2>1. \A k \in 1 .. Len(s) : s[k] \in Nodes \ {n}
    BY Members
  <2>. QED BY <1>1, <2>1 DEF Linking
<1>3. m.node[t[Len(s) + 1]].win.id = win.id
  BY <1>1 DEF Linking
<1>4. \A k \in 1 .. Len(t) : k \in 1 .. Len(s) \/ k = Len(s) + 1
  BY <1>1
<1>5. \A k \in 1 .. Len(t) : m.node[t[k]].win.id \in A \cup {win.id}
  BY <1>2, <1>3, <1>4 DEF IdsAre
<1>6. ASSUME NEW j \in 1 .. Len(t), NEW k \in 1 .. Len(t), m.node[t[j]].win.id = m.node[t[k]].win.id
      PROVE  j = k
  <2>1. \A i \in 1 .. Len(s) : m.node[t[i]].win.id \in A /\ m.node[t[i]].win.id # win.id
    BY <1>2 DEF IdsAre
  <2>2. CASE j \in 1 .. Len(s) /\ k \in 1 .. Len(s)
    <3>1. l.node[s[j]].win.id = l.node[s[k]].win.id
      BY <1>2, <1>6, <2>2, Zenon
    <3>. QED BY <2>2, <3>1, Zenon DEF IdsAre
  <2>3. CASE j \notin 1 .. Len(s) \/ k \notin 1 .. Len(s)
    BY <1>3, <1>4, <1>6, <2>1, <2>3, Zenon
  <2>. QED BY <2>2, <2>3, Zenon
<1>7. ASSUME NEW c \in A \cup {win.id} PROVE \E k \in 1 .. Len(t) : m.node[t[k]].win.id = c
  <2>1. CASE c = win.id
    BY <1>1, <1>3, <2>1
  <2>2. CASE c \in A
    <3>1. PICK k \in 1 .. Len(s) : l.node[s[k]].win.id = c
      BY <2>2 DEF IdsAre
    <3>. QED BY <1>1, <1>2, <3>1
  <2>. QED BY <2>1, <2>2
<1>. QED BY <1>5, <1>6, <1>7 DEF IdsAre

(* RemoveLinks takes one window away and no other. *)
LEMMA UnlinkIds ==
  ASSUME NEW s \in Seq(Nodes), NEW l, NEW A, IdsAre(l, s, A), NEW q \in 1 .. Len(s),
         NEW m, Unlinking(m, l, s[q]), NEW t, t = RemoveAt(s, q)
  PROVE  IdsAre(m, t, A \ {l.node[s[q]].win.id})
<1>. DEFINE id == l.node[s[q]].win.id
<1>1. /\ t \in Seq(Nodes) /\ Len(t) = Len(s) - 1 /\ Len(s) \in Nat /\ q \in Int
      /\ \A k \in 1 .. Len(t) : t[k] = IF k < q THEN s[k] ELSE s[k + 1]
  BY RemovedIs
<1>2. \A k \in 1 .. Len(s) : m.node[s[k]].win = l.node[s[k]].win
  BY DEF Unlinking
<1>3. \A k \in 1 .. Len(t) : \E a \in 1 .. Len(s) : a = (IF k < q THEN k ELSE k + 1) /\ a # q /\ t[k] = s[a]
  BY <1>1
<1>4. ASSUME NEW k \in 1 .. Len(t) PROVE m.node[t[k]].win.id \in A \ {id}
  <2>1. PICK a \in 1 .. Len(s) : a # q /\ t[k] = s[a]
    BY <1>3
  <2>2. m.node[t[k]].win.id = l.node[s[a]].win.id
    BY <1>2, <2>1, Zenon
  <2>3. l.node[s[a]].win.id \in A /\ l.node[s[a]].win.id # id
    BY <2>1, Zenon DEF IdsAre
  <2>. QED BY <2>2, <2>3, Zenon
<1>5. ASSUME NEW j \in 1 .. Len(t), NEW k \in 1 .. Len(t), m.node[t[j]].win.id = m.node[t[k]].win.id
      PROVE  j = k
  <2>1. PICK a \in 1 .. Len(s) : a = (IF j < q THEN j ELSE j + 1) /\ t[j] = s[a]
    BY <1>3
  <2>2. PICK b \in 1 .. Len(s) : b = (IF k < q THEN k ELSE k + 1) /\ t[k] = s[b]
    BY <1>3
  <2>3. m.node[s[a]].win.id = l.node[s[a]].win.id /\ m.node[s[b]].win.id = l.node[s[b]].win.id
    BY <1>2
  <2>4. l.node[s[a]].win.id = l.node[s[b]].win.id
    BY <1>5, <2>1, <2>2, <2>3, Zenon
  <2>5. a = b
    BY <2>4 DEF IdsAre
  <2>. QED BY <1>1, <2>1, <2>2, <2>5
<1>6. ASSUME NEW c \in A \ {id} PROVE \E k \in 1 .. Len(t) : m.node[t[k]].win.id = c
  <2>1. PICK a \in 1 .. Len(s) : l.node[s[a]].win.id = c
    BY DEF IdsAre
  <2>2. a # q
    BY <2>1
  <2>3. CASE a < q
    <3>1. a \in 1 .. Len(t) /\ t[a] = s[a]
      BY <1>1, <2>3
    <3>. QED BY <1>2, <2>1, <3>1
  <2>4. CASE a > q
    <3>1. a - 1 \in 1 .. Len(t) /\ ~(a - 1 < q) /\ (a - 1) + 1 = a
      BY <1>1, <2>4
    <3>2. t[a - 1] = s[a]
      BY <1>1, <3>1
    <3>. QED BY <1>2, <2>1, <3>1, <3>2
  <2>. QED BY <1>1, <2>2, <2>3, <2>4
<1>. QED BY <1>4, <1>5, <1>6 DEF IdsAre

-----------------------------------------------------------------------------
(* The clients' steps and the server's. *)

(* A client that is announced is not listed before the server links its     *)
(* window.                                                                  *)
LEMMA NewWindowKept ==
  ASSUME NEW s, Kept(s), NEW c \in Client, stubbywm_new_window(c)
  PROVE  Kept(s)'
<1>1. /\ client[c].pc = "start" /\ server.pc = "listen" /\ UNCHANGED <<list, event>>
      /\ client' = [client EXCEPT ![c].pc = "new"]
      /\ server' = [pc |-> "link", client |-> c, node |-> Null, win |-> [id |-> c, x |-> 0]]
  BY DEF stubbywm_new_window, server_handle_new_window
<1>2. TypeOK'
  <2>1. client' \in ClientType
    BY <1>1 DEF Kept, TypeOK, ClientType
  <2>2. server' \in ServerType
    BY <1>1, SizeAssumption DEF ServerType, Places, Wins
  <2>. QED BY <1>1, <2>1, <2>2 DEF Kept, TypeOK
<1>3. Made' = Made \cup {c} /\ c \notin Made
  <2>1. client'[c].pc = "new" /\ \A d \in Client : d # c => client'[d] = client[d]
    BY <1>1 DEF Kept, TypeOK, ClientType
  <2>. QED BY <1>1, <2>1 DEF Made
<1>4. Coming = {} /\ Coming' = {c} /\ Going' = Going /\ Listed' = Listed
  BY <1>1, <1>3 DEF Coming, Going, Listed
<1>5. ListIs(s)'
  BY <1>1 DEF Kept, ListIs, Halfway
<1>6. Ids(s)'
  BY <1>1, <1>4 DEF Kept, Ids
<1>7. Threads(s)'
  BY <1>1, <1>3, <1>4 DEF Kept, Threads, Halfway
<1>. QED BY <1>2, <1>5, <1>6, <1>7 DEF Kept

(* A client that draws and asks for an update touches no window. *)
LEMMA UpdateKept ==
  ASSUME NEW s, Kept(s), NEW c \in Client, stubbywm_update(c)
  PROVE  Kept(s)' /\ Made' = Made
<1>1. client \in ClientType /\ UNCHANGED <<list, event, server>> /\ client[c].pc # "start"
  BY DEF Kept, TypeOK, stubbywm_update
<1>2. client' \in ClientType /\ client'[c].pc # "start" /\ \A d \in Client : d # c => client'[d] = client[d]
  <2>1. CASE client[c].pc = "new" /\ client' = [client EXCEPT ![c].pc = "loop", ![c].drawn = 1]
    <3>. DEFINE f == [client EXCEPT ![c].pc = "loop"]
    <3>1. f \in ClientType /\ f[c].pc = "loop" /\ \A d \in Client : d # c => f[d] = client[d]
      BY <1>1 DEF ClientType
    <3>2. client' = [f EXCEPT ![c].drawn = 1]
      BY <2>1
    <3>. HIDE DEF f
    <3>. QED BY <3>1, <3>2 DEF ClientType
  <2>2. CASE /\ client[c].pc = "loop" /\ client[c].keys > 0
             /\ client' = [client EXCEPT ![c].keys = client[c].keys - 1, ![c].drawn = client[c].drawn + 1]
    <3>. DEFINE f == [client EXCEPT ![c].keys = client[c].keys - 1]
    <3>1. client[c].keys - 1 \in Nat /\ client[c].drawn + 1 \in Nat
      BY <1>1, <2>2 DEF ClientType
    <3>2. f \in ClientType /\ f[c].pc = "loop" /\ f[c].drawn = client[c].drawn /\ \A d \in Client : d # c => f[d] = client[d]
      BY <1>1, <2>2, <3>1 DEF ClientType
    <3>3. client' = [f EXCEPT ![c].drawn = client[c].drawn + 1]
      BY <2>2
    <3>. HIDE DEF f
    <3>. QED BY <3>1, <3>2, <3>3 DEF ClientType
  <2>. QED BY <2>1, <2>2 DEF stubbywm_update
<1>3. Made' = Made
  BY <1>1, <1>2 DEF Made
<1>4. Listed' = Listed /\ Coming' = Coming
  BY <1>1, <1>3 DEF Listed, Coming, Going
<1>5. ListIs(s)' /\ Ids(s)'
  BY <1>1, <1>4 DEF Kept, ListIs, Ids
<1>6. Threads(s)'
  BY <1>1, <1>3, <1>4 DEF Kept, Threads
<1>. QED BY <1>1, <1>2, <1>3, <1>5, <1>6 DEF Kept, TypeOK

(* The server is done with a window only when it is in the list. *)
LEMMA ServerUpdatesKept ==
  ASSUME NEW s, Kept(s), ServerAllocs \/ ServerUpdates
  PROVE  Kept(s)'
<1>1. /\ server.pc \in {"update", "fill"} /\ UNCHANGED <<list, event, client>>
      /\ \/ server' = [server EXCEPT !.pc = "fill"]
         \/ server' = [pc |-> "listen", client |-> "none", node |-> Null, win |-> NoWin]
  BY DEF ServerAllocs, ServerUpdates, Elsewhere
<1>2. /\ server' \in ServerType /\ server'.pc \in {"fill", "listen"}
      /\ server'.pc = "fill" => server'.client = server.client /\ server'.win = server.win
  <2>1. server \in ServerType
    BY DEF Kept, TypeOK
  <2>. QED BY <1>1, <2>1, SizeAssumption DEF ServerType, Places, Wins, NoWin
<1>3. Made' = Made /\ Listed' = Listed /\ Coming' = Coming
  BY <1>1, <1>2 DEF Listed, Coming, Going, Made
<1>4. ListIs(s)'
  BY <1>1, <1>2 DEF Kept, ListIs, Halfway
<1>5. Ids(s)'
  BY <1>1, <1>3 DEF Kept, Ids
<1>6. Threads(s)'
  BY <1>1, <1>2, <1>3 DEF Kept, Threads, Halfway
<1>. QED BY <1>1, <1>2, <1>4, <1>5, <1>6 DEF Kept, TypeOK

(* What a step makes of the windows, and of the order s of their nodes. *)
Entering(s, t, n, win) ==
  /\ n \in Nodes \ Range(s) /\ t = Append(s, n) /\ list'.node[n].win = win
  /\ \A k \in Nodes \ {n} : list'.node[k].win = list.node[k].win
Leaving(s, t, n) ==
  /\ \A k \in Nodes : list'.node[k].win = list.node[k].win
  /\ \E q \in 1 .. Len(s) : s[q] = n /\ t = RemoveAt(s, q)
Staying(s, t) == t = s /\ list'.node = list.node

(* The server enters a window, and the event thread is not halfway.         *)
LEMMA ServerInsertsKept ==
  ASSUME NEW s, Kept(s), ServerInserts, ~clash'
  PROVE  \E t : /\ Kept(t)'
               /\ \/ server.pc = "link" /\ server'.pc = "first" /\ Entering(s, t, server'.node, server.win)
                  \/ server.pc = "first" /\ server'.pc = "last" /\ Staying(s, t)
                  \/ server.pc = "last" /\ server'.pc = "update" /\ Staying(s, t)
               /\ server'.win = server.win
<1>1. /\ UNCHANGED <<event, client>> /\ event.pc \notin Halfway
      /\ list \in Lists /\ event \in EventType /\ server \in ServerType /\ client \in ClientType
      /\ s \in Seq(Nodes) /\ Distinct(s) /\ ListIs(s) /\ Threads(s) /\ Made' = Made
  BY DEF ServerInserts, Elsewhere, Clashes, Kept, TypeOK, Made
<1>2. event.pc # "ends" /\ event.pc # "first" /\ event.pc # "last" /\ Going' = Going
  BY <1>1 DEF Halfway, Going
<1>3. CASE server.pc = "link"
  <2>1. PICK n : n = FreeNode(list)
    OBVIOUS
  <2>2. PICK m : m = InsertLink(list, n, server.win)
    OBVIOUS
  <2>3. list' = m /\ server' = [server EXCEPT !.pc = "first", !.node = n]
    BY <1>3, <2>1, <2>2 DEF ServerInserts
  <2>4. Whole(list, s) /\ n \in Nodes \ Range(s) /\ server.win \in Wins
    <3>1. Whole(list, s)
      BY <1>1, <1>3 DEF ListIs, Halfway
    <3>. QED BY <1>1, <2>1, <3>1, Room DEF ServerType
  <2>5. n # list.end
    BY <1>1, <2>4, NodesAre, Members DEF Whole, At
  <2>6. Linking(m, list, n, server.win)
    BY <1>1, <2>2, <2>4, <2>5, LinkMakes
  <2>7. PICK t : t = Append(s, n)
    OBVIOUS
  <2>8. t \in Seq(Nodes) /\ Distinct(t) /\ HungFirst(m, t, n)
    BY <1>1, <2>4, <2>6, <2>7, LinkKeeps
  <2>9. /\ server'.pc = "first" /\ server'.node = n /\ server'.win = server.win /\ server'.client = server.client
        /\ server' \in ServerType /\ n \in Nodes
    <3>. DEFINE r == [server EXCEPT !.pc = "first"]
    <3>1. r \in ServerType /\ r.pc = "first" /\ r.win = server.win /\ r.client = server.client
      BY <1>1 DEF ServerType
    <3>2. server' = [r EXCEPT !.node = n]
      BY <2>3
    <3>. HIDE DEF r
    <3>. QED BY <2>4, <3>1, <3>2 DEF ServerType, Places
  <2>10. server.client \in Made /\ server.win.id = server.client /\ server.client \notin Going
    <3>1. server.client \in Made /\ server.win.id = server.client
      BY <1>1, <1>3 DEF Threads
    <3>2. event.pc \in {"ends", "link"} => event.win.id # server.client
      BY <1>1, <1>3 DEF Threads, Coming
    <3>. QED BY <3>1, <3>2 DEF Going
  <2>11. server.win.id \notin Listed /\ Listed' = Listed \cup {server.win.id}
    BY <1>1, <1>2, <1>3, <2>9, <2>10 DEF Listed, Coming
  <2>12. IdsAre(m, t, Listed \cup {server.win.id})
    <3>1. IdsAre(list, s, Listed)
      BY DEF Kept, Ids
    <3>. QED BY <1>1, <2>4, <2>6, <2>7, <2>11, <3>1, LinkIds
  <2>13. TypeOK'
    BY <1>1, <2>3, <2>6, <2>9 DEF TypeOK, Linking
  <2>14. ListIs(t)'
    BY <1>1, <1>2, <2>3, <2>8, <2>9 DEF ListIs, Halfway
  <2>15. Ids(t)'
    BY <2>3, <2>11, <2>12 DEF Ids
  <2>16. Threads(t)'
    <3>1. event'.pc = "links" => \E k \in 1 .. Len(t) : t[k] = event'.node /\ m.node[t[k]].win = event'.win
      <4>. SUFFICES ASSUME event.pc = "links"
                    PROVE  \E k \in 1 .. Len(t) : t[k] = event.node /\ m.node[t[k]].win = event.win
        BY <1>1
      <4>1. PICK k \in 1 .. Len(s) : s[k] = event.node /\ list.node[s[k]].win = event.win
        BY <1>1 DEF Threads
      <4>2. k \in 1 .. Len(t) /\ t[k] = s[k] /\ s[k] \in Nodes \ {n}
        BY <1>1, <2>4, <2>7, Members
      <4>3. m.node[s[k]].win = list.node[s[k]].win
        BY <2>6, <4>2 DEF Linking
      <4>. QED BY <4>1, <4>2, <4>3
    <3>2. m.node[n].win = server.win
      BY <2>6 DEF Linking
    <3>3. event'.pc \in {"ends", "link"} => event'.win.id \in Made' \ Coming'
      BY <1>1, <2>9 DEF Threads, Coming
    <3>. QED BY <1>1, <2>3, <2>9, <2>10, <3>1, <3>2, <3>3 DEF Threads
  <2>17. Entering(s, t, server'.node, server.win)
    BY <2>3, <2>4, <2>6, <2>7, <2>9 DEF Entering, Linking
  <2>. QED BY <1>3, <2>8, <2>9, <2>13, <2>14, <2>15, <2>16, <2>17 DEF Kept
<1>4. CASE server.pc = "first"
  <2>1. /\ list' = InsertFirst(list, server.node) /\ server' = [server EXCEPT !.pc = "last"]
        /\ HungFirst(list, s, server.node)
    BY <1>1, <1>4 DEF ServerInserts, ListIs
  <2>2. /\ server'.pc = "last" /\ server'.node = server.node /\ server'.win = server.win
        /\ server'.client = server.client /\ server' \in ServerType
    BY <1>1, <2>1 DEF ServerType
  <2>3. HungLast(list', s, server.node) /\ list' \in Lists /\ list'.node = list.node
    <3>1. HungLast(list', s, server.node) /\ list' \in Lists /\ server.node \in Nodes
      BY <1>1, <2>1, FirstKeeps
    <3>. QED BY <1>1, <2>1, <3>1, FirstMakes
  <2>4. Coming' = Coming /\ Listed' = Listed
    BY <1>1, <1>2, <1>4, <2>2 DEF Listed, Coming
  <2>5. ListIs(s)'
    BY <1>1, <1>2, <2>2, <2>3 DEF ListIs, Halfway
  <2>6. Ids(s)'
    BY <2>3, <2>4 DEF Kept, Ids, IdsAre
  <2>7. Threads(s)'
    BY <1>1, <1>4, <2>2, <2>3, <2>4 DEF Threads
  <2>8. Kept(s)' /\ Staying(s, s)
    BY <1>1, <2>2, <2>3, <2>5, <2>6, <2>7 DEF Kept, TypeOK, Staying
  <2>. QED BY <1>4, <2>2, <2>8
<1>5. CASE server.pc = "last"
  <2>1. /\ list' = InsertLast(list, server.node) /\ server' = [server EXCEPT !.pc = "update"]
        /\ HungLast(list, s, server.node)
    BY <1>1, <1>5 DEF ServerInserts, ListIs
  <2>2. /\ server'.pc = "update" /\ server'.node = server.node /\ server'.win = server.win
        /\ server'.client = server.client /\ server' \in ServerType
    BY <1>1, <2>1 DEF ServerType
  <2>3. Whole(list', s) /\ list' \in Lists /\ list'.node = list.node
    <3>1. server.node \in Nodes
      BY <1>1, <2>1, Members DEF HungLast, Hung
    <3>. QED BY <1>1, <2>1, <3>1, LastKeeps, LastMakes
  <2>4. Coming' = Coming /\ Listed' = Listed
    BY <1>1, <1>2, <1>5, <2>2 DEF Listed, Coming
  <2>5. ListIs(s)'
    BY <1>1, <1>2, <2>2, <2>3 DEF ListIs, Halfway
  <2>6. Ids(s)'
    BY <2>3, <2>4 DEF Kept, Ids, IdsAre
  <2>7. Threads(s)'
    BY <1>1, <1>5, <2>2, <2>3, <2>4 DEF Threads, Halfway
  <2>8. Kept(s)' /\ Staying(s, s)
    BY <1>1, <2>2, <2>3, <2>5, <2>6, <2>7 DEF Kept, TypeOK, Staying
  <2>. QED BY <1>5, <2>2, <2>8
<1>. QED BY <1>3, <1>4, <1>5 DEF ServerInserts

(* The event thread raises a window, and the server is not halfway. *)
LEMMA RaiseKept ==
  ASSUME NEW s, Kept(s), Raise, ~clash'
  PROVE  \E t : /\ Kept(t)'
                /\ \/ event.pc = "links" /\ event'.pc = "ends" /\ Leaving(s, t, event.node)
                   \/ event.pc = "ends" /\ event'.pc = "link" /\ Staying(s, t)
                   \/ event.pc = "link" /\ event'.pc = "first" /\ Entering(s, t, event'.node, event.win)
                   \/ event.pc = "first" /\ event'.pc = "last" /\ Staying(s, t)
                   \/ event.pc = "last" /\ event'.pc = "raised" /\ Staying(s, t)
                /\ event'.win = event.win /\ event'.up_x = event.up_x
<1>1. /\ UNCHANGED <<server, client>> /\ server.pc \notin Halfway
      /\ list \in Lists /\ event \in EventType /\ server \in ServerType /\ client \in ClientType
      /\ s \in Seq(Nodes) /\ Distinct(s) /\ ListIs(s) /\ Threads(s) /\ Made' = Made /\ Coming' = Coming
  BY DEF Raise, Rest, Clashes, Kept, TypeOK, Made, Coming
<1>2. server.pc # "ends" /\ server.pc # "first" /\ server.pc # "last"
  BY <1>1 DEF Halfway
<1>a. IdsAre(list, s, Listed)
  BY DEF Kept, Ids
<1>3. CASE event.pc = "links"
  <2>1. PICK q \in 1 .. Len(s) : s[q] = event.node /\ list.node[s[q]].win = event.win
    BY <1>1, <1>3 DEF Threads
  <2>2. PICK m : m = RemoveLinks(list, event.node)
    OBVIOUS
  <2>3. list' = m /\ event' = [event EXCEPT !.pc = "ends"]
    BY <1>3, <2>2 DEF Raise
  <2>4. /\ event'.pc = "ends" /\ event'.node = event.node /\ event'.win = event.win /\ event'.up_x = event.up_x
        /\ event' \in EventType
    BY <1>1, <2>3 DEF EventType, Raising
  <2>5. PICK t : t = RemoveAt(s, q)
    OBVIOUS
  <2>6. Whole(list, s) /\ event.node \in Nodes
    BY <1>1, <1>3, <2>1, Members DEF ListIs, Halfway
  <2>7. Unlinking(m, list, event.node)
    BY <1>1, <2>2, <2>6, UnlinkMakes
  <2>8. t \in Seq(Nodes) /\ Distinct(t) /\ Unlinked(m, t, event.node)
    BY <1>1, <2>1, <2>5, <2>6, <2>7, UnlinkKeeps
  <2>9. Listed' = Listed \ {event.win.id} /\ event.win.id \in Made \ Coming
    <3>1. Going = {} /\ Going' = {event.win.id}
      BY <1>3, <2>4 DEF Going
    <3>2. event.win.id \in Listed
      BY <1>a, <2>1 DEF IdsAre
    <3>. QED BY <1>1, <3>1, <3>2 DEF Listed
  <2>10. IdsAre(m, t, Listed \ {event.win.id})
    <3>1. IdsAre(m, t, Listed \ {list.node[s[q]].win.id})
      BY <1>1, <1>a, <2>1, <2>5, <2>7, UnlinkIds
    <3>. QED BY <2>1, <3>1
  <2>11. TypeOK'
    BY <1>1, <2>3, <2>4, <2>7 DEF TypeOK, Unlinking, SameButNodes
  <2>12. ListIs(t)'
    BY <1>1, <1>2, <2>3, <2>4, <2>8 DEF ListIs, Halfway
  <2>13. Ids(t)'
    BY <2>3, <2>9, <2>10 DEF Ids
  <2>14. Threads(t)'
    BY <1>1, <1>2, <2>4, <2>9 DEF Threads
  <2>15. Leaving(s, t, event.node)
    BY <2>1, <2>3, <2>5, <2>7 DEF Leaving, Unlinking
  <2>. QED BY <1>3, <2>4, <2>8, <2>11, <2>12, <2>13, <2>14, <2>15 DEF Kept
<1>4. CASE event.pc = "ends"
  <2>1. /\ list' = RemoveEnds(list, event.node) /\ event' = [event EXCEPT !.pc = "link"]
        /\ Unlinked(list, s, event.node)
    BY <1>1, <1>4 DEF Raise, ListIs
  <2>2. /\ event'.pc = "link" /\ event'.node = event.node /\ event'.win = event.win /\ event'.up_x = event.up_x
        /\ event' \in EventType
    BY <1>1, <2>1 DEF EventType, Raising
  <2>3. Whole(list', s) /\ list' \in Lists /\ list'.node = list.node
    <3>1. event.node \in Nodes
      BY <2>1 DEF Unlinked
    <3>. QED BY <1>1, <2>1, <3>1, EndsKeeps, EndsMakes
  <2>4. Listed' = Listed
    BY <1>1, <1>4, <2>2 DEF Listed, Going
  <2>5. ListIs(s)'
    BY <1>1, <1>2, <2>2, <2>3 DEF ListIs, Halfway
  <2>6. Ids(s)'
    BY <1>a, <2>3, <2>4 DEF Ids, IdsAre
  <2>7. Threads(s)'
    BY <1>1, <1>2, <1>4, <2>2, <2>3, <2>4 DEF Threads, Halfway
  <2>8. Kept(s)' /\ Staying(s, s)
    BY <1>1, <2>2, <2>3, <2>5, <2>6, <2>7 DEF Kept, TypeOK, Staying
  <2>. QED BY <1>4, <2>2, <2>8
<1>5. CASE event.pc = "link"
  <2>1. PICK n : n = FreeNode(list)
    OBVIOUS
  <2>2. PICK m : m = InsertLink(list, n, event.win)
    OBVIOUS
  <2>3. list' = m /\ event' = [event EXCEPT !.pc = "first", !.node = n]
    BY <1>5, <2>1, <2>2 DEF Raise
  <2>4. Whole(list, s) /\ n \in Nodes \ Range(s) /\ event.win \in Wins
    <3>1. Whole(list, s)
      BY <1>1, <1>5 DEF ListIs, Halfway
    <3>. QED BY <1>1, <2>1, <3>1, Room DEF EventType
  <2>5. n # list.end
    BY <1>1, <2>4, NodesAre, Members DEF Whole, At
  <2>6. Linking(m, list, n, event.win)
    BY <1>1, <2>2, <2>4, <2>5, LinkMakes
  <2>7. PICK t : t = Append(s, n)
    OBVIOUS
  <2>8. t \in Seq(Nodes) /\ Distinct(t) /\ HungFirst(m, t, n)
    BY <1>1, <2>4, <2>6, <2>7, LinkKeeps
  <2>9. /\ event'.pc = "first" /\ event'.node = n /\ event'.win = event.win /\ event'.up_x = event.up_x
        /\ event' \in EventType /\ n \in Nodes
    <3>. DEFINE r == [event EXCEPT !.pc = "first"]
    <3>1. r \in EventType /\ r.pc = "first" /\ r.win = event.win /\ r.up_x = event.up_x
      BY <1>1 DEF EventType, Raising
    <3>2. event' = [r EXCEPT !.node = n]
      BY <2>3
    <3>. HIDE DEF r
    <3>. QED BY <2>4, <3>1, <3>2 DEF EventType, Places
  <2>10. event.win.id \in Made \ Coming
    BY <1>1, <1>5 DEF Threads
  <2>11. event.win.id \notin Listed /\ Listed' = Listed \cup {event.win.id}
    BY <1>1, <1>2, <1>5, <2>9, <2>10 DEF Listed, Going
  <2>12. IdsAre(m, t, Listed \cup {event.win.id})
    BY <1>1, <1>a, <2>4, <2>6, <2>7, <2>11, LinkIds
  <2>13. TypeOK'
    BY <1>1, <2>3, <2>6, <2>9 DEF TypeOK, Linking
  <2>14. ListIs(t)'
    BY <1>1, <1>2, <2>3, <2>8, <2>9 DEF ListIs, Halfway
  <2>15. Ids(t)'
    BY <2>3, <2>11, <2>12 DEF Ids
  <2>16. Threads(t)'
    BY <1>1, <1>2, <2>9 DEF Threads
  <2>17. Entering(s, t, event'.node, event.win)
    BY <2>3, <2>4, <2>6, <2>7, <2>9 DEF Entering, Linking
  <2>. QED BY <1>5, <2>8, <2>9, <2>13, <2>14, <2>15, <2>16, <2>17 DEF Kept
<1>6. CASE event.pc = "first"
  <2>1. /\ list' = InsertFirst(list, event.node) /\ event' = [event EXCEPT !.pc = "last"]
        /\ HungFirst(list, s, event.node)
    BY <1>1, <1>6 DEF Raise, ListIs
  <2>2. /\ event'.pc = "last" /\ event'.node = event.node /\ event'.win = event.win /\ event'.up_x = event.up_x
        /\ event' \in EventType
    BY <1>1, <2>1 DEF EventType, Raising
  <2>3. HungLast(list', s, event.node) /\ list' \in Lists /\ list'.node = list.node
    <3>1. HungLast(list', s, event.node) /\ list' \in Lists /\ event.node \in Nodes
      BY <1>1, <2>1, FirstKeeps
    <3>. QED BY <1>1, <2>1, <3>1, FirstMakes
  <2>4. Listed' = Listed
    BY <1>1, <1>6, <2>2 DEF Listed, Going
  <2>5. ListIs(s)'
    BY <1>1, <1>2, <2>2, <2>3 DEF ListIs, Halfway
  <2>6. Ids(s)'
    BY <1>a, <2>3, <2>4 DEF Ids, IdsAre
  <2>7. Threads(s)'
    BY <1>1, <1>2, <1>6, <2>2, <2>3, <2>4 DEF Threads, Halfway
  <2>8. Kept(s)' /\ Staying(s, s)
    BY <1>1, <2>2, <2>3, <2>5, <2>6, <2>7 DEF Kept, TypeOK, Staying
  <2>. QED BY <1>6, <2>2, <2>8
<1>7. CASE event.pc = "last"
  <2>1. /\ list' = InsertLast(list, event.node) /\ event' = [event EXCEPT !.pc = "raised"]
        /\ HungLast(list, s, event.node)
    BY <1>1, <1>7 DEF Raise, ListIs
  <2>2. /\ event'.pc = "raised" /\ event'.node = event.node /\ event'.win = event.win /\ event'.up_x = event.up_x
        /\ event' \in EventType
    BY <1>1, <2>1 DEF EventType, Raising
  <2>3. Whole(list', s) /\ list' \in Lists /\ list'.node = list.node
    <3>1. event.node \in Nodes
      BY <1>1, <2>1, Members DEF HungLast, Hung
    <3>. QED BY <1>1, <2>1, <3>1, LastKeeps, LastMakes
  <2>4. Listed' = Listed
    BY <1>1, <1>7, <2>2 DEF Listed, Going
  <2>5. ListIs(s)'
    BY <1>1, <1>2, <2>2, <2>3 DEF ListIs, Halfway
  <2>6. Ids(s)'
    BY <1>a, <2>3, <2>4 DEF Ids, IdsAre
  <2>7. Threads(s)'
    BY <1>1, <1>2, <1>7, <2>2, <2>3, <2>4 DEF Threads, Halfway
  <2>8. Kept(s)' /\ Staying(s, s)
    BY <1>1, <2>2, <2>3, <2>5, <2>6, <2>7 DEF Kept, TypeOK, Staying
  <2>. QED BY <1>7, <2>2, <2>8
<1>. QED BY <1>3, <1>4, <1>5, <1>6, <1>7 DEF Raise

(* The mouse meets only windows that are in the list, and not the one that  *)
(* the server is about to enter.                                            *)
LEMMA HitIs ==
  ASSUME NEW s, Kept(s), Taking, Hit # Null
  PROVE  \E q \in 1 .. Len(s) : Hit = s[q] /\ (server.pc \in {"first", "last"} => s[q] # server.node)
<1>1. /\ s \in Seq(Nodes) /\ Distinct(s) /\ ListIs(s) /\ Len(s) \in Nat /\ list \in Lists
      /\ event.pc \notin Halfway
  BY DEF Kept, TypeOK, Taking, Halfway
<1>2. PICK e \in 0 .. Len(s) : /\ list.end = At(s, e) /\ Linked(list, s)
                               /\ server.pc \in {"first", "last"} => e = Len(s) - 1 /\ server.node = s[Len(s)] /\ Len(s) > 0
  <2>1. CASE server.pc \in {"first", "last"}
    <3>1. Hung(list, s, server.node)
      BY <1>1, <2>1 DEF ListIs, HungFirst, HungLast
    <3>2. Len(s) > 0
      BY <1>1, <3>1 DEF Hung
    <3>. QED BY <1>1, <3>1, <3>2 DEF Hung
  <2>2. CASE server.pc \notin {"first", "last"}
    <3>1. server.pc \notin Halfway
      BY <2>2 DEF Halfway, Kept, TypeOK, ServerType
    <3>. QED BY <1>1, <2>2, <3>1 DEF ListIs, Whole
  <2>. QED BY <2>1, <2>2
<1>. DEFINE S == {s[k] : k \in 1 .. e}
            back == Backward(list)
            under == {k \in DOMAIN back : LET win == list.node[back[k]].win
                                          IN  win.x <= mouse /\ mouse < rect_max_coord(win)}
<1>3. S \subseteq Nodes
  BY <1>1
<1>4. list.end \in S \cup {Null}
  BY <1>1, <1>2, AtIs DEF At
<1>5. ASSUME NEW x \in S PROVE list.node[x]["prev"] \in S \cup {Null}
  <2>1. PICK k \in 1 .. e : x = s[k]
    OBVIOUS
  <2>a. k \in 1 .. Len(s)
    BY <1>1
  <2>2. list.node[s[k]].prev = At(s, k - 1)
    BY <1>2, <2>a DEF Linked
  <2>3. k - 1 \in 1 .. e \/ k - 1 = 0
    BY <1>1
  <2>. QED BY <1>1, <2>1, <2>2, <2>3 DEF At
<1>6. PICK j \in Nat : back \in [1 .. j -> S] /\ DOMAIN back = 1 .. j
  <2>. HIDE DEF S
  <2>. QED BY <1>3, <1>4, <1>5, AlongStays DEF Backward
<1>7. under # {} /\ Hit = back[Min(under)]
  BY DEF Hit
<1>8. Min(under) \in 1 .. j
  <2>1. under \subseteq 1 .. j
    BY <1>6
  <2>2. under \subseteq Nat
    BY <2>1
  <2>. HIDE DEF under
  <2>. QED BY <1>7, <2>1, <2>2, MinIs
<1>9. Hit \in S
  <2>. HIDE DEF S, under, back
  <2>. QED BY <1>6, <1>7, <1>8
<1>10. PICK q \in 1 .. e : Hit = s[q]
  BY <1>9
<1>11. server.pc \in {"first", "last"} => s[q] # server.node
  BY <1>1, <1>2, <1>10 DEF Distinct
<1>. QED BY <1>1, <1>10, <1>11

(* The event thread as MouseMoved leaves it. *)
LEMMA MovedEvent ==
  ASSUME event \in EventType, event' = [event EXCEPT !.pc = "more", !.up_x = 0, !.node = Null, !.win = NoWin]
  PROVE  event' = [pc |-> "more", up_x |-> 0, node |-> Null, win |-> NoWin] /\ event' \in EventType
<1>. DEFINE a == [event EXCEPT !.pc = "more"]
            b == [a EXCEPT !.up_x = 0]
            c == [b EXCEPT !.node = Null]
            d == [c EXCEPT !.win = NoWin]
<1>1. NoWin \in Wins /\ Null \in Places
  BY SizeAssumption DEF NoWin, Wins, Places
<1>2. event' = d
  OBVIOUS
<1>3. a \in EventType /\ a.pc = "more"
  BY DEF EventType
<1>. HIDE DEF a
<1>4. b \in EventType /\ b.pc = "more" /\ b.up_x = 0
  BY <1>3 DEF EventType
<1>. HIDE DEF b
<1>5. c \in EventType /\ c.pc = "more" /\ c.up_x = 0 /\ c.node = Null
  BY <1>1, <1>4 DEF EventType
<1>. HIDE DEF c
<1>6. d \in EventType /\ d.pc = "more" /\ d.up_x = 0 /\ d.node = Null /\ d.win = NoWin
  BY <1>1, <1>5 DEF EventType
<1>. HIDE DEF d
<1>7. d = [pc |-> "more", up_x |-> 0, node |-> Null, win |-> NoWin]
  BY <1>6 DEF EventType
<1>. QED BY <1>2, <1>6, <1>7

(* The mouse raises a window, drags one, or only moves. *)
LEMMA MouseKept ==
  ASSUME NEW s, Kept(s), NEW ev \in MouseEvents, handle_mouse(ev)
  PROVE  Kept(s)'
<1>1. /\ UNCHANGED <<server, client>> /\ Taking /\ event.pc \notin Surgery /\ ev.x \in Int
      /\ list \in Lists /\ event \in EventType /\ server \in ServerType /\ client \in ClientType
      /\ s \in Seq(Nodes) /\ Distinct(s) /\ ListIs(s) /\ Threads(s) /\ Ids(s)
      /\ Made' = Made /\ Coming' = Coming
  BY EventAssumption DEF handle_mouse, Kept, TypeOK, Taking, Surgery, Halfway, Made, Coming
<1>2. event.pc \notin Halfway /\ Going = {}
  BY <1>1 DEF Surgery, Halfway, Going
<1>3. CASE /\ Hit # Null
           /\ event' = [pc |-> "links", up_x |-> ev.x, node |-> Hit, win |-> list.node[Hit].win]
           /\ list' = list
  <2>1. PICK q \in 1 .. Len(s) : Hit = s[q]
    BY <1>1, <1>3, HitIs
  <2>2. Hit \in Nodes /\ list.node[Hit].win \in Wins
    BY <1>1, <2>1 DEF Lists, NodeType
  <2>3. event' \in EventType /\ event'.pc = "links" /\ event'.node = Hit /\ event'.win = list.node[Hit].win
    BY <1>1, <1>3, <2>2 DEF EventType, Raising, Places
  <2>4. Listed' = Listed
    BY <1>1, <1>2, <2>3 DEF Listed, Going
  <2>5. ListIs(s)'
    BY <1>1, <1>2, <1>3, <2>3 DEF ListIs, Halfway
  <2>6. Ids(s)'
    BY <1>1, <1>3, <2>4 DEF Ids
  <2>7. Threads(s)'
    BY <1>1, <1>3, <2>1, <2>3 DEF Threads, Halfway
  <2>. QED BY <1>1, <1>3, <2>3, <2>5, <2>6, <2>7 DEF Kept, TypeOK
<1>4. CASE /\ Hit # Null
           /\ list' = [list EXCEPT !.node[Hit].win = Dragged(list.node[Hit].win, ev.x)]
           /\ event' = [event EXCEPT !.pc = "more", !.up_x = 0, !.node = Null, !.win = NoWin]
  <2>1. PICK q \in 1 .. Len(s) : Hit = s[q] /\ (server.pc \in {"first", "last"} => s[q] # server.node)
    BY <1>1, <1>4, HitIs
  <2>2. PICK h : h = Hit
    OBVIOUS
  <2>3. PICK win : win = list.node[h].win
    OBVIOUS
  <2>4. h \in Nodes /\ win \in Wins
    BY <1>1, <2>1, <2>2, <2>3 DEF Lists, NodeType
  <2>5. PICK to : to = Dragged(win, ev.x)
    OBVIOUS
  <2>6. to \in Wins /\ to.id = win.id
    BY <1>1, <2>4, <2>5, DraggedType
  <2>7. list' = SetWin(list, h, to)
    BY <1>4, <2>2, <2>3, <2>5 DEF SetWin
  <2>8. /\ SameLinks(list', list)
        /\ \A k \in Nodes : list'.node[k].win = IF k = h THEN to ELSE list.node[k].win
    BY <1>1, <2>4, <2>6, <2>7, SetWinMakes DEF SameLinks
  <2>9. \A k \in Nodes : list'.node[k].win.id = list.node[k].win.id
    BY <2>3, <2>6, <2>8
  <2>10. event'.pc = "more" /\ event' \in EventType
    BY <1>1, <1>4, MovedEvent
  <2>11. Listed' = Listed
    BY <1>1, <1>2, <2>10 DEF Listed, Going
  <2>12. ListIs(s)'
    <3>1. /\ Whole(list, s) => Whole(list', s)
          /\ HungFirst(list, s, server.node) => HungFirst(list', s, server.node)
          /\ HungLast(list, s, server.node) => HungLast(list', s, server.node)
      BY <1>1, <2>8, WinKeeps
    <3>. QED BY <1>1, <1>2, <2>10, <3>1 DEF ListIs, Halfway
  <2>13. Ids(s)'
    <3>1. \A k \in 1 .. Len(s) : list'.node[s[k]].win.id = list.node[s[k]].win.id
      BY <1>1, <2>9
    <3>. QED BY <1>1, <2>11, <3>1 DEF Ids, IdsAre
  <2>14. Threads(s)'
    <3>1. server.pc \in {"first", "last"} => list'.node[server.node].win = server.win
      <4>. SUFFICES ASSUME server.pc \in {"first", "last"} PROVE list'.node[server.node].win = server.win
        OBVIOUS
      <4>1. Hung(list, s, server.node)
        BY <1>1 DEF ListIs, HungFirst, HungLast
      <4>2. server.node \in Nodes
        BY <1>1, <4>1, Members DEF Hung
      <4>3. list.node[server.node].win = server.win
        BY <1>1 DEF Threads
      <4>. QED BY <2>1, <2>2, <2>8, <4>2, <4>3
    <3>. QED BY <1>1, <2>10, <3>1 DEF Threads, Halfway
  <2>15. list' \in Lists
    BY <2>8 DEF SameLinks, SameButNodes
  <2>. QED BY <1>1, <2>10, <2>12, <2>13, <2>14, <2>15 DEF Kept, TypeOK
<1>5. CASE /\ list' = list
           /\ event' = [event EXCEPT !.pc = "more", !.up_x = 0, !.node = Null, !.win = NoWin]
  <2>1. event'.pc = "more" /\ event' \in EventType
    BY <1>1, <1>5, MovedEvent
  <2>2. event'.pc \notin Surgery
    BY <2>1 DEF Surgery, Halfway
  <2>. QED BY <1>1, <1>5, <2>1, <2>2, KeptStays
<1>. QED
  <2>1. \/ /\ Hit # Null
           /\ event' = [pc |-> "links", up_x |-> ev.x, node |-> Hit, win |-> list.node[Hit].win]
           /\ list' = list
        \/ /\ Hit # Null
           /\ list' = [list EXCEPT !.node[Hit].win = Dragged(list.node[Hit].win, ev.x)]
           /\ event' = [event EXCEPT !.pc = "more", !.up_x = 0, !.node = Null, !.win = NoWin]
        \/ /\ list' = list
           /\ event' = [event EXCEPT !.pc = "more", !.up_x = 0, !.node = Null, !.win = NoWin]
    BY Zenon DEF handle_mouse, MouseMoved
  <2>. QED BY <2>1, <1>3, <1>4, <1>5, Zenon

(* The other steps of the event thread. *)
LEMMA EventKept ==
  ASSUME NEW s, Kept(s), Draw \/ Copy \/ reset_updates \/ NoEvent \/ Raised \/ handle_client_update \/ handle_keyboard
  PROVE  Kept(s)'
<1>1. list \in Lists /\ event \in EventType /\ server \in ServerType /\ client \in ClientType
  BY DEF Kept, TypeOK
<1>2. CASE Draw \/ Copy \/ reset_updates \/ NoEvent \/ Raised \/ handle_client_update
  <2>1. UNCHANGED <<list, server, client>> /\ client' \in ClientType /\ Made' = Made
    BY <1>1, <1>2 DEF Draw, Copy, reset_updates, NoEvent, Raised, handle_client_update, Rest, Made
  <2>2. event.pc \notin Surgery /\ event'.pc \notin Surgery /\ event' \in EventType
    <3>1. CASE Raised
      <4>1. event' = [event EXCEPT !.pc = "more", !.up_x = 0, !.node = Null, !.win = NoWin] /\ event.pc = "raised"
        BY <3>1, Zenon DEF Raised, MouseMoved
      <4>2. event'.pc = "more" /\ event' \in EventType
        BY <1>1, <4>1, MovedEvent
      <4>. QED BY <4>1, <4>2 DEF Surgery, Halfway
    <3>2. CASE Draw \/ Copy \/ reset_updates \/ NoEvent \/ handle_client_update
      <4>1. PICK pc \in {"draw", "copy", "reset", "wait", "more"} : event' = [event EXCEPT !.pc = pc]
        BY <3>2 DEF Draw, Copy, reset_updates, NoEvent, handle_client_update, Handled
      <4>2. event'.pc = pc /\ event' \in EventType
        BY <1>1, <4>1 DEF EventType
      <4>3. event.pc \in {"draw", "copy", "reset", "wait", "more"}
        BY <3>2 DEF Draw, Copy, reset_updates, NoEvent, handle_client_update, Taking
      <4>. QED BY <4>2, <4>3 DEF Surgery, Halfway
    <3>. QED BY <1>2, <3>1, <3>2
  <2>. QED BY <2>1, <2>2, KeptStays
<1>3. CASE handle_keyboard
  <2>1. UNCHANGED <<list, server>> /\ event' = [event EXCEPT !.pc = "more"] /\ Taking
    BY <1>3 DEF handle_keyboard, Handled
  <2>2. event' \in EventType /\ event'.pc = "more" /\ event.pc \notin Surgery /\ event'.pc \notin Surgery
    BY <1>1, <2>1 DEF EventType, Taking, Surgery, Halfway
  <2>3. client' \in ClientType /\ DOMAIN client = Client /\ \A c \in Client : client'[c].pc = client[c].pc
    <3>1. PICK d : d = list.node[list.end].win.id
      OBVIOUS
    <3>2. client' = client \/ client' = [client EXCEPT ![d].keys = client[d].keys + 1]
      BY <1>3, <3>1 DEF handle_keyboard
    <3>. QED BY <1>1, <3>2 DEF ClientType
  <2>4. Made' = Made
    BY <2>3 DEF Made
  <2>. QED BY <2>1, <2>2, <2>3, <2>4, KeptStays
<1>. QED BY <1>2, <1>3

WindowsInv == ~clash => \E s : Kept(s)

(* Every step keeps the list whole, or the threads have both been in it. *)
LEMMA NextKeeps ==
  ASSUME WindowsInv, [Next]_vars
  PROVE  WindowsInv'
<1>. SUFFICES ASSUME ~clash' PROVE \E s : Kept(s)'
  BY DEF WindowsInv
<1>1. CASE UNCHANGED vars
  <2>1. UNCHANGED <<list, event, server, client, clash>>
    BY <1>1 DEF vars
  <2>2. PICK s : Kept(s)
    BY <2>1 DEF WindowsInv
  <2>3. Kept(s)'
    BY <2>1, <2>2 DEF Kept, TypeOK, ListIs, Ids, Threads, Listed, Made, Coming, Going
  <2>. QED BY <2>3
<1>2. CASE Next
  <2>1. ~clash
    BY <1>2 DEF Next
  <2>2. PICK s : Kept(s)
    BY <2>1 DEF WindowsInv
  <2>3. CASE \E ev \in MouseEvents : handle_mouse(ev)
    <3>1. PICK ev \in MouseEvents : handle_mouse(ev)
      BY <2>3
    <3>. QED BY <2>2, <3>1, MouseKept
  <2>4. CASE \E c \in Client : ClientRuns(c)
    <3>1. PICK c \in Client : stubbywm_new_window(c) \/ stubbywm_update(c)
      BY <2>4 DEF ClientRuns
    <3>. QED BY <2>2, <3>1, NewWindowKept, UpdateKept
  <2>5. CASE ServerInserts
    BY <2>2, <2>5, ServerInsertsKept
  <2>6. CASE ServerAllocs \/ ServerUpdates
    BY <2>2, <2>6, ServerUpdatesKept
  <2>7. CASE Raise
    BY <2>2, <2>7, RaiseKept
  <2>8. CASE Draw \/ Copy \/ reset_updates \/ NoEvent \/ Raised \/ handle_client_update \/ handle_keyboard
    BY <2>2, <2>8, EventKept
  <2>. QED BY <1>2, <2>3, <2>4, <2>5, <2>6, <2>7, <2>8, Zenon DEF Next, server_loop, event_loop
<1>. QED BY <1>1, <1>2

(* Outside the calls on the list, the walks meet every window once. *)
LEMMA KeptMeans ==
  ASSUME WindowsInv
  PROVE  WindowsKept
<1>. SUFFICES ASSUME ~clash, event.pc \notin Surgery, server.pc \notin Surgery
              PROVE  /\ Forward(list) = Reverse(Backward(list))
                     /\ Len(Forward(list)) = Cardinality(Entered)
                     /\ {list.node[Forward(list)[k]].win.id : k \in DOMAIN Forward(list)} = Entered
  BY DEF WindowsKept
<1>1. PICK s : Kept(s)
  BY DEF WindowsInv
<1>2. /\ s \in Seq(Nodes) /\ Distinct(s) /\ Len(s) \in Nat /\ Whole(list, s) /\ IdsAre(list, s, Listed)
      /\ DOMAIN s = 1 .. Len(s)
  BY <1>1 DEF Kept, ListIs, Surgery, Ids
<1>3. Forward(list) = s /\ Reverse(Backward(list)) = s
  BY <1>2, ForwardIs, BackwardIs DEF Whole
<1>4. Listed = Entered
  BY DEF Listed, Made, Coming, Going, Entered, Surgery, Halfway
<1>5. {list.node[s[k]].win.id : k \in 1 .. Len(s)} = Listed
  BY <1>2 DEF IdsAre
<1>6. Len(s) = Cardinality(Listed)
  <2>. DEFINE f == [k \in 1 .. Len(s) |-> list.node[s[k]].win.id]
  <2>1. IsFiniteSet(1 .. Len(s)) /\ Cardinality(1 .. Len(s)) = Len(s)
    BY <1>2, UpTo
  <2>2. f \in Bijection(1 .. Len(s), Listed)
    <3>1. f \in [1 .. Len(s) -> Listed]
      BY <1>2 DEF IdsAre
    <3>2. \A a, b \in 1 .. Len(s) : f[a] = f[b] => a = b
      BY <1>2 DEF IdsAre
    <3>3. \A c \in Listed : \E k \in 1 .. Len(s) : f[k] = c
      BY <1>2 DEF IdsAre
    <3>. QED BY <3>1, <3>2, <3>3 DEF Bijection, Injection, IsInjective, Surjection
  <2>. HIDE DEF f
  <2>3. ExistsBijection(1 .. Len(s), Listed)
    BY <2>2 DEF ExistsBijection
  <2>4. Cardinality(Listed) = Cardinality(1 .. Len(s))
    BY <2>1, <2>3, FS_Bijection
  <2>. QED BY <2>1, <2>4
<1>. QED BY <1>2, <1>3, <1>4, <1>5, <1>6

(* No window is lost or met twice while the threads keep apart in the list. *)
THEOREM ListKeepsWindows == Spec => []WindowsKept
<1>1. Init => WindowsInv
  BY InitKept DEF WindowsInv
<1>2. WindowsInv /\ [Next]_vars => WindowsInv'
  BY NextKeeps
<1>3. WindowsInv => WindowsKept
  BY KeptMeans
<1>. QED BY <1>1, <1>2, <1>3, PTL DEF Spec

-----------------------------------------------------------------------------
(* Regions. *)

Regions == Int \X Int
Covers(u, c) == \E k \in DOMAIN u : u[k][1] <= c /\ c < u[k][2]

(* A list of regions with one more covers what it covered, and the region.  *)
LEMMA AllocCovers ==
  ASSUME NEW u \in Seq(Regions), NEW a \in Int, NEW b \in Int
  PROVE  /\ alloc_update(u, <<a, b>>) \in Seq(Regions)
         /\ \A c \in Cells : Covers(u, c) \/ (a <= c /\ c < b) => Covers(alloc_update(u, <<a, b>>), c)
<1>1. CASE Len(u) + 1 >= MaxUpdates
  <2>1. alloc_update(u, <<a, b>>) = << <<0, Width>> >>
    BY <1>1 DEF alloc_update, Full
  <2>2. << <<0, Width>> >> \in Seq(Regions)
    BY SizeAssumption DEF Regions
  <2>3. \A c \in Cells : Covers(<< <<0, Width>> >>, c)
    BY SizeAssumption DEF Covers, Cells
  <2>. QED BY <2>1, <2>2, <2>3
<1>2. CASE ~(Len(u) + 1 >= MaxUpdates)
  <2>1. PICK r : r = <<a, b>>
    OBVIOUS
  <2>2. PICK v : v = Append(u, r)
    OBVIOUS
  <2>3. r \in Regions /\ r[1] = a /\ r[2] = b
    BY <2>1 DEF Regions
  <2>4. /\ v \in Seq(Regions) /\ DOMAIN v = 1 .. Len(u) + 1 /\ v[Len(u) + 1] = r /\ Len(u) \in Nat
        /\ DOMAIN u = 1 .. Len(u) /\ \A k \in 1 .. Len(u) : v[k] = u[k]
    BY <2>2, <2>3
  <2>5. ASSUME NEW c \in Cells, Covers(u, c) \/ (a <= c /\ c < b) PROVE Covers(v, c)
    <3>1. CASE Covers(u, c)
      <4>1. PICK k \in 1 .. Len(u) : u[k][1] <= c /\ c < u[k][2]
        BY <2>4, <3>1 DEF Covers
      <4>2. k \in DOMAIN v /\ v[k] = u[k]
        BY <2>4
      <4>. QED BY <4>1, <4>2 DEF Covers
    <3>2. CASE a <= c /\ c < b
      <4>1. Len(u) + 1 \in DOMAIN v /\ v[Len(u) + 1] = r
        BY <2>4
      <4>. QED BY <2>3, <3>2, <4>1 DEF Covers
    <3>. QED BY <2>5, <3>1, <3>2
  <2>. QED BY <1>2, <2>1, <2>2, <2>4, <2>5 DEF alloc_update
<1>. QED BY <1>1, <1>2

(* The lesser and the greater of two numbers. *)
LEMMA PairIs ==
  ASSUME NEW a \in Int, NEW b \in Int
  PROVE  Min({a, b}) = (IF a <= b THEN a ELSE b) /\ Max({a, b}) = (IF a <= b THEN b ELSE a)
<1>1. \E x \in {a, b} : \A y \in {a, b} : x <= y
  OBVIOUS
<1>2. \E x \in {a, b} : \A y \in {a, b} : x >= y
  OBVIOUS
<1>. QED BY <1>1, <1>2 DEF Min, Max

(* update_region covers the screen's cells from a to b. *)
LEMMA RegionCovers ==
  ASSUME NEW u \in Seq(Regions), NEW a \in Int, NEW b \in Int
  PROVE  /\ update_region(u, a, b) \in Seq(Regions)
         /\ \A c \in Cells : Covers(u, c) \/ (a <= c /\ c < b) => Covers(update_region(u, a, b), c)
<1>1. PICK x \in Int, y \in Int : x = normalize_point(Min({a, b})) /\ y = normalize_point(Max({a, b}))
  BY PairIs, SizeAssumption DEF normalize_point
<1>2. update_region(u, a, b) = alloc_update(u, <<x, y>>)
  BY <1>1 DEF update_region
<1>3. \A c \in Cells : a <= c /\ c < b => x <= c /\ c < y
  BY <1>1, PairIs, SizeAssumption DEF normalize_point, Cells
<1>. QED BY <1>2, <1>3, AllocCovers

(* The region of a window covers it with its border. *)
LEMMA WindowCovers ==
  ASSUME NEW u \in Seq(Regions), NEW win \in Wins
  PROVE  /\ update_window_region(u, win) \in Seq(Regions)
         /\ \A c \in Cells : Covers(u, c) \/ c \in Borders(win) => Covers(update_window_region(u, win), c)
<1>1. PICK a \in Int, b \in Int : /\ a = normalize_point(win.x - Border)
                                  /\ b = normalize_point(normalize_point(win.x + WinWidth) + Border)
  BY SizeAssumption DEF normalize_point, Wins
<1>2. update_window_region(u, win) = update_region(u, a, b)
  BY <1>1 DEF update_window_region, rect_max_coord
<1>3. \A c \in Cells : c \in Borders(win) => a <= c /\ c < b
  BY <1>1, SizeAssumption DEF normalize_point, Wins, Cells, Borders
<1>. QED BY <1>2, <1>3, RegionCovers

(* The region of the mouse covers the cursor. *)
LEMMA MouseCovers ==
  ASSUME NEW u \in Seq(Regions), NEW x \in Int
  PROVE  /\ update_mouse_region(u, x) \in Seq(Regions)
         /\ \A c \in Cells : Covers(u, c) \/ c \in x .. x + Cursor - 1 => Covers(update_mouse_region(u, x), c)
<1>1. x + Cursor \in Int /\ update_mouse_region(u, x) = update_region(u, x, x + Cursor)
  BY SizeAssumption DEF update_mouse_region
<1>2. \A c \in Cells : c \in x .. x + Cursor - 1 => x <= c /\ c < x + Cursor
  BY SizeAssumption DEF Cells
<1>. QED BY <1>1, <1>2, RegionCovers

-----------------------------------------------------------------------------
(* What a cell shows, for the windows w from the bottom to the top. *)

Stack(l, s) == [k \in 1 .. Len(s) |-> l.node[s[k]].win]
Look(win, cl, c) == IF c \in Inside(win) THEN <<win.id, cl[win.id].drawn>> ELSE <<win.id, "border">>
Tops(w, n, k, c) == k \in 1 .. n /\ c \in Borders(w[k]) /\ \A j \in 1 .. n : c \in Borders(w[j]) => j <= k
Bare(w, n, c) == \A k \in 1 .. n : c \notin Borders(w[k])
OnCursor(mo, c) == c \in mo .. mo + Cursor - 1
Shows(w, n, cl, mo, c, p) ==
  \/ OnCursor(mo, c) /\ p = <<"cursor">>
  \/ ~OnCursor(mo, c) /\ Bare(w, n, c) /\ p = <<"background">>
  \/ ~OnCursor(mo, c) /\ \E k \in 1 .. n : Tops(w, n, k, c) /\ p = Look(w[k], cl, c)

(* A cell shows one thing. *)
LEMMA ShowsOne ==
  ASSUME NEW w, NEW n \in Nat, NEW cl, NEW mo, NEW c, NEW p, NEW r,
         Shows(w, n, cl, mo, c, p), Shows(w, n, cl, mo, c, r)
  PROVE  p = r
<1>1. \A j, k \in 1 .. n : Tops(w, n, j, c) /\ Tops(w, n, k, c) => j = k
  BY DEF Tops
<1>2. \A k \in 1 .. n : Tops(w, n, k, c) => ~Bare(w, n, c)
  BY DEF Tops, Bare
<1>3. CASE OnCursor(mo, c)
  BY <1>3, Zenon DEF Shows
<1>4. CASE ~OnCursor(mo, c) /\ Bare(w, n, c)
  BY <1>2, <1>4, Zenon DEF Shows
<1>5. CASE ~OnCursor(mo, c) /\ ~Bare(w, n, c)
  <2>1. PICK j \in 1 .. n : Tops(w, n, j, c) /\ p = Look(w[j], cl, c)
    BY <1>5, Zenon DEF Shows
  <2>2. PICK k \in 1 .. n : Tops(w, n, k, c) /\ r = Look(w[k], cl, c)
    BY <1>5, Zenon DEF Shows
  <2>3. j = k
    BY <1>1, <2>1, <2>2
  <2>. QED BY <2>1, <2>2, <2>3, Zenon
<1>. QED BY <1>3, <1>4, <1>5, Zenon

(* What draw_framebuffer draws is what the windows met from the start of    *)
(* the list show.                                                           *)
LEMMA PictureIs ==
  ASSUME NEW s \in Seq(Nodes), Forward(list) = s, NEW c
  PROVE  Shows(Stack(list, s), Len(s), client, mouse, c, Picture(c))
<1>. DEFINE w == [k \in DOMAIN s |-> list.node[s[k]].win]
            over == {k \in DOMAIN w : c \in Borders(w[k])}
<1>1. w = Stack(list, s) /\ DOMAIN w = 1 .. Len(s) /\ Len(s) \in Nat
  BY DEF Stack
<1>2. draw_windows(c) = IF over = {} THEN <<"background">>
                        ELSE IF c \in Inside(w[Max(over)]) THEN <<w[Max(over)].id, client[w[Max(over)].id].drawn>>
                        ELSE <<w[Max(over)].id, "border">>
  BY DEF draw_windows
<1>. HIDE DEF w
<1>3. CASE OnCursor(mouse, c)
  BY <1>3 DEF Shows, Picture, OnCursor
<1>4. CASE ~OnCursor(mouse, c)
  <2>1. Picture(c) = draw_windows(c)
    BY <1>4 DEF Picture, OnCursor
  <2>2. CASE over = {}
    <3>1. Bare(w, Len(s), c)
      BY <1>1, <2>2 DEF Bare
    <3>. QED BY <1>1, <1>2, <1>4, <2>1, <2>2, <3>1 DEF Shows
  <2>3. CASE over # {}
    <3>1. over \subseteq 1 .. Len(s)
      BY <1>1
    <3>2. Max(over) \in over /\ \A k \in over : k <= Max(over)
      <4>. HIDE DEF over
      <4>. QED BY <1>1, <2>3, <3>1, MaxIs
    <3>3. PICK m : m = Max(over)
      OBVIOUS
    <3>4. m \in 1 .. Len(s) /\ Tops(w, Len(s), m, c)
      BY <1>1, <3>2, <3>3 DEF Tops
    <3>5. Picture(c) = Look(w[m], client, c)
      BY <1>2, <2>1, <2>3, <3>3 DEF Look
    <3>. QED BY <1>1, <1>4, <3>4, <3>5 DEF Shows
  <2>. QED BY <2>2, <2>3
<1>. QED BY <1>3, <1>4

(* A window that moves from and to elsewhere does not change a cell, nor    *)
(* does the mouse.                                                          *)
LEMMA ShowsSame ==
  ASSUME NEW w, NEW v, NEW n \in Nat, NEW cl, NEW mo, NEW mn, NEW c, NEW p,
         Shows(w, n, cl, mo, c, p), OnCursor(mo, c) <=> OnCursor(mn, c),
         \A k \in 1 .. n : v[k] = w[k] \/ (c \notin Borders(v[k]) /\ c \notin Borders(w[k]))
  PROVE  Shows(v, n, cl, mn, c, p)
<1>1. \A k \in 1 .. n : c \in Borders(v[k]) <=> c \in Borders(w[k])
  OBVIOUS
<1>2. Bare(w, n, c) => Bare(v, n, c)
  BY <1>1 DEF Bare
<1>3. \A k \in 1 .. n : Tops(w, n, k, c) => Tops(v, n, k, c) /\ v[k] = w[k]
  BY <1>1 DEF Tops
<1>. QED BY <1>2, <1>3, Zenon DEF Shows

(* A window on top, elsewhere. *)
LEMMA ShowsAppend ==
  ASSUME NEW w, NEW v, NEW n \in Nat, NEW cl, NEW mo, NEW c, NEW p,
         Shows(w, n, cl, mo, c, p), \A k \in 1 .. n : v[k] = w[k], c \notin Borders(v[n + 1])
  PROVE  Shows(v, n + 1, cl, mo, c, p)
<1>1. \A k \in 1 .. n + 1 : k \in 1 .. n \/ k = n + 1
  OBVIOUS
<1>2. \A k \in 1 .. n + 1 : c \in Borders(v[k]) => k \in 1 .. n /\ c \in Borders(w[k])
  BY <1>1
<1>3. Bare(w, n, c) => Bare(v, n + 1, c)
  BY <1>2 DEF Bare
<1>4. \A k \in 1 .. n : Tops(w, n, k, c) => k \in 1 .. n + 1 /\ Tops(v, n + 1, k, c) /\ v[k] = w[k]
  BY <1>2 DEF Tops
<1>. QED BY <1>3, <1>4, Zenon DEF Shows

(* A window taken from elsewhere. *)
LEMMA ShowsRemove ==
  ASSUME NEW w, NEW v, NEW n \in Nat, NEW q \in 1 .. n, NEW cl, NEW mo, NEW c, NEW p,
         Shows(w, n, cl, mo, c, p), c \notin Borders(w[q]),
         \A k \in 1 .. n - 1 : v[k] = IF k < q THEN w[k] ELSE w[k + 1]
  PROVE  Shows(v, n - 1, cl, mo, c, p)
<1>1. \A k \in 1 .. n - 1 : \E a \in 1 .. n : a = (IF k < q THEN k ELSE k + 1) /\ v[k] = w[a]
  OBVIOUS
<1>2. Bare(w, n, c) => Bare(v, n - 1, c)
  BY <1>1 DEF Bare
<1>3. ASSUME NEW a \in 1 .. n, Tops(w, n, a, c)
      PROVE  \E k \in 1 .. n - 1 : Tops(v, n - 1, k, c) /\ v[k] = w[a]
  <2>1. a # q /\ c \in Borders(w[a])
    BY <1>3 DEF Tops
  <2>2. PICK k \in 1 .. n - 1 : k = (IF a < q THEN a ELSE a - 1)
    BY <2>1
  <2>3. v[k] = w[a]
    <3>1. a = IF k < q THEN k ELSE k + 1
      BY <2>1, <2>2
    <3>. QED BY <3>1
  <2>4. ASSUME NEW j \in 1 .. n - 1, c \in Borders(v[j]) PROVE j <= k
    <3>1. PICK b \in 1 .. n : b = (IF j < q THEN j ELSE j + 1) /\ v[j] = w[b]
      BY <1>1
    <3>2. b <= a
      BY <1>3, <2>4, <3>1 DEF Tops
    <3>. QED BY <2>1, <2>2, <3>1, <3>2
  <2>. QED BY <2>1, <2>3, <2>4 DEF Tops
<1>. QED BY <1>2, <1>3, Zenon DEF Shows

(* New pictures of the clients D change nothing but cells of their windows. *)
OfClients(w, n) == \A k \in 1 .. n : w[k].id \in Client
SameDrawn(cl, dl, D) == \A d \in Client \ D : dl[d].drawn = cl[d].drawn
Redrawn(r, p, D) == r = p \/ (r[1] = p[1] /\ p[1] \in D)
(* What the cell showed is still of the same client. *)
LEMMA ShowsDrawn ==
  ASSUME NEW w, NEW n \in Nat, NEW cl, NEW dl, NEW D, NEW mo, NEW c, NEW p,
         Shows(w, n, cl, mo, c, p), OfClients(w, n), SameDrawn(cl, dl, D)
  PROVE  \E r : Shows(w, n, dl, mo, c, r) /\ Redrawn(r, p, D)
<1>1. CASE OnCursor(mo, c) \/ Bare(w, n, c)
  <2>1. ~OnCursor(mo, c) => \A k \in 1 .. n : ~Tops(w, n, k, c)
    BY <1>1 DEF Tops, Bare
  <2>. QED BY <1>1, <2>1, Zenon DEF Shows, Redrawn
<1>2. CASE ~(OnCursor(mo, c) \/ Bare(w, n, c))
  <2>1. PICK k \in 1 .. n : Tops(w, n, k, c) /\ p = Look(w[k], cl, c)
    BY <1>2, Zenon DEF Shows
  <2>2. PICK r : r = Look(w[k], dl, c)
    OBVIOUS
  <2>3. Shows(w, n, dl, mo, c, r)
    BY <1>2, <2>1, <2>2, Zenon DEF Shows
  <2>4. r[1] = w[k].id /\ p[1] = w[k].id
    BY <2>1, <2>2 DEF Look
  <2>5. w[k].id \notin D => r = p
    BY <2>1, <2>2 DEF Look, OfClients, SameDrawn
  <2>. QED BY <2>3, <2>4, <2>5 DEF Redrawn
<1>. QED BY <1>1, <1>2

-----------------------------------------------------------------------------
(* The invariant of the framebuffer: a cell that is not as the windows are  *)
(* will be redrawn, for its client's update, for a region or for a window   *)
(* that a thread has in hand.  While a frame is being copied, the cells to  *)
(* redraw are in the buffer.                                                *)

Seen(c) == IF event.pc = "copy" /\ Covered(c) THEN buf[c] ELSE fb[c]
Agrees(p, f, q) == f = p \/ (p[1] \in Client /\ f[1] = p[1] /\ Contains(q, p[1]))
Fresh(s, c) == \E p : Shows(Stack(list, s), Len(s), client, mouse, c, p) /\ Agrees(p, Seen(c), queue)
Excused(c) ==
  \/ event.pc \in Raising /\ c \in Borders(event.win)
  \/ server.pc \in {"first", "last", "update", "fill"} /\ c \in Borders(server.win)
Right(s) == ~raced => \A c \in Cells : Fresh(s, c) \/ (event.pc \notin Frame /\ Covered(c)) \/ Excused(c)
ScreenType == updates \in Seq(Regions) /\ mouse \in 0 .. Width /\ queue \in Seq(Client)

(* The place the mouse leaves is redrawn after the window is raised. *)
MouseHeld == ~raced /\ event.pc \in Raising => \A c \in Cells : OnCursor(mouse, c) => Covered(c)

(* Without a race, the server has no slot in hand while a frame is made. *)
Apart == ~raced /\ server.pc = "fill" => event.pc \notin Frame
Good(s) == Kept(s) /\ ScreenType /\ MouseHeld /\ Apart /\ Right(s)

(* Windows in the list are of clients. *)
LEMMA StackIds ==
  ASSUME NEW s, Kept(s)
  PROVE  s \in Seq(Nodes) /\ Len(s) \in Nat /\ \A k \in 1 .. Len(s) : Stack(list, s)[k].id \in Client
<1>1. \A k \in 1 .. Len(s) : list.node[s[k]].win.id \in Client
  BY DEF Kept, Ids, IdsAre, Listed, Made
<1>2. s \in Seq(Nodes) /\ Len(s) \in Nat
  BY DEF Kept
<1>. QED BY <1>1, <1>2 DEF Stack

(* What a cell holds, or is about to, is not touched by a step outside of   *)
(* frames that leaves the framebuffer alone, or by one that leaves both     *)
(* pictures and the regions alone.                                          *)
LEMMA SeenStays ==
  ASSUME fb' = fb, \/ event.pc # "copy" /\ event'.pc # "copy"
                   \/ UNCHANGED <<event, updates, buf>>
  PROVE  \A c : Seen(c)' = Seen(c)
BY DEF Seen, Covered

(* A cell stays fresh when nothing it shows is touched. *)
LEMMA FreshStays ==
  ASSUME NEW s, NEW c, Fresh(s, c), list'.node = list.node, UNCHANGED <<client, mouse, queue>>, Seen(c)' = Seen(c)
  PROVE  Fresh(s, c)'
<1>1. Stack(list', s) = Stack(list, s)
  BY DEF Stack
<1>2. PICK p : Shows(Stack(list, s), Len(s), client, mouse, c, p) /\ Agrees(p, Seen(c), queue)
  BY DEF Fresh
<1>3. Shows(Stack(list', s), Len(s), client', mouse', c, p) /\ Agrees(p, Seen(c)', queue')
  BY <1>1, <1>2
<1>. QED BY <1>3 DEF Fresh

(* And when the pictures of some clients change, if they say so. *)
LEMMA FreshDrawn ==
  ASSUME NEW s, Kept(s), NEW c, Fresh(s, c), NEW D, D \subseteq Client,
         UNCHANGED <<list, mouse>>, Seen(c)' = Seen(c), \A d \in Client \ D : client'[d].drawn = client[d].drawn,
         \A x : Contains(queue, x) \/ x \in D => Contains(queue', x)
  PROVE  Fresh(s, c)'
<1>1. PICK p : Shows(Stack(list, s), Len(s), client, mouse, c, p) /\ Agrees(p, Seen(c), queue)
  BY DEF Fresh
<1>2. PICK r : /\ Shows(Stack(list, s), Len(s), client', mouse, c, r)
               /\ Redrawn(r, p, D)
  <2>1. PICK w : w = Stack(list, s)
    OBVIOUS
  <2>2. Len(s) \in Nat /\ OfClients(w, Len(s)) /\ SameDrawn(client, client', D)
    BY <2>1, StackIds DEF OfClients, SameDrawn
  <2>3. Shows(w, Len(s), client, mouse, c, p)
    BY <1>1, <2>1
  <2>4. \E r : Shows(w, Len(s), client', mouse, c, r) /\ Redrawn(r, p, D)
    BY <2>2, <2>3, ShowsDrawn, Zenon
  <2>. QED BY <2>1, <2>4
<1>3. Agrees(r, Seen(c), queue')
  <2>1. Agrees(p, Seen(c), queue')
    BY <1>1 DEF Agrees
  <2>2. r[1] = p[1] /\ p[1] \in D => Agrees(r, Seen(c), queue')
    BY <1>1 DEF Agrees
  <2>. QED BY <1>2, <2>1, <2>2 DEF Redrawn
<1>. QED BY <1>2, <1>3 DEF Fresh

-----------------------------------------------------------------------------
(* The clients. *)

(* A client that is announced shows nothing yet. *)
LEMMA NewWindowGood ==
  ASSUME NEW s, Good(s), NEW d \in Client, stubbywm_new_window(d)
  PROVE  Good(s)'
<1>1. /\ server.pc = "listen" /\ UNCHANGED <<list, event, updates, mouse, buf, fb, queue, raced>>
      /\ client' = [client EXCEPT ![d].pc = "new"] /\ Kept(s) /\ client \in ClientType
  BY DEF stubbywm_new_window, Good, Kept, TypeOK
<1>2. Kept(s)'
  BY <1>1, NewWindowKept
<1>3. \A x \in Client : client'[x].drawn = client[x].drawn
  BY <1>1 DEF ClientType
<1>s. \A c : Seen(c)' = Seen(c)
  BY <1>1, SeenStays
<1>4. ASSUME NEW c, Fresh(s, c) PROVE Fresh(s, c)'
  <2>1. PICK D : D = {}
    OBVIOUS
  <2>. QED BY <1>1, <1>3, <1>4, <1>s, <2>1, FreshDrawn
<1>5. \A c : Covered(c)' <=> Covered(c)
  BY <1>1 DEF Covered
<1>6. \A c : Excused(c) => Excused(c)'
  BY <1>1 DEF Excused
<1>7. Right(s)'
  BY <1>1, <1>4, <1>5, <1>6 DEF Right, Good
<1>8. MouseHeld' /\ ScreenType' /\ Apart'
  BY <1>1, <1>5 DEF MouseHeld, ScreenType, Apart, Good, stubbywm_new_window, server_handle_new_window
<1>. QED BY <1>2, <1>7, <1>8 DEF Good

(* A picture that changes has its update in the queue. *)
LEMMA UpdateGood ==
  ASSUME NEW s, Good(s), NEW d \in Client, stubbywm_update(d)
  PROVE  Good(s)'
<1>1. /\ UNCHANGED <<list, event, server, updates, mouse, buf, fb, raced>> /\ queue \in Seq(Client)
      /\ queue' = Append(queue, d) /\ Kept(s) /\ client \in ClientType
  BY DEF stubbywm_update, Good, Kept, TypeOK, ScreenType
<1>2. Kept(s)'
  BY <1>1, UpdateKept
<1>3. \A x \in Client \ {d} : client'[x].drawn = client[x].drawn
  BY <1>1 DEF ClientType, stubbywm_update
<1>4. queue' \in Seq(Client) /\ \A x : Contains(queue, x) \/ x \in {d} => Contains(queue', x)
  <2>1. /\ queue' \in Seq(Client) /\ Len(queue') = Len(queue) + 1 /\ Len(queue) \in Nat
        /\ queue'[Len(queue) + 1] = d /\ \A i \in 1 .. Len(queue) : queue'[i] = queue[i]
    BY <1>1
  <2>2. \A i \in 1 .. Len(queue) : i \in 1 .. Len(queue')
    BY <2>1
  <2>3. Len(queue) + 1 \in 1 .. Len(queue')
    BY <2>1
  <2>. QED BY <2>1, <2>2, <2>3 DEF Contains
<1>s. \A c : Seen(c)' = Seen(c)
  BY <1>1, SeenStays
<1>5. ASSUME NEW c, Fresh(s, c) PROVE Fresh(s, c)'
  <2>1. PICK D : D = {d}
    OBVIOUS
  <2>. QED BY <1>1, <1>3, <1>4, <1>5, <1>s, <2>1, FreshDrawn
<1>6. \A c : (Covered(c)' <=> Covered(c)) /\ (Excused(c)' <=> Excused(c))
  BY <1>1 DEF Covered, Excused
<1>7. Right(s)'
  BY <1>1, <1>5, <1>6 DEF Right, Good
<1>8. MouseHeld' /\ ScreenType' /\ Apart'
  BY <1>1, <1>4, <1>6 DEF MouseHeld, ScreenType, Apart, Good
<1>. QED BY <1>2, <1>7, <1>8 DEF Good

(* Keys change no picture yet. *)
LEMMA KeyboardGood ==
  ASSUME NEW s, Good(s), handle_keyboard
  PROVE  Good(s)'
<1>1. /\ UNCHANGED <<list, server, updates, mouse, buf, fb, queue, raced>> /\ Kept(s) /\ client \in ClientType
      /\ event \in EventType /\ event' = [event EXCEPT !.pc = "more"] /\ Taking
  BY DEF handle_keyboard, Handled, Good, Kept, TypeOK
<1>2. Kept(s)'
  BY <1>1, EventKept
<1>3. \A x \in Client : client'[x].drawn = client[x].drawn
  <2>1. PICK d : d = list.node[list.end].win.id
    OBVIOUS
  <2>2. client' = client \/ client' = [client EXCEPT ![d].keys = client[d].keys + 1]
    BY <2>1 DEF handle_keyboard
  <2>. QED BY <1>1, <2>2 DEF ClientType
<1>5. event'.pc = "more" /\ event.pc \notin Raising /\ event.pc \notin Frame /\ event'.pc \notin Frame /\ event.pc # "copy"
  BY <1>1 DEF EventType, Taking, Raising, Frame
<1>s. \A c : Seen(c)' = Seen(c)
  BY <1>1, <1>5, SeenStays
<1>4. ASSUME NEW c, Fresh(s, c) PROVE Fresh(s, c)'
  <2>1. PICK D : D = {}
    OBVIOUS
  <2>. QED BY <1>1, <1>3, <1>4, <1>s, <2>1, FreshDrawn
<1>6. \A c : (Covered(c)' <=> Covered(c)) /\ (Excused(c) => Excused(c)')
  BY <1>1, <1>5 DEF Covered, Excused
<1>7. Right(s)'
  BY <1>1, <1>4, <1>5, <1>6 DEF Right, Good
<1>8. MouseHeld' /\ ScreenType' /\ Apart'
  BY <1>1, <1>5, <1>6 DEF MouseHeld, ScreenType, Apart, Good, Raising
<1>. QED BY <1>2, <1>7, <1>8 DEF Good

-----------------------------------------------------------------------------
(* Windows that enter and leave the list. *)

(* A window that enters changes no cell but its own. *)
LEMMA EnterFresh ==
  ASSUME NEW s \in Seq(Nodes), NEW t, NEW n, NEW win, Entering(s, t, n, win), NEW c, Fresh(s, c),
         UNCHANGED <<client, mouse, queue>>, Seen(c)' = Seen(c), c \notin Borders(win)
  PROVE  Fresh(t, c)'
<1>1. /\ Len(t) = Len(s) + 1 /\ t[Len(s) + 1] = n /\ Len(s) \in Nat
      /\ \A k \in 1 .. Len(s) : t[k] = s[k] /\ s[k] \in Nodes \ {n}
  BY Members DEF Entering
<1>2. PICK w : w = Stack(list, s)
  OBVIOUS
<1>3. PICK v : v = Stack(list', t)
  OBVIOUS
<1>4. /\ \A k \in 1 .. Len(s) : v[k] = w[k]
      /\ v[Len(s) + 1] = win
  <2>1. \A k \in 1 .. Len(s) + 1 : v[k] = list'.node[t[k]].win
    BY <1>1, <1>3 DEF Stack
  <2>2. \A k \in 1 .. Len(s) : w[k] = list.node[s[k]].win
    BY <1>1, <1>2 DEF Stack
  <2>3. list'.node[n].win = win /\ \A k \in Nodes \ {n} : list'.node[k].win = list.node[k].win
    BY DEF Entering
  <2>4. \A k \in 1 .. Len(s) : k \in 1 .. Len(s) + 1
    BY <1>1
  <2>5. Len(s) + 1 \in 1 .. Len(s) + 1
    BY <1>1
  <2>. QED BY <1>1, <2>1, <2>2, <2>3, <2>4, <2>5
<1>5. PICK p : Shows(w, Len(s), client, mouse, c, p) /\ Agrees(p, Seen(c), queue)
  BY <1>2 DEF Fresh
<1>6. Shows(v, Len(s) + 1, client, mouse, c, p)
  <2>1. c \notin Borders(v[Len(s) + 1])
    BY <1>4
  <2>. QED BY <1>1, <1>4, <1>5, <2>1, ShowsAppend
<1>. QED BY <1>1, <1>3, <1>5, <1>6 DEF Fresh

(* Nor does one that leaves. *)
LEMMA LeaveFresh ==
  ASSUME NEW s \in Seq(Nodes), NEW t, NEW n, Leaving(s, t, n), NEW c, Fresh(s, c),
         UNCHANGED <<client, mouse, queue>>, Seen(c)' = Seen(c), c \notin Borders(list.node[n].win)
  PROVE  Fresh(t, c)'
<1>1. PICK q \in 1 .. Len(s) : s[q] = n /\ t = RemoveAt(s, q)
  BY DEF Leaving
<1>2. /\ t \in Seq(Nodes) /\ Len(t) = Len(s) - 1 /\ Len(s) \in Nat
      /\ \A k \in 1 .. Len(t) : t[k] = IF k < q THEN s[k] ELSE s[k + 1]
  BY <1>1, RemovedIs
<1>3. PICK w : w = Stack(list, s)
  OBVIOUS
<1>4. PICK v : v = Stack(list', t)
  OBVIOUS
<1>5. \A k \in 1 .. Len(s) : w[k] = list.node[s[k]].win
  BY <1>2, <1>3 DEF Stack
<1>6. ASSUME NEW k \in 1 .. Len(s) - 1 PROVE v[k] = IF k < q THEN w[k] ELSE w[k + 1]
  <2>1. k \in 1 .. Len(t) /\ k \in 1 .. Len(s) /\ k + 1 \in 1 .. Len(s)
    BY <1>2
  <2>2. v[k] = list'.node[t[k]].win /\ t[k] \in Nodes
    BY <1>2, <1>4, <2>1 DEF Stack
  <2>3. v[k] = list.node[t[k]].win
    BY <2>2 DEF Leaving
  <2>4. t[k] = IF k < q THEN s[k] ELSE s[k + 1]
    BY <1>2, <2>1
  <2>. QED BY <1>5, <2>1, <2>3, <2>4
<1>7. PICK p : Shows(w, Len(s), client, mouse, c, p) /\ Agrees(p, Seen(c), queue)
  BY <1>3 DEF Fresh
<1>8. Shows(v, Len(s) - 1, client, mouse, c, p)
  <2>1. c \notin Borders(w[q])
    BY <1>1, <1>5
  <2>. QED BY <1>2, <1>6, <1>7, <2>1, ShowsRemove
<1>. QED BY <1>2, <1>4, <1>7, <1>8 DEF Fresh

(* The server's window is entered; its region comes later, and until then   *)
(* its cells are excused.                                                   *)
LEMMA ServerInsertsGood ==
  ASSUME NEW s, Good(s), ServerInserts, ~clash'
  PROVE  \E t : Good(t)'
<1>1. /\ UNCHANGED <<event, client, updates, mouse, buf, fb, queue, raced>> /\ Kept(s) /\ s \in Seq(Nodes)
  BY DEF ServerInserts, Elsewhere, Good, Kept
<1>2. PICK t : /\ Kept(t)'
               /\ \/ server.pc = "link" /\ server'.pc = "first" /\ Entering(s, t, server'.node, server.win)
                  \/ server.pc = "first" /\ server'.pc = "last" /\ Staying(s, t)
                  \/ server.pc = "last" /\ server'.pc = "update" /\ Staying(s, t)
               /\ server'.win = server.win
  BY <1>1, ServerInsertsKept
<1>3. \A c : Covered(c)' <=> Covered(c)
  BY <1>1 DEF Covered
<1>4. MouseHeld' /\ ScreenType' /\ Apart'
  BY <1>1, <1>2, <1>3 DEF MouseHeld, ScreenType, Apart, Good
<1>5. \A c : Excused(c) => Excused(c)'
  BY <1>1, <1>2 DEF Excused
<1>s. \A c : Seen(c)' = Seen(c)
  BY <1>1, SeenStays
<1>6. ASSUME NEW c, Fresh(s, c), ~Excused(c)' PROVE Fresh(t, c)'
  <2>1. CASE server.pc = "link" /\ server'.pc = "first" /\ Entering(s, t, server'.node, server.win)
    <3>1. c \notin Borders(server.win)
      BY <1>2, <1>6, <2>1 DEF Excused
    <3>2. PICK n : n = server'.node
      OBVIOUS
    <3>3. Entering(s, t, n, server.win)
      BY <2>1, <3>2
    <3>. QED BY <1>1, <1>6, <1>s, <3>1, <3>3, EnterFresh
  <2>2. CASE Staying(s, t)
    <3>1. t = s /\ list'.node = list.node
      BY <2>2 DEF Staying
    <3>2. Fresh(s, c)'
      BY <1>1, <1>6, <1>s, <3>1, FreshStays
    <3>. QED BY <3>1, <3>2
  <2>. QED BY <1>2, <2>1, <2>2
<1>7. Right(t)'
  BY <1>1, <1>3, <1>5, <1>6 DEF Right, Good
<1>. QED BY <1>2, <1>4, <1>7 DEF Good

(* The window raised leaves and enters again; its cells are excused until   *)
(* MouseMoved.                                                              *)
LEMMA RaiseGood ==
  ASSUME NEW s, Good(s), Raise, ~clash'
  PROVE  \E t : Good(t)'
<1>1. /\ UNCHANGED <<server, client, updates, mouse, buf, fb, queue, raced>> /\ Kept(s) /\ s \in Seq(Nodes)
  BY DEF Raise, Rest, Good, Kept
<1>2. PICK t : /\ Kept(t)'
               /\ \/ event.pc = "links" /\ event'.pc = "ends" /\ Leaving(s, t, event.node)
                  \/ event.pc = "ends" /\ event'.pc = "link" /\ Staying(s, t)
                  \/ event.pc = "link" /\ event'.pc = "first" /\ Entering(s, t, event'.node, event.win)
                  \/ event.pc = "first" /\ event'.pc = "last" /\ Staying(s, t)
                  \/ event.pc = "last" /\ event'.pc = "raised" /\ Staying(s, t)
               /\ event'.win = event.win /\ event'.up_x = event.up_x
  BY <1>1, RaiseKept
<1>3. \A c : Covered(c)' <=> Covered(c)
  BY <1>1 DEF Covered
<1>4. event.pc \in Raising /\ event'.pc \in Raising /\ event'.pc \notin Frame /\ event.pc \notin Frame
      /\ event.pc # "copy" /\ event'.pc # "copy"
  BY <1>2 DEF Raising, Frame
<1>5. MouseHeld' /\ ScreenType' /\ Apart'
  BY <1>1, <1>3, <1>4 DEF MouseHeld, ScreenType, Apart, Good
<1>6. \A c : Excused(c) => Excused(c)'
  BY <1>1, <1>2, <1>4 DEF Excused
<1>s. \A c : Seen(c)' = Seen(c)
  BY <1>1, <1>4, SeenStays
<1>7. ASSUME NEW c, Fresh(s, c), ~Excused(c)' PROVE Fresh(t, c)'
  <2>1. c \notin Borders(event.win)
    BY <1>2, <1>4, <1>7 DEF Excused
  <2>2. CASE event.pc = "links" /\ Leaving(s, t, event.node)
    <3>1. list.node[event.node].win = event.win
      BY <1>1, <2>2 DEF Kept, Threads
    <3>. QED BY <1>1, <1>7, <1>s, <2>1, <2>2, <3>1, LeaveFresh
  <2>3. CASE Entering(s, t, event'.node, event.win)
    <3>1. PICK n : n = event'.node
      OBVIOUS
    <3>2. Entering(s, t, n, event.win)
      BY <2>3, <3>1
    <3>. QED BY <1>1, <1>7, <1>s, <2>1, <3>2, EnterFresh
  <2>4. CASE Staying(s, t)
    <3>1. t = s /\ list'.node = list.node
      BY <2>4 DEF Staying
    <3>2. Fresh(s, c)'
      BY <1>1, <1>7, <1>s, <3>1, FreshStays
    <3>. QED BY <3>1, <3>2
  <2>. QED BY <1>2, <2>2, <2>3, <2>4
<1>8. Right(t)'
  BY <1>1, <1>3, <1>4, <1>6, <1>7 DEF Right, Good
<1>. QED BY <1>2, <1>5, <1>8 DEF Good

(* The server takes a slot: a race with a frame being made, if there is one. *)
LEMMA ServerAllocsGood ==
  ASSUME NEW s, Good(s), ServerAllocs
  PROVE  Good(s)'
<1>1. /\ server.pc = "update" /\ UNCHANGED <<list, event, client, updates, mouse, buf, fb, queue>> /\ Kept(s)
      /\ raced' = (raced \/ event.pc \in Frame) /\ server' = [server EXCEPT !.pc = "fill"] /\ server \in ServerType
  BY DEF ServerAllocs, Elsewhere, Good, Kept, TypeOK
<1>2. Kept(s)'
  BY ServerUpdatesKept DEF Good
<1>3. server'.pc = "fill" /\ server'.win = server.win
  BY <1>1 DEF ServerType
<1>4. \A c : (Covered(c)' <=> Covered(c)) /\ (Excused(c) => Excused(c)')
  BY <1>1, <1>3 DEF Covered, Excused
<1>5. MouseHeld' /\ ScreenType' /\ Apart'
  BY <1>1, <1>4 DEF MouseHeld, ScreenType, Apart, Good
<1>6. \A c : Fresh(s, c) => Fresh(s, c)'
  <2>1. \A c : Seen(c)' = Seen(c)
    BY <1>1, SeenStays
  <2>. QED BY <1>1, <2>1, FreshStays
<1>7. Right(s)'
  BY <1>1, <1>4, <1>6 DEF Right, Good
<1>. QED BY <1>2, <1>5, <1>7 DEF Good

(* A list of regions stays one when a race drops a region. *)
LEMMA DroppedType ==
  ASSUME NEW u \in Seq(Regions), NEW v \in Seq(Regions), v # << >>
  PROVE  Dropped(u, v) \subseteq Seq(Regions)
<1>. SUFFICES ASSUME u # << >> PROVE Append(Front(u), Last(v)) \in Seq(Regions)
  BY DEF Dropped
<1>1. Last(v) \in Regions
  BY DEF Last
<1>2. Front(u) \in Seq(Regions)
  BY DEF Front
<1>. QED BY <1>1, <1>2

(* The region of a new window covers it, unless there was a race. *)
LEMMA ServerUpdatesGood ==
  ASSUME NEW s, Good(s), ServerUpdates
  PROVE  Good(s)'
<1>0. PICK v : v = update_window_region(updates, server.win)
  OBVIOUS
<1>1. /\ server.pc = "fill" /\ UNCHANGED <<list, event, client, mouse, buf, fb, queue, raced>> /\ Kept(s)
      /\ updates' = v \/ (raced /\ updates' \in Dropped(updates, v))
      /\ server'.pc = "listen" /\ server.win \in Wins /\ updates \in Seq(Regions)
  BY <1>0 DEF ServerUpdates, Elsewhere, Good, Kept, TypeOK, ServerType, ScreenType
<1>2. Kept(s)'
  BY <1>1, ServerUpdatesKept
<1>3. /\ v \in Seq(Regions)
      /\ \A c \in Cells : Covers(updates, c) \/ c \in Borders(server.win) => Covers(v, c)
  BY <1>0, <1>1, WindowCovers
<1>4. ~raced => \A c \in Cells : Covered(c) \/ c \in Borders(server.win) => Covered(c)'
  BY <1>1, <1>3 DEF Covered, Covers
<1>5. updates' \in Seq(Regions)
  <2>1. v # << >>
    BY <1>0, <1>1 DEF update_window_region, update_region, alloc_update, ScreenType
  <2>. QED BY <1>1, <1>3, <2>1, DroppedType
<1>6. MouseHeld' /\ ScreenType' /\ Apart'
  BY <1>1, <1>4, <1>5 DEF MouseHeld, ScreenType, Apart, Good
<1>7. \A c : Excused(c) => Excused(c)' \/ c \in Borders(server.win)
  BY <1>1 DEF Excused
<1>8. ASSUME ~raced' PROVE Right(s)'
  <2>1. event.pc \notin Frame /\ event.pc # "copy" /\ ~raced
    BY <1>1, <1>8 DEF Good, Apart, Frame
  <2>2. \A c : Seen(c)' = Seen(c)
    BY <1>1, <2>1, SeenStays
  <2>3. \A c : Fresh(s, c) => Fresh(s, c)'
    BY <1>1, <2>2, FreshStays
  <2>. QED BY <1>1, <1>4, <1>7, <2>1, <2>3 DEF Right, Good
<1>9. Right(s)'
  BY <1>8 DEF Right
<1>. QED BY <1>2, <1>6, <1>9 DEF Good

-----------------------------------------------------------------------------
(* Frames. *)

(* While the event thread is out of the list, a walk from its start meets   *)
(* all windows but a first one that the server has linked and not entered.  *)
LEMMA ForwardCases ==
  ASSUME NEW s, Kept(s), event.pc \notin Halfway
  PROVE  \/ Forward(list) = s
         \/ /\ server.pc = "first" /\ Len(s) = 1 /\ Forward(list) = << >>
            /\ list.node[s[1]].win = server.win
<1>1. s \in Seq(Nodes) /\ Distinct(s) /\ ListIs(s) /\ Threads(s) /\ Len(s) \in Nat /\ server \in ServerType
  BY DEF Kept, TypeOK
<1>2. CASE server.pc \notin Halfway
  BY <1>1, <1>2, ForwardIs DEF ListIs, Whole
<1>3. CASE server.pc \in Halfway
  <2>1. server.pc = "first" \/ server.pc = "last"
    BY <1>1, <1>3 DEF Halfway, ServerType
  <2>2. Hung(list, s, server.node) /\ list.start = IF server.pc = "first" /\ Len(s) = 1 THEN Null ELSE s[1]
    BY <1>1, <2>1 DEF ListIs, HungFirst, HungLast
  <2>3. Linked(list, s) /\ Len(s) > 0 /\ s[Len(s)] = server.node
    BY <1>1, <2>2 DEF Hung
  <2>4. CASE server.pc = "first" /\ Len(s) = 1
    <3>1. Forward(list) = << >>
      BY <2>2, <2>4, ForwardNone
    <3>2. list.node[server.node].win = server.win
      BY <1>1, <2>1 DEF Threads
    <3>. QED BY <2>3, <2>4, <3>1, <3>2
  <2>5. CASE ~(server.pc = "first" /\ Len(s) = 1)
    <3>1. list.start = At(s, 1)
      BY <1>1, <2>2, <2>3, <2>5 DEF At
    <3>. QED BY <1>1, <2>3, <3>1, ForwardIs
  <2>. QED BY <2>4, <2>5
<1>. QED BY <1>2, <1>3

(* What a frame draws is what the windows show, but for a window that the   *)
(* server has in hand.                                                      *)
LEMMA FrameShows ==
  ASSUME NEW s, Kept(s), event.pc \notin Halfway, NEW c
  PROVE  \/ Shows(Stack(list, s), Len(s), client, mouse, c, Picture(c))
         \/ server.pc = "first" /\ c \in Borders(server.win)
<1>1. s \in Seq(Nodes)
  BY DEF Kept
<1>2. CASE Forward(list) = s
  BY <1>1, <1>2, PictureIs
<1>3. CASE /\ server.pc = "first" /\ Len(s) = 1 /\ Forward(list) = << >>
           /\ list.node[s[1]].win = server.win
  <2>. SUFFICES ASSUME c \notin Borders(server.win)
                PROVE  Shows(Stack(list, s), Len(s), client, mouse, c, Picture(c))
    BY <1>3
  <2>a. << >> \in Seq(Nodes)
    OBVIOUS
  <2>1. PICK e \in Seq(Nodes) : e = << >>
    BY <2>a, Zenon
  <2>2. PICK w : w = Stack(list, e)
    OBVIOUS
  <2>3. PICK v : v = Stack(list, s)
    OBVIOUS
  <2>4. Shows(w, 0, client, mouse, c, Picture(c))
    <3>1. Shows(w, Len(e), client, mouse, c, Picture(c))
      BY <1>3, <2>1, <2>2, PictureIs
    <3>2. Len(e) = 0
      BY <2>1
    <3>. QED BY <3>1, <3>2
  <2>5. v[0 + 1] = server.win
    BY <1>3, <2>3 DEF Stack
  <2>6. c \notin Borders(v[0 + 1]) /\ \A k \in 1 .. 0 : v[k] = w[k]
    BY <2>5
  <2>7. Shows(v, 0 + 1, client, mouse, c, Picture(c))
    BY <2>4, <2>6, ShowsAppend
  <2>8. Len(s) = 0 + 1
    BY <1>3
  <2>. QED BY <2>3, <2>7, <2>8
<1>. QED BY <1>2, <1>3, ForwardCases

(* A frame brings every cell to redraw up to date, in the buffer, but for a *)
(* window the server has in hand.                                           *)
LEMMA DrawGood ==
  ASSUME NEW s, Good(s), Draw
  PROVE  Good(s)'
<1>1. /\ event.pc = "draw" /\ event' = [event EXCEPT !.pc = "copy"] /\ event \in EventType /\ Kept(s)
      /\ UNCHANGED <<list, updates, mouse, fb, queue, client, server>> /\ buf' = Drawn
      /\ raced' = (raced \/ server.pc = "fill")
  BY DEF Draw, Races, Rest, Good, Kept, TypeOK
<1>2. Kept(s)'
  BY <1>1, EventKept
<1>3. event'.pc = "copy" /\ event.pc \notin Raising /\ event.pc \notin Halfway /\ event.pc \notin Frame
  BY <1>1 DEF EventType, Raising, Halfway, Frame
<1>4. \A c : (Covered(c)' <=> Covered(c)) /\ (Excused(c) => Excused(c)')
  BY <1>1, <1>3 DEF Covered, Excused
<1>5. MouseHeld' /\ ScreenType' /\ Apart'
  BY <1>1, <1>3 DEF MouseHeld, ScreenType, Apart, Good, Raising
<1>6. ASSUME NEW c \in Cells, ~raced PROVE Fresh(s, c)' \/ Excused(c)'
  <2>1. CASE Covered(c)
    <3>1. Seen(c)' = Picture(c)
      <4>1. Seen(c)' = buf'[c]
        BY <1>3, <1>4, <2>1 DEF Seen
      <4>. QED BY <1>1, <2>1, <4>1 DEF Drawn
    <3>2. CASE Shows(Stack(list, s), Len(s), client, mouse, c, Picture(c))
      <4>1. PICK p : p = Picture(c)
        OBVIOUS
      <4>2. Shows(Stack(list', s), Len(s), client', mouse', c, p) /\ Agrees(p, Seen(c)', queue')
        BY <1>1, <3>1, <3>2, <4>1 DEF Agrees
      <4>. QED BY <4>2 DEF Fresh
    <3>3. CASE server.pc = "first" /\ c \in Borders(server.win)
      BY <1>1, <3>3 DEF Excused
    <3>. QED BY <1>1, <1>3, <3>2, <3>3, FrameShows
  <2>2. CASE ~Covered(c)
    <3>1. Fresh(s, c) \/ Excused(c)
      BY <1>6, <2>2 DEF Good, Right
    <3>2. Seen(c)' = Seen(c)
      BY <1>1, <1>4, <2>2 DEF Seen
    <3>3. Fresh(s, c) => Fresh(s, c)'
      BY <1>1, <3>2, FreshStays
    <3>. QED BY <1>4, <3>1, <3>3
  <2>. QED BY <2>1, <2>2
<1>7. Right(s)'
  BY <1>1, <1>6 DEF Right
<1>. QED BY <1>2, <1>5, <1>7 DEF Good

(* The regions are copied as they were drawn. *)
LEMMA CopyGood ==
  ASSUME NEW s, Good(s), Copy
  PROVE  Good(s)'
<1>1. /\ event.pc = "copy" /\ event' = [event EXCEPT !.pc = "reset"] /\ event \in EventType /\ Kept(s)
      /\ UNCHANGED <<list, updates, mouse, queue, client, server>>
      /\ fb' = draw_framebuffer \/ (server.pc = "fill" /\ fb' = buf)
      /\ raced' = (raced \/ server.pc = "fill")
  BY DEF Copy, Races, Rest, Good, Kept, TypeOK
<1>2. Kept(s)'
  BY <1>1, EventKept
<1>3. event'.pc = "reset" /\ event.pc \notin Raising /\ event'.pc \notin Raising /\ event.pc \in Frame
  BY <1>1 DEF EventType, Raising, Frame
<1>4. \A c : (Covered(c)' <=> Covered(c)) /\ (Excused(c) => Excused(c)')
  BY <1>1, <1>3 DEF Covered, Excused
<1>5. MouseHeld' /\ ScreenType' /\ Apart'
  BY <1>1, <1>3 DEF MouseHeld, ScreenType, Apart, Good
<1>6. ASSUME NEW c \in Cells, ~raced' PROVE Fresh(s, c)' \/ Excused(c)'
  <2>1. ~raced /\ fb' = draw_framebuffer
    BY <1>1, <1>6
  <2>2. Fresh(s, c) \/ Excused(c)
    BY <1>3, <2>1 DEF Good, Right
  <2>3. Seen(c)' = Seen(c)
    <3>1. Seen(c)' = fb'[c]
      BY <1>3 DEF Seen
    <3>. QED BY <1>1, <2>1, <3>1 DEF Seen, draw_framebuffer
  <2>4. Fresh(s, c) => Fresh(s, c)'
    BY <1>1, <2>3, FreshStays
  <2>. QED BY <1>4, <2>2, <2>4
<1>7. Right(s)'
  BY <1>6 DEF Right
<1>. QED BY <1>2, <1>5, <1>7 DEF Good

(* The regions are dropped only after the frame that drew them. *)
LEMMA ResetGood ==
  ASSUME NEW s, Good(s), reset_updates \/ NoEvent
  PROVE  Good(s)'
<1>1. /\ UNCHANGED <<list, mouse, fb, queue, client, server>> /\ Kept(s) /\ event \in EventType
      /\ updates' = updates \/ (updates' = << >> /\ event.pc = "reset")
      /\ event.pc \in {"reset", "more"} /\ \E pc \in {"wait", "draw"} : event' = [event EXCEPT !.pc = pc]
      /\ (event.pc = "more" => updates' = updates)
  BY DEF reset_updates, NoEvent, Rest, Good, Kept, TypeOK
<1>r. raced => raced'
  BY Zenon DEF reset_updates, NoEvent, Races
<1>2. Kept(s)'
  BY <1>1, EventKept
<1>3. /\ event'.pc \in {"wait", "draw"} /\ event.pc \notin Raising /\ event'.pc \notin Raising
      /\ event'.pc \notin Frame /\ event.pc # "copy" /\ event'.pc # "copy"
  BY <1>1 DEF EventType, Raising, Frame
<1>4. \A c : Excused(c) => Excused(c)'
  BY <1>1, <1>3 DEF Excused
<1>5. MouseHeld' /\ ScreenType' /\ Apart'
  <2>1. << >> \in Seq(Regions)
    OBVIOUS
  <2>2. updates' \in Seq(Regions)
    BY <1>1, <2>1, Zenon DEF Good, ScreenType
  <2>. QED BY <1>1, <1>r, <1>3, <2>2 DEF MouseHeld, ScreenType, Apart, Good
<1>6. \A c : Fresh(s, c) => Fresh(s, c)'
  <2>1. \A c : Seen(c)' = Seen(c)
    BY <1>1, <1>3, SeenStays
  <2>. QED BY <1>1, <2>1, FreshStays
<1>7. \A c : event.pc \notin Frame /\ Covered(c) => Covered(c)'
  BY <1>1 DEF Covered, Frame
<1>8. Right(s)'
  BY <1>1, <1>r, <1>3, <1>4, <1>6, <1>7 DEF Right, Good
<1>. QED BY <1>2, <1>5, <1>8 DEF Good

(* What a cell shows of a client is of a window of the client's at it. *)
Under(w, n, c, id) == \E k \in 1 .. n : c \in Borders(w[k]) /\ w[k].id = id
(* A picture of a client comes from a window of that client. *)
LEMMA ShowsClient ==
  ASSUME NEW w, NEW n \in Nat, NEW cl, NEW mo, NEW c, NEW p, Shows(w, n, cl, mo, c, p), p[1] \in Client
  PROVE  Under(w, n, c, p[1])
<1>1. p # <<"cursor">> /\ p # <<"background">>
  BY ClientAssumption
<1>2. PICK k \in 1 .. n : Tops(w, n, k, c) /\ p = Look(w[k], cl, c)
  BY <1>1, Zenon DEF Shows
<1>3. p[1] = w[k].id
  BY <1>2 DEF Look
<1>. QED BY <1>2, <1>3 DEF Tops, Under

(* An update that is taken from the queue covers the window it is for. *)
LEMMA ClientUpdateGood ==
  ASSUME NEW s, Good(s), handle_client_update
  PROVE  Good(s)'
<1>1. PICK id : id = Head(queue)
  OBVIOUS
<1>2. /\ UNCHANGED <<list, mouse, buf, fb, client, server>> /\ (raced => raced') /\ Kept(s) /\ event \in EventType
      /\ event' = [event EXCEPT !.pc = "more"] /\ Taking /\ queue # << >> /\ queue' = Tail(queue)
      /\ updates' = (IF find_client(id) = Null THEN updates
                     ELSE update_window_region(updates, list.node[find_client(id)].win))
      /\ updates \in Seq(Regions) /\ queue \in Seq(Client) /\ list \in Lists
  BY <1>1 DEF handle_client_update, Handled, Races, Rest, Good, Kept, TypeOK, ScreenType
<1>3. Kept(s)' /\ s \in Seq(Nodes) /\ Len(s) \in Nat
  BY <1>2, EventKept DEF Kept
<1>4. event'.pc = "more" /\ event.pc \notin Raising /\ event.pc \notin Halfway /\ event.pc \notin Frame
      /\ event'.pc \notin Raising /\ event'.pc \notin Frame /\ event.pc # "copy"
  BY <1>2 DEF EventType, Taking, Raising, Halfway, Frame
<1>s. \A c : Seen(c)' = Seen(c)
  BY <1>2, <1>4, SeenStays
<1>5. \A x : Contains(queue, x) => Contains(queue', x) \/ x = id
  <2>1. /\ Len(queue) \in Nat /\ Len(queue') = Len(queue) - 1 /\ queue[1] = id
        /\ \A i \in 1 .. Len(queue) - 1 : queue'[i] = queue[i + 1]
    BY <1>1, <1>2
  <2>2. ASSUME NEW i \in 1 .. Len(queue), i # 1 PROVE i - 1 \in 1 .. Len(queue') /\ queue'[i - 1] = queue[i]
    <3>1. i - 1 \in 1 .. Len(queue) - 1 /\ (i - 1) + 1 = i
      BY <2>1, <2>2
    <3>. QED BY <2>1, <3>1
  <2>. QED BY <2>1, <2>2 DEF Contains
<1>6. PICK n : n = find_client(id)
  OBVIOUS
<1>7. Forward(list) = s => \A k \in 1 .. Len(s) : list.node[s[k]].win.id = id => n = s[k] /\ n # Null
  <2>. SUFFICES ASSUME Forward(list) = s, NEW k \in 1 .. Len(s), list.node[s[k]].win.id = id
                PROVE  n = s[k] /\ n # Null
    OBVIOUS
  <2>. DEFINE met == {j \in DOMAIN s : list.node[s[j]].win.id = id}
  <2>1. \A j \in met : j = k
    <3>1. \A a, b \in 1 .. Len(s) : list.node[s[a]].win.id = list.node[s[b]].win.id => a = b
      BY <1>2 DEF Kept, Ids, IdsAre
    <3>2. DOMAIN s = 1 .. Len(s)
      BY <1>3
    <3>. QED BY <3>1, <3>2
  <2>2. k \in met
    BY <1>3
  <2>3. met \subseteq Nat
    BY <1>3
  <2>4. Min(met) = k
    <3>. HIDE DEF met
    <3>. QED BY <2>1, <2>2, <2>3, MinIs
  <2>5. n = IF met = {} THEN Null ELSE s[Min(met)]
    BY <1>6 DEF find_client
  <2>6. n = s[k]
    BY <2>2, <2>4, <2>5
  <2>. QED BY <1>3, <2>6, NodesAre
<1>8. ASSUME n # Null
      PROVE  /\ list.node[n].win \in Wins
             /\ updates' = update_window_region(updates, list.node[n].win)
  <2>1. PICK f : f = Forward(list)
    OBVIOUS
  <2>. DEFINE met == {j \in DOMAIN f : list.node[f[j]].win.id = id}
  <2>2. met # {} /\ n = f[Min(met)]
    BY <1>6, <1>8, <2>1 DEF find_client
  <2>3. f \in Seq(Nodes)
    <3>1. f = s \/ f = << >>
      BY <1>2, <1>4, <2>1, ForwardCases
    <3>2. << >> \in Seq(Nodes)
      OBVIOUS
    <3>. QED BY <1>3, <3>1, <3>2, Zenon
  <2>4. met \subseteq Nat /\ met \subseteq DOMAIN f
    BY <2>3
  <2>5. Min(met) \in DOMAIN f
    <3>. HIDE DEF met
    <3>. QED BY <2>2, <2>4, MinIs
  <2>6. n \in Nodes
    BY <2>2, <2>3, <2>5
  <2>. QED BY <1>2, <1>6, <1>8, <2>6 DEF Lists, NodeType
<1>9. updates' \in Seq(Regions) /\ \A c \in Cells : Covered(c) => Covered(c)'
  <2>1. CASE n = Null
    BY <1>2, <1>6, <2>1 DEF Covered
  <2>2. CASE n # Null
    BY <1>2, <1>8, <2>2, WindowCovers DEF Covered, Covers
  <2>. QED BY <2>1, <2>2
<1>10. \A c : Excused(c) => Excused(c)'
  BY <1>2, <1>4 DEF Excused
<1>11. ASSUME NEW c \in Cells, Fresh(s, c) PROVE Fresh(s, c)' \/ Covered(c)' \/ Excused(c)'
  <2>1. PICK p : Shows(Stack(list, s), Len(s), client, mouse, c, p) /\ Agrees(p, Seen(c), queue)
    BY <1>11 DEF Fresh
  <2>2. CASE Agrees(p, Seen(c), queue')
    <3>1. Shows(Stack(list', s), Len(s), client', mouse', c, p) /\ Agrees(p, Seen(c)', queue')
      BY <1>2, <1>s, <2>1, <2>2
    <3>. QED BY <3>1 DEF Fresh
  <2>3. CASE ~Agrees(p, Seen(c), queue')
    <3>1. p[1] \in Client /\ p[1] = id
      BY <1>5, <2>1, <2>3 DEF Agrees
    <3>2. PICK w : w = Stack(list, s)
      OBVIOUS
    <3>a. Shows(w, Len(s), client, mouse, c, p)
      BY <2>1, <3>2
    <3>b. Under(w, Len(s), c, p[1])
      BY <1>3, <3>1, <3>a, ShowsClient
    <3>3. PICK k \in 1 .. Len(s) : c \in Borders(w[k]) /\ w[k].id = p[1]
      BY <3>b DEF Under
    <3>4. c \in Borders(list.node[s[k]].win) /\ list.node[s[k]].win.id = id
      BY <1>3, <3>1, <3>2, <3>3 DEF Stack
    <3>5. CASE Forward(list) = s
      <4>1. n = s[k] /\ n # Null
        BY <1>7, <3>4, <3>5
      <4>2. Covers(updates', c)
        BY <1>2, <1>8, <3>4, <4>1, WindowCovers
      <4>. QED BY <4>2 DEF Covered, Covers
    <3>6. CASE server.pc = "first" /\ Len(s) = 1 /\ list.node[s[1]].win = server.win
      <4>1. k = 1
        BY <3>6
      <4>. QED BY <1>2, <3>4, <3>6, <4>1 DEF Excused
    <3>. QED BY <1>2, <1>4, <3>5, <3>6, ForwardCases
  <2>. QED BY <2>2, <2>3
<1>12. Right(s)'
  BY <1>2, <1>4, <1>9, <1>10, <1>11 DEF Right, Good
<1>13. MouseHeld' /\ ScreenType' /\ Apart'
  <2>1. queue' \in Seq(Client)
    BY <1>2
  <2>. QED BY <1>2, <1>4, <1>9, <2>1 DEF MouseHeld, ScreenType, Apart, Good
<1>. QED BY <1>3, <1>12, <1>13 DEF Good

-----------------------------------------------------------------------------
(* The mouse. *)

(* A cell that the mouse and a window dragged neither leave nor reach. *)
LEMMA MoveFresh ==
  ASSUME NEW s \in Seq(Nodes), NEW c, Fresh(s, c), ~OnCursor(mouse, c), ~OnCursor(mouse', c),
         UNCHANGED <<client, queue>>, Seen(c)' = Seen(c), NEW h, h \in Nodes \cup {Null},
         \A k \in Nodes \ {h} : list'.node[k].win = list.node[k].win,
         h \in Nodes => c \notin Borders(list.node[h].win) /\ c \notin Borders(list'.node[h].win)
  PROVE  Fresh(s, c)'
<1>1. Len(s) \in Nat /\ \A k \in 1 .. Len(s) : s[k] \in Nodes
  OBVIOUS
<1>2. PICK w : w = Stack(list, s)
  OBVIOUS
<1>3. PICK v : v = Stack(list', s)
  OBVIOUS
<1>4. \A k \in 1 .. Len(s) : w[k] = list.node[s[k]].win /\ v[k] = list'.node[s[k]].win
  BY <1>1, <1>2, <1>3 DEF Stack
<1>5. \A k \in 1 .. Len(s) : v[k] = w[k] \/ (c \notin Borders(v[k]) /\ c \notin Borders(w[k]))
  <2>. SUFFICES ASSUME NEW k \in 1 .. Len(s)
                PROVE  v[k] = w[k] \/ (c \notin Borders(v[k]) /\ c \notin Borders(w[k]))
    OBVIOUS
  <2>1. CASE s[k] = h
    BY <1>1, <1>4, <2>1
  <2>2. CASE s[k] # h
    BY <1>1, <1>4, <2>2
  <2>. QED BY <2>1, <2>2
<1>6. PICK p : Shows(w, Len(s), client, mouse, c, p) /\ Agrees(p, Seen(c), queue)
  BY <1>2 DEF Fresh
<1>7. PICK mn : mn = mouse'
  OBVIOUS
<1>8. OnCursor(mouse, c) <=> OnCursor(mn, c)
  BY <1>7
<1>9. Shows(v, Len(s), client, mn, c, p)
  BY <1>1, <1>5, <1>6, <1>8, ShowsSame
<1>. QED BY <1>3, <1>6, <1>7, <1>9 DEF Fresh

(* The end of handle_mouse covers the place the mouse comes to. *)
LEMMA MovedCovers ==
  ASSUME NEW u \in Seq(Regions), NEW dx \in Int, mouse \in 0 .. Width, event \in EventType, MouseMoved(u, dx)
  PROVE  /\ updates' \in Seq(Regions) /\ mouse' \in 0 .. Width /\ event'.pc = "more"
         /\ \A c \in Cells : Covers(u, c) \/ OnCursor(mouse', c) => Covered(c)'
<1>1. PICK x : x = normalize_point(mouse + dx)
  OBVIOUS
<1>2. /\ mouse' = x /\ updates' = update_mouse_region(u, x)
      /\ event' = [event EXCEPT !.pc = "more", !.up_x = 0, !.node = Null, !.win = NoWin]
  BY <1>1, Zenon DEF MouseMoved
<1>3. x \in 0 .. Width /\ x \in Int
  BY <1>1, SizeAssumption DEF normalize_point
<1>4. /\ updates' \in Seq(Regions)
      /\ \A c \in Cells : Covers(u, c) \/ c \in x .. x + Cursor - 1 => Covers(updates', c)
  BY <1>2, <1>3, MouseCovers
<1>5. event'.pc = "more"
  BY <1>2, MovedEvent
<1>. QED BY <1>2, <1>3, <1>4, <1>5 DEF Covered, Covers, OnCursor

(* The regions of the window raised and of the mouse are added. *)
LEMMA RaisedGood ==
  ASSUME NEW s, Good(s), Raised
  PROVE  Good(s)'
<1>1. PICK u : u = update_window_region(updates, event.win)
  OBVIOUS
<1>2. /\ event.pc = "raised" /\ MouseMoved(u, event.up_x) /\ UNCHANGED <<list, fb, queue, client, server>>
      /\ (raced => raced')
      /\ Kept(s) /\ s \in Seq(Nodes) /\ event \in EventType /\ event.win \in Wins /\ event.up_x \in Int
      /\ updates \in Seq(Regions) /\ mouse \in 0 .. Width
  BY <1>1 DEF Raised, Races, Rest, Good, Kept, TypeOK, EventType, ScreenType
<1>3. Kept(s)'
  BY <1>2, EventKept
<1>4. u \in Seq(Regions) /\ \A c \in Cells : Covers(updates, c) \/ c \in Borders(event.win) => Covers(u, c)
  BY <1>1, <1>2, WindowCovers
<1>5. /\ updates' \in Seq(Regions) /\ mouse' \in 0 .. Width /\ event'.pc = "more"
      /\ \A c \in Cells : Covers(u, c) \/ OnCursor(mouse', c) => Covered(c)'
  BY <1>2, <1>4, MovedCovers
<1>6. \A c \in Cells : Covered(c) \/ c \in Borders(event.win) \/ OnCursor(mouse', c) => Covered(c)'
  BY <1>4, <1>5 DEF Covered, Covers
<1>7. ~raced => \A c \in Cells : OnCursor(mouse, c) => Covered(c)'
  BY <1>2, <1>6 DEF Good, MouseHeld, Raising
<1>s. \A c : Seen(c)' = Seen(c)
  BY <1>2, <1>5, SeenStays
<1>8. ASSUME ~raced, NEW c \in Cells, Fresh(s, c), ~Covered(c)' PROVE Fresh(s, c)'
  <2>1. ~OnCursor(mouse, c) /\ ~OnCursor(mouse', c)
    BY <1>6, <1>7, <1>8
  <2>2. PICK h : h = Null
    OBVIOUS
  <2>3. h \in Nodes \cup {Null} /\ h \notin Nodes /\ list'.node = list.node
    BY <1>2, <2>2, NodesAre
  <2>. QED BY <1>2, <1>8, <1>s, <2>1, <2>3, MoveFresh
<1>9. \A c \in Cells : Excused(c) => Excused(c)' \/ Covered(c)'
  BY <1>2, <1>6 DEF Excused
<1>10. Right(s)'
  BY <1>2, <1>5, <1>6, <1>8, <1>9 DEF Right, Good, Frame
<1>11. MouseHeld' /\ ScreenType' /\ Apart'
  BY <1>2, <1>5 DEF MouseHeld, ScreenType, Apart, Good, Raising, Frame
<1>. QED BY <1>3, <1>10, <1>11 DEF Good

(* Every cell that handle_mouse changes is in a region it adds. *)
LEMMA MouseGood ==
  ASSUME NEW s, Good(s), NEW ev \in MouseEvents, handle_mouse(ev)
  PROVE  Good(s)'
<1>1. /\ UNCHANGED <<fb, queue, server, client>> /\ Taking /\ ev.x \in Int
      /\ list \in Lists /\ event \in EventType /\ Kept(s) /\ s \in Seq(Nodes) /\ Len(s) \in Nat
      /\ updates \in Seq(Regions) /\ mouse \in 0 .. Width /\ mouse \in Int
  BY EventAssumption DEF handle_mouse, Good, Kept, TypeOK, ScreenType
<1>r. raced => raced'
  BY Zenon DEF handle_mouse, Races
<1>2. Kept(s)'
  BY <1>1, MouseKept
<1>3. event.pc \notin Raising /\ event.pc \notin Frame /\ event.pc # "copy"
  BY <1>1 DEF Taking, Raising, Frame
<1>s. event'.pc # "copy" => \A c : Seen(c)' = Seen(c)
  BY <1>1, <1>3, SeenStays
<1>4. PICK u : u = update_mouse_region(updates, mouse)
  OBVIOUS
<1>5. u \in Seq(Regions) /\ \A c \in Cells : Covered(c) \/ OnCursor(mouse, c) => Covers(u, c)
  BY <1>1, <1>4, MouseCovers DEF Covered, Covers, OnCursor
<1>6. PICK h : h = Hit
  OBVIOUS
<1>7. h # Null => h \in Nodes /\ list.node[h].win \in Wins
  <2>. SUFFICES ASSUME h # Null PROVE h \in Nodes /\ list.node[h].win \in Wins
    OBVIOUS
  <2>1. PICK q \in 1 .. Len(s) : h = s[q]
    BY <1>1, <1>6, HitIs
  <2>. QED BY <1>1, <2>1 DEF Lists, NodeType
<1>8. PICK win : win = list.node[h].win
  OBVIOUS
<1>9. CASE /\ h # Null /\ updates' = update_window_region(u, win) /\ event'.pc = "links" /\ UNCHANGED <<list, mouse>>
  <2>1. updates' \in Seq(Regions) /\ \A c \in Cells : Covers(u, c) => Covers(updates', c)
    BY <1>5, <1>7, <1>8, <1>9, WindowCovers
  <2>2. \A c \in Cells : Covered(c) \/ OnCursor(mouse, c) => Covered(c)'
    BY <1>5, <2>1 DEF Covered, Covers
  <2>3. \A c : Fresh(s, c) => Fresh(s, c)'
    BY <1>1, <1>9, <1>s, FreshStays
  <2>4. \A c : Excused(c) => Excused(c)'
    BY <1>1, <1>3 DEF Excused
  <2>5. Right(s)'
    BY <1>1, <1>r, <1>9, <2>2, <2>3, <2>4 DEF Right, Good, Frame
  <2>6. MouseHeld' /\ ScreenType' /\ Apart'
    BY <1>1, <1>r, <1>9, <2>1, <2>2 DEF MouseHeld, ScreenType, Apart, Good, Frame
  <2>. QED BY <1>2, <2>5, <2>6 DEF Good
<1>10. ASSUME NEW v \in Seq(Regions), MouseMoved(v, ev.x), \A c \in Cells : Covers(u, c) => Covers(v, c),
              NEW g, g \in Nodes \cup {Null}, \A k \in Nodes \ {g} : list'.node[k].win = list.node[k].win,
              g \in Nodes => \A c \in Cells : \/ Covers(v, c)
                                              \/ c \notin Borders(list.node[g].win) /\ c \notin Borders(list'.node[g].win)
       PROVE  Good(s)'
  <2>1. /\ updates' \in Seq(Regions) /\ mouse' \in 0 .. Width /\ event'.pc = "more"
        /\ \A c \in Cells : Covers(v, c) \/ OnCursor(mouse', c) => Covered(c)'
    BY <1>1, <1>10, MovedCovers
  <2>2. \A c \in Cells : Covered(c) \/ OnCursor(mouse, c) \/ OnCursor(mouse', c) => Covered(c)'
    BY <1>5, <1>10, <2>1
  <2>3. ASSUME NEW c \in Cells, Fresh(s, c), ~Covered(c)' PROVE Fresh(s, c)'
    <3>1. ~OnCursor(mouse, c) /\ ~OnCursor(mouse', c)
      BY <2>2, <2>3
    <3>2. g \in Nodes => c \notin Borders(list.node[g].win) /\ c \notin Borders(list'.node[g].win)
      BY <1>10, <2>1, <2>3
    <3>. QED BY <1>1, <1>10, <1>s, <2>1, <2>3, <3>1, <3>2, MoveFresh
  <2>4. \A c : Excused(c) => Excused(c)'
    BY <1>1, <1>3 DEF Excused
  <2>5. Right(s)'
    BY <1>1, <1>r, <2>1, <2>2, <2>3, <2>4 DEF Right, Good, Frame
  <2>6. MouseHeld' /\ ScreenType' /\ Apart'
    BY <1>1, <1>r, <2>1 DEF MouseHeld, ScreenType, Apart, Good, Raising, Frame
  <2>. QED BY <1>2, <2>5, <2>6 DEF Good
<1>11. CASE /\ h # Null /\ list' = [list EXCEPT !.node[h].win = Dragged(win, ev.x)]
            /\ MouseMoved(update_window_region(update_window_region(u, win), Dragged(win, ev.x)), ev.x)
  <2>1. PICK to : to = Dragged(win, ev.x)
    OBVIOUS
  <2>2. to \in Wins /\ h \in Nodes /\ win \in Wins
    BY <1>1, <1>7, <1>8, <1>11, <2>1, DraggedType
  <2>3. list' = SetWin(list, h, to)
    BY <1>11, <2>1 DEF SetWin
  <2>4. \A k \in Nodes : list'.node[k].win = IF k = h THEN to ELSE list.node[k].win
    BY <1>1, <2>2, <2>3, SetWinMakes
  <2>5. PICK u1 : u1 = update_window_region(u, win)
    OBVIOUS
  <2>6. u1 \in Seq(Regions) /\ \A c \in Cells : Covers(u, c) \/ c \in Borders(win) => Covers(u1, c)
    BY <1>5, <2>2, <2>5, WindowCovers
  <2>7. PICK v : v = update_window_region(u1, to)
    OBVIOUS
  <2>8. v \in Seq(Regions) /\ \A c \in Cells : Covers(u1, c) \/ c \in Borders(to) => Covers(v, c)
    BY <2>2, <2>6, <2>7, WindowCovers
  <2>9. MouseMoved(v, ev.x)
    BY <1>11, <2>1, <2>5, <2>7
  <2>10. \A c \in Cells : Covers(v, c) \/ (c \notin Borders(list.node[h].win) /\ c \notin Borders(list'.node[h].win))
    BY <1>8, <2>2, <2>4, <2>6, <2>8
  <2>11. h \in Nodes \cup {Null} /\ \A k \in Nodes \ {h} : list'.node[k].win = list.node[k].win
    BY <2>2, <2>4
  <2>12. \A c \in Cells : Covers(u, c) => Covers(v, c)
    BY <2>6, <2>8
  <2>. QED BY <1>10, <2>8, <2>9, <2>10, <2>11, <2>12
<1>12. CASE MouseMoved(u, ev.x) /\ UNCHANGED list
  <2>1. PICK g : g = Null
    OBVIOUS
  <2>2. g \in Nodes \cup {Null} /\ g \notin Nodes /\ \A k \in Nodes \ {g} : list'.node[k].win = list.node[k].win
    BY <1>12, <2>1, NodesAre
  <2>. QED BY <1>5, <1>10, <1>12, <2>2
<1>. QED
  <2>1. \/ /\ h # Null /\ updates' = update_window_region(u, win)
           /\ event' = [pc |-> "links", up_x |-> ev.x, node |-> h, win |-> win] /\ UNCHANGED <<list, mouse>>
        \/ /\ h # Null /\ list' = [list EXCEPT !.node[h].win = Dragged(win, ev.x)]
           /\ MouseMoved(update_window_region(update_window_region(u, win), Dragged(win, ev.x)), ev.x)
        \/ MouseMoved(u, ev.x) /\ UNCHANGED list
    BY <1>4, <1>6, <1>8 DEF handle_mouse
  <2>. QED BY <2>1, <1>9, <1>11, <1>12

ScreenInv == ~clash => \E s : Good(s)

(* At first the whole screen is to be redrawn. *)
LEMMA InitGood ==
  ASSUME Init
  PROVE  Good(<< >>)
<1>1. Kept(<< >>) /\ updates = << <<0, Width>> >> /\ mouse = 0 /\ queue = << >> /\ event.pc = "draw"
  BY InitKept DEF Init, Full
<1>2. << <<0, Width>> >> \in Seq(Regions) /\ << >> \in Seq(Client) /\ 0 \in 0 .. Width
  BY SizeAssumption DEF Regions
<1>3. \A c \in Cells : Covered(c)
  BY <1>1, SizeAssumption DEF Covered, Cells
<1>. QED BY <1>1, <1>2, <1>3 DEF Good, ScreenType, MouseHeld, Apart, Right, Raising, Frame

(* Every step keeps what the framebuffer owes to the windows. *)
LEMMA NextGood ==
  ASSUME ScreenInv, [Next]_vars
  PROVE  ScreenInv'
<1>. SUFFICES ASSUME ~clash' PROVE \E s : Good(s)'
  BY DEF ScreenInv
<1>1. CASE UNCHANGED vars
  <2>1. UNCHANGED vars /\ UNCHANGED <<list, event, server, client, clash, updates, mouse, queue, buf, fb, raced>>
    BY <1>1 DEF vars
  <2>2. PICK s : Good(s)
    BY <2>1 DEF ScreenInv
  <2>3. Kept(s)'
    BY <2>1, <2>2 DEF Good, Kept, TypeOK, ListIs, Ids, Threads, Listed, Made, Coming, Going
  <2>4. ScreenType' /\ MouseHeld' /\ Apart'
    BY <2>1, <2>2 DEF Good, ScreenType, MouseHeld, Apart, Covered
  <2>5. Right(s)'
    BY <2>1, <2>2 DEF Good, Right, Covered, Fresh, Seen, Excused
  <2>. QED BY <2>3, <2>4, <2>5 DEF Good
<1>2. CASE Next
  <2>1. PICK s : Good(s)
    BY <1>2 DEF ScreenInv, Next
  <2>2. CASE \E ev \in MouseEvents : handle_mouse(ev)
    <3>1. PICK ev \in MouseEvents : handle_mouse(ev)
      BY <2>2
    <3>. QED BY <2>1, <3>1, MouseGood
  <2>3. CASE \E c \in Client : ClientRuns(c)
    <3>1. PICK c \in Client : stubbywm_new_window(c) \/ stubbywm_update(c)
      BY <2>3 DEF ClientRuns
    <3>. QED BY <2>1, <3>1, NewWindowGood, UpdateGood
  <2>4. CASE ServerInserts
    BY <2>1, <2>4, ServerInsertsGood
  <2>5. CASE ServerUpdates
    BY <2>1, <2>5, ServerUpdatesGood
  <2>a. CASE ServerAllocs
    BY <2>1, <2>a, ServerAllocsGood
  <2>6. CASE Raise
    BY <2>1, <2>6, RaiseGood
  <2>7. CASE Draw
    BY <2>1, <2>7, DrawGood
  <2>b. CASE Copy
    BY <2>1, <2>b, CopyGood
  <2>8. CASE reset_updates \/ NoEvent
    BY <2>1, <2>8, ResetGood
  <2>9. CASE Raised
    BY <2>1, <2>9, RaisedGood
  <2>10. CASE handle_client_update
    BY <2>1, <2>10, ClientUpdateGood
  <2>11. CASE handle_keyboard
    BY <2>1, <2>11, KeyboardGood
  <2>. QED BY <1>2, <2>2, <2>3, <2>4, <2>5, <2>6, <2>7, <2>8, <2>9, <2>10, <2>11, <2>a, <2>b, Zenon DEF Next, server_loop, event_loop
<1>. QED BY <1>1, <1>2

(* When event_loop waits, the framebuffer owes nothing but updates that are *)
(* still in the queue.                                                      *)
LEMMA GoodMeans ==
  ASSUME ScreenInv
  PROVE  Shown
<1>. SUFFICES ASSUME ~clash, ~raced, event.pc = "wait", updates = << >>, 
                     server.pc \notin Surgery \cup {"update", "fill"}, NEW c \in Cells
              PROVE  \/ fb[c] = Picture(c)
                     \/ Picture(c)[1] \in Client /\ fb[c][1] = Picture(c)[1] /\ Contains(queue, Picture(c)[1])
  BY DEF Shown
<1>1. PICK s : Good(s)
  BY DEF ScreenInv
<1>2. /\ s \in Seq(Nodes) /\ Distinct(s) /\ Len(s) \in Nat /\ Whole(list, s) /\ Kept(s)
      /\ server.pc \notin {"first", "last", "update", "fill"} /\ event.pc \notin Halfway
  BY <1>1 DEF Good, Kept, ListIs, Surgery, Halfway
<1>3. Forward(list) = s
  BY <1>2, ForwardIs DEF Whole
<1>4. ~Covered(c) /\ ~Excused(c)
  <2>1. DOMAIN updates = {}
    OBVIOUS
  <2>. QED BY <1>2, <2>1 DEF Covered, Excused, Raising
<1>5. PICK p : Shows(Stack(list, s), Len(s), client, mouse, c, p) /\ Agrees(p, fb[c], queue)
  <2>1. Seen(c) = fb[c]
    BY DEF Seen
  <2>. QED BY <1>1, <1>4, <2>1 DEF Good, Right, Fresh
<1>6. Shows(Stack(list, s), Len(s), client, mouse, c, Picture(c))
  BY <1>2, <1>3, PictureIs
<1>7. p = Picture(c)
  BY <1>2, <1>5, <1>6, ShowsOne
<1>. QED BY <1>5, <1>7 DEF Agrees

(* The screen shows the windows as they are when event_loop waits with      *)
(* nothing to redraw.                                                       *)
THEOREM ScreenShowsWindows == Spec => []Shown
<1>1. Init => ScreenInv
  BY InitGood DEF ScreenInv
<1>2. ScreenInv /\ [Next]_vars => ScreenInv'
  BY NextGood
<1>3. ScreenInv => Shown
  BY GoodMeans
<1>. QED BY <1>1, <1>2, <1>3, PTL DEF Spec
=============================================================================
