--------------------------- MODULE C4AllocProofs ---------------------------
(***************************************************************************)
(* The heap of c4rt/src/alloc.c, proved for every number of buckets, size  *)
(* of the header, bound on a request and number of chunks.                 *)
(***************************************************************************)
EXTENDS C4Alloc, WellFoundedInduction, TLAPS

-----------------------------------------------------------------------------
(* Numbers. *)

Exponent == 0 .. MaxBucket + MaxSize + Header + 1

(* A set of numbers that is not empty has a least one. *)
LEMMA LeastNumber ==
  ASSUME NEW T, T \subseteq Nat, T # {}
  PROVE  \E m \in T : \A k \in T : m <= k
<1> DEFINE R == {p \in Nat \X Nat : p[1] < p[2]}
<1>1. R = OpToRel(<, Nat)
  BY DEF OpToRel
<1>2. IsWellFoundedOn(R, Nat)
  BY <1>1, NatLessThanWellFounded
<1> HIDE DEF R
<1>3. PICK m \in T : \A k \in T : ~(<<k, m>> \in R)
  BY <1>2, WFMin
<1>4. ASSUME NEW k \in T
      PROVE  m <= k
  <2>1. <<k, m>> \notin R /\ k \in Nat /\ m \in Nat
    BY <1>3
  <2>2. ~(k < m)
    BY <2>1 DEF R
  <2>3. QED
    BY <2>1, <2>2
<1>5. QED
  BY <1>4

(* Powers of two are numbers from one on. *)
LEMMA Powers == \A k \in Exponent : 2 ^ k \in Nat \ {0}
<1> DEFINE T == {k \in Exponent : 2 ^ k \notin Nat \ {0}}
<1>1. SUFFICES ASSUME T # {} PROVE FALSE
  OBVIOUS
<1>2. T \subseteq Nat
  BY BucketAssumption, BoundAssumption DEF Exponent
<1>3. PICK m \in T : \A k \in T : m <= k
  <2> HIDE DEF T
  <2> QED BY <1>1, <1>2, LeastNumber
<1>4. 2 ^ 0 = 1
  BY Z3
<1>5. m # 0
  <2>1. SUFFICES ASSUME m = 0 PROVE FALSE
    OBVIOUS
  <2>2. 2 ^ 0 \notin Nat \ {0}
    BY <1>3, <2>1, Zenon
  <2>3. QED
    BY <1>4, <2>2
<1>6. m \in Nat /\ m - 1 \in Exponent /\ m - 1 \in 0 .. MaxBucket + MaxSize + Header
  BY <1>3, <1>5, BucketAssumption, BoundAssumption DEF Exponent
<1>7. 2 ^ (m - 1) \in Nat \ {0}
  BY <1>3, <1>6
<1>8. 2 ^ (m - 1 + 1) = 2 * 2 ^ (m - 1)
  BY <1>6, PowerAssumption
<1>9. m - 1 + 1 = m
  BY <1>6
<1>10. 2 ^ m = 2 * 2 ^ (m - 1)
  BY <1>8, <1>9, Zenon
<1>11. 2 * 2 ^ (m - 1) \in Nat \ {0}
  BY <1>7
<1>12. QED
  BY <1>3, <1>10, <1>11, Zenon

(* A block of a bucket is one unit at least; the next bucket's is twice as  *)
(* large; a chunk is as large as a block can be.                            *)
LEMMA Sizes ==
  /\ \A b \in Bucket : 2 ^ b \in Nat \ {0}
  /\ \A b \in Bucket : 2 ^ (b + 1) = 2 * 2 ^ b
  /\ Chunk \in Nat \ {0}
  /\ MaxBucket \in Bucket
<1>1. \A b \in Bucket : b \in Exponent /\ b \in 0 .. MaxBucket + MaxSize + Header
  BY BucketAssumption, BoundAssumption DEF Bucket, Exponent
<1>2. \A b \in Bucket : 2 ^ (b + 1) = 2 * 2 ^ b
  BY <1>1, PowerAssumption, Zenon
<1>3. MaxBucket \in Bucket
  BY BucketAssumption DEF Bucket
<1>4. QED
  BY <1>1, <1>2, <1>3, Powers, Zenon DEF Chunk

(* What a multiple of the chunk's size below c chunks is. *)
LEMMA Multiple ==
  ASSUME NEW C \in Nat \ {0}, NEW t \in Nat, NEW c \in Nat, t % C = 0, t < c * C
  PROVE  \E q \in 0 .. c - 1 : t = q * C
<1> DEFINE q == t \div C
<1>1. t = q * C /\ q \in Nat
  OBVIOUS
<1> HIDE DEF q
<1>2. q * C < c * C
  BY <1>1
<1>3. q < c
  BY <1>1, <1>2
<1>4. QED
  BY <1>1, <1>3

LEMMA MultipleMod == ASSUME NEW C \in Nat \ {0}, NEW q \in Nat PROVE (q * C) % C = 0
  OBVIOUS

(* C units from the middle of a chunk go over the chunk's end. *)
LEMMA Straddles ==
  ASSUME NEW C \in Nat \ {0}, NEW t \in Nat, NEW c \in Nat, t % C # 0, t + C <= c * C
  PROVE  \E q \in 0 .. c - 1 : t < q * C /\ q * C < t + C
<1> DEFINE q == t \div C
           r == t % C
<1>1. q \in Nat /\ r \in 0 .. C - 1 /\ t = q * C + r
  OBVIOUS
<1> HIDE DEF q, r
<1>2. r > 0
  BY <1>1 DEF r
<1>3. (q + 1) * C = q * C + C
  BY <1>1
<1>4. q * C \in Nat
  BY <1>1
<1>5. t < (q + 1) * C /\ (q + 1) * C < t + C
  BY <1>1, <1>2, <1>3, <1>4
<1>6. (q + 1) * C < c * C
  BY <1>5, <1>3, <1>4, <1>1
<1>7. q + 1 < c
  BY <1>6, <1>1
<1>8. q + 1 \in 0 .. c - 1
  BY <1>1, <1>7
<1>9. QED
  BY <1>5, <1>8, Zenon

-----------------------------------------------------------------------------
(* Doubly linked lists. *)

(* The links of a list, and that the list is all there is between them.     *)
Linked(h, b, free) ==
  /\ h.start[b] \in free \cup {Null}
  /\ \A n \in free :
       /\ h.node[n].next # Null =>
            h.node[n].next \in free /\ h.node[h.node[n].next].previous = n
       /\ IF n = h.start[b] THEN h.node[n].previous = Null
          ELSE h.node[n].previous \in free /\ h.node[h.node[n].previous].next = n

Follows(h, b, met) ==
  /\ h.start[b] # Null => h.start[b] \in met
  /\ \A n \in met : h.node[n].next # Null => h.node[n].next \in met

LEMMA ListParts ==
  ASSUME NEW h, NEW b, NEW free
  PROVE  ListOf(h, b, free)
           <=> /\ Linked(h, b, free)
               /\ \A met \in SUBSET free : Follows(h, b, met) => met = free
BY Zenon DEF ListOf, Linked, Follows

(* A list does not change when its head and its blocks' links do not. *)
LEMMA ListSame ==
  ASSUME NEW h, NEW g, NEW b, NEW free, ListOf(h, b, free),
         g.start[b] = h.start[b],
         \A x \in free : /\ g.node[x].next = h.node[x].next
                         /\ g.node[x].previous = h.node[x].previous
  PROVE  ListOf(g, b, free)
<1>1. Linked(h, b, free) /\ \A met \in SUBSET free : Follows(h, b, met) => met = free
  BY ListParts
<1>2. Linked(g, b, free)
  BY <1>1 DEF Linked
<1>3. ASSUME NEW met \in SUBSET free, Follows(g, b, met)
      PROVE  met = free
  <2>1. Follows(h, b, met)
    BY <1>3 DEF Follows
  <2>2. QED
    BY <1>1, <2>1
<1>4. QED
  BY <1>2, <1>3, ListParts

(* A block is put before the head of a list. *)
LEMMA ListInsert ==
  ASSUME NEW h, NEW g, NEW b, NEW free, NEW n, ListOf(h, b, free),
         n \notin free, n # Null, Null \notin free,
         g.start[b] = n, g.node[n].next = h.start[b], g.node[n].previous = Null,
         \A x \in free : g.node[x].next = h.node[x].next,
         \A x \in free : g.node[x].previous = IF x = h.start[b] THEN n
                                              ELSE h.node[x].previous
  PROVE  ListOf(g, b, free \cup {n})
<1>1. Linked(h, b, free) /\ \A met \in SUBSET free : Follows(h, b, met) => met = free
  BY ListParts
<1>2. Linked(g, b, free \cup {n})
  <2>1. g.start[b] \in free \cup {n} \cup {Null}
    OBVIOUS
  <2>2. h.start[b] \in free \cup {Null}
    BY <1>1 DEF Linked
  <2>3. ASSUME NEW x \in free
        PROVE  /\ h.node[x].next # Null =>
                    h.node[x].next \in free /\ h.node[h.node[x].next].previous = x
               /\ IF x = h.start[b] THEN h.node[x].previous = Null
                  ELSE h.node[x].previous \in free /\ h.node[h.node[x].previous].next = x
    BY <1>1 DEF Linked
  <2>4. ASSUME NEW x \in free
        PROVE  /\ g.node[x].next # Null =>
                    g.node[x].next \in free \cup {n} /\ g.node[g.node[x].next].previous = x
               /\ x # n
               /\ g.node[x].previous \in free \cup {n} /\ g.node[g.node[x].previous].next = x
    <3>1. h.node[x].next # Null => h.node[x].next # h.start[b]
      BY <2>3
    <3>2. QED
      BY <2>3, <3>1
  <2>5. /\ g.node[n].next # Null =>
             g.node[n].next \in free \cup {n} /\ g.node[g.node[n].next].previous = n
        /\ g.node[n].previous = Null
    BY <2>2
  <2>6. QED
    BY <2>1, <2>4, <2>5 DEF Linked
<1>3. ASSUME NEW met \in SUBSET (free \cup {n}), Follows(g, b, met)
      PROVE  met = free \cup {n}
  <2>1. n \in met
    BY <1>3 DEF Follows
  <2>2. met \ {n} \in SUBSET free
    OBVIOUS
  <2>3. Follows(h, b, met \ {n})
    <3>1. h.start[b] # Null => h.start[b] \in met \ {n}
      BY <1>1, <1>3, <2>1 DEF Follows, Linked
    <3>2. ASSUME NEW x \in met \ {n}, h.node[x].next # Null
          PROVE  h.node[x].next \in met \ {n}
      <4>1. x \in free /\ g.node[x].next = h.node[x].next
        BY <2>2
      <4>2. h.node[x].next \in met
        BY <1>3, <3>2, <4>1 DEF Follows
      <4>3. h.node[x].next \in free
        BY <1>1, <3>2, <4>1 DEF Linked
      <4>4. QED
        BY <4>2, <4>3
    <3>3. QED
      BY <3>1, <3>2 DEF Follows
  <2>4. met \ {n} = free
    BY <1>1, <2>2, <2>3
  <2>5. QED
    BY <2>1, <2>4
<1>4. QED
  BY <1>2, <1>3, ListParts

(* No block of a list is its own neighbour. *)
LEMMA ListNoLoop ==
  ASSUME NEW h, NEW b, NEW free, NEW n \in free, ListOf(h, b, free), Null \notin free
  PROVE  h.node[n].previous # n /\ h.node[n].next # n
<1> DEFINE p == h.node[n].previous
           q == h.node[n].next
           hd == h.start[b]
<1>1. Linked(h, b, free) /\ \A met \in SUBSET free : Follows(h, b, met) => met = free
  BY ListParts
<1>2. hd \in free \cup {Null}
  BY <1>1 DEF Linked
<1>3. \A x \in free :
        /\ h.node[x].next # Null =>
             h.node[x].next \in free /\ h.node[h.node[x].next].previous = x
        /\ x = hd => h.node[x].previous = Null
        /\ x # hd => h.node[x].previous \in free /\ h.node[h.node[x].previous].next = x
  BY <1>1 DEF Linked
<1>4. /\ q # Null => q \in free /\ h.node[q].previous = n
      /\ n = hd => p = Null
      /\ n # hd => p \in free /\ h.node[p].next = n
  BY <1>3
<1>5. ASSUME q = n PROVE FALSE
  <2>1. p = n
    BY <1>4, <1>5
  <2>2. n # hd
    BY <1>4, <2>1
  <2>3. Follows(h, b, free \ {n})
    <3>1. hd # Null => hd \in free \ {n}
      BY <1>2, <2>2
    <3>2. ASSUME NEW x \in free \ {n}, h.node[x].next # Null
          PROVE  h.node[x].next \in free \ {n}
      BY <1>3, <3>2, <2>1
    <3>3. QED
      BY <3>1, <3>2 DEF Follows
  <2>4. free \ {n} = free
    BY <1>1, <2>3
  <2>5. QED
    BY <2>4
<1>6. p = n => q = n
  BY <1>4
<1>7. QED
  BY <1>5, <1>6

(* A block is taken out of a list, from its head or from its middle. *)
LEMMA ListRemove ==
  ASSUME NEW h, NEW g, NEW b, NEW free, NEW n \in free, ListOf(h, b, free),
         Null \notin free,
         g.start[b] = IF h.start[b] = n THEN h.node[n].next ELSE h.start[b],
         \A x \in free \ {n} : g.node[x].next = IF x = h.node[n].previous
                                                THEN h.node[n].next ELSE h.node[x].next,
         \A x \in free \ {n} : g.node[x].previous = IF x = h.node[n].next
                                                    THEN h.node[n].previous ELSE h.node[x].previous
  PROVE  ListOf(g, b, free \ {n})
<1> DEFINE p == h.node[n].previous
           q == h.node[n].next
           hd == h.start[b]
<1>1. Linked(h, b, free) /\ \A met \in SUBSET free : Follows(h, b, met) => met = free
  BY ListParts
<1>2. hd \in free \cup {Null}
  BY <1>1 DEF Linked
<1>3. \A x \in free :
        /\ h.node[x].next # Null =>
             h.node[x].next \in free /\ h.node[h.node[x].next].previous = x
        /\ x = hd => h.node[x].previous = Null
        /\ x # hd => h.node[x].previous \in free /\ h.node[h.node[x].previous].next = x
  BY <1>1 DEF Linked
<1>4. /\ q # Null => q \in free /\ h.node[q].previous = n
      /\ n = hd => p = Null
      /\ n # hd => p \in free /\ h.node[p].next = n
  BY <1>3
<1>5. p # n /\ q # n
  BY ListNoLoop
<1>6. Linked(g, b, free \ {n})
  <2>1. g.start[b] \in (free \ {n}) \cup {Null}
    BY <1>2, <1>4, <1>5
  <2>2. ASSUME NEW x \in free \ {n}
        PROVE  g.node[x].next # Null =>
                 g.node[x].next \in free \ {n} /\ g.node[g.node[x].next].previous = x
    <3>1. CASE x = p
      <4>1. g.node[x].next = q
        BY <3>1
      <4>2. q # Null => q \in free \ {n} /\ g.node[q].previous = p
        BY <1>4, <1>5
      <4>3. QED
        BY <3>1, <4>1, <4>2
    <3>2. CASE x # p
      <4>1. g.node[x].next = h.node[x].next
        BY <3>2
      <4>2. h.node[x].next # Null => h.node[x].next # n /\ h.node[x].next # q
        BY <1>3, <1>4, <3>2
      <4>3. QED
        BY <1>3, <4>1, <4>2
    <3>3. QED
      BY <3>1, <3>2
  <2>3. ASSUME NEW x \in free \ {n}
        PROVE  IF x = g.start[b] THEN g.node[x].previous = Null
               ELSE g.node[x].previous \in free \ {n} /\ g.node[g.node[x].previous].next = x
    <3>1. CASE x = q
      <4>1. g.node[x].previous = p /\ q # Null
        BY <3>1
      <4>2. CASE n = hd
        BY <1>4, <3>1, <4>1, <4>2
      <4>3. CASE n # hd
        <5>1. x # g.start[b]
          BY <1>3, <1>4, <3>1, <4>1, <4>3
        <5>2. p \in free \ {n} /\ g.node[p].next = q
          BY <1>4, <1>5, <4>3
        <5>3. QED
          BY <3>1, <4>1, <5>1, <5>2
      <4>4. QED
        BY <4>2, <4>3
    <3>2. CASE x # q
      <4>1. g.node[x].previous = h.node[x].previous
        BY <3>2
      <4>2. CASE x = hd
        BY <1>3, <4>1, <4>2
      <4>3. CASE x # hd
        <5>1. x # g.start[b]
          BY <3>2, <4>3
        <5>2. h.node[x].previous \in free \ {n} /\ h.node[x].previous # p
          BY <1>3, <1>4, <3>2, <4>3
        <5>3. g.node[h.node[x].previous].next = x
          BY <1>3, <4>3, <5>2
        <5>4. QED
          BY <4>1, <5>1, <5>2, <5>3
      <4>4. QED
        BY <4>2, <4>3
    <3>3. QED
      BY <3>1, <3>2
  <2>4. QED
    BY <2>1, <2>2, <2>3 DEF Linked
<1>7. ASSUME NEW met \in SUBSET (free \ {n}), Follows(g, b, met)
      PROVE  met = free \ {n}
  <2>1. /\ g.start[b] # Null => g.start[b] \in met
        /\ \A x \in met : g.node[x].next # Null => g.node[x].next \in met
    BY <1>7 DEF Follows
  <2>2. \A x \in met : x # p => g.node[x].next = h.node[x].next
    OBVIOUS
  <2>3. n # hd => p \in met
    <3>1. SUFFICES ASSUME n # hd, p \notin met PROVE FALSE
      OBVIOUS
    <3>2. Follows(h, b, met)
      BY <2>1, <2>2, <3>1 DEF Follows
    <3>3. met = free
      BY <1>1, <3>2
    <3>4. QED
      BY <3>3
  <2>4. q # Null => q \in met
    <3>1. CASE n = hd
      BY <2>1, <3>1
    <3>2. CASE n # hd
      BY <2>1, <2>3, <3>2
    <3>3. QED
      BY <3>1, <3>2
  <2>5. Follows(h, b, met \cup {n})
    <3>1. hd # Null => hd \in met \cup {n}
      BY <2>1
    <3>2. ASSUME NEW x \in met \cup {n}, h.node[x].next # Null
          PROVE  h.node[x].next \in met \cup {n}
      <4>1. CASE x = n
        BY <2>4, <3>2, <4>1
      <4>2. CASE x = p
        BY <1>4, <3>2, <4>2
      <4>3. CASE x # n /\ x # p
        BY <2>1, <2>2, <3>2, <4>3
      <4>4. QED
        BY <4>1, <4>2, <4>3
    <3>3. QED
      BY <3>1, <3>2 DEF Follows
  <2>6. met \cup {n} = free
    BY <1>1, <2>5
  <2>7. QED
    BY <2>6
<1>8. QED
  BY <1>6, <1>7, ListParts

-----------------------------------------------------------------------------
(* The pointer writes, by what they leave in each field. *)

(* Nothing but the lists' links differs. *)
Kept(g, h) ==
  /\ g.chunks = h.chunks
  /\ Blocks(g) = Blocks(h)
  /\ \A x \in Blocks(h) :
       /\ g.node[x].status = h.node[x].status
       /\ g.node[x].bucket = h.node[x].bucket
       /\ g.node[x].phys_next = h.node[x].phys_next
       /\ g.node[x].phys_prev = h.node[x].phys_prev

(* A link is written, through a pointer that may be NULL. *)
NextSet(g, h, n, v) ==
  /\ HeapTyped(g) /\ Kept(g, h) /\ g.start = h.start
  /\ \A x \in Blocks(h) : /\ g.node[x].next = IF x = n THEN v ELSE h.node[x].next
                          /\ g.node[x].previous = h.node[x].previous

LEMMA SetNext ==
  ASSUME NEW h, HeapTyped(h), NEW n \in Ptr, NEW v \in Ptr
  PROVE  NextSet(SetField(h, n, "next", v), h, n, v)
<1> DEFINE nd == [h.node EXCEPT ![n]["next"] = v]
           g == SetField(h, n, "next", v)
<1>1. CASE n = Null
  <2>1. g = h
    BY <1>1 DEF SetField
  <2>2. Null \notin Blocks(h)
    BY DEF HeapTyped, Addr, Null
  <2>3. QED
    BY <1>1, <2>1, <2>2 DEF Kept, NextSet
<1>2. CASE n # Null
  <2>1. g = [start |-> h.start, node |-> nd, chunks |-> h.chunks]
    BY <1>2 DEF SetField, HeapTyped
  <2>2. /\ nd \in [Blocks(h) -> NodeType]
        /\ \A x \in Blocks(h) : /\ nd[x].next = IF x = n THEN v ELSE h.node[x].next
                                /\ nd[x].previous = h.node[x].previous
                                /\ nd[x].status = h.node[x].status
                                /\ nd[x].bucket = h.node[x].bucket
                                /\ nd[x].phys_next = h.node[x].phys_next
                                /\ nd[x].phys_prev = h.node[x].phys_prev
    BY DEF HeapTyped, NodeType
  <2> HIDE DEF nd
  <2>3. QED
    BY <2>1, <2>2 DEF HeapTyped, Kept, Blocks, NextSet
<1>3. QED
  BY <1>1, <1>2

(* The same for the link back. *)
PreviousSet(g, h, n, v) ==
  /\ HeapTyped(g) /\ Kept(g, h) /\ g.start = h.start
  /\ \A x \in Blocks(h) : /\ g.node[x].next = h.node[x].next
                          /\ g.node[x].previous = IF x = n THEN v ELSE h.node[x].previous

LEMMA SetPrevious ==
  ASSUME NEW h, HeapTyped(h), NEW n \in Ptr, NEW v \in Ptr
  PROVE  PreviousSet(SetField(h, n, "previous", v), h, n, v)
<1> DEFINE nd == [h.node EXCEPT ![n]["previous"] = v]
           g == SetField(h, n, "previous", v)
<1>1. CASE n = Null
  <2>1. g = h
    BY <1>1 DEF SetField
  <2>2. Null \notin Blocks(h)
    BY DEF HeapTyped, Addr, Null
  <2>3. QED
    BY <1>1, <2>1, <2>2 DEF Kept, PreviousSet
<1>2. CASE n # Null
  <2>1. g = [start |-> h.start, node |-> nd, chunks |-> h.chunks]
    BY <1>2 DEF SetField, HeapTyped
  <2>2. /\ nd \in [Blocks(h) -> NodeType]
        /\ \A x \in Blocks(h) : /\ nd[x].next = h.node[x].next
                                /\ nd[x].previous = IF x = n THEN v ELSE h.node[x].previous
                                /\ nd[x].status = h.node[x].status
                                /\ nd[x].bucket = h.node[x].bucket
                                /\ nd[x].phys_next = h.node[x].phys_next
                                /\ nd[x].phys_prev = h.node[x].phys_prev
    BY DEF HeapTyped, NodeType
  <2> HIDE DEF nd
  <2>3. QED
    BY <2>1, <2>2 DEF HeapTyped, Kept, Blocks, PreviousSet
<1>3. QED
  BY <1>1, <1>2

(* A block's own links are cleared. *)
Cleared(h, n) == [h EXCEPT !.node[n].next = Null, !.node[n].previous = Null]

LinksCleared(g, h, n) ==
  /\ HeapTyped(g) /\ Kept(g, h) /\ g.start = h.start
  /\ g.node[n].next = Null /\ g.node[n].previous = Null
  /\ \A x \in Blocks(h) \ {n} : /\ g.node[x].next = h.node[x].next
                                /\ g.node[x].previous = h.node[x].previous

LEMMA ClearLinks ==
  ASSUME NEW h, HeapTyped(h), NEW n \in Blocks(h)
  PROVE  LinksCleared(Cleared(h, n), h, n)
<1> DEFINE h1 == SetField(h, n, "next", Null)
           h2 == SetField(h1, n, "previous", Null)
<1>1. n \in Ptr /\ Null \in Ptr /\ n # Null
  BY DEF HeapTyped, Ptr, Addr, Null
<1>2. Cleared(h, n) = h2
  BY <1>1 DEF SetField, Cleared
<1>3. /\ HeapTyped(h1) /\ Kept(h1, h) /\ h1.start = h.start
      /\ \A x \in Blocks(h) :
           /\ h1.node[x].next = IF x = n THEN Null ELSE h.node[x].next
           /\ h1.node[x].previous = h.node[x].previous
  <2>1. NextSet(h1, h, n, Null)
    BY <1>1, SetNext
  <2>2. QED
    BY <2>1 DEF NextSet
<1> HIDE DEF h1
<1>4. /\ HeapTyped(h2) /\ Kept(h2, h1) /\ h2.start = h1.start
      /\ \A x \in Blocks(h1) :
           /\ h2.node[x].next = h1.node[x].next
           /\ h2.node[x].previous = IF x = n THEN Null ELSE h1.node[x].previous
  <2>1. PreviousSet(h2, h1, n, Null)
    BY <1>1, <1>3, SetPrevious
  <2>2. QED
    BY <2>1 DEF PreviousSet
<1> HIDE DEF h2
<1>5. Kept(h2, h) /\ Blocks(h1) = Blocks(h)
  BY <1>3, <1>4 DEF Kept
<1>6. QED
  BY <1>2, <1>3, <1>4, <1>5 DEF LinksCleared

(* What c4a_node_unlink leaves in a heap. *)
Unlinked(g, h, n) ==
  /\ HeapTyped(g) /\ Kept(g, h)
  /\ \A b \in Bucket :
       g.start[b] = IF b = h.node[n].bucket /\ h.start[b] = n
                    THEN h.node[n].next ELSE h.start[b]
  /\ g.node[n].next = Null /\ g.node[n].previous = Null
  /\ \A x \in Blocks(h) \ {n} :
       g.node[x].next = IF x = h.node[n].previous THEN h.node[n].next ELSE h.node[x].next
  /\ \A x \in Blocks(h) \ {n} :
       g.node[x].previous = IF x = h.node[n].next THEN h.node[n].previous ELSE h.node[x].previous

LEMMA UnlinkEffect ==
  ASSUME NEW h, HeapTyped(h), NEW n \in Blocks(h),
         h.node[n].next # n, h.node[n].previous # n
  PROVE  Unlinked(c4a_node_unlink(h, n), h, n)
<1> DEFINE nd == h.node[n]
           h1 == IF h.start[nd.bucket] = n
                 THEN [h EXCEPT !.start[nd.bucket] = nd.next] ELSE h
           h2 == SetField(h1, nd.previous, "next", nd.next)
           h3 == SetField(h2, nd.next, "previous", nd.previous)
           g == Cleared(h3, n)
<1>0. nd \in NodeType /\ nd.bucket \in Bucket /\ nd.next \in Ptr /\ nd.previous \in Ptr
  BY DEF HeapTyped, NodeType
<1>1. /\ HeapTyped(h1) /\ Kept(h1, h) /\ h1.node = h.node
      /\ \A b \in Bucket : h1.start[b] = IF b = nd.bucket /\ h.start[b] = n
                                         THEN nd.next ELSE h.start[b]
  <2>1. CASE h.start[nd.bucket] = n
    <3>1. h1 = [start |-> [h.start EXCEPT ![nd.bucket] = nd.next], node |-> h.node, chunks |-> h.chunks]
      BY <2>1 DEF HeapTyped
    <3>2. QED
      BY <1>0, <2>1, <3>1 DEF HeapTyped, Kept, Blocks
  <2>2. CASE h.start[nd.bucket] # n
    BY <2>2 DEF Kept
  <2>3. QED
    BY <2>1, <2>2
<1> HIDE DEF h1
<1>2. /\ HeapTyped(h2) /\ Kept(h2, h1) /\ h2.start = h1.start
      /\ \A x \in Blocks(h1) :
           /\ h2.node[x].next = IF x = nd.previous THEN nd.next ELSE h1.node[x].next
           /\ h2.node[x].previous = h1.node[x].previous
  <2> DEFINE p == nd.previous
             q == nd.next
  <2>1. p \in Ptr /\ q \in Ptr /\ h2 = SetField(h1, p, "next", q)
    BY <1>0
  <2> HIDE DEF p, q, h2
  <2>2. NextSet(h2, h1, p, q)
    BY <1>1, <2>1, SetNext
  <2>3. QED
    BY <2>2 DEF NextSet, p, q
<1> HIDE DEF h2
<1>3. /\ HeapTyped(h3) /\ Kept(h3, h2) /\ h3.start = h2.start
      /\ \A x \in Blocks(h2) :
           /\ h3.node[x].next = h2.node[x].next
           /\ h3.node[x].previous = IF x = nd.next THEN nd.previous ELSE h2.node[x].previous
  <2> DEFINE p == nd.previous
             q == nd.next
  <2>1. p \in Ptr /\ q \in Ptr /\ h3 = SetField(h2, q, "previous", p)
    BY <1>0
  <2> HIDE DEF p, q, h3
  <2>2. PreviousSet(h3, h2, q, p)
    BY <1>2, <2>1, SetPrevious
  <2>3. QED
    BY <2>2 DEF PreviousSet, p, q
<1> HIDE DEF h3
<1>4. Blocks(h3) = Blocks(h) /\ Blocks(h2) = Blocks(h) /\ Blocks(h1) = Blocks(h)
  BY <1>1, <1>2, <1>3 DEF Kept
<1>5. /\ HeapTyped(g) /\ Kept(g, h3) /\ g.start = h3.start
      /\ g.node[n].next = Null /\ g.node[n].previous = Null
      /\ \A x \in Blocks(h3) \ {n} : /\ g.node[x].next = h3.node[x].next
                                     /\ g.node[x].previous = h3.node[x].previous
  <2>0. HeapTyped(h3) /\ n \in Blocks(h3)
    BY <1>3, <1>4
  <2>1. LinksCleared(g, h3, n)
    BY <2>0, ClearLinks
  <2>2. QED
    BY <2>1 DEF LinksCleared
<1>6. c4a_node_unlink(h, n) = g
  BY Zenon DEF c4a_node_unlink, h1, h2, h3, Cleared
<1> HIDE DEF g
<1>7. Kept(g, h)
  BY <1>1, <1>2, <1>3, <1>5 DEF Kept
<1>8. \A b \in Bucket : g.start[b] = h1.start[b]
  BY <1>2, <1>3, <1>5
<1>9. \A x \in Blocks(h) \ {n} :
        /\ g.node[x].next = IF x = nd.previous THEN nd.next ELSE h.node[x].next
        /\ g.node[x].previous = IF x = nd.next THEN nd.previous ELSE h.node[x].previous
  BY <1>1, <1>2, <1>3, <1>4, <1>5
<1>10. Unlinked(g, h, n)
  BY <1>1, <1>5, <1>7, <1>8, <1>9 DEF Unlinked
<1>11. QED
  BY <1>6, <1>10

(* What c4a_bucket_insert leaves in a heap. *)
Inserted(g, h, b, n) ==
  /\ HeapTyped(g) /\ Kept(g, h)
  /\ g.start[b] = n /\ \A k \in Bucket \ {b} : g.start[k] = h.start[k]
  /\ g.node[n].next = h.start[b] /\ g.node[n].previous = Null
  /\ \A x \in Blocks(h) \ {n} : g.node[x].next = h.node[x].next
  /\ \A x \in Blocks(h) \ {n} :
       g.node[x].previous = IF x = h.start[b] THEN n ELSE h.node[x].previous

LEMMA InsertEffect ==
  ASSUME NEW h, HeapTyped(h), NEW b \in Bucket, NEW n \in Blocks(h)
  PROVE  Inserted(c4a_bucket_insert(h, b, n), h, b, n)
<1> DEFINE s == h.start[b]
           h1 == SetField(h, s, "previous", n)
           h2 == SetField(h1, n, "next", s)
           h3 == SetField(h2, n, "previous", Null)
           g == [h3 EXCEPT !.start[b] = n]
<1>0. s \in Ptr /\ n \in Ptr /\ Null \in Ptr /\ n # Null
  BY DEF HeapTyped, Ptr, Addr, Null
<1>1. /\ HeapTyped(h1) /\ Kept(h1, h) /\ h1.start = h.start
      /\ \A x \in Blocks(h) :
           /\ h1.node[x].next = h.node[x].next
           /\ h1.node[x].previous = IF x = s THEN n ELSE h.node[x].previous
  <2> HIDE DEF s
  <2>1. PreviousSet(h1, h, s, n)
    BY <1>0, SetPrevious
  <2>2. QED
    BY <2>1 DEF PreviousSet
<1>2. c4a_bucket_insert(h, b, n) =
        [h1 EXCEPT !.node[n].next = h1.start[b], !.node[n].previous = Null, !.start[b] = n]
  BY Zenon DEF c4a_bucket_insert
<1> HIDE DEF h1
<1>3. c4a_bucket_insert(h, b, n) = g
  BY <1>0, <1>1, <1>2, ZenonT(60) DEF SetField
<1>4. /\ HeapTyped(h2) /\ Kept(h2, h1) /\ h2.start = h1.start
      /\ \A x \in Blocks(h1) :
           /\ h2.node[x].next = IF x = n THEN s ELSE h1.node[x].next
           /\ h2.node[x].previous = h1.node[x].previous
  <2> HIDE DEF s
  <2>1. NextSet(h2, h1, n, s)
    BY <1>0, <1>1, SetNext
  <2>2. QED
    BY <2>1 DEF NextSet
<1> HIDE DEF h2
<1>5. /\ HeapTyped(h3) /\ Kept(h3, h2) /\ h3.start = h2.start
      /\ \A x \in Blocks(h2) :
           /\ h3.node[x].next = h2.node[x].next
           /\ h3.node[x].previous = IF x = n THEN Null ELSE h2.node[x].previous
  <2>1. PreviousSet(h3, h2, n, Null)
    BY <1>0, <1>4, SetPrevious
  <2>2. QED
    BY <2>1 DEF PreviousSet
<1> HIDE DEF h3
<1>6. Blocks(h3) = Blocks(h) /\ Blocks(h2) = Blocks(h) /\ Blocks(h1) = Blocks(h)
  BY <1>1, <1>4, <1>5 DEF Kept
<1>7. Kept(h3, h)
  BY <1>1, <1>4, <1>5 DEF Kept
<1>8. g = [start |-> [h3.start EXCEPT ![b] = n], node |-> h3.node, chunks |-> h3.chunks]
  BY <1>5 DEF HeapTyped
<1> HIDE DEF g
<1>9. HeapTyped(g) /\ Kept(g, h)
  BY <1>0, <1>5, <1>7, <1>8 DEF HeapTyped, Kept, Blocks
<1>10. g.start[b] = n /\ \A k \in Bucket \ {b} : g.start[k] = h.start[k]
  BY <1>1, <1>4, <1>5, <1>8 DEF HeapTyped
<1>11. /\ g.node[n].next = s /\ g.node[n].previous = Null
       /\ \A x \in Blocks(h) \ {n} :
            /\ g.node[x].next = h.node[x].next
            /\ g.node[x].previous = IF x = s THEN n ELSE h.node[x].previous
  BY <1>1, <1>4, <1>5, <1>6, <1>8
<1>12. Inserted(g, h, b, n)
  BY <1>9, <1>10, <1>11 DEF Inserted
<1>13. QED
  BY <1>3, <1>12

(* Nothing of the blocks but their states and their lists differs. *)
SameShape(g, h) ==
  /\ g.chunks = h.chunks
  /\ Blocks(g) = Blocks(h)
  /\ \A x \in Blocks(h) :
       /\ g.node[x].bucket = h.node[x].bucket
       /\ g.node[x].phys_next = h.node[x].phys_next
       /\ g.node[x].phys_prev = h.node[x].phys_prev

(* The physical chain is none of the lists' business. *)
LEMMA ShapeChain ==
  ASSUME NEW h, NEW g, PhysChain(h), HeapTyped(g), SameShape(g, h)
  PROVE  PhysChain(g)
<1>1. \A x \in Blocks(h) : End(g, x) = End(h, x)
  BY DEF SameShape, End, Size
<1>2. QED
  BY <1>1 DEF PhysChain, SameShape

LEMMA KeptChain ==
  ASSUME NEW h, NEW g, PhysChain(h), HeapTyped(g), Kept(g, h)
  PROVE  PhysChain(g)
BY ShapeChain DEF Kept, SameShape

(* NULL is no block, and a free list's blocks are blocks. *)
LEMMA FreeBlocks ==
  ASSUME NEW h, HeapTyped(h), NEW b, NEW off
  PROVE  /\ Null \notin Blocks(h) /\ Null \notin FreeOf(h, b, off)
         /\ FreeOf(h, b, off) \subseteq Blocks(h)
BY DEF HeapTyped, Addr, Null, FreeOf

(* A free block is unlinked from its bucket's list and from no other. *)
LEMMA UnlinkLists ==
  ASSUME NEW h, HeapTyped(h), NEW off, FreeLists(h, off),
         NEW n \in Blocks(h) \ off, h.node[n].status = "free"
  PROVE  /\ Unlinked(c4a_node_unlink(h, n), h, n)
         /\ FreeLists(c4a_node_unlink(h, n), off \cup {n})
<1> DEFINE g == c4a_node_unlink(h, n)
           k == h.node[n].bucket
<1>1. k \in Bucket /\ n \in FreeOf(h, k, off)
  BY DEF HeapTyped, NodeType, FreeOf
<1>2. \A b \in Bucket : ListOf(h, b, FreeOf(h, b, off)) /\ Null \notin FreeOf(h, b, off)
  BY FreeBlocks DEF FreeLists
<1>3. h.node[n].previous # n /\ h.node[n].next # n
  <2> HIDE DEF k
  <2>1. QED BY <1>1, <1>2, ListNoLoop
<1>4. Unlinked(g, h, n)
  BY <1>3, UnlinkEffect
<1> HIDE DEF g
<1>5. ASSUME NEW b \in Bucket
      PROVE  ListOf(g, b, FreeOf(g, b, off \cup {n}))
  <2> DEFINE F == FreeOf(h, b, off)
  <2>1. FreeOf(g, b, off \cup {n}) = F \ {n}
    BY <1>4 DEF FreeOf, Unlinked, Kept
  <2>2. F \subseteq Blocks(h)
    BY DEF FreeOf
  <2>3. CASE b = k
    <3>1. /\ g.start[b] = IF h.start[b] = n THEN h.node[n].next ELSE h.start[b]
          /\ \A x \in F \ {n} : g.node[x].next = IF x = h.node[n].previous
                                                 THEN h.node[n].next ELSE h.node[x].next
          /\ \A x \in F \ {n} : g.node[x].previous = IF x = h.node[n].next
                                                     THEN h.node[n].previous ELSE h.node[x].previous
      BY <1>4, <2>2, <2>3 DEF Unlinked
    <3>2. n \in F /\ ListOf(h, b, F) /\ Null \notin F
      BY <1>1, <1>2, <2>3
    <3> HIDE DEF F, k
    <3>3. ListOf(g, b, F \ {n})
      BY <3>1, <3>2, ListRemove
    <3>4. QED
      BY <2>1, <3>3
  <2>4. CASE b # k
    <3>1. n \notin F
      BY <2>4 DEF FreeOf
    <3>2. /\ h.node[n].previous \notin F /\ h.node[n].next \notin F
      <4>1. ListOf(h, k, FreeOf(h, k, off))
        BY <1>1, <1>2
      <4>2. /\ h.node[n].previous \in FreeOf(h, k, off) \cup {Null}
            /\ h.node[n].next \in FreeOf(h, k, off) \cup {Null}
        BY <1>1, <4>1, ListParts DEF Linked
      <4>3. Null \notin F
        BY <1>2
      <4>4. FreeOf(h, k, off) \cap F = {}
        BY <2>4 DEF FreeOf
      <4>5. QED
        BY <4>2, <4>3, <4>4
    <3>3. /\ g.start[b] = h.start[b]
          /\ \A x \in F : /\ g.node[x].next = h.node[x].next
                          /\ g.node[x].previous = h.node[x].previous
      BY <1>4, <2>2, <2>4, <3>1, <3>2 DEF Unlinked
    <3>4. ListOf(h, b, F)
      BY <1>2
    <3> HIDE DEF F
    <3>5. ListOf(g, b, F)
      BY <3>3, <3>4, ListSame
    <3>6. F \ {n} = F
      BY <3>1
    <3>7. QED
      BY <2>1, <3>5, <3>6
  <2>5. QED
    BY <2>3, <2>4
<1>6. QED
  BY <1>4, <1>5 DEF FreeLists, g

(* Unlinking a block that is on no list does nothing. *)
LEMMA UnlinkNothing ==
  ASSUME NEW h, HeapTyped(h), NEW n \in Blocks(h),
         h.node[n].next = Null, h.node[n].previous = Null,
         h.start[h.node[n].bucket] # n
  PROVE  c4a_node_unlink(h, n) = h
<1>1. c4a_node_unlink(h, n) = Cleared(h, n)
  <2> DEFINE nd == h.node[n]
             h1 == IF h.start[nd.bucket] = n
                   THEN [h EXCEPT !.start[nd.bucket] = nd.next] ELSE h
             h2 == SetField(h1, nd.previous, "next", nd.next)
             h3 == SetField(h2, nd.next, "previous", nd.previous)
  <2>1. c4a_node_unlink(h, n) = Cleared(h3, n)
    BY Zenon DEF c4a_node_unlink, Cleared
  <2>2. h1 = h
    OBVIOUS
  <2> HIDE DEF h1
  <2>3. h2 = h1
    BY DEF SetField
  <2> HIDE DEF h2
  <2>4. h3 = h2
    BY DEF SetField
  <2> HIDE DEF h3
  <2>5. QED
    BY <2>1, <2>2, <2>3, <2>4, Zenon
<1>2. HeapTyped(Cleared(h, n)) /\ Kept(Cleared(h, n), h) /\ Cleared(h, n).start = h.start
  BY ClearLinks DEF LinksCleared
<1>3. \A x \in Blocks(h) : /\ Cleared(h, n).node[x].next = h.node[x].next
                           /\ Cleared(h, n).node[x].previous = h.node[x].previous
  BY ClearLinks DEF LinksCleared
<1> DEFINE g == Cleared(h, n)
<1> HIDE DEF g
<1>4. ASSUME NEW x \in Blocks(h)
      PROVE  g.node[x] = h.node[x]
  <2>1. g.node[x] \in NodeType /\ h.node[x] \in NodeType
    BY <1>2 DEF HeapTyped, Kept, g
  <2>2. QED
    BY <1>2, <1>3, <2>1 DEF NodeType, Kept, g
<1>5. g.node = h.node
  BY <1>2, <1>4 DEF HeapTyped, Kept, Blocks, g
<1>6. g = h
  BY <1>2, <1>5 DEF HeapTyped, Kept, g
<1>7. QED
  BY <1>1, <1>6 DEF g

(* A detached free block goes on the list of its bucket. *)
LEMMA InsertLists ==
  ASSUME NEW h, HeapTyped(h), NEW off, FreeLists(h, off),
         NEW n \in Blocks(h) \cap off, h.node[n].status = "free",
         NEW k \in Bucket, h.node[n].bucket = k
  PROVE  /\ Inserted(c4a_bucket_insert(h, k, n), h, k, n)
         /\ FreeLists(c4a_bucket_insert(h, k, n), off \ {n})
<1> DEFINE g == c4a_bucket_insert(h, k, n)
<1>1. Inserted(g, h, k, n)
  BY InsertEffect
<1> HIDE DEF g
<1>2. \A b \in Bucket : ListOf(h, b, FreeOf(h, b, off)) /\ Null \notin FreeOf(h, b, off)
  BY FreeBlocks DEF FreeLists
<1>3. ASSUME NEW b \in Bucket
      PROVE  ListOf(g, b, FreeOf(g, b, off \ {n}))
  <2> DEFINE F == FreeOf(h, b, off)
  <2>1. F \subseteq Blocks(h) /\ n \notin F /\ n # Null
    BY FreeBlocks DEF FreeOf
  <2>2. CASE b = k
    <3>1. FreeOf(g, b, off \ {n}) = F \cup {n}
      BY <1>1, <2>2 DEF FreeOf, Inserted, Kept
    <3>2. /\ g.start[b] = n /\ g.node[n].next = h.start[b] /\ g.node[n].previous = Null
          /\ \A x \in F : g.node[x].next = h.node[x].next
          /\ \A x \in F : g.node[x].previous = IF x = h.start[b] THEN n ELSE h.node[x].previous
      BY <1>1, <2>1, <2>2 DEF Inserted
    <3>3. ListOf(h, b, F) /\ Null \notin F
      BY <1>2
    <3> HIDE DEF F
    <3>4. ListOf(g, b, F \cup {n})
      BY <2>1, <3>2, <3>3, ListInsert
    <3>5. QED
      BY <3>1, <3>4
  <2>3. CASE b # k
    <3>1. FreeOf(g, b, off \ {n}) = F
      BY <1>1, <2>3 DEF FreeOf, Inserted, Kept
    <3>2. h.start[k] \notin F
      <4>1. h.start[k] \in FreeOf(h, k, off) \cup {Null}
        BY <1>2, ListParts DEF Linked
      <4>2. FreeOf(h, k, off) \cap F = {} /\ Null \notin F
        BY <1>2, <2>3 DEF FreeOf
      <4>3. QED
        BY <4>1, <4>2
    <3>3. /\ g.start[b] = h.start[b]
          /\ \A x \in F : /\ g.node[x].next = h.node[x].next
                          /\ g.node[x].previous = h.node[x].previous
      BY <1>1, <2>1, <2>3, <3>2 DEF Inserted
    <3>4. ListOf(h, b, F)
      BY <1>2
    <3> HIDE DEF F
    <3>5. ListOf(g, b, F)
      BY <3>3, <3>4, ListSame
    <3>6. QED
      BY <3>1, <3>5
  <2>4. QED
    BY <2>2, <2>3
<1>4. QED
  BY <1>1, <1>3 DEF FreeLists, g

-----------------------------------------------------------------------------
(* Splitting and merging. *)

Formed(h) ==
  /\ h = [start |-> h.start, node |-> h.node, chunks |-> h.chunks]
  /\ h.node = [x \in Blocks(h) |-> h.node[x]]

(* The header of block n is now r; nothing else differs. *)
Put(g, h, n, r) ==
  /\ Formed(g) /\ Formed(h)
  /\ g.start = h.start /\ g.chunks = h.chunks /\ Blocks(g) = Blocks(h)
  /\ n \in Blocks(h) /\ g.node[n] = r
  /\ \A x \in Blocks(h) \ {n} : g.node[x] = h.node[x]

LEMMA TypedFormed == ASSUME NEW h, HeapTyped(h) PROVE Formed(h)
BY DEF HeapTyped, Formed

LEMMA SetPut ==
  ASSUME NEW h, Formed(h), NEW n \in Blocks(h), n # Null, NEW f, NEW v
  PROVE  Put(SetField(h, n, f, v), h, n, [h.node[n] EXCEPT ![f] = v])
<1> DEFINE r == [h.node[n] EXCEPT ![f] = v]
           nd == [h.node EXCEPT ![n] = r]
           g == SetField(h, n, f, v)
<1>1. g = [start |-> h.start, node |-> nd, chunks |-> h.chunks]
  BY DEF SetField, Formed, Blocks
<1> HIDE DEF r, g
<1>2. /\ nd = [x \in Blocks(h) |-> nd[x]] /\ DOMAIN nd = Blocks(h)
      /\ nd[n] = r /\ \A x \in Blocks(h) \ {n} : nd[x] = h.node[x]
  BY DEF Formed
<1> HIDE DEF nd
<1>3. QED
  BY <1>1, <1>2 DEF Put, Formed, Blocks, g, r

LEMMA PutPut ==
  ASSUME NEW h, NEW g, NEW k, NEW n, NEW r, NEW s, Put(g, h, n, r), Put(k, g, n, s)
  PROVE  Put(k, h, n, s)
BY DEF Put

LEMMA PutTyped ==
  ASSUME NEW h, NEW g, NEW n, NEW r \in NodeType, HeapTyped(h), Put(g, h, n, r)
  PROVE  HeapTyped(g)
BY DEF Put, HeapTyped, Formed

(* phys_prev is written, through a pointer that may be NULL. *)
PhysPrevSet(g, h, n, v) ==
  /\ HeapTyped(g) /\ g.start = h.start /\ g.chunks = h.chunks /\ Blocks(g) = Blocks(h)
  /\ \A x \in Blocks(h) :
       /\ g.node[x].phys_prev = IF x = n THEN v ELSE h.node[x].phys_prev
       /\ g.node[x].status = h.node[x].status /\ g.node[x].bucket = h.node[x].bucket
       /\ g.node[x].next = h.node[x].next /\ g.node[x].previous = h.node[x].previous
       /\ g.node[x].phys_next = h.node[x].phys_next

LEMMA SetPhysPrev ==
  ASSUME NEW h, HeapTyped(h), NEW n \in Blocks(h) \cup {Null}, NEW v \in Ptr
  PROVE  PhysPrevSet(SetField(h, n, "phys_prev", v), h, n, v)
<1> DEFINE g == SetField(h, n, "phys_prev", v)
           r == [h.node[n] EXCEPT !["phys_prev"] = v]
<1>1. Null \notin Blocks(h)
  BY FreeBlocks
<1>2. CASE n = Null
  <2>1. g = h
    BY <1>2 DEF SetField
  <2>2. QED
    BY <1>1, <1>2, <2>1 DEF PhysPrevSet
<1>3. CASE n # Null
  <2>1. Put(g, h, n, r) /\ n \in Blocks(h)
    BY <1>3, TypedFormed, SetPut
  <2>2. h.node[n] \in NodeType
    BY <2>1 DEF HeapTyped
  <2>3. /\ r \in NodeType /\ r.phys_prev = v
        /\ r.status = h.node[n].status /\ r.bucket = h.node[n].bucket
        /\ r.next = h.node[n].next /\ r.previous = h.node[n].previous
        /\ r.phys_next = h.node[n].phys_next
    BY <2>2 DEF NodeType
  <2> HIDE DEF g, r
  <2>4. HeapTyped(g)
    BY <2>1, <2>3, PutTyped
  <2>5. QED
    BY <2>1, <2>3, <2>4 DEF Put, g, PhysPrevSet
<1>4. QED
  BY <1>2, <1>3

(* What c4a_split_node leaves in a heap. *)
IsSplit(g, h, n, b, t) ==
  /\ HeapTyped(g) /\ g.start = h.start /\ g.chunks = h.chunks
  /\ Blocks(g) = Blocks(h) \cup {t}
  /\ g.node[n].status = h.node[n].status /\ g.node[n].bucket = b
  /\ g.node[n].phys_next = t /\ g.node[n].phys_prev = h.node[n].phys_prev
  /\ g.node[t].status = h.node[n].status /\ g.node[t].bucket = b
  /\ g.node[t].phys_next = h.node[n].phys_next /\ g.node[t].phys_prev = n
  /\ \A x \in Blocks(h) \ {n} :
       /\ g.node[x].status = h.node[x].status /\ g.node[x].bucket = h.node[x].bucket
       /\ g.node[x].next = h.node[x].next /\ g.node[x].previous = h.node[x].previous
       /\ g.node[x].phys_next = h.node[x].phys_next
       /\ g.node[x].phys_prev = IF x = h.node[n].phys_next THEN t ELSE h.node[x].phys_prev

LEMMA SplitEffect ==
  ASSUME NEW h, HeapTyped(h), NEW n \in Blocks(h), NEW b \in Bucket,
         b = h.node[n].bucket - 1, NEW t \in Addr, t = n + 2 ^ b, t \notin Blocks(h),
         h.node[n].phys_next \in Blocks(h) \cup {Null}, h.node[n].phys_next # n
  PROVE  IsSplit(c4a_split_node(h, n), h, n, b, t)
<1> DEFINE after == h.node[n].phys_next
           new == [status |-> h.node[n].status, bucket |-> b,
                   next |-> h.node[n].next, previous |-> n,
                   phys_next |-> after, phys_prev |-> n]
           nd == [a \in DOMAIN h.node \cup {t} |-> IF a = t THEN new ELSE h.node[a]]
           h1 == [h EXCEPT !.node = nd]
           k1 == SetField(h1, n, "bucket", b)
           k2 == SetField(k1, n, "next", t)
           h2 == SetField(k2, n, "phys_next", t)
           g == SetField(h2, after, "phys_prev", t)
           r1 == [h.node[n] EXCEPT !["bucket"] = b]
           r2 == [r1 EXCEPT !["next"] = t]
           r == [r2 EXCEPT !["phys_next"] = t]
<1>0. /\ h.node[n] \in NodeType /\ n \in Ptr /\ t \in Ptr /\ n # Null /\ t # n
      /\ Null \notin Blocks(h) /\ t # Null
  BY FreeBlocks DEF HeapTyped, Ptr, Addr, Null
<1>1. new \in NodeType
  BY <1>0, SMTT(30) DEF NodeType
<1>2. c4a_split_node(h, n) = g
  <2> DEFINE h2x == [h1 EXCEPT !.node[n].bucket = b, !.node[n].next = t, !.node[n].phys_next = t]
  <2>1. c4a_split_node(h, n) = SetField(h2x, after, "phys_prev", t)
    BY Zenon DEF c4a_split_node
  <2> HIDE DEF h1
  <2>2. h2x = h2
    BY <1>0, ZenonT(40) DEF SetField
  <2>3. QED
    BY <2>1, <2>2
<1>3. /\ HeapTyped(h1) /\ h1.start = h.start /\ h1.chunks = h.chunks
      /\ Blocks(h1) = Blocks(h) \cup {t} /\ h1.node[t] = new
      /\ \A x \in Blocks(h) : h1.node[x] = h.node[x]
  <2>1. h1 = [start |-> h.start, node |-> nd, chunks |-> h.chunks]
    BY DEF HeapTyped
  <2>2. /\ nd \in [Blocks(h) \cup {t} -> NodeType] /\ nd[t] = new
        /\ \A x \in Blocks(h) : nd[x] = h.node[x]
    <3> HIDE DEF new
    <3>1. QED BY <1>1 DEF HeapTyped, Blocks
  <2> HIDE DEF nd, new, h1
  <2>3. QED
    BY <2>1, <2>2 DEF HeapTyped, Blocks
<1>4. /\ new.status = h.node[n].status /\ new.bucket = b
      /\ new.phys_next = after /\ new.phys_prev = n
  OBVIOUS
<1> HIDE DEF h1, new
<1>5. Put(k1, h1, n, r1)
  BY <1>0, <1>3, TypedFormed, SetPut
<1> HIDE DEF k1
<1>6. Put(k2, k1, n, r2)
  <2>1. Formed(k1) /\ n \in Blocks(k1) /\ k1.node[n] = r1
    BY <1>5 DEF Put
  <2>2. QED
    BY <1>0, <2>1, SetPut
<1> HIDE DEF k2
<1>7. Put(h2, k2, n, r)
  <2>1. Formed(k2) /\ n \in Blocks(k2) /\ k2.node[n] = r2
    BY <1>6 DEF Put
  <2>2. QED
    BY <1>0, <2>1, SetPut
<1> HIDE DEF h2
<1>8. /\ r \in NodeType /\ r.status = h.node[n].status /\ r.bucket = b
      /\ r.phys_next = t /\ r.phys_prev = h.node[n].phys_prev
  BY <1>0 DEF NodeType
<1> HIDE DEF r
<1>9. Put(h2, h1, n, r)
  <2> HIDE DEF r1, r2
  <2>1. QED BY <1>5, <1>6, <1>7, PutPut
<1>10. HeapTyped(h2)
  BY <1>3, <1>8, <1>9, PutTyped
<1>11. after \in Blocks(h2) \cup {Null}
  BY <1>3, <1>9 DEF Put
<1> HIDE DEF after
<1>12. PhysPrevSet(g, h2, after, t)
  BY <1>0, <1>10, <1>11, SetPhysPrev
<1> HIDE DEF g
<1>13. after # n /\ after # t
  BY <1>0 DEF after
<1>14. /\ h2.node[n] = r /\ h2.node[t] = new /\ \A x \in Blocks(h) \ {n} : h2.node[x] = h.node[x]
       /\ n \in Blocks(h2) /\ t \in Blocks(h2) /\ Blocks(h2) = Blocks(h) \cup {t}
       /\ h2.start = h.start /\ h2.chunks = h.chunks
  BY <1>0, <1>3, <1>9 DEF Put
<1>15. /\ g.node[n].status = h.node[n].status /\ g.node[n].bucket = b
       /\ g.node[n].phys_next = t /\ g.node[n].phys_prev = h.node[n].phys_prev
  BY <1>8, <1>12, <1>13, <1>14 DEF PhysPrevSet
<1>16. /\ g.node[t].status = h.node[n].status /\ g.node[t].bucket = b
       /\ g.node[t].phys_next = after /\ g.node[t].phys_prev = n
  BY <1>4, <1>12, <1>13, <1>14 DEF PhysPrevSet
<1>17. ASSUME NEW x \in Blocks(h) \ {n}
       PROVE  /\ g.node[x].status = h.node[x].status /\ g.node[x].bucket = h.node[x].bucket
              /\ g.node[x].next = h.node[x].next /\ g.node[x].previous = h.node[x].previous
              /\ g.node[x].phys_next = h.node[x].phys_next
              /\ g.node[x].phys_prev = IF x = after THEN t ELSE h.node[x].phys_prev
  BY <1>12, <1>14, SMTT(40) DEF PhysPrevSet
<1>18. IsSplit(g, h, n, b, t)
  BY <1>12, <1>14, <1>15, <1>16, <1>17, ZenonT(30) DEF IsSplit, after, PhysPrevSet
<1>19. QED
  BY <1>2, <1>18

(* The parts of PhysChain that speak of one block. *)
NextOK(h, n) ==
  IF End(h, n) % Chunk = 0 THEN h.node[n].phys_next = Null
  ELSE /\ h.node[n].phys_next = End(h, n) /\ End(h, n) \in Blocks(h)
       /\ h.node[End(h, n)].phys_prev = n

PrevOK(h, n) ==
  IF n % Chunk = 0 THEN h.node[n].phys_prev = Null
  ELSE h.node[n].phys_prev \in Blocks(h) /\ End(h, h.node[n].phys_prev) = n

Apart(h, n) == \A m \in Blocks(h) : n < m => End(h, n) <= m

LEMMA ChainParts ==
  ASSUME NEW h
  PROVE  PhysChain(h) <=>
           /\ HeapTyped(h)
           /\ \A c \in 0 .. h.chunks - 1 : c * Chunk \in Blocks(h)
           /\ \A n \in Blocks(h) : /\ End(h, n) <= h.chunks * Chunk
                                   /\ NextOK(h, n) /\ PrevOK(h, n) /\ Apart(h, n)
BY ZenonT(30) DEF PhysChain, NextOK, PrevOK, Apart

(* Addresses, sizes and ends are numbers. *)
LEMMA ChainNumbers ==
  ASSUME NEW h, PhysChain(h)
  PROVE  /\ HeapTyped(h)
         /\ h.chunks \in Nat /\ h.chunks * Chunk \in Nat
         /\ h.chunks * Chunk <= MaxChunks * Chunk /\ MaxChunks * Chunk \in Nat
         /\ \A n \in Blocks(h) :
              /\ n \in Nat /\ h.node[n].bucket \in Bucket
              /\ Size(h, n) \in Nat \ {0}
              /\ End(h, n) = n + Size(h, n) /\ End(h, n) \in Nat
<1>1. HeapTyped(h)
  BY DEF PhysChain
<1>2. Chunk \in Nat
  BY Sizes
<1>3. h.chunks \in Nat /\ h.chunks <= MaxChunks /\ MaxChunks \in Nat
  BY <1>1, BoundAssumption DEF HeapTyped
<1>4. h.chunks * Chunk \in Nat /\ h.chunks * Chunk <= MaxChunks * Chunk /\ MaxChunks * Chunk \in Nat
  <2> HIDE DEF Chunk
  <2>1. MaxChunks * Chunk = h.chunks * Chunk + (MaxChunks - h.chunks) * Chunk
    BY <1>2, <1>3
  <2>2. (MaxChunks - h.chunks) * Chunk \in Nat /\ h.chunks * Chunk \in Nat
    BY <1>2, <1>3
  <2>3. QED
    BY <2>1, <2>2
<1>5. ASSUME NEW n \in Blocks(h)
      PROVE  /\ n \in Nat /\ h.node[n].bucket \in Bucket
             /\ Size(h, n) \in Nat \ {0}
             /\ End(h, n) = n + Size(h, n) /\ End(h, n) \in Nat
  <2>1. n \in Nat /\ h.node[n].bucket \in Bucket
    BY <1>1 DEF HeapTyped, Addr, NodeType
  <2>2. Size(h, n) \in Nat \ {0}
    BY <2>1, Sizes, Zenon DEF Size
  <2>3. End(h, n) = n + Size(h, n)
    BY DEF End
  <2>4. QED
    BY <2>1, <2>2, <2>3
<1>6. QED
  BY <1>1, <1>3, <1>4, <1>5

(* An address inside a block begins no chunk. *)
LEMMA InsideBlock ==
  ASSUME NEW h, PhysChain(h), NEW n \in Blocks(h), NEW t \in Nat, n < t, t < End(h, n)
  PROVE  t \notin Blocks(h) /\ t % Chunk # 0
<1>1. /\ \A c \in 0 .. h.chunks - 1 : c * Chunk \in Blocks(h)
      /\ End(h, n) <= h.chunks * Chunk /\ Apart(h, n)
  BY ChainParts
<1>2. Chunk \in Nat \ {0} /\ h.chunks \in Nat /\ h.chunks * Chunk \in Nat /\ End(h, n) \in Nat
  BY Sizes, ChainNumbers
<1>3. t \notin Blocks(h)
  BY <1>1, <1>2 DEF Apart
<1>4. t < h.chunks * Chunk
  BY <1>1, <1>2
<1>5. ASSUME t % Chunk = 0 PROVE FALSE
  <2> DEFINE C == Chunk
             c == h.chunks
  <2>0. C \in Nat \ {0} /\ c \in Nat /\ t % C = 0 /\ t < c * C
    BY <1>2, <1>4, <1>5
  <2> HIDE DEF C, c
  <2>1. \E q \in 0 .. c - 1 : t = q * C
    BY <2>0, Multiple
  <2>2. QED
    BY <1>1, <1>3, <2>1 DEF C, c
<1>6. QED
  BY <1>3, <1>5

(* The upper half of a block becomes a block of the chain. *)
LEMMA SplitChain ==
  ASSUME NEW h, PhysChain(h), NEW n \in Blocks(h), NEW b \in Bucket,
         h.node[n].bucket = b + 1
  PROVE  /\ IsSplit(c4a_split_node(h, n), h, n, b, n + 2 ^ b)
         /\ PhysChain(c4a_split_node(h, n))
         /\ n + 2 ^ b \notin Blocks(h)
<1> DEFINE g == c4a_split_node(h, n)
           s == 2 ^ b
           t == n + s
           e == End(h, n)
           after == h.node[n].phys_next
<1>1. /\ HeapTyped(h) /\ h.chunks * Chunk \in Nat
      /\ h.chunks * Chunk <= MaxChunks * Chunk /\ MaxChunks * Chunk \in Nat
      /\ \A x \in Blocks(h) : x \in Nat /\ Size(h, x) \in Nat \ {0}
                              /\ End(h, x) = x + Size(h, x) /\ End(h, x) \in Nat
  BY ChainNumbers
<1>2. /\ \A c \in 0 .. h.chunks - 1 : c * Chunk \in Blocks(h)
      /\ \A x \in Blocks(h) : /\ End(h, x) <= h.chunks * Chunk
                              /\ NextOK(h, x) /\ PrevOK(h, x) /\ Apart(h, x)
  BY ChainParts
<1>3. s \in Nat \ {0} /\ Size(h, n) = 2 * s
  <2>1. 2 ^ (b + 1) = 2 * s /\ s \in Nat \ {0}
    BY Sizes, Zenon
  <2>2. Size(h, n) = 2 ^ (b + 1)
    BY DEF Size
  <2>3. QED
    BY <2>1, <2>2, Zenon
<1> HIDE DEF s
<1>4. e = n + 2 * s /\ t = n + s /\ n \in Nat /\ t \in Nat /\ e \in Nat /\ n < t /\ t < e
  BY <1>1, <1>3
<1>5. t \notin Blocks(h) /\ t % Chunk # 0
  BY <1>4, InsideBlock
<1>6. t \in Addr
  <2>1. e <= h.chunks * Chunk
    BY <1>2
  <2> HIDE DEF e, t
  <2>2. t <= MaxChunks * Chunk - 1
    BY <1>1, <1>4, <2>1
  <2>3. QED
    BY <1>1, <1>4, <2>2 DEF Addr
<1>7. /\ e % Chunk = 0 => after = Null
      /\ e % Chunk # 0 => after = e /\ e \in Blocks(h) /\ h.node[e].phys_prev = n
  BY <1>2 DEF NextOK
<1>8. after \in Blocks(h) \cup {Null} /\ after # n
  <2>1. n # Null
    BY <1>1, FreeBlocks
  <2>2. QED
    BY <1>4, <1>7, <2>1
<1>9. IsSplit(g, h, n, b, t)
  <2>1. b = h.node[n].bucket - 1
    BY DEF Bucket
  <2>2. t = n + 2 ^ b
    BY DEF s
  <2> HIDE DEF t
  <2>3. QED
    BY <1>1, <1>5, <1>6, <1>8, <2>1, <2>2, SplitEffect
<1> HIDE DEF g, t, e, after
<1>10. /\ End(g, n) = t /\ End(g, t) = e
       /\ \A x \in Blocks(h) \ {n} : End(g, x) = End(h, x)
  <2>1. Size(g, n) = s /\ Size(g, t) = s /\ \A x \in Blocks(h) \ {n} : Size(g, x) = Size(h, x)
    BY <1>9 DEF IsSplit, Size, s
  <2>2. e = t + s
    BY <1>3, <1>4
  <2>3. QED
    BY <1>4, <2>1, <2>2 DEF End
<1>11. /\ Blocks(g) = Blocks(h) \cup {t} /\ g.chunks = h.chunks /\ HeapTyped(g) /\ n # t
       /\ g.node[n].phys_next = t /\ g.node[n].phys_prev = h.node[n].phys_prev
       /\ g.node[t].phys_next = after /\ g.node[t].phys_prev = n
       /\ \A x \in Blocks(h) \ {n} :
            /\ g.node[x].phys_next = h.node[x].phys_next
            /\ g.node[x].phys_prev = IF x = after THEN t ELSE h.node[x].phys_prev
  BY <1>4, <1>9 DEF IsSplit, after
<1>12. \A c \in 0 .. g.chunks - 1 : c * Chunk \in Blocks(g)
  BY <1>2, <1>11
<1>13. e <= h.chunks * Chunk
  BY <1>2 DEF e
<1>14. End(g, n) <= g.chunks * Chunk /\ NextOK(g, n) /\ PrevOK(g, n) /\ Apart(g, n)
  <2>1. End(g, n) <= g.chunks * Chunk
    BY <1>1, <1>4, <1>10, <1>11, <1>13
  <2>2. NextOK(g, n)
    BY <1>5, <1>10, <1>11 DEF NextOK
  <2>3. PrevOK(g, n)
    <3>1. PrevOK(h, n)
      BY <1>2
    <3>2. CASE n % Chunk = 0
      BY <1>11, <3>1, <3>2 DEF PrevOK
    <3>3. CASE n % Chunk # 0
      <4>1. h.node[n].phys_prev \in Blocks(h) /\ End(h, h.node[n].phys_prev) = n
        BY <3>1, <3>3 DEF PrevOK
      <4>2. h.node[n].phys_prev # n
        BY <1>4, <4>1 DEF e
      <4>3. QED
        BY <1>10, <1>11, <3>3, <4>1, <4>2 DEF PrevOK
    <3>4. QED
      BY <3>2, <3>3
  <2>4. Apart(g, n)
    <3>1. ASSUME NEW m \in Blocks(g), n < m PROVE t <= m
      <4>1. CASE m = t
        BY <1>4, <4>1
      <4>2. CASE m \in Blocks(h)
        <5>1. e <= m /\ m \in Nat
          BY <1>1, <1>2, <3>1, <4>2 DEF Apart, e
        <5>2. QED
          BY <1>4, <5>1
      <4>3. QED
        BY <1>11, <4>1, <4>2
    <3>2. QED
      BY <1>10, <3>1 DEF Apart
  <2>5. QED
    BY <2>1, <2>2, <2>3, <2>4
<1>15. End(g, t) <= g.chunks * Chunk /\ NextOK(g, t) /\ PrevOK(g, t) /\ Apart(g, t)
  <2>1. End(g, t) <= g.chunks * Chunk
    BY <1>10, <1>11, <1>13
  <2>2. NextOK(g, t)
    <3>1. CASE e % Chunk = 0
      BY <1>7, <1>10, <1>11, <3>1 DEF NextOK
    <3>2. CASE e % Chunk # 0
      <4>1. after = e /\ e \in Blocks(h) \ {n}
        BY <1>4, <1>7, <3>2
      <4>2. QED
        BY <1>10, <1>11, <3>2, <4>1 DEF NextOK
    <3>3. QED
      BY <3>1, <3>2
  <2>3. PrevOK(g, t)
    BY <1>5, <1>10, <1>11 DEF PrevOK
  <2>4. Apart(g, t)
    <3>1. ASSUME NEW m \in Blocks(g), t < m PROVE e <= m
      <4>1. m \in Blocks(h) /\ m \in Nat
        BY <1>1, <1>4, <1>11, <3>1
      <4>2. n < m
        BY <1>4, <3>1, <4>1
      <4>3. QED
        BY <1>2, <4>1, <4>2 DEF Apart, e
    <3>2. QED
      BY <1>10, <3>1 DEF Apart
  <2>5. QED
    BY <2>1, <2>2, <2>3, <2>4
<1>16. ASSUME NEW x \in Blocks(h) \ {n}
       PROVE  End(g, x) <= g.chunks * Chunk /\ NextOK(g, x) /\ PrevOK(g, x) /\ Apart(g, x)
  <2>0. End(g, x) = End(h, x) /\ x # t
    BY <1>5, <1>10
  <2>1. End(g, x) <= g.chunks * Chunk
    BY <1>2, <1>11, <2>0
  <2>2. NextOK(g, x)
    <3>1. NextOK(h, x)
      BY <1>2
    <3>2. CASE End(h, x) % Chunk = 0
      BY <1>11, <2>0, <3>1, <3>2 DEF NextOK
    <3>3. CASE End(h, x) % Chunk # 0
      <4> DEFINE y == End(h, x)
      <4>1. h.node[x].phys_next = y /\ y \in Blocks(h) /\ h.node[y].phys_prev = x
        BY <3>1, <3>3 DEF NextOK
      <4>2. y # after
        BY <1>1, <1>7, <4>1, FreeBlocks
      <4>3. g.node[y].phys_prev = x
        BY <1>11, <4>1, <4>2
      <4>4. QED
        BY <1>11, <2>0, <3>3, <4>1, <4>3 DEF NextOK
    <3>4. QED
      BY <3>2, <3>3
  <2>3. PrevOK(g, x)
    <3>1. PrevOK(h, x)
      BY <1>2
    <3>2. CASE x = after
      <4>1. x = e /\ e % Chunk # 0
        BY <1>1, <1>7, <3>2, FreeBlocks
      <4>2. QED
        BY <1>10, <1>11, <3>2, <4>1 DEF PrevOK
    <3>3. CASE x # after /\ x % Chunk = 0
      BY <1>11, <3>1, <3>3 DEF PrevOK
    <3>4. CASE x # after /\ x % Chunk # 0
      <4> DEFINE p == h.node[x].phys_prev
      <4>1. p \in Blocks(h) /\ End(h, p) = x
        BY <3>1, <3>4 DEF PrevOK
      <4>2. p # n
        BY <1>7, <3>4, <4>1 DEF e
      <4>3. g.node[x].phys_prev = p /\ p \in Blocks(g) /\ End(g, p) = x
        BY <1>10, <1>11, <3>4, <4>1, <4>2
      <4>4. QED
        BY <3>4, <4>3 DEF PrevOK
    <3>5. QED
      BY <3>2, <3>3, <3>4
  <2>4. Apart(g, x)
    <3>1. ASSUME NEW m \in Blocks(g), x < m PROVE End(h, x) <= m
      <4>1. CASE m \in Blocks(h)
        BY <1>2, <3>1, <4>1 DEF Apart
      <4>2. CASE m = t
        <5>1. x < n \/ n < x
          BY <1>1, <1>4
        <5>2. CASE x < n
          <6>1. End(h, x) <= n /\ End(h, x) \in Nat
            BY <1>1, <1>2, <5>2 DEF Apart
          <6>2. QED
            BY <1>4, <4>2, <6>1
        <5>3. CASE n < x
          <6>1. e <= x /\ x \in Nat
            BY <1>1, <1>2, <5>3 DEF Apart, e
          <6>2. QED
            BY <1>4, <3>1, <4>2, <6>1
        <5>4. QED
          BY <5>1, <5>2, <5>3
      <4>3. QED
        BY <1>11, <4>1, <4>2
    <3>2. QED
      BY <2>0, <3>1 DEF Apart
  <2>5. QED
    BY <2>1, <2>2, <2>3, <2>4
<1>17. PhysChain(g)
  <2>1. \A x \in Blocks(g) : End(g, x) <= g.chunks * Chunk /\ NextOK(g, x) /\ PrevOK(g, x) /\ Apart(g, x)
    BY <1>11, <1>14, <1>15, <1>16
  <2>2. QED
    BY <1>11, <1>12, <2>1, ChainParts
<1>18. QED
  BY <1>5, <1>9, <1>17 DEF g, t, s

(* The lists only depend on their heads, their blocks and the links. *)
SameLists(g, off2, h, off) ==
  \A b \in Bucket :
    /\ g.start[b] = h.start[b]
    /\ FreeOf(g, b, off2) = FreeOf(h, b, off)
    /\ \A x \in FreeOf(h, b, off) : /\ g.node[x].next = h.node[x].next
                                    /\ g.node[x].previous = h.node[x].previous

LEMMA ListsSame ==
  ASSUME NEW h, NEW g, NEW off, NEW off2, FreeLists(h, off), SameLists(g, off2, h, off)
  PROVE  FreeLists(g, off2)
<1>1. ASSUME NEW b \in Bucket
      PROVE  ListOf(g, b, FreeOf(g, b, off2))
  <2> DEFINE F == FreeOf(h, b, off)
  <2>1. /\ ListOf(h, b, F) /\ g.start[b] = h.start[b]
        /\ \A x \in F : /\ g.node[x].next = h.node[x].next
                        /\ g.node[x].previous = h.node[x].previous
    BY DEF FreeLists, SameLists
  <2>2. FreeOf(g, b, off2) = F
    BY DEF SameLists
  <2> HIDE DEF F
  <2>3. ListOf(g, b, F)
    BY <2>1, ListSame
  <2>4. QED
    BY <2>2, <2>3
<1>2. QED
  BY <1>1 DEF FreeLists

LEMMA SplitLists ==
  ASSUME NEW h, NEW g, NEW n, NEW b, NEW t, HeapTyped(h), n \in Blocks(h), t \notin Blocks(h),
         FreeLists(h, {n}), IsSplit(g, h, n, b, t)
  PROVE  FreeLists(g, {n, t})
<1>1. \A k \in Bucket : FreeOf(g, k, {n, t}) = FreeOf(h, k, {n})
  BY DEF FreeOf, IsSplit
<1>2. \A k \in Bucket : \A x \in FreeOf(h, k, {n}) :
        /\ g.node[x].next = h.node[x].next
        /\ g.node[x].previous = h.node[x].previous
  BY DEF FreeOf, IsSplit
<1>3. g.start = h.start
  BY DEF IsSplit
<1>4. SameLists(g, {n, t}, h, {n})
  BY <1>1, <1>2, <1>3 DEF SameLists
<1>5. QED
  BY <1>4, ListsSame

(* c4a_do_coalesce after both blocks are off their list. *)
Absorb(h, a, b) ==
  LET after == h.node[b].phys_next
      h2 == [h EXCEPT !.node[a].bucket = @ + 1, !.node[a].phys_next = after]
      h3 == SetField(h2, after, "phys_prev", a)
  IN  [h3 EXCEPT !.node = [x \in DOMAIN h3.node \ {b} |-> h3.node[x]]]

LEMMA CoalesceIsAbsorb ==
  ASSUME NEW h, NEW a, NEW b
  PROVE  c4a_do_coalesce(h, a, b) = Absorb(c4a_node_unlink(c4a_node_unlink(h, a), b), a, b)
BY Zenon DEF c4a_do_coalesce, Absorb

(* What it leaves in a heap. *)
IsMerged(g, h, a, b) ==
  /\ HeapTyped(g) /\ g.start = h.start /\ g.chunks = h.chunks
  /\ Blocks(g) = Blocks(h) \ {b}
  /\ g.node[a].status = h.node[a].status /\ g.node[a].bucket = h.node[a].bucket + 1
  /\ g.node[a].next = h.node[a].next /\ g.node[a].previous = h.node[a].previous
  /\ g.node[a].phys_next = h.node[b].phys_next /\ g.node[a].phys_prev = h.node[a].phys_prev
  /\ \A x \in Blocks(h) \ {a, b} :
       /\ g.node[x].status = h.node[x].status /\ g.node[x].bucket = h.node[x].bucket
       /\ g.node[x].next = h.node[x].next /\ g.node[x].previous = h.node[x].previous
       /\ g.node[x].phys_next = h.node[x].phys_next
       /\ g.node[x].phys_prev = IF x = h.node[b].phys_next THEN a ELSE h.node[x].phys_prev

LEMMA AbsorbEffect ==
  ASSUME NEW h, HeapTyped(h), NEW a \in Blocks(h), NEW b \in Blocks(h), a # b,
         h.node[a].bucket + 1 \in Bucket,
         h.node[b].phys_next \in Blocks(h) \cup {Null},
         h.node[b].phys_next # a, h.node[b].phys_next # b
  PROVE  IsMerged(Absorb(h, a, b), h, a, b)
<1> DEFINE after == h.node[b].phys_next
           k == h.node[a].bucket + 1
           k1 == SetField(h, a, "bucket", k)
           h2 == SetField(k1, a, "phys_next", after)
           h3 == SetField(h2, after, "phys_prev", a)
           nd == [x \in DOMAIN h3.node \ {b} |-> h3.node[x]]
           g == [h3 EXCEPT !.node = nd]
           r1 == [h.node[a] EXCEPT !["bucket"] = k]
           r == [r1 EXCEPT !["phys_next"] = after]
<1>0. /\ h.node[a] \in NodeType /\ a \in Ptr /\ a # Null /\ after \in Ptr /\ Null \notin Blocks(h)
  BY FreeBlocks DEF HeapTyped, Ptr, NodeType
<1>1. Absorb(h, a, b) = g
  <2> DEFINE h2x == [h EXCEPT !.node[a].bucket = @ + 1, !.node[a].phys_next = after]
             h3x == SetField(h2x, after, "phys_prev", a)
  <2>1. Absorb(h, a, b) = [h3x EXCEPT !.node = [x \in DOMAIN h3x.node \ {b} |-> h3x.node[x]]]
    BY Zenon DEF Absorb
  <2>2. h2x = h2
    BY <1>0 DEF SetField
  <2>3. h3x = h3
    <3> HIDE DEF h2x, h2
    <3>1. QED BY <2>2
  <2> HIDE DEF h3x, h3
  <2>4. QED
    BY <2>1, <2>3
<1>2. Put(k1, h, a, r1)
  BY <1>0, TypedFormed, SetPut
<1>3. /\ r \in NodeType /\ r.status = h.node[a].status /\ r.bucket = k
      /\ r.next = h.node[a].next /\ r.previous = h.node[a].previous
      /\ r.phys_next = after /\ r.phys_prev = h.node[a].phys_prev
  BY <1>0 DEF NodeType
<1> HIDE DEF k1, after
<1>4. Put(h2, k1, a, r)
  <2>1. Formed(k1) /\ a \in Blocks(k1) /\ k1.node[a] = r1
    BY <1>2 DEF Put
  <2>2. QED
    BY <1>0, <2>1, SetPut
<1> HIDE DEF h2, r, r1
<1>5. Put(h2, h, a, r)
  BY <1>2, <1>4, PutPut
<1>6. HeapTyped(h2)
  BY <1>3, <1>5, PutTyped
<1>7. after \in Blocks(h2) \cup {Null}
  BY <1>5 DEF Put, after
<1>8. PhysPrevSet(h3, h2, after, a)
  BY <1>0, <1>6, <1>7, SetPhysPrev
<1> HIDE DEF h3
<1>9. /\ g = [start |-> h3.start, node |-> nd, chunks |-> h3.chunks]
      /\ nd \in [Blocks(h3) \ {b} -> NodeType]
      /\ \A x \in Blocks(h3) \ {b} : nd[x] = h3.node[x]
  BY <1>8 DEF PhysPrevSet, HeapTyped, Blocks
<1> HIDE DEF nd, g
<1>10. /\ HeapTyped(g) /\ Blocks(g) = Blocks(h3) \ {b} /\ g.start = h3.start /\ g.chunks = h3.chunks
       /\ \A x \in Blocks(h3) \ {b} : g.node[x] = h3.node[x]
  BY <1>8, <1>9 DEF PhysPrevSet, HeapTyped, Blocks
<1>11. /\ Blocks(h3) = Blocks(h) /\ h3.start = h.start /\ h3.chunks = h.chunks
       /\ Blocks(h2) = Blocks(h) /\ h2.node[a] = r
       /\ \A x \in Blocks(h) \ {a} : h2.node[x] = h.node[x]
  BY <1>5, <1>8 DEF Put, PhysPrevSet
<1>12. after # a /\ after # b
  BY DEF after
<1>13. /\ g.node[a].status = h.node[a].status /\ g.node[a].bucket = k
       /\ g.node[a].next = h.node[a].next /\ g.node[a].previous = h.node[a].previous
       /\ g.node[a].phys_next = after /\ g.node[a].phys_prev = h.node[a].phys_prev
  BY <1>3, <1>8, <1>10, <1>11, <1>12 DEF PhysPrevSet
<1>14. ASSUME NEW x \in Blocks(h) \ {a, b}
       PROVE  /\ g.node[x].status = h.node[x].status /\ g.node[x].bucket = h.node[x].bucket
              /\ g.node[x].next = h.node[x].next /\ g.node[x].previous = h.node[x].previous
              /\ g.node[x].phys_next = h.node[x].phys_next
              /\ g.node[x].phys_prev = IF x = after THEN a ELSE h.node[x].phys_prev
  BY <1>8, <1>10, <1>11 DEF PhysPrevSet
<1>15. IsMerged(g, h, a, b)
  BY <1>10, <1>11, <1>13, <1>14 DEF IsMerged, after
<1>16. QED
  BY <1>1, <1>15

(* Neighbours of the same size lie in one chunk and make no more than it. *)
LEMMA MergeFits ==
  ASSUME NEW h, PhysChain(h), NEW a \in Blocks(h), NEW b \in Blocks(h),
         h.node[a].phys_next = b, h.node[a].bucket = h.node[b].bucket
  PROVE  /\ b = End(h, a) /\ b % Chunk # 0 /\ a # b /\ h.node[b].phys_prev = a
         /\ h.node[a].bucket + 1 \in Bucket
         /\ h.node[b].phys_next \in Blocks(h) \cup {Null}
         /\ h.node[b].phys_next # a /\ h.node[b].phys_next # b
<1>1. /\ HeapTyped(h) /\ h.chunks \in Nat /\ h.chunks * Chunk \in Nat
      /\ \A x \in Blocks(h) : /\ x \in Nat /\ Size(h, x) \in Nat \ {0} /\ h.node[x].bucket \in Bucket
                              /\ End(h, x) = x + Size(h, x) /\ End(h, x) \in Nat
  BY ChainNumbers
<1>2. /\ \A c \in 0 .. h.chunks - 1 : c * Chunk \in Blocks(h)
      /\ \A x \in Blocks(h) : /\ End(h, x) <= h.chunks * Chunk
                              /\ NextOK(h, x) /\ PrevOK(h, x) /\ Apart(h, x)
  BY ChainParts
<1>3. a # Null /\ b # Null
  BY <1>1, FreeBlocks
<1>4. b = End(h, a) /\ b % Chunk # 0 /\ h.node[b].phys_prev = a
  BY <1>2, <1>3 DEF NextOK
<1>5. a < b /\ b < End(h, b)
  BY <1>1, <1>4
<1>6. /\ h.node[b].phys_next \in Blocks(h) \cup {Null}
      /\ h.node[b].phys_next = Null \/ h.node[b].phys_next = End(h, b)
  BY <1>2 DEF NextOK
<1>7. h.node[b].phys_next # a /\ h.node[b].phys_next # b
  BY <1>1, <1>3, <1>5, <1>6
<1>8. h.node[b].bucket # MaxBucket
  <2>1. SUFFICES ASSUME h.node[b].bucket = MaxBucket PROVE FALSE
    OBVIOUS
  <2>2. End(h, b) = b + Chunk
    BY <2>1 DEF End, Size, Chunk
  <2> DEFINE C == Chunk
             c == h.chunks
  <2>3. C \in Nat \ {0} /\ c \in Nat /\ b \in Nat /\ b % C # 0 /\ b + C <= c * C
    BY <1>1, <1>2, <1>4, <2>2, Sizes
  <2>4. \E q \in 0 .. c - 1 : b < q * C /\ q * C < b + C
    <3> HIDE DEF C, c
    <3>1. QED BY <2>3, Straddles
  <2>5. PICK q \in 0 .. c - 1 : b < q * C /\ q * C < b + C
    BY <2>4
  <2> HIDE DEF C
  <2>6. q * C \in Blocks(h) /\ q * C \in Nat
    BY <1>1, <1>2 DEF C
  <2>7. b + C <= q * C
    BY <1>2, <2>2, <2>5, <2>6 DEF Apart, C
  <2>8. QED
    BY <2>3, <2>5, <2>6, <2>7
<1>9. h.node[a].bucket + 1 \in Bucket
  BY <1>1, <1>8, BucketAssumption DEF Bucket
<1>10. a # b
  BY <1>1, <1>5
<1>11. QED
  BY <1>4, <1>6, <1>7, <1>9, <1>10

(* The merged block takes both places in the chain. *)
LEMMA MergeChain ==
  ASSUME NEW h, PhysChain(h), NEW a \in Blocks(h), NEW b \in Blocks(h),
         h.node[a].phys_next = b, h.node[a].bucket = h.node[b].bucket,
         NEW g, IsMerged(g, h, a, b)
  PROVE  PhysChain(g)
<1> DEFINE s == Size(h, a)
           e == End(h, b)
           after == h.node[b].phys_next
<1>1. /\ HeapTyped(h) /\ h.chunks \in Nat /\ h.chunks * Chunk \in Nat /\ Null \notin Blocks(h)
      /\ \A x \in Blocks(h) : /\ x \in Nat /\ Size(h, x) \in Nat \ {0} /\ h.node[x].bucket \in Bucket
                              /\ End(h, x) = x + Size(h, x) /\ End(h, x) \in Nat
  BY ChainNumbers, FreeBlocks
<1>2. /\ \A c \in 0 .. h.chunks - 1 : c * Chunk \in Blocks(h)
      /\ \A x \in Blocks(h) : /\ End(h, x) <= h.chunks * Chunk
                              /\ NextOK(h, x) /\ PrevOK(h, x) /\ Apart(h, x)
  BY ChainParts
<1>3. /\ b = End(h, a) /\ b % Chunk # 0 /\ a # b /\ h.node[b].phys_prev = a
      /\ h.node[a].bucket + 1 \in Bucket
      /\ after \in Blocks(h) \cup {Null} /\ after # a /\ after # b
  BY MergeFits
<1>4. s \in Nat \ {0} /\ Size(h, b) = s /\ Size(g, a) = 2 * s
  <2> DEFINE k == h.node[a].bucket
  <2>1. k \in Bucket
    BY <1>1
  <2>2. 2 ^ (k + 1) = 2 * 2 ^ k
    BY <2>1, Sizes, Zenon
  <2>3. Size(g, a) = 2 ^ (k + 1) /\ Size(h, a) = 2 ^ k /\ Size(h, b) = 2 ^ k
    BY DEF Size, IsMerged
  <2>4. QED
    BY <1>1, <2>2, <2>3, Zenon
<1> HIDE DEF s, after
<1>5. a \in Nat /\ b \in Nat /\ b = a + s /\ e = b + s /\ e \in Nat
  BY <1>1, <1>3, <1>4 DEF s
<1> HIDE DEF e
<1>6. /\ End(g, a) = e
      /\ \A x \in Blocks(h) \ {a, b} : End(g, x) = End(h, x)
  <2>1. \A x \in Blocks(h) \ {a, b} : Size(g, x) = Size(h, x)
    BY DEF IsMerged, Size
  <2>2. QED
    BY <1>4, <1>5, <2>1 DEF End
<1>7. /\ e % Chunk = 0 => after = Null
      /\ e % Chunk # 0 => after = e /\ e \in Blocks(h) /\ h.node[e].phys_prev = b
  BY <1>2 DEF NextOK, e, after
<1>8. /\ Blocks(g) = Blocks(h) \ {b} /\ g.chunks = h.chunks /\ HeapTyped(g)
      /\ g.node[a].phys_next = after /\ g.node[a].phys_prev = h.node[a].phys_prev
      /\ \A x \in Blocks(h) \ {a, b} :
           /\ g.node[x].phys_next = h.node[x].phys_next
           /\ g.node[x].phys_prev = IF x = after THEN a ELSE h.node[x].phys_prev
  BY DEF IsMerged, after
<1>9. ASSUME NEW c \in 0 .. g.chunks - 1 PROVE c * Chunk \in Blocks(g)
  <2>1. c * Chunk \in Blocks(h) /\ c \in Nat
    BY <1>1, <1>2, <1>8, <1>9
  <2> DEFINE C == Chunk
  <2>2. C \in Nat \ {0}
    BY Sizes
  <2>3. (c * C) % C = 0
    <3> HIDE DEF C
    <3>1. QED BY <2>1, <2>2, MultipleMod
  <2>4. c * Chunk # b
    BY <1>3, <2>3
  <2>5. QED
    BY <1>8, <2>1, <2>4
<1>10. End(g, a) <= g.chunks * Chunk /\ NextOK(g, a) /\ PrevOK(g, a) /\ Apart(g, a)
  <2>1. End(g, a) <= g.chunks * Chunk
    BY <1>2, <1>6, <1>8 DEF e
  <2>2. NextOK(g, a)
    <3>1. CASE e % Chunk = 0
      BY <1>6, <1>7, <1>8, <3>1 DEF NextOK
    <3>2. CASE e % Chunk # 0
      <4>1. after = e /\ e \in Blocks(h) \ {a, b}
        BY <1>3, <1>7, <3>2
      <4>2. QED
        BY <1>6, <1>8, <3>2, <4>1 DEF NextOK
    <3>3. QED
      BY <3>1, <3>2
  <2>3. PrevOK(g, a)
    <3>1. PrevOK(h, a)
      BY <1>2
    <3>2. CASE a % Chunk = 0
      BY <1>8, <3>1, <3>2 DEF PrevOK
    <3>3. CASE a % Chunk # 0
      <4> DEFINE p == h.node[a].phys_prev
      <4>1. p \in Blocks(h) /\ End(h, p) = a
        BY <3>1, <3>3 DEF PrevOK
      <4>2. p # a
        BY <1>3, <4>1
      <4>3. p # b
        BY <1>4, <1>5, <4>1 DEF e
      <4>4. QED
        BY <1>6, <1>8, <3>3, <4>1, <4>2, <4>3 DEF PrevOK
    <3>4. QED
      BY <3>2, <3>3
  <2>4. Apart(g, a)
    <3>1. ASSUME NEW m \in Blocks(g), a < m PROVE e <= m
      <4>1. m \in Blocks(h) /\ m # b /\ m \in Nat
        BY <1>1, <1>8
      <4>2. b <= m
        BY <1>2, <1>3, <3>1, <4>1 DEF Apart
      <4>3. b < m
        BY <1>5, <4>1, <4>2
      <4>4. QED
        BY <1>2, <4>1, <4>3 DEF Apart, e
    <3>2. QED
      BY <1>6, <3>1 DEF Apart
  <2>5. QED
    BY <2>1, <2>2, <2>3, <2>4
<1>11. ASSUME NEW x \in Blocks(h) \ {a, b}
       PROVE  End(g, x) <= g.chunks * Chunk /\ NextOK(g, x) /\ PrevOK(g, x) /\ Apart(g, x)
  <2>0. End(g, x) = End(h, x)
    BY <1>6
  <2>1. End(g, x) <= g.chunks * Chunk
    BY <1>2, <1>8, <2>0
  <2>2. NextOK(g, x)
    <3>1. NextOK(h, x)
      BY <1>2
    <3>2. CASE End(h, x) % Chunk = 0
      BY <1>8, <2>0, <3>1, <3>2 DEF NextOK
    <3>3. CASE End(h, x) % Chunk # 0
      <4> DEFINE y == End(h, x)
      <4>1. h.node[x].phys_next = y /\ y \in Blocks(h) /\ h.node[y].phys_prev = x
        BY <3>1, <3>3 DEF NextOK
      <4>2. y # b
        BY <1>3, <4>1
      <4>3. y # after
        BY <1>1, <1>7, <4>1
      <4>4. g.node[y].phys_prev = x
        BY <1>8, <4>1, <4>2, <4>3
      <4>5. QED
        BY <1>8, <2>0, <3>3, <4>1, <4>2, <4>4 DEF NextOK
    <3>4. QED
      BY <3>2, <3>3
  <2>3. PrevOK(g, x)
    <3>1. PrevOK(h, x)
      BY <1>2
    <3>2. CASE x = after
      <4>1. x = e /\ e % Chunk # 0
        BY <1>1, <1>7, <3>2
      <4>2. QED
        BY <1>3, <1>6, <1>8, <3>2, <4>1 DEF PrevOK
    <3>3. CASE x # after /\ x % Chunk = 0
      BY <1>8, <3>1, <3>3 DEF PrevOK
    <3>4. CASE x # after /\ x % Chunk # 0
      <4> DEFINE p == h.node[x].phys_prev
      <4>1. p \in Blocks(h) /\ End(h, p) = x
        BY <3>1, <3>4 DEF PrevOK
      <4>2. p # a
        BY <1>3, <4>1
      <4>3. p # b
        BY <1>7, <3>4, <4>1 DEF e
      <4>4. g.node[x].phys_prev = p /\ p \in Blocks(g) /\ End(g, p) = x
        BY <1>6, <1>8, <3>4, <4>1, <4>2, <4>3
      <4>5. QED
        BY <3>4, <4>4 DEF PrevOK
    <3>5. QED
      BY <3>2, <3>3, <3>4
  <2>4. Apart(g, x)
    BY <1>2, <1>8, <2>0 DEF Apart
  <2>5. QED
    BY <2>1, <2>2, <2>3, <2>4
<1>12. \A x \in Blocks(g) : End(g, x) <= g.chunks * Chunk /\ NextOK(g, x) /\ PrevOK(g, x) /\ Apart(g, x)
  BY <1>8, <1>10, <1>11
<1>13. QED
  BY <1>8, <1>9, <1>12, ChainParts

(* The blocks that callers hold. *)
HeldOf(h) == {<<n, Size(h, n)>> : n \in {m \in Blocks(h) : h.node[m].status = "used"}}

LEMMA HeldSame ==
  ASSUME NEW h, NEW g,
         \A x : x \in Blocks(g) /\ g.node[x].status = "used"
                  <=> x \in Blocks(h) /\ h.node[x].status = "used",
         \A x \in Blocks(h) : h.node[x].status = "used" => g.node[x].bucket = h.node[x].bucket
  PROVE  HeldOf(g) = HeldOf(h)
<1>1. {m \in Blocks(g) : g.node[m].status = "used"} = {m \in Blocks(h) : h.node[m].status = "used"}
  OBVIOUS
<1>2. \A x \in {m \in Blocks(h) : h.node[m].status = "used"} : Size(g, x) = Size(h, x)
  BY DEF Size
<1>3. QED
  BY <1>1, <1>2 DEF HeldOf

LEMMA HeldKept ==
  ASSUME NEW h, NEW g, Kept(g, h)
  PROVE  HeldOf(g) = HeldOf(h)
<1>1. /\ \A x : x \in Blocks(g) /\ g.node[x].status = "used"
                  <=> x \in Blocks(h) /\ h.node[x].status = "used"
      /\ \A x \in Blocks(h) : h.node[x].status = "used" => g.node[x].bucket = h.node[x].bucket
  BY DEF Kept
<1>2. QED
  BY <1>1, HeldSame

(* The heap while block n is being merged: n is free and on no list. *)
Merging(h, n) ==
  /\ PhysChain(h) /\ FreeLists(h, {n})
  /\ n \in Blocks(h) /\ h.node[n].status = "free"
  /\ h.node[n].next = Null /\ h.node[n].previous = Null

(* A detached block is no block's neighbour on a list, and no list's head. *)
LEMMA DetachedUnseen ==
  ASSUME NEW h, HeapTyped(h), NEW off, FreeLists(h, off), NEW n \in off, n # Null
  PROVE  /\ \A b \in Bucket : h.start[b] # n
         /\ \A x \in Blocks(h) \ off :
              h.node[x].status = "free" => h.node[x].next # n /\ h.node[x].previous # n
<1>1. \A b \in Bucket : Linked(h, b, FreeOf(h, b, off)) /\ n \notin FreeOf(h, b, off)
  BY ListParts DEF FreeLists, FreeOf
<1>2. \A b \in Bucket : h.start[b] # n
  BY <1>1 DEF Linked
<1>3. ASSUME NEW x \in Blocks(h) \ off, h.node[x].status = "free"
      PROVE  h.node[x].next # n /\ h.node[x].previous # n
  <2> DEFINE k == h.node[x].bucket
  <2>1. k \in Bucket /\ x \in FreeOf(h, k, off)
    BY <1>3 DEF HeapTyped, NodeType, FreeOf
  <2>2. Linked(h, k, FreeOf(h, k, off)) /\ n \notin FreeOf(h, k, off)
    BY <1>1, <2>1
  <2> HIDE DEF k
  <2>3. QED
    BY <2>1, <2>2 DEF Linked
<1>4. QED
  BY <1>2, <1>3

(* Both neighbours are off their list before they become one. *)
LEMMA UnlinkBoth ==
  ASSUME NEW h, NEW n, Merging(h, n), NEW a \in Blocks(h), NEW b \in Blocks(h), a # b,
         n \in {a, b}, h.node[a].status = "free", h.node[b].status = "free"
  PROVE  LET u == c4a_node_unlink(c4a_node_unlink(h, a), b)
         IN  /\ HeapTyped(u) /\ Kept(u, h) /\ FreeLists(u, {a, b})
             /\ u.node[a].next = Null /\ u.node[a].previous = Null
             /\ u.node[b].next = Null /\ u.node[b].previous = Null
<1>1. /\ PhysChain(h) /\ HeapTyped(h) /\ FreeLists(h, {n}) /\ n \in Blocks(h) /\ n # Null
      /\ h.node[n].next = Null /\ h.node[n].previous = Null
  BY ChainNumbers, FreeBlocks DEF Merging
<1>2. ASSUME NEW x \in {a, b} \ {n}
      PROVE  LET v == c4a_node_unlink(h, x)
             IN  /\ HeapTyped(v) /\ Kept(v, h) /\ FreeLists(v, {a, b})
                 /\ v.node[x].next = Null /\ v.node[x].previous = Null
                 /\ v.node[n].next = Null /\ v.node[n].previous = Null
  <2> DEFINE v == c4a_node_unlink(h, x)
  <2>1. x \in Blocks(h) \ {n} /\ h.node[x].status = "free"
    OBVIOUS
  <2>2. Unlinked(v, h, x) /\ FreeLists(v, {n} \cup {x})
    BY <1>1, <2>1, UnlinkLists
  <2>3. {n} \cup {x} = {a, b}
    OBVIOUS
  <2>4. h.node[x].next # n /\ h.node[x].previous # n
    BY <1>1, <2>1, DetachedUnseen
  <2> HIDE DEF v
  <2>5. v.node[n].next = Null /\ v.node[n].previous = Null
    BY <1>1, <2>1, <2>2, <2>4 DEF Unlinked
  <2>6. QED
    BY <2>2, <2>3, <2>5 DEF Unlinked, v
<1>3. CASE n = a
  <2>1. h.start[h.node[n].bucket] # n
    BY <1>1, DetachedUnseen DEF HeapTyped, NodeType
  <2>2. c4a_node_unlink(h, a) = h
    BY <1>1, <1>3, <2>1, UnlinkNothing
  <2>3. b \in {a, b} \ {n}
    BY <1>3
  <2>4. QED
    BY <1>2, <1>3, <2>2, <2>3
<1>4. CASE n = b
  <2> DEFINE v == c4a_node_unlink(h, a)
  <2>1. a \in {a, b} \ {n}
    BY <1>4
  <2>2. /\ HeapTyped(v) /\ Kept(v, h) /\ FreeLists(v, {a, b})
        /\ v.node[a].next = Null /\ v.node[a].previous = Null
        /\ v.node[n].next = Null /\ v.node[n].previous = Null
    BY <1>2, <2>1
  <2> HIDE DEF v
  <2>3. b \in Blocks(v)
    BY <2>2 DEF Kept
  <2>4. v.start[v.node[b].bucket] # b
    <3>1. b \in {a, b} /\ b # Null
      BY <1>1, <1>4
    <3>2. \A k \in Bucket : v.start[k] # b
      BY <2>2, <3>1, DetachedUnseen
    <3>3. v.node[b].bucket \in Bucket
      BY <2>2, <2>3 DEF HeapTyped, NodeType
    <3>4. QED
      BY <3>2, <3>3
  <2>5. c4a_node_unlink(v, b) = v
    BY <1>4, <2>2, <2>3, <2>4, UnlinkNothing
  <2>6. QED
    BY <1>4, <2>2, <2>5 DEF v
<1>5. QED
  BY <1>3, <1>4

(* One merge: what is left is a heap in which a is being merged. *)
Merged(g, h, a, b) == Merging(g, a) /\ HeldOf(g) = HeldOf(h) /\ Blocks(g) = Blocks(h) \ {b}

LEMMA CoalesceOne ==
  ASSUME NEW h, NEW n, Merging(h, n), NEW a \in Blocks(h), NEW b \in Blocks(h),
         n \in {a, b}, h.node[a].status = "free", h.node[b].status = "free",
         h.node[a].phys_next = b, h.node[a].bucket = h.node[b].bucket
  PROVE  Merged(c4a_do_coalesce(h, a, b), h, a, b)
<1> DEFINE u == c4a_node_unlink(c4a_node_unlink(h, a), b)
           g == Absorb(u, a, b)
<1>1. PhysChain(h)
  BY DEF Merging
<1>2. a # b
  BY <1>1, MergeFits
<1>3. /\ HeapTyped(u) /\ Kept(u, h) /\ FreeLists(u, {a, b})
      /\ u.node[a].next = Null /\ u.node[a].previous = Null
      /\ u.node[b].next = Null /\ u.node[b].previous = Null
  BY <1>2, UnlinkBoth
<1>4. c4a_do_coalesce(h, a, b) = g
  BY CoalesceIsAbsorb
<1> HIDE DEF u
<1>5. PhysChain(u)
  BY <1>1, <1>3, KeptChain
<1>6. /\ a \in Blocks(u) /\ b \in Blocks(u) /\ Blocks(u) = Blocks(h)
      /\ u.node[a].phys_next = b /\ u.node[a].bucket = u.node[b].bucket
      /\ u.node[a].status = "free" /\ u.node[b].status = "free"
  BY <1>3 DEF Kept
<1>7. /\ u.node[a].bucket + 1 \in Bucket
      /\ u.node[b].phys_next \in Blocks(u) \cup {Null}
      /\ u.node[b].phys_next # a /\ u.node[b].phys_next # b
  BY <1>5, <1>6, MergeFits
<1>8. IsMerged(g, u, a, b)
  BY <1>2, <1>3, <1>6, <1>7, AbsorbEffect
<1> HIDE DEF g
<1>9. PhysChain(g)
  BY <1>5, <1>6, <1>8, MergeChain
<1>10. FreeLists(g, {a})
  <2>1. \A k \in Bucket : FreeOf(g, k, {a}) = FreeOf(u, k, {a, b})
    BY <1>8 DEF FreeOf, IsMerged
  <2>2. \A k \in Bucket : \A x \in FreeOf(u, k, {a, b}) :
          /\ g.node[x].next = u.node[x].next
          /\ g.node[x].previous = u.node[x].previous
    BY <1>8 DEF FreeOf, IsMerged
  <2>3. \A k \in Bucket : g.start[k] = u.start[k]
    BY <1>8 DEF IsMerged
  <2>4. SameLists(g, {a}, u, {a, b})
    BY <2>1, <2>2, <2>3 DEF SameLists
  <2>5. QED
    BY <1>3, <2>4, ListsSame
<1>11. a \in Blocks(g) /\ g.node[a].status = "free" /\ g.node[a].next = Null /\ g.node[a].previous = Null
  BY <1>2, <1>3, <1>6, <1>8 DEF IsMerged
<1>12. HeldOf(g) = HeldOf(u)
  <2>1. ASSUME NEW x
        PROVE  x \in Blocks(g) /\ g.node[x].status = "used"
                 <=> x \in Blocks(u) /\ u.node[x].status = "used"
    BY <1>2, <1>6, <1>8 DEF IsMerged
  <2>2. \A x \in Blocks(u) : u.node[x].status = "used" => g.node[x].bucket = u.node[x].bucket
    BY <1>6, <1>8 DEF IsMerged
  <2>3. QED
    BY <2>1, <2>2, HeldSame
<1>13. HeldOf(u) = HeldOf(h)
  BY <1>3, HeldKept
<1>14. Blocks(g) = Blocks(h) \ {b}
  BY <1>6, <1>8 DEF IsMerged
<1>15. QED
  BY <1>4, <1>9, <1>10, <1>11, <1>12, <1>13, <1>14 DEF Merged, Merging

(* A turn's two merges, each of which may find nothing to do. *)
StillMerging(pair, h) == Merging(pair[1], pair[2]) /\ HeldOf(pair[1]) = HeldOf(h)

LEMMA MergePreviousStep ==
  ASSUME NEW h, NEW n, Merging(h, n)
  PROVE  /\ StillMerging(MergePrevious(h, n), h)
         /\ c4a_can_coalesce(h, h.node[n].phys_prev, n) => MergePrevious(h, n)[1] # h
<1> DEFINE p == h.node[n].phys_prev
<1>1. CASE ~c4a_can_coalesce(h, p, n)
  <2>1. MergePrevious(h, n) = <<h, n>>
    BY <1>1 DEF MergePrevious
  <2>2. QED
    BY <1>1, <2>1 DEF StillMerging
<1>2. CASE c4a_can_coalesce(h, p, n)
  <2> DEFINE g == c4a_do_coalesce(h, p, n)
  <2>1. MergePrevious(h, n) = <<g, p>>
    BY <1>2 DEF MergePrevious
  <2>2. PhysChain(h) /\ n \in Blocks(h)
    BY DEF Merging
  <2>3. PrevOK(h, n) /\ \A x \in Blocks(h) : NextOK(h, x)
    BY <2>2, ChainParts
  <2>4. /\ p # Null /\ h.node[p].status = "free" /\ h.node[n].status = "free"
        /\ h.node[p].bucket = h.node[n].bucket
    BY <1>2 DEF c4a_can_coalesce
  <2>5. n % Chunk # 0 /\ p \in Blocks(h) /\ End(h, p) = n
    BY <2>3, <2>4 DEF PrevOK
  <2>6. h.node[p].phys_next = n
    BY <2>3, <2>5 DEF NextOK
  <2> HIDE DEF p
  <2>7. Merged(g, h, p, n)
    BY <2>2, <2>4, <2>5, <2>6, CoalesceOne
  <2> HIDE DEF g
  <2>8. StillMerging(<<g, p>>, h)
    BY <2>7 DEF Merged, StillMerging
  <2>9. g # h
    BY <2>2, <2>7 DEF Merged
  <2>10. QED
    BY <2>1, <2>8, <2>9
<1>3. QED
  BY <1>1, <1>2

LEMMA MergeNextStep ==
  ASSUME NEW h, NEW n, Merging(h, n)
  PROVE  /\ StillMerging(MergeNext(h, n), h)
         /\ c4a_can_coalesce(h, n, h.node[n].phys_next) => MergeNext(h, n)[1] # h
<1> DEFINE x == h.node[n].phys_next
<1>1. CASE ~c4a_can_coalesce(h, n, x)
  <2>1. MergeNext(h, n) = <<h, n>>
    BY <1>1 DEF MergeNext
  <2>2. QED
    BY <1>1, <2>1 DEF StillMerging
<1>2. CASE c4a_can_coalesce(h, n, x)
  <2> DEFINE g == c4a_do_coalesce(h, n, x)
  <2>1. MergeNext(h, n) = <<g, n>>
    BY <1>2 DEF MergeNext
  <2>2. PhysChain(h) /\ n \in Blocks(h)
    BY DEF Merging
  <2>3. NextOK(h, n)
    BY <2>2, ChainParts
  <2>4. /\ x # Null /\ h.node[x].status = "free" /\ h.node[n].status = "free"
        /\ h.node[n].bucket = h.node[x].bucket
    BY <1>2 DEF c4a_can_coalesce
  <2>5. x \in Blocks(h)
    BY <2>3, <2>4 DEF NextOK
  <2>6. h.node[n].phys_next = x
    OBVIOUS
  <2> HIDE DEF x
  <2>7. Merged(g, h, n, x)
    BY <2>2, <2>4, <2>5, <2>6, CoalesceOne
  <2> HIDE DEF g
  <2>8. StillMerging(<<g, n>>, h)
    BY <2>7 DEF Merged, StillMerging
  <2>9. g # h
    BY <2>5, <2>7 DEF Merged
  <2>10. QED
    BY <2>1, <2>8, <2>9
<1>3. QED
  BY <1>1, <1>2

-----------------------------------------------------------------------------
(* Growing. *)

(* The heap between calls. *)
Whole(h) == PhysChain(h) /\ FreeLists(h, {})

(* Another chunk at the end of the region. *)
Grown(h) ==
  LET n == h.chunks * Chunk
      new == [status |-> "free", bucket |-> MaxBucket, next |-> Null,
              previous |-> Null, phys_next |-> Null, phys_prev |-> Null]
  IN  [h EXCEPT !.chunks = @ + 1,
                !.node = [a \in DOMAIN h.node \cup {n} |->
                            IF a = n THEN new ELSE h.node[a]]]

IsGrown(g, h, n) ==
  /\ HeapTyped(g) /\ g.start = h.start /\ g.chunks = h.chunks + 1
  /\ Blocks(g) = Blocks(h) \cup {n}
  /\ g.node[n].status = "free" /\ g.node[n].bucket = MaxBucket
  /\ g.node[n].phys_next = Null /\ g.node[n].phys_prev = Null
  /\ \A x \in Blocks(h) : g.node[x] = h.node[x]

LEMMA GrowNumbers ==
  ASSUME NEW h, PhysChain(h), h.chunks < MaxChunks
  PROVE  LET n == h.chunks * Chunk
         IN  /\ n \in Addr /\ n # Null /\ n \notin Blocks(h) /\ n % Chunk = 0
             /\ (h.chunks + 1) * Chunk = n + Chunk /\ (n + Chunk) % Chunk = 0
<1> DEFINE C == Chunk
           c == h.chunks
           n == c * C
<1>1. C \in Nat \ {0} /\ c \in Nat /\ MaxChunks \in Nat /\ c < MaxChunks
  BY Sizes, ChainNumbers, BoundAssumption
<1>2. Addr = 0 .. MaxChunks * C - 1
  BY DEF Addr
<1>3. \A x \in Blocks(h) : x \in Nat /\ x < End(h, x) /\ End(h, x) <= n /\ End(h, x) \in Nat
  <2>1. \A x \in Blocks(h) : x \in Nat /\ Size(h, x) \in Nat \ {0} /\ End(h, x) = x + Size(h, x)
    BY ChainNumbers
  <2>2. \A x \in Blocks(h) : End(h, x) <= n
    BY ChainParts
  <2>3. QED
    BY <2>1, <2>2
<1> HIDE DEF C, c
<1>4. n \in Nat
  BY <1>1
<1>5. (c + 1) * C = n + C
  BY <1>1
<1>6. MaxChunks * C = n + C + (MaxChunks - c - 1) * C
  BY <1>1
<1>7. (MaxChunks - c - 1) * C \in Nat
  BY <1>1
<1>8. n % C = 0
  BY <1>1, MultipleMod
<1>9. (n + C) % C = 0
  <2>1. ((c + 1) * C) % C = 0 /\ c + 1 \in Nat
    BY <1>1, MultipleMod
  <2>2. QED
    BY <1>5, <2>1, Zenon
<1> HIDE DEF n
<1>10. n \in Addr
  BY <1>1, <1>2, <1>4, <1>6, <1>7
<1>11. n \notin Blocks(h)
  BY <1>3, <1>4
<1>12. n # Null
  BY <1>4 DEF Null
<1>13. QED
  BY <1>5, <1>8, <1>9, <1>10, <1>11, <1>12 DEF n, c, C

LEMMA GrownEffect ==
  ASSUME NEW h, PhysChain(h), h.chunks < MaxChunks
  PROVE  IsGrown(Grown(h), h, h.chunks * Chunk)
<1> DEFINE n == h.chunks * Chunk
           new == [status |-> "free", bucket |-> MaxBucket, next |-> Null,
                   previous |-> Null, phys_next |-> Null, phys_prev |-> Null]
           nd == [a \in DOMAIN h.node \cup {n} |-> IF a = n THEN new ELSE h.node[a]]
           g == Grown(h)
<1>1. HeapTyped(h) /\ n \in Addr /\ n \notin Blocks(h) /\ h.chunks + 1 \in 0 .. MaxChunks
  <2>1. HeapTyped(h) /\ h.chunks \in Nat
    BY ChainNumbers
  <2>2. h.chunks + 1 \in 0 .. MaxChunks
    BY <2>1, BoundAssumption
  <2>3. QED
    BY <2>1, <2>2, GrowNumbers
<1>2. g = [start |-> h.start, node |-> nd, chunks |-> h.chunks + 1]
  <2>1. g = [h EXCEPT !.chunks = @ + 1, !.node = nd]
    BY Zenon DEF Grown
  <2> HIDE DEF nd, g
  <2>2. h = [start |-> h.start, node |-> h.node, chunks |-> h.chunks]
    BY <1>1 DEF HeapTyped
  <2>3. QED
    BY <2>1, <2>2
<1>3. new \in NodeType /\ new.status = "free" /\ new.bucket = MaxBucket
      /\ new.phys_next = Null /\ new.phys_prev = Null
  BY Sizes DEF NodeType, Ptr
<1> HIDE DEF n, new
<1>4. /\ nd \in [Blocks(h) \cup {n} -> NodeType] /\ nd[n] = new
      /\ \A x \in Blocks(h) : nd[x] = h.node[x]
  BY <1>1, <1>3 DEF HeapTyped, Blocks
<1> HIDE DEF nd, g
<1>5. Blocks(g) = Blocks(h) \cup {n} /\ g.node = nd /\ g.start = h.start /\ g.chunks = h.chunks + 1
  BY <1>2, <1>4 DEF Blocks
<1>6. HeapTyped(g)
  BY <1>1, <1>2, <1>4, <1>5 DEF HeapTyped
<1>7. IsGrown(g, h, n)
  BY <1>3, <1>4, <1>5, <1>6 DEF IsGrown
<1>8. QED
  BY <1>7 DEF g, n

LEMMA GrownChain ==
  ASSUME NEW h, PhysChain(h), h.chunks < MaxChunks, NEW g, IsGrown(g, h, h.chunks * Chunk)
  PROVE  PhysChain(g)
<1> DEFINE n == h.chunks * Chunk
<1>1. /\ HeapTyped(h) /\ h.chunks \in Nat /\ n \in Nat /\ Chunk \in Nat \ {0}
      /\ \A x \in Blocks(h) : x \in Nat /\ End(h, x) \in Nat /\ x < End(h, x)
  <2>1. /\ HeapTyped(h) /\ h.chunks \in Nat /\ n \in Nat
        /\ \A x \in Blocks(h) : /\ x \in Nat /\ End(h, x) \in Nat
                                /\ Size(h, x) \in Nat \ {0} /\ End(h, x) = x + Size(h, x)
    BY ChainNumbers
  <2>2. QED
    BY <2>1, Sizes
<1>2. /\ \A c \in 0 .. h.chunks - 1 : c * Chunk \in Blocks(h)
      /\ \A x \in Blocks(h) : End(h, x) <= n /\ NextOK(h, x) /\ PrevOK(h, x) /\ Apart(h, x)
  BY ChainParts
<1>3. /\ n \notin Blocks(h) /\ n % Chunk = 0 /\ (h.chunks + 1) * Chunk = n + Chunk
      /\ (n + Chunk) % Chunk = 0
  BY GrowNumbers
<1>4. /\ HeapTyped(g) /\ g.chunks = h.chunks + 1 /\ Blocks(g) = Blocks(h) \cup {n}
      /\ g.node[n].phys_next = Null /\ g.node[n].phys_prev = Null /\ g.node[n].bucket = MaxBucket
      /\ \A x \in Blocks(h) : g.node[x] = h.node[x]
  BY DEF IsGrown
<1> HIDE DEF n
<1>5. End(g, n) = n + Chunk /\ \A x \in Blocks(h) : End(g, x) = End(h, x)
  BY <1>4 DEF End, Size, Chunk
<1>6. g.chunks * Chunk = n + Chunk
  BY <1>3, <1>4
<1>7. ASSUME NEW c \in 0 .. g.chunks - 1 PROVE c * Chunk \in Blocks(g)
  <2>0. g.chunks = h.chunks + 1 /\ h.chunks \in Nat
    BY <1>1, <1>4
  <2>1. c = h.chunks \/ c \in 0 .. h.chunks - 1
    BY <2>0
  <2>2. CASE c = h.chunks
    BY <1>4, <2>2 DEF n
  <2>3. CASE c \in 0 .. h.chunks - 1
    BY <1>2, <1>4, <2>3
  <2>4. QED
    BY <2>1, <2>2, <2>3
<1>8. End(g, n) <= g.chunks * Chunk /\ NextOK(g, n) /\ PrevOK(g, n) /\ Apart(g, n)
  <2>1. End(g, n) <= g.chunks * Chunk
    BY <1>1, <1>5, <1>6
  <2>2. NextOK(g, n) /\ PrevOK(g, n)
    BY <1>3, <1>4, <1>5 DEF NextOK, PrevOK
  <2>3. \A m \in Blocks(g) : ~(n < m)
    BY <1>1, <1>2, <1>4
  <2>4. QED
    BY <2>1, <2>2, <2>3 DEF Apart
<1>9. ASSUME NEW x \in Blocks(h)
      PROVE  End(g, x) <= g.chunks * Chunk /\ NextOK(g, x) /\ PrevOK(g, x) /\ Apart(g, x)
  <2>1. End(g, x) <= g.chunks * Chunk
    BY <1>1, <1>2, <1>5, <1>6
  <2>2. NextOK(g, x)
    BY <1>2, <1>4, <1>5 DEF NextOK
  <2>3. PrevOK(g, x)
    BY <1>2, <1>4, <1>5 DEF PrevOK
  <2>4. Apart(g, x)
    BY <1>2, <1>4, <1>5 DEF Apart
  <2>5. QED
    BY <2>1, <2>2, <2>3, <2>4
<1>10. QED
  BY <1>4, <1>7, <1>8, <1>9, ChainParts

(* The new chunk is one free block, the head of the largest bucket. *)
LEMMA GrowWhole ==
  ASSUME NEW h, Whole(h), h.chunks < MaxChunks
  PROVE  LET g == c4a_grow(h)
             n == h.chunks * Chunk
         IN  /\ Whole(g) /\ HeldOf(g) = HeldOf(h)
             /\ g.start[MaxBucket] = n /\ n # Null
<1> DEFINE n == h.chunks * Chunk
           h1 == Grown(h)
           g == c4a_bucket_insert(h1, MaxBucket, n)
<1>1. PhysChain(h) /\ FreeLists(h, {}) /\ HeapTyped(h)
  BY ChainNumbers DEF Whole
<1>2. n # Null /\ n \notin Blocks(h)
  BY <1>1, GrowNumbers
<1>3. IsGrown(h1, h, n)
  BY <1>1, GrownEffect
<1>4. PhysChain(h1)
  BY <1>1, <1>3, GrownChain
<1>5. c4a_grow(h) = g
  BY Zenon DEF c4a_grow, Grown
<1> HIDE DEF h1, n
<1>6. FreeLists(h1, {n})
  <2>1. SameLists(h1, {n}, h, {})
    BY <1>2, <1>3 DEF SameLists, FreeOf, IsGrown
  <2>2. QED
    BY <1>1, <2>1, ListsSame
<1>7. /\ HeapTyped(h1) /\ n \in Blocks(h1) \cap {n} /\ h1.node[n].status = "free"
      /\ MaxBucket \in Bucket /\ h1.node[n].bucket = MaxBucket
  BY <1>3, Sizes DEF IsGrown
<1>8. Inserted(g, h1, MaxBucket, n) /\ FreeLists(g, {n} \ {n})
  BY <1>6, <1>7, InsertLists
<1> HIDE DEF g
<1>9. {n} \ {n} = {}
  OBVIOUS
<1>10. HeapTyped(g) /\ Kept(g, h1) /\ g.start[MaxBucket] = n
  BY <1>8 DEF Inserted
<1>11. PhysChain(g)
  BY <1>4, <1>10, KeptChain
<1>12. HeldOf(h1) = HeldOf(h)
  <2>1. ASSUME NEW x
        PROVE  x \in Blocks(h1) /\ h1.node[x].status = "used"
                 <=> x \in Blocks(h) /\ h.node[x].status = "used"
    BY <1>3 DEF IsGrown
  <2>2. \A x \in Blocks(h) : h.node[x].status = "used" => h1.node[x].bucket = h.node[x].bucket
    BY <1>3 DEF IsGrown
  <2>3. QED
    BY <2>1, <2>2, HeldSame
<1>13. HeldOf(g) = HeldOf(h1)
  BY <1>10, HeldKept
<1>14. Whole(g) /\ HeldOf(g) = HeldOf(h) /\ g.start[MaxBucket] = n
  BY <1>8, <1>9, <1>10, <1>11, <1>12, <1>13 DEF Whole
<1>15. QED
  BY <1>2, <1>5, <1>14 DEF n

-----------------------------------------------------------------------------
(* The invariant. *)

(* The heap while block n of 2^k units is being split. *)
Spilling(h, n, k) ==
  /\ PhysChain(h) /\ FreeLists(h, {n})
  /\ n \in Blocks(h) /\ h.node[n].status = "free" /\ h.node[n].bucket = k

InSpill(o, h) ==
  /\ o = [kind |-> "spill", node |-> o.node, at |-> o.at, lower |-> o.lower, size |-> o.size]
  /\ o.at \in Bucket /\ o.lower \in 0 .. o.at
  /\ Spilling(h, o.node, o.at)

InMerge(o, h) ==
  /\ o = [kind |-> "merge", node |-> o.node, at |-> 0, lower |-> 0, size |-> 0]
  /\ Merging(h, o.node)

Calls(o, h) == (o = Idle /\ Whole(h)) \/ InSpill(o, h) \/ InMerge(o, h)

IInv == Calls(op, heap) /\ held = HeldOf(heap)

-----------------------------------------------------------------------------
(* The size of a request. *)

Log(n, i) == 2 ^ i <= n /\ n < 2 ^ (i + 1)

(* Every request has a largest power of two that is no larger. *)
LEMMA LogExists == \A n \in 1 .. MaxSize + Header : \E i \in 0 .. n : Log(n, i)
<1> DEFINE T == {n \in 1 .. MaxSize + Header : ~ \E i \in 0 .. n : Log(n, i)}
<1>1. SUFFICES ASSUME T # {} PROVE FALSE
  OBVIOUS
<1>2. T \subseteq Nat
  BY BucketAssumption, BoundAssumption
<1>3. PICK n \in T : \A k \in T : n <= k
  <2> HIDE DEF T
  <2>1. QED BY <1>1, <1>2, LeastNumber
<1>4. n \in Nat /\ n >= 1 /\ n <= MaxSize + Header /\ ~ \E i \in 0 .. n : Log(n, i)
  BY <1>3, BucketAssumption, BoundAssumption
<1>5. \A i \in 0 .. n : 2 ^ i \in Nat \ {0} /\ 2 ^ (i + 1) = 2 * 2 ^ i
  <2>1. \A i \in 0 .. n : i \in Exponent /\ i \in 0 .. MaxBucket + MaxSize + Header
    BY <1>4, BucketAssumption, BoundAssumption DEF Exponent
  <2>2. QED
    BY <2>1, Powers, PowerAssumption, Zenon
<1>6. CASE n = 1
  <2>1. 2 ^ 0 = 1
    BY Z3
  <2>2. 2 ^ (0 + 1) = 2 * 2 ^ 0
    BY <1>4, <1>5
  <2>3. Log(n, 0)
    BY <1>6, <2>1, <2>2 DEF Log
  <2>4. QED
    BY <1>4, <2>3
<1>7. CASE n # 1
  <2>1. n - 1 \in 1 .. MaxSize + Header /\ n - 1 \notin T
    BY <1>3, <1>4, <1>7, BucketAssumption, BoundAssumption
  <2>2. PICK i \in 0 .. n - 1 : Log(n - 1, i)
    BY <2>1
  <2> DEFINE w == 2 ^ i
             x == 2 ^ (i + 1)
             z == 2 ^ (i + 1 + 1)
  <2>3. i \in 0 .. n /\ i + 1 \in 0 .. n
    BY <1>4
  <2>4. w \in Nat \ {0} /\ x \in Nat \ {0} /\ x = 2 * w /\ z = 2 * x
    BY <1>5, <2>3, Zenon
  <2>5. w <= n - 1 /\ n - 1 < x
    BY <2>2 DEF Log
  <2> HIDE DEF w, x, z
  <2>6. CASE n < x
    <3>1. w <= n
      BY <1>4, <2>4, <2>5
    <3>2. Log(n, i)
      BY <2>6, <3>1 DEF Log, w, x
    <3>3. QED
      BY <1>4, <2>3, <3>2
  <2>7. CASE ~(n < x)
    <3>1. x <= n /\ n < z
      BY <1>4, <2>4, <2>5, <2>7
    <3>2. Log(n, i + 1)
      BY <3>1 DEF Log, x, z
    <3>3. QED
      BY <1>4, <2>3, <3>2
  <2>8. QED
    BY <2>6, <2>7
<1>8. QED
  BY <1>6, <1>7

(* BucketFor is the smallest bucket that holds a request and its header.    *)
LEMMA BucketForRight ==
  ASSUME NEW size \in 0 .. MaxSize
  PROVE  /\ BucketFor(size) \in Nat
         /\ size + Header <= 2 ^ BucketFor(size)
         /\ 2 ^ BucketFor(size) < 2 * (size + Header)
<1> DEFINE n == size + Header
           i == ulog2(n)
           w == 2 ^ i
           x == 2 ^ (i + 1)
<1>1. n \in 1 .. MaxSize + Header /\ n \in Nat /\ MaxSize + Header \in Nat
  BY BucketAssumption, BoundAssumption
<1>2. i \in 0 .. n /\ Log(n, i)
  <2> HIDE DEF n
  <2>1. \E j \in 0 .. n : Log(n, j)
    BY <1>1, LogExists
  <2>2. i = CHOOSE j \in 0 .. n : Log(n, j)
    BY Zenon DEF ulog2, Log
  <2> HIDE DEF i
  <2>3. QED
    BY <2>1, <2>2, Zenon
<1>3. w \in Nat \ {0} /\ x = 2 * w
  <2>1. i \in Exponent /\ i \in 0 .. MaxBucket + MaxSize + Header
    <3> HIDE DEF i, n
    <3>1. QED BY <1>1, <1>2, BucketAssumption, BoundAssumption DEF Exponent
  <2> HIDE DEF i
  <2>2. QED
    BY <2>1, Powers, PowerAssumption, Zenon
<1>4. w <= n /\ n < x
  BY <1>2 DEF Log
<1>5. BucketFor(size) = IF n # w THEN i + 1 ELSE i
  BY Zenon DEF BucketFor
<1>6. i \in Nat /\ i + 1 \in Nat
  <2> HIDE DEF i, n
  <2>1. QED BY <1>1, <1>2
<1>7. CASE n # w
  <2>1. BucketFor(size) = i + 1
    BY <1>5, <1>7, Zenon
  <2>2. n <= x /\ x < 2 * n
    <3> HIDE DEF w, x, n
    <3>1. QED BY <1>1, <1>3, <1>4, <1>7
  <2>3. 2 ^ BucketFor(size) = x
    BY <2>1, Zenon
  <2>4. QED
    BY <1>6, <2>1, <2>2, <2>3, Zenon
<1>8. CASE n = w
  <2>1. BucketFor(size) = i
    BY <1>5, <1>8, Zenon
  <2>2. n <= w /\ w < 2 * n
    <3> HIDE DEF w, x, n
    <3>1. QED BY <1>1, <1>3, <1>4, <1>8
  <2>3. 2 ^ BucketFor(size) = w
    BY <2>1, Zenon
  <2>4. QED
    BY <1>6, <2>1, <2>2, <2>3, Zenon
<1>9. QED
  BY <1>7, <1>8

LEMMA RequestBucket ==
  ASSUME NEW size \in 0 .. MaxSize, BucketFor(size) <= MaxBucket
  PROVE  BucketFor(size) \in Bucket
<1> DEFINE b == BucketFor(size)
<1>1. b \in Nat /\ b <= MaxBucket
  BY BucketForRight
<1> HIDE DEF b
<1>2. b \in Bucket
  BY <1>1, BucketAssumption DEF Bucket
<1>3. QED
  BY <1>2 DEF b

-----------------------------------------------------------------------------
(* What callers get and give back. *)

Units == MaxChunks * Chunk

(* A step of RegionAlloc, or none. *)
RunStep(old, new) ==
  \/ new = old
  \/ \E first \in 0 .. Units - 1, length \in 1 .. Units :
       /\ first + length <= Units
       /\ \A r \in old : Runs!Disjoint(r, <<first, length>>)
       /\ new = old \cup {<<first, length>>}
  \/ \E r \in old : new = old \ {r}

(* A free block overlaps none that is held. *)
LEMMA FreeIsApart ==
  ASSUME NEW h, PhysChain(h), NEW n \in Blocks(h), h.node[n].status # "used"
  PROVE  RunStep(HeldOf(h), HeldOf(h) \cup {<<n, Size(h, n)>>})
<1> DEFINE s == Size(h, n)
<1>1. /\ h.chunks * Chunk \in Nat /\ h.chunks * Chunk <= Units /\ Units \in Nat
      /\ \A x \in Blocks(h) : /\ x \in Nat /\ Size(h, x) \in Nat \ {0} /\ End(h, x) \in Nat
                              /\ End(h, x) = x + Size(h, x)
  BY ChainNumbers DEF Units
<1>2. \A x \in Blocks(h) : End(h, x) <= h.chunks * Chunk /\ Apart(h, x)
  BY ChainParts
<1>3. n \in 0 .. Units - 1 /\ s \in 1 .. Units /\ n + s <= Units
  <2>1. n \in Nat /\ s \in Nat \ {0} /\ n + s <= h.chunks * Chunk
    BY <1>1, <1>2
  <2> HIDE DEF s
  <2>2. QED
    BY <1>1, <2>1
<1>4. ASSUME NEW r \in HeldOf(h)
      PROVE  Runs!Disjoint(r, <<n, s>>)
  <2>1. PICK m \in Blocks(h) : h.node[m].status = "used" /\ r = <<m, Size(h, m)>>
    BY DEF HeldOf
  <2>2. m # n /\ m \in Nat /\ n \in Nat
    BY <1>1, <2>1
  <2>3. CASE m < n
    <3>1. m + Size(h, m) <= n
      BY <1>1, <1>2, <2>3 DEF Apart
    <3>2. QED
      BY <2>1, <3>1 DEF Runs!Disjoint
  <2>4. CASE n < m
    <3>1. n + s <= m
      BY <1>1, <1>2, <2>4 DEF Apart
    <3>2. QED
      BY <2>1, <3>1 DEF Runs!Disjoint
  <2>5. QED
    BY <2>2, <2>3, <2>4
<1> HIDE DEF s
<1>5. RunStep(HeldOf(h), HeldOf(h) \cup {<<n, s>>})
  BY <1>3, <1>4, Zenon DEF RunStep
<1>6. QED
  BY <1>5 DEF s

(* A detached block is handed out. *)
LEMMA HandOutHeap ==
  ASSUME NEW h, PhysChain(h), NEW n \in Blocks(h), FreeLists(h, {n}),
         h.node[n].status = "free"
  PROVE  LET g == [h EXCEPT !.node[n].status = "used"]
         IN  Whole(g) /\ HeldOf(g) = HeldOf(h) \cup {<<n, Size(h, n)>>}
<1> DEFINE g == SetField(h, n, "status", "used")
           r == [h.node[n] EXCEPT !["status"] = "used"]
<1>1. HeapTyped(h) /\ n # Null /\ h.node[n] \in NodeType
  BY ChainNumbers, FreeBlocks DEF HeapTyped
<1>2. [h EXCEPT !.node[n].status = "used"] = g
  BY <1>1 DEF SetField
<1>3. Put(g, h, n, r)
  BY <1>1, TypedFormed, SetPut
<1>4. /\ r \in NodeType /\ r.status = "used" /\ r.bucket = h.node[n].bucket
      /\ r.phys_next = h.node[n].phys_next /\ r.phys_prev = h.node[n].phys_prev
  BY <1>1 DEF NodeType
<1> HIDE DEF g, r
<1>5. HeapTyped(g)
  BY <1>1, <1>3, <1>4, PutTyped
<1>6. SameShape(g, h)
  BY <1>3, <1>4 DEF Put, SameShape
<1>7. PhysChain(g)
  BY <1>5, <1>6, ShapeChain
<1>8. SameLists(g, {}, h, {n})
  BY <1>3, <1>4 DEF SameLists, FreeOf, Put
<1>9. FreeLists(g, {})
  BY <1>8, ListsSame
<1>10. HeldOf(g) = HeldOf(h) \cup {<<n, Size(h, n)>>}
  <2>1. {m \in Blocks(g) : g.node[m].status = "used"}
          = {m \in Blocks(h) : h.node[m].status = "used"} \cup {n}
    BY <1>3, <1>4 DEF Put
  <2>2. \A x \in Blocks(h) : Size(g, x) = Size(h, x)
    BY <1>6 DEF SameShape, Size
  <2>3. QED
    BY <2>1, <2>2 DEF HeldOf
<1>11. QED
  BY <1>2, <1>7, <1>9, <1>10 DEF Whole

(* A block that is given back is free and on no list yet. *)
LEMMA FreeHeap ==
  ASSUME NEW h, Whole(h), NEW n \in Blocks(h), h.node[n].status = "used"
  PROVE  LET g == [h EXCEPT !.node[n].status = "free", !.node[n].next = Null,
                            !.node[n].previous = Null]
         IN  /\ Merging(g, n)
             /\ HeldOf(g) = HeldOf(h) \ {<<n, Size(h, n)>>}
             /\ <<n, Size(h, n)>> \in HeldOf(h)
<1> DEFINE k1 == SetField(h, n, "status", "free")
           k2 == SetField(k1, n, "next", Null)
           g == SetField(k2, n, "previous", Null)
           r1 == [h.node[n] EXCEPT !["status"] = "free"]
           r2 == [r1 EXCEPT !["next"] = Null]
           r == [r2 EXCEPT !["previous"] = Null]
<1>1. PhysChain(h) /\ FreeLists(h, {}) /\ HeapTyped(h) /\ n # Null /\ h.node[n] \in NodeType
  BY ChainNumbers, FreeBlocks DEF Whole, HeapTyped
<1>2. [h EXCEPT !.node[n].status = "free", !.node[n].next = Null, !.node[n].previous = Null] = g
  BY <1>1, ZenonT(40) DEF SetField
<1>3. Put(k1, h, n, r1)
  BY <1>1, TypedFormed, SetPut
<1> HIDE DEF k1
<1>4. Put(k2, k1, n, r2)
  <2>1. Formed(k1) /\ n \in Blocks(k1) /\ k1.node[n] = r1
    BY <1>3 DEF Put
  <2>2. QED
    BY <1>1, <2>1, SetPut
<1> HIDE DEF k2
<1>5. Put(g, k2, n, r)
  <2>1. Formed(k2) /\ n \in Blocks(k2) /\ k2.node[n] = r2
    BY <1>4 DEF Put
  <2>2. QED
    BY <1>1, <2>1, SetPut
<1>6. /\ r \in NodeType /\ r.status = "free" /\ r.bucket = h.node[n].bucket
      /\ r.next = Null /\ r.previous = Null
      /\ r.phys_next = h.node[n].phys_next /\ r.phys_prev = h.node[n].phys_prev
  BY <1>1 DEF NodeType, Ptr
<1> HIDE DEF g, r, r1, r2
<1>7. Put(g, h, n, r)
  BY <1>3, <1>4, <1>5, PutPut
<1>8. HeapTyped(g)
  BY <1>1, <1>6, <1>7, PutTyped
<1>9. SameShape(g, h)
  BY <1>6, <1>7 DEF Put, SameShape
<1>10. PhysChain(g)
  BY <1>1, <1>8, <1>9, ShapeChain
<1>11. SameLists(g, {n}, h, {})
  BY <1>7 DEF SameLists, FreeOf, Put
<1>12. FreeLists(g, {n})
  BY <1>1, <1>11, ListsSame
<1>13. Merging(g, n)
  BY <1>6, <1>7, <1>10, <1>12 DEF Merging, Put
<1>14. HeldOf(g) = HeldOf(h) \ {<<n, Size(h, n)>>}
  <2>1. {m \in Blocks(g) : g.node[m].status = "used"}
          = {m \in Blocks(h) : h.node[m].status = "used"} \ {n}
    BY <1>6, <1>7 DEF Put
  <2>2. \A x \in Blocks(h) : Size(g, x) = Size(h, x)
    BY <1>9 DEF SameShape, Size
  <2>3. QED
    BY <2>1, <2>2 DEF HeldOf
<1>15. <<n, Size(h, n)>> \in HeldOf(h)
  BY DEF HeldOf
<1>16. QED
  BY <1>2, <1>13, <1>14, <1>15

-----------------------------------------------------------------------------
(* The calls, one step at a time. *)

Keeps == IInv' /\ RunStep(held, held')

(* A call ends: some block of s units, which nobody held, is now the caller's *)
(* who asked for size units.                                                *)
Given(size, s) ==
  \E n : /\ held' = held \cup {<<n, s>>} /\ \A r \in held : r[1] # n
         /\ asked' = [m \in DOMAIN asked \cup {n} |-> IF m = n THEN size ELSE asked[m]]
         /\ op' = Idle

LEMMA Idles ==
  ASSUME IInv, op = Idle
  PROVE  Whole(heap) /\ held = HeldOf(heap)
BY DEF IInv, Calls, InSpill, InMerge, Idle

(* A step that ends a call by handing out a detached block. *)
LEMMA HandOutKeeps ==
  ASSUME NEW h, PhysChain(h), NEW n \in Blocks(h), FreeLists(h, {n}),
         h.node[n].status = "free", held = HeldOf(h), NEW size, HandOut(h, n, size)
  PROVE  Keeps /\ Given(size, Size(h, n))
<1> DEFINE g == [h EXCEPT !.node[n].status = "used"]
<1>1. Whole(g) /\ HeldOf(g) = HeldOf(h) \cup {<<n, Size(h, n)>>}
  BY HandOutHeap
<1>2. heap' = g /\ held' = held \cup {<<n, Size(h, n)>>} /\ op' = Idle
  BY DEF HandOut
<1> HIDE DEF g
<1>3. Whole(heap') /\ held' = HeldOf(heap')
  BY <1>1, <1>2
<1>4. Calls(op', heap')
  BY <1>2, <1>3 DEF Calls
<1>5. RunStep(held, held')
  BY <1>2, FreeIsApart
<1>6. Keeps
  BY <1>3, <1>4, <1>5 DEF Keeps, IInv
<1>7. \A r \in held : r[1] # n
  BY DEF HeldOf
<1>8. Given(size, Size(h, n))
  BY <1>2, <1>7, Zenon DEF Given, HandOut
<1>9. QED
  BY <1>6, <1>8

(* A block that is popped off its list is detached. *)
LEMMA Popped ==
  ASSUME NEW h, Whole(h), NEW k \in Bucket, h.start[k] # Null
  PROVE  LET n == h.start[k]
             u == c4a_node_unlink(h, n)
         IN  Spilling(u, n, k) /\ HeldOf(u) = HeldOf(h)
<1> DEFINE n == h.start[k]
           u == c4a_node_unlink(h, n)
<1>1. PhysChain(h) /\ HeapTyped(h) /\ FreeLists(h, {})
  BY ChainNumbers DEF Whole
<1>2. n \in FreeOf(h, k, {})
  BY <1>1, ListParts DEF FreeLists, Linked
<1>3. n \in Blocks(h) \ {} /\ h.node[n].status = "free" /\ h.node[n].bucket = k
  BY <1>2 DEF FreeOf
<1> HIDE DEF n
<1>4. Unlinked(u, h, n) /\ FreeLists(u, {} \cup {n})
  BY <1>1, <1>3, UnlinkLists
<1> HIDE DEF u
<1>5. {} \cup {n} = {n}
  OBVIOUS
<1>6. HeapTyped(u) /\ Kept(u, h)
  BY <1>4 DEF Unlinked
<1>7. PhysChain(u) /\ HeldOf(u) = HeldOf(h)
  BY <1>1, <1>6, KeptChain, HeldKept
<1>8. n \in Blocks(u) /\ u.node[n].status = "free" /\ u.node[n].bucket = k
  BY <1>3, <1>6 DEF Kept
<1>9. Spilling(u, n, k) /\ HeldOf(u) = HeldOf(h)
  BY <1>4, <1>5, <1>7, <1>8 DEF Spilling
<1>10. QED
  BY <1>9 DEF u, n

LEMMA AllocExactKeeps ==
  ASSUME IInv, NEW size \in 0 .. MaxSize, AllocExact(size)
  PROVE  Keeps /\ Given(size, 2 ^ BucketFor(size))
<1> DEFINE b == BucketFor(size)
           n == heap.start[b]
           u == c4a_node_unlink(heap, n)
<1>1. op = Idle /\ b <= MaxBucket /\ n # Null /\ HandOut(u, n, size)
  BY DEF AllocExact
<1>2. Whole(heap) /\ held = HeldOf(heap)
  BY <1>1, Idles
<1>3. b \in Bucket
  BY <1>1, RequestBucket
<1> HIDE DEF b
<1>4. Spilling(u, n, b) /\ HeldOf(u) = HeldOf(heap)
  BY <1>1, <1>2, <1>3, Popped
<1> HIDE DEF n, u
<1>5. PhysChain(u) /\ n \in Blocks(u) /\ FreeLists(u, {n}) /\ u.node[n].status = "free"
  BY <1>4 DEF Spilling
<1>6. held = HeldOf(u)
  BY <1>2, <1>4
<1>7. Size(u, n) = 2 ^ b
  BY <1>4, Zenon DEF Spilling, Size
<1>8. Keeps /\ Given(size, Size(u, n))
  BY <1>1, <1>5, <1>6, HandOutKeeps
<1>9. QED
  BY <1>7, <1>8, Zenon DEF b

LEMMA AllocSpillKeeps ==
  ASSUME IInv, NEW size \in 0 .. MaxSize, AllocSpill(size)
  PROVE  Keeps /\ op'.size = size /\ op'.lower = BucketFor(size)
<1> DEFINE b == BucketFor(size)
           above == {k \in b + 1 .. MaxBucket : heap.start[k] # Null}
           h == IF above = {} THEN c4a_grow(heap) ELSE heap
           k == IF above = {} THEN MaxBucket
                ELSE CHOOSE x \in above : \A y \in above : x <= y
           n == h.start[k]
           u == c4a_node_unlink(h, n)
<1>1. /\ op = Idle /\ b <= MaxBucket /\ (above = {} => heap.chunks < MaxChunks)
      /\ op' = [kind |-> "spill", node |-> n, at |-> k, lower |-> b, size |-> size]
      /\ heap' = u /\ held' = held /\ asked' = asked
  BY Zenon DEF AllocSpill
<1>2. Whole(heap) /\ held = HeldOf(heap)
  BY <1>1, Idles
<1>3. b \in Bucket
  BY <1>1, RequestBucket
<1> HIDE DEF b
<1>4. Whole(h) /\ HeldOf(h) = HeldOf(heap) /\ k \in Bucket /\ b <= k /\ h.start[k] # Null
  <2>1. CASE above = {}
    <3>1. h = c4a_grow(heap) /\ k = MaxBucket
      BY <2>1
    <3>2. Whole(c4a_grow(heap)) /\ HeldOf(c4a_grow(heap)) = HeldOf(heap)
          /\ c4a_grow(heap).start[MaxBucket] # Null
      BY <1>1, <1>2, <2>1, GrowWhole
    <3>3. QED
      BY <1>1, <3>1, <3>2, Sizes
  <2>2. CASE above # {}
    <3>1. h = heap /\ k = CHOOSE x \in above : \A y \in above : x <= y
      BY <2>2
    <3>2. above \subseteq Nat
      BY <1>3 DEF Bucket
    <3>3. k \in above
      <4> HIDE DEF above
      <4>1. \E x \in above : \A y \in above : x <= y
        BY <2>2, <3>2, LeastNumber
      <4>2. QED
        BY <3>1, <4>1, Zenon
    <3> HIDE DEF k, h
    <3>4. k \in b + 1 .. MaxBucket /\ heap.start[k] # Null
      BY <3>3
    <3>5. k \in Bucket /\ b <= k
      BY <1>3, <3>4, BucketAssumption DEF Bucket
    <3>6. QED
      BY <1>2, <3>1, <3>4, <3>5
  <2>3. QED
    BY <2>1, <2>2
<1> HIDE DEF h, k
<1>5. Spilling(u, n, k) /\ HeldOf(u) = HeldOf(h)
  BY <1>4, Popped
<1> HIDE DEF n, u
<1>6. InSpill(op', heap')
  <2>1. op'.node = n /\ op'.at = k /\ op'.lower = b /\ op'.size = size
    BY <1>1
  <2>2. b \in 0 .. k
    BY <1>3, <1>4 DEF Bucket
  <2>3. QED
    BY <1>1, <1>4, <1>5, <2>1, <2>2 DEF InSpill
<1>7. held' = HeldOf(heap')
  BY <1>1, <1>2, <1>4, <1>5
<1>8. RunStep(held, held')
  BY <1>1 DEF RunStep
<1>9. op'.size = size /\ op'.lower = b
  BY <1>1
<1>10. Keeps
  BY <1>6, <1>7, <1>8 DEF Keeps, IInv, Calls
<1>11. QED
  BY <1>9, <1>10 DEF b

(* The upper half is split off and listed; the lower half stays detached.   *)
LEMMA SpillHeap ==
  ASSUME NEW h, NEW n, NEW b \in Bucket, Spilling(h, n, b + 1)
  PROVE  LET g == c4a_bucket_insert(c4a_split_node(h, n), b, n + 2 ^ b)
         IN  Spilling(g, n, b) /\ HeldOf(g) = HeldOf(h)
<1> DEFINE t == n + 2 ^ b
           s == c4a_split_node(h, n)
           g == c4a_bucket_insert(s, b, t)
<1>1. /\ PhysChain(h) /\ HeapTyped(h) /\ FreeLists(h, {n}) /\ n \in Blocks(h)
      /\ h.node[n].status = "free" /\ h.node[n].bucket = b + 1
  BY ChainNumbers DEF Spilling
<1>2. IsSplit(s, h, n, b, t) /\ PhysChain(s) /\ t \notin Blocks(h)
  BY <1>1, SplitChain
<1> HIDE DEF s, t
<1>3. FreeLists(s, {n, t})
  BY <1>1, <1>2, SplitLists
<1>4. /\ HeapTyped(s) /\ t \in Blocks(s) \cap {n, t} /\ s.node[t].status = "free"
      /\ s.node[t].bucket = b /\ n \in Blocks(s) /\ s.node[n].status = "free"
      /\ s.node[n].bucket = b /\ n # t
  BY <1>1, <1>2 DEF IsSplit
<1>5. Inserted(g, s, b, t) /\ FreeLists(g, {n, t} \ {t})
  BY <1>3, <1>4, InsertLists
<1> HIDE DEF g
<1>6. {n, t} \ {t} = {n}
  BY <1>4
<1>7. HeapTyped(g) /\ Kept(g, s)
  BY <1>5 DEF Inserted
<1>8. PhysChain(g) /\ HeldOf(g) = HeldOf(s)
  BY <1>2, <1>7, KeptChain, HeldKept
<1>9. HeldOf(s) = HeldOf(h)
  <2>1. ASSUME NEW x
        PROVE  x \in Blocks(s) /\ s.node[x].status = "used"
                 <=> x \in Blocks(h) /\ h.node[x].status = "used"
    BY <1>1, <1>2 DEF IsSplit
  <2>2. \A x \in Blocks(h) : h.node[x].status = "used" => s.node[x].bucket = h.node[x].bucket
    BY <1>1, <1>2 DEF IsSplit
  <2>3. QED
    BY <2>1, <2>2, HeldSame
<1>10. n \in Blocks(g) /\ g.node[n].status = "free" /\ g.node[n].bucket = b
  BY <1>4, <1>7 DEF Kept
<1>11. Spilling(g, n, b) /\ HeldOf(g) = HeldOf(h)
  BY <1>5, <1>6, <1>8, <1>9, <1>10 DEF Spilling
<1>12. QED
  BY <1>11 DEF g, s, t

LEMMA SpillKeeps ==
  ASSUME IInv, Spill
  PROVE  Keeps /\ op'.size = op.size /\ op'.lower = op.lower
<1> DEFINE n == op.node
           b == op.at - 1
           g == c4a_bucket_insert(c4a_split_node(heap, n), b, n + 2 ^ b)
<1>1. /\ op.kind = "spill" /\ op.at > op.lower /\ heap' = g
      /\ op' = [op EXCEPT !.at = @ - 1] /\ held' = held
  BY DEF Spill
<1>2. InSpill(op, heap) /\ held = HeldOf(heap)
  BY <1>1 DEF IInv, Calls, InMerge, Idle
<1>3. /\ op = [kind |-> "spill", node |-> n, at |-> op.at, lower |-> op.lower, size |-> op.size]
      /\ op.at \in Bucket /\ op.lower \in 0 .. op.at /\ Spilling(heap, n, op.at)
  BY <1>2 DEF InSpill
<1>4. b \in Bucket /\ b + 1 = op.at /\ op.lower \in 0 .. b
  BY <1>1, <1>3, BucketAssumption DEF Bucket
<1>5. Spilling(heap, n, b + 1)
  BY <1>3, <1>4
<1>6. op' = [kind |-> "spill", node |-> n, at |-> b, lower |-> op.lower, size |-> op.size]
  BY <1>1, <1>3
<1> HIDE DEF n, b
<1>7. Spilling(g, n, b) /\ HeldOf(g) = HeldOf(heap)
  BY <1>4, <1>5, SpillHeap
<1> HIDE DEF g
<1>8. InSpill(op', heap')
  <2>1. op'.node = n /\ op'.at = b /\ op'.lower = op.lower /\ op'.size = op.size
    BY <1>6
  <2>2. QED
    BY <1>1, <1>4, <1>6, <1>7, <2>1 DEF InSpill
<1>9. held' = HeldOf(heap') /\ RunStep(held, held')
  BY <1>1, <1>2, <1>7 DEF RunStep
<1>10. op'.size = op.size /\ op'.lower = op.lower
  BY <1>6
<1>11. QED
  BY <1>8, <1>9, <1>10 DEF Keeps, IInv, Calls

(* A detached block goes back on its list and the heap is whole. *)
LEMMA ListBack ==
  ASSUME NEW h, NEW n, NEW b \in Bucket, Spilling(h, n, b)
  PROVE  LET g == c4a_bucket_insert(h, b, n)
         IN  Whole(g) /\ g.start[b] = n /\ Kept(g, h) /\ HeldOf(g) = HeldOf(h)
<1> DEFINE g == c4a_bucket_insert(h, b, n)
<1>1. /\ PhysChain(h) /\ HeapTyped(h) /\ FreeLists(h, {n}) /\ n \in Blocks(h) \cap {n}
      /\ h.node[n].status = "free" /\ h.node[n].bucket = b
  BY ChainNumbers DEF Spilling
<1>2. Inserted(g, h, b, n) /\ FreeLists(g, {n} \ {n})
  BY <1>1, InsertLists
<1> HIDE DEF g
<1>3. {n} \ {n} = {}
  OBVIOUS
<1>4. HeapTyped(g) /\ Kept(g, h) /\ g.start[b] = n
  BY <1>2 DEF Inserted
<1>5. PhysChain(g) /\ HeldOf(g) = HeldOf(h)
  BY <1>1, <1>4, KeptChain, HeldKept
<1>6. Whole(g) /\ g.start[b] = n /\ Kept(g, h) /\ HeldOf(g) = HeldOf(h)
  BY <1>2, <1>3, <1>4, <1>5 DEF Whole
<1>7. QED
  BY <1>6 DEF g

LEMMA SpillEndKeeps ==
  ASSUME IInv, SpillEnd
  PROVE  Keeps /\ Given(op.size, 2 ^ op.lower)
<1> DEFINE b == op.lower
           h1 == c4a_bucket_insert(heap, b, op.node)
           n == h1.start[b]
           u == c4a_node_unlink(h1, n)
           v == c4a_node_unlink(u, n)
<1>1. op.kind = "spill" /\ op.at = b /\ HandOut(v, n, op.size)
  BY Zenon DEF SpillEnd
<1>2. InSpill(op, heap) /\ held = HeldOf(heap)
  BY <1>1 DEF IInv, Calls, InMerge, Idle
<1>3. b \in Bucket /\ Spilling(heap, op.node, b)
  BY <1>1, <1>2 DEF InSpill
<1> HIDE DEF b
<1>4. /\ Whole(h1) /\ n = op.node /\ HeldOf(h1) = HeldOf(heap)
      /\ op.node \in Blocks(heap) /\ PhysChain(heap)
  BY <1>3, ListBack DEF Spilling
<1> HIDE DEF h1
<1>5. h1.start[b] # Null
  <2>1. op.node # Null
    BY <1>4, ChainNumbers, FreeBlocks
  <2>2. QED
    BY <1>4, <2>1
<1>6. Spilling(u, n, b) /\ HeldOf(u) = HeldOf(h1)
  BY <1>3, <1>4, <1>5, Popped
<1>7. u.node[n].next = Null /\ u.node[n].previous = Null
  <2>1. PhysChain(h1) /\ HeapTyped(h1) /\ FreeLists(h1, {})
    BY <1>4, ChainNumbers DEF Whole
  <2>2. n \in FreeOf(h1, b, {})
    BY <1>3, <1>5, <2>1, ListParts DEF FreeLists, Linked
  <2>3. n \in Blocks(h1) \ {} /\ h1.node[n].status = "free"
    BY <2>2 DEF FreeOf
  <2> HIDE DEF n
  <2>4. Unlinked(u, h1, n)
    BY <2>1, <2>3, UnlinkLists
  <2>5. QED
    BY <2>4 DEF Unlinked
<1>8. n # Null
  BY <1>5
<1> HIDE DEF n, u
<1>9. /\ PhysChain(u) /\ HeapTyped(u) /\ n \in Blocks(u) /\ FreeLists(u, {n})
      /\ u.node[n].status = "free" /\ u.node[n].bucket = b
  BY <1>6, ChainNumbers DEF Spilling
<1>10. v = u
  <2>1. u.start[u.node[n].bucket] # n
    BY <1>3, <1>8, <1>9, DetachedUnseen
  <2>2. QED
    BY <1>7, <1>9, <2>1, UnlinkNothing
<1>11. held = HeldOf(u)
  BY <1>2, <1>4, <1>6
<1>12. HandOut(u, n, op.size)
  BY <1>1, <1>10
<1>13. Size(u, n) = 2 ^ b
  BY <1>9, Zenon DEF Size
<1>14. Keeps /\ Given(op.size, Size(u, n))
  BY <1>9, <1>11, <1>12, HandOutKeeps
<1>15. QED
  BY <1>13, <1>14, Zenon DEF b

LEMMA FreeKeeps ==
  ASSUME IInv, NEW n \in Blocks(heap), c4a_free(n)
  PROVE  Keeps
<1> DEFINE g == [heap EXCEPT !.node[n].status = "free", !.node[n].next = Null,
                             !.node[n].previous = Null]
           p == <<n, Size(heap, n)>>
<1>1. /\ op = Idle /\ heap.node[n].status = "used" /\ heap' = g /\ held' = held \ {p}
      /\ op' = [Idle EXCEPT !.kind = "merge", !.node = n]
  BY Zenon DEF c4a_free
<1>2. Whole(heap) /\ held = HeldOf(heap)
  BY <1>1, Idles
<1>3. Merging(g, n) /\ HeldOf(g) = HeldOf(heap) \ {p} /\ p \in HeldOf(heap)
  BY <1>1, <1>2, FreeHeap
<1> HIDE DEF g, p
<1>4. op' = [kind |-> "merge", node |-> n, at |-> 0, lower |-> 0, size |-> 0]
  BY <1>1 DEF Idle
<1>5. InMerge(op', heap')
  <2>1. op'.node = n
    BY <1>4
  <2>2. QED
    BY <1>1, <1>3, <1>4, <2>1 DEF InMerge
<1>6. held' = HeldOf(heap') /\ RunStep(held, held')
  BY <1>1, <1>2, <1>3 DEF RunStep
<1>7. QED
  BY <1>5, <1>6 DEF Keeps, IInv, Calls

LEMMA CoalesceKeeps ==
  ASSUME IInv, Coalesce
  PROVE  Keeps
<1> DEFINE one == MergePrevious(heap, op.node)
           two == MergeNext(one[1], one[2])
<1>1. op.kind = "merge" /\ heap' = two[1] /\ op' = [op EXCEPT !.node = two[2]] /\ held' = held
  BY Zenon DEF Coalesce
<1>2. InMerge(op, heap) /\ held = HeldOf(heap)
  BY <1>1 DEF IInv, Calls, InSpill, Idle
<1>3. /\ op = [kind |-> "merge", node |-> op.node, at |-> 0, lower |-> 0, size |-> 0]
      /\ Merging(heap, op.node)
  BY <1>2 DEF InMerge
<1>4. StillMerging(one, heap)
  BY <1>3, MergePreviousStep
<1> HIDE DEF one
<1>5. Merging(one[1], one[2]) /\ HeldOf(one[1]) = HeldOf(heap)
  BY <1>4 DEF StillMerging
<1>6. StillMerging(two, one[1])
  BY <1>5, MergeNextStep
<1> HIDE DEF two
<1>7. Merging(two[1], two[2]) /\ HeldOf(two[1]) = HeldOf(one[1])
  BY <1>6 DEF StillMerging
<1>8. op' = [kind |-> "merge", node |-> two[2], at |-> 0, lower |-> 0, size |-> 0]
  BY <1>1, <1>3
<1>9. InMerge(op', heap')
  <2>1. op'.node = two[2]
    BY <1>8
  <2>2. QED
    BY <1>1, <1>7, <1>8, <2>1 DEF InMerge
<1>10. held' = HeldOf(heap') /\ RunStep(held, held')
  BY <1>1, <1>2, <1>5, <1>7 DEF RunStep
<1>11. QED
  BY <1>9, <1>10 DEF Keeps, IInv, Calls

(* Between two turns a merging block may be listed: it is a block of its    *)
(* bucket.                                                                  *)
LEMMA MergingSpills ==
  ASSUME NEW h, NEW n, Merging(h, n)
  PROVE  Spilling(h, n, h.node[n].bucket) /\ h.node[n].bucket \in Bucket
BY ChainNumbers DEF Merging, Spilling

LEMMA CoalesceEndKeeps ==
  ASSUME IInv, CoalesceEnd
  PROVE  /\ Keeps
         /\ Merging(heap, op.node) /\ Kept(heap', heap)
<1> DEFINE n == op.node
           b == heap.node[n].bucket
           g == c4a_bucket_insert(heap, b, n)
<1>1. op.kind = "merge" /\ heap' = g /\ op' = Idle /\ held' = held
  BY Zenon DEF CoalesceEnd
<1>2. InMerge(op, heap) /\ held = HeldOf(heap)
  BY <1>1 DEF IInv, Calls, InSpill, Idle
<1>3. Merging(heap, n)
  BY <1>2 DEF InMerge
<1>4. Spilling(heap, n, b) /\ b \in Bucket
  BY <1>3, MergingSpills
<1> HIDE DEF n, b
<1>5. Whole(g) /\ HeldOf(g) = HeldOf(heap) /\ Kept(g, heap)
  BY <1>4, ListBack
<1> HIDE DEF g
<1>6. Calls(op', heap') /\ held' = HeldOf(heap') /\ RunStep(held, held')
  BY <1>1, <1>2, <1>5 DEF Calls, RunStep
<1>7. QED
  BY <1>1, <1>3, <1>5, <1>6 DEF Keeps, IInv, n

-----------------------------------------------------------------------------
(* The theorems. *)

LEMMA InitHolds == Init => IInv
<1> SUFFICES ASSUME Init PROVE IInv
  OBVIOUS
<1>1. /\ heap = [start |-> [b \in Bucket |-> Null], node |-> [a \in {} |-> 0], chunks |-> 0]
      /\ op = Idle /\ held = {}
  BY DEF Init, c4a_heap_init
<1>2. /\ Blocks(heap) = {} /\ heap.chunks = 0
      /\ \A b \in Bucket : heap.start[b] = Null
  BY <1>1 DEF Blocks
<1>3. HeapTyped(heap)
  <2>1. heap.start \in [Bucket -> Ptr] /\ heap.chunks \in 0 .. MaxChunks
    BY <1>1, BoundAssumption DEF Ptr
  <2>2. heap.node \in [Blocks(heap) -> NodeType]
    BY <1>1 DEF Blocks
  <2>3. QED
    BY <1>1, <1>2, <2>1, <2>2 DEF HeapTyped
<1>4. PhysChain(heap)
  BY <1>2, <1>3 DEF PhysChain
<1>5. FreeLists(heap, {})
  <2>1. ASSUME NEW b \in Bucket PROVE ListOf(heap, b, FreeOf(heap, b, {}))
    <3>1. FreeOf(heap, b, {}) = {}
      BY <1>2 DEF FreeOf
    <3>2. Linked(heap, b, {}) /\ \A met \in SUBSET {} : met = {}
      BY <1>2 DEF Linked
    <3>3. ListOf(heap, b, {})
      BY <3>2, ListParts
    <3>4. QED
      BY <3>1, <3>3
  <2>2. QED
    BY <2>1 DEF FreeLists
<1>6. HeldOf(heap) = {}
  BY <1>2 DEF HeldOf
<1>7. QED
  BY <1>1, <1>4, <1>5, <1>6 DEF IInv, Calls, Whole

LEMMA StepKeeps == IInv /\ [Next]_vars => Keeps
<1> SUFFICES ASSUME IInv, [Next]_vars PROVE Keeps
  OBVIOUS
<1>1. ASSUME UNCHANGED vars PROVE Keeps
  <2>1. heap' = heap /\ op' = op /\ held' = held
    BY <1>1 DEF vars
  <2>2. Calls(op, heap) /\ held = HeldOf(heap)
    BY DEF IInv
  <2>3. Calls(op', heap') /\ held' = HeldOf(heap') /\ RunStep(held, held')
    BY <2>1, <2>2 DEF RunStep
  <2>4. QED
    BY <2>3 DEF Keeps, IInv
<1>2. ASSUME NEW size \in 0 .. MaxSize, c4a_alloc(size) PROVE Keeps
  <2>1. CASE AllocTooLarge(size)
    BY <1>1, <2>1 DEF AllocTooLarge
  <2>2. QED
    BY <1>2, <2>1, AllocExactKeeps, AllocSpillKeeps DEF c4a_alloc
<1>3. ASSUME NEW n \in Blocks(heap), c4a_free(n) \/ c4a_free_refused(n) PROVE Keeps
  <2>1. CASE c4a_free_refused(n)
    BY <1>1, <2>1 DEF c4a_free_refused
  <2>2. QED
    BY <1>3, <2>1, FreeKeeps
<1>4. QED
  BY <1>1, <1>2, <1>3, SpillKeeps, SpillEndKeeps, CoalesceKeeps, CoalesceEndKeeps DEF Next

(* Between calls the heap is whole; in a call one block is on no list, and  *)
(* the loop that works on it knows its bucket (spill) or has cleared its    *)
(* links (merge); callers hold what is marked used.                         *)
THEOREM HeapInvariant == Spec => []IInv
<1>1. IInv /\ [Next]_vars => IInv'
  BY StepKeeps DEF Keeps
<1>2. QED
  BY <1>1, InitHolds, PTL DEF Spec

(* c4a_node_unlink, c4a_bucket_insert, c4a_split_node and c4a_do_coalesce   *)
(* keep the physical chain and every free list whole.                       *)
THEOREM HeapStaysIntact == Spec => []HeapIntact
<1>1. IInv => HeapIntact
  <2> SUFFICES ASSUME IInv PROVE HeapIntact
    OBVIOUS
  <2>1. CASE op = Idle
    BY <2>1, Idles DEF HeapIntact, Detached, Whole
  <2>2. CASE op # Idle
    <3>1. PhysChain(heap) /\ FreeLists(heap, {op.node})
      BY <2>2 DEF IInv, Calls, InSpill, InMerge, Spilling, Merging
    <3>2. QED
      BY <2>2, <3>1 DEF HeapIntact, Detached
  <2>3. QED
    BY <2>1, <2>2
<1>2. QED
  BY <1>1, HeapInvariant, PTL

(* A block is in the bucket its caller's size belongs to, and a request that *)
(* is being served from a larger block has not forgotten its bucket.        *)
Suits(r, a) == a[r[1]] \in 0 .. MaxSize /\ r[2] = 2 ^ BucketFor(a[r[1]])

AInv ==
  /\ DOMAIN asked = {r[1] : r \in held}
  /\ \A r \in held : Suits(r, asked)
  /\ op.kind = "spill" => op.size \in 0 .. MaxSize /\ op.lower = BucketFor(op.size)

(* A new holder is entered with its size, and nobody else's changes.        *)
LEMMA GivenSuits ==
  ASSUME AInv, NEW size \in 0 .. MaxSize, Given(size, 2 ^ BucketFor(size))
  PROVE  AInv'
<1> DEFINE s == 2 ^ BucketFor(size)
<1>1. PICK n : /\ held' = held \cup {<<n, s>>} /\ \A r \in held : r[1] # n
               /\ asked' = [m \in DOMAIN asked \cup {n} |-> IF m = n THEN size ELSE asked[m]]
               /\ op' = Idle
  BY Zenon DEF Given
<1>2. Suits(<<n, s>>, asked')
  <2>1. asked'[n] = size
    BY <1>1
  <2>2. QED
    BY <2>1, Zenon DEF Suits
<1> HIDE DEF s
<1>3. DOMAIN asked' = {r[1] : r \in held'}
  <2>1. DOMAIN asked' = DOMAIN asked \cup {n}
    BY <1>1
  <2>2. {r[1] : r \in held'} = {r[1] : r \in held} \cup {n}
    <3> DEFINE q == <<n, s>>
    <3>1. q[1] = n /\ held' = held \cup {q}
      BY <1>1
    <3> HIDE DEF q
    <3>2. QED
      BY <3>1
  <2>3. QED
    BY <2>1, <2>2 DEF AInv
<1>4. ASSUME NEW r \in held PROVE Suits(r, asked')
  <2>1. r[1] \in DOMAIN asked /\ r[1] # n /\ Suits(r, asked)
    BY <1>1, <1>4 DEF AInv
  <2>2. asked'[r[1]] = asked[r[1]]
    BY <1>1, <2>1
  <2>3. QED
    BY <2>1, <2>2 DEF Suits
<1>5. op'.kind # "spill"
  BY <1>1 DEF Idle
<1>6. \A r \in held' : Suits(r, asked')
  BY <1>1, <1>2, <1>4
<1>7. QED
  BY <1>3, <1>5, <1>6 DEF AInv

(* A block given back is nobody's, and every other one keeps its holder.    *)
LEMMA FreeSuits ==
  ASSUME IInv, AInv, NEW n \in Blocks(heap), c4a_free(n)
  PROVE  AInv'
<1> DEFINE p == <<n, Size(heap, n)>>
<1>1. /\ op = Idle /\ heap.node[n].status = "used" /\ held' = held \ {p}
      /\ asked' = [m \in DOMAIN asked \ {n} |-> asked[m]]
      /\ op' = [Idle EXCEPT !.kind = "merge", !.node = n]
  BY Zenon DEF c4a_free
<1>2. held = HeldOf(heap)
  BY <1>1, Idles
<1>3. \A r \in held : r[1] = n => r = p
  BY <1>2 DEF HeldOf
<1>4. p[1] = n
  OBVIOUS
<1> HIDE DEF p
<1>5. \A r \in held : r \in held' <=> r[1] # n
  BY <1>1, <1>3, <1>4
<1>6. DOMAIN asked' = {r[1] : r \in held'}
  <2>1. DOMAIN asked' = DOMAIN asked \ {n}
    BY <1>1
  <2>2. {r[1] : r \in held'} = {r[1] : r \in held} \ {n}
    BY <1>1, <1>5
  <2>3. QED
    BY <2>1, <2>2 DEF AInv
<1>7. ASSUME NEW r \in held' PROVE Suits(r, asked')
  <2>1. r \in held /\ r[1] # n
    BY <1>1, <1>5, <1>7
  <2>2. r[1] \in DOMAIN asked /\ Suits(r, asked)
    BY <2>1 DEF AInv
  <2>3. asked'[r[1]] = asked[r[1]]
    BY <1>1, <2>1, <2>2
  <2>4. QED
    BY <2>2, <2>3 DEF Suits
<1>8. op'.kind # "spill"
  BY <1>1 DEF Idle
<1>9. QED
  BY <1>6, <1>7, <1>8 DEF AInv

(* A step that hands nothing out and takes nothing back. *)
LEMMA SameSuits ==
  ASSUME AInv, held' = held, asked' = asked,
         op'.kind = "spill" => op'.size \in 0 .. MaxSize /\ op'.lower = BucketFor(op'.size)
  PROVE  AInv'
BY DEF AInv

LEMMA StepSuits == IInv /\ AInv /\ [Next]_vars => AInv'
<1> SUFFICES ASSUME IInv, AInv, [Next]_vars PROVE AInv'
  OBVIOUS
<1>1. ASSUME UNCHANGED vars PROVE AInv'
  BY <1>1 DEF vars, AInv
<1>2. ASSUME NEW size \in 0 .. MaxSize, c4a_alloc(size) PROVE AInv'
  <2>1. CASE AllocTooLarge(size)
    BY <1>1, <2>1 DEF AllocTooLarge
  <2>2. CASE AllocExact(size)
    BY <2>2, AllocExactKeeps, GivenSuits
  <2>3. CASE AllocSpill(size)
    <3>1. op'.size = size /\ op'.lower = BucketFor(size)
      BY <2>3, AllocSpillKeeps
    <3>2. held' = held /\ asked' = asked
      BY <2>3, Zenon DEF AllocSpill
    <3>3. QED
      BY <3>1, <3>2, SameSuits
  <2>4. QED
    BY <1>2, <2>1, <2>2, <2>3 DEF c4a_alloc
<1>3. ASSUME NEW n \in Blocks(heap), c4a_free(n) \/ c4a_free_refused(n) PROVE AInv'
  <2>1. CASE c4a_free_refused(n)
    BY <1>1, <2>1 DEF c4a_free_refused
  <2>2. QED
    BY <1>3, <2>1, FreeSuits
<1>4. CASE Spill
  <2>1. op.kind = "spill" /\ held' = held /\ asked' = asked
    BY <1>4, Zenon DEF Spill
  <2>2. op'.size = op.size /\ op'.lower = op.lower
    BY <1>4, SpillKeeps
  <2>3. QED
    BY <2>1, <2>2, SameSuits DEF AInv
<1>5. CASE SpillEnd
  <2>1. op.kind = "spill"
    BY <1>5, Zenon DEF SpillEnd
  <2>2. op.size \in 0 .. MaxSize /\ op.lower = BucketFor(op.size)
    BY <2>1 DEF AInv
  <2>3. Given(op.size, 2 ^ BucketFor(op.size))
    <3>1. Given(op.size, 2 ^ op.lower)
      BY <1>5, SpillEndKeeps
    <3>2. QED
      BY <2>2, <3>1, Zenon
  <2>4. QED
    BY <2>2, <2>3, GivenSuits
<1>6. CASE Coalesce
  <2>1. /\ op.kind = "merge" /\ held' = held /\ asked' = asked
        /\ \E x : op' = [op EXCEPT !.node = x]
    BY <1>6, Zenon DEF Coalesce
  <2>2. op = [kind |-> "merge", node |-> op.node, at |-> 0, lower |-> 0, size |-> 0]
    BY <2>1 DEF IInv, Calls, InSpill, InMerge, Idle
  <2>3. op'.kind # "spill"
    BY <2>1, <2>2
  <2>4. QED
    BY <2>1, <2>3, SameSuits
<1>7. CASE CoalesceEnd
  <2>1. held' = held /\ asked' = asked /\ op'.kind # "spill"
    BY <1>7, Zenon DEF CoalesceEnd, Idle
  <2>2. QED
    BY <2>1, SameSuits
<1>8. QED
  BY <1>1, <1>2, <1>3, <1>4, <1>5, <1>6, <1>7 DEF Next

(* A block that is handed out holds the request it answers and its header,  *)
(* is less than twice as large, and stays its caller's as long as it is     *)
(* used.                                                                    *)
THEOREM BlocksFit == Spec => []BlockFits
<1>1. Init => AInv
  BY DEF Init, AInv, Idle
<1>2. IInv /\ AInv => BlockFits
  <2> SUFFICES ASSUME IInv, AInv PROVE BlockFits
    OBVIOUS
  <2> DEFINE used == {n \in Blocks(heap) : heap.node[n].status = "used"}
  <2>1. held = {<<n, Size(heap, n)>> : n \in used}
    BY DEF IInv, HeldOf
  <2> HIDE DEF used
  <2>2. DOMAIN asked = used
    <3> DEFINE q(n) == <<n, Size(heap, n)>>
    <3>1. \A n : q(n)[1] = n
      OBVIOUS
    <3>2. held = {q(n) : n \in used} /\ DOMAIN asked = {r[1] : r \in held}
      BY <2>1 DEF AInv
    <3> HIDE DEF q
    <3>3. QED
      BY <3>1, <3>2
  <2>3. ASSUME NEW n \in DOMAIN asked
        PROVE  /\ asked[n] + Header <= Size(heap, n)
               /\ Size(heap, n) < 2 * (asked[n] + Header)
    <3>1. <<n, Size(heap, n)>> \in held
      BY <2>1, <2>2, <2>3
    <3>2. Suits(<<n, Size(heap, n)>>, asked)
      BY <3>1 DEF AInv
    <3>3. asked[n] \in 0 .. MaxSize /\ Size(heap, n) = 2 ^ BucketFor(asked[n])
      BY <3>2, Zenon DEF Suits
    <3>4. QED
      BY <3>3, BucketForRight
  <2>4. QED
    BY <2>1, <2>2, <2>3 DEF BlockFits, used
<1>3. QED
  BY <1>1, <1>2, StepSuits, HeapInvariant, PTL DEF Spec

LEMMA RunsStep == IInv /\ [Next]_vars => [Runs!Next]_held
<1> SUFFICES ASSUME IInv, [Next]_vars PROVE [Runs!Next]_held
  OBVIOUS
<1>1. RunStep(held, held')
  BY StepKeeps DEF Keeps
<1>2. ASSUME NEW first \in 0 .. Units - 1, NEW length \in 1 .. Units,
             first + length <= Units,
             \A r \in held : Runs!Disjoint(r, <<first, length>>),
             held' = held \cup {<<first, length>>}
      PROVE  Runs!Next
  BY <1>2 DEF Runs!Next, Runs!Alloc, Units
<1>3. ASSUME NEW r \in held, held' = held \ {r}
      PROVE  Runs!Next
  BY <1>3 DEF Runs!Next, Runs!Free
<1>4. QED
  BY <1>1, <1>2, <1>3 DEF RunStep

(* The heap implements RegionAlloc: malloc hands out blocks that overlap no *)
(* block in use, and free alone takes one back.                             *)
THEOREM HeapRefines == Spec => IsRegionAlloc
<1>1. Init => Runs!Init
  BY DEF Init, Runs!Init
<1>2. QED
  BY <1>1, RunsStep, HeapInvariant, PTL DEF Spec, IsRegionAlloc, Runs!Spec

(* c4a_free's loop ends only when neither neighbour could be merged.        *)
THEOREM FreesMerge == Spec => FreedBlockIsMerged
<1> DEFINE A == op.kind = "merge" /\ op' = Idle =>
                  LET n == op.node IN
                  /\ ~c4a_can_coalesce(heap', heap'.node[n].phys_prev, n)
                  /\ ~c4a_can_coalesce(heap', n, heap'.node[n].phys_next)
<1>1. ASSUME IInv, [Next]_vars PROVE [A]_vars
  <2>1. SUFFICES ASSUME op.kind = "merge", op' = Idle, Next PROVE A
    BY <1>1
  <2>2. op # Idle /\ op.kind # "spill"
    BY <2>1 DEF Idle
  <2>3. InMerge(op, heap)
    BY <1>1, <2>2 DEF IInv, Calls, InSpill
  <2>4. ~Coalesce
    <3>1. SUFFICES ASSUME Coalesce PROVE FALSE
      OBVIOUS
    <3>2. PICK x : op' = [op EXCEPT !.node = x]
      BY <3>1, Zenon DEF Coalesce
    <3>3. op'.kind = "merge"
      BY <2>3, <3>2, SMTT(30) DEF InMerge
    <3>4. QED
      BY <2>1, <3>3 DEF Idle
  <2>5. CoalesceEnd
    BY <2>1, <2>2, <2>4 DEF Next, c4a_alloc, AllocTooLarge, AllocExact, AllocSpill,
                            c4a_free, c4a_free_refused, Spill, SpillEnd
  <2> DEFINE n == op.node
             p == heap.node[n].phys_prev
             x == heap.node[n].phys_next
  <2>6. MergeNext(heap, n)[1] = heap /\ MergePrevious(heap, n)[1] = heap
    BY <2>5, Zenon DEF CoalesceEnd
  <2>7. Merging(heap, n) /\ Kept(heap', heap)
    BY <1>1, <2>5, CoalesceEndKeeps
  <2>8. ~c4a_can_coalesce(heap, p, n) /\ ~c4a_can_coalesce(heap, n, x)
    BY <2>6, <2>7, MergePreviousStep, MergeNextStep
  <2>9. PhysChain(heap) /\ n \in Blocks(heap)
    BY <2>7 DEF Merging
  <2>10. p \in Blocks(heap) \cup {Null} /\ x \in Blocks(heap) \cup {Null}
    <3>1. PrevOK(heap, n) /\ NextOK(heap, n)
      BY <2>9, ChainParts
    <3>2. QED
      BY <3>1 DEF PrevOK, NextOK
  <2>11. heap'.node[n].phys_prev = p /\ heap'.node[n].phys_next = x
    BY <2>7, <2>9 DEF Kept
  <2> HIDE DEF n, p, x
  <2>12. ~c4a_can_coalesce(heap', p, n) /\ ~c4a_can_coalesce(heap', n, x)
    BY <2>7, <2>8, <2>9, <2>10 DEF c4a_can_coalesce, Kept
  <2>13. QED
    BY <2>11, <2>12 DEF n
<1>2. QED
  BY <1>1, HeapInvariant, PTL DEF Spec, FreedBlockIsMerged
=============================================================================
