------------------------------ MODULE C4Alloc ------------------------------
(***************************************************************************)
(* libraries/c4rt/src/alloc.c: the bucketed heap behind malloc and free.   *)
(* Blocks are powers of two; bucket b lists the free blocks of 2^b units   *)
(* through next/previous, and phys_next/phys_prev chain all the blocks of  *)
(* a chunk in address order.  The header of a block is modelled with its   *)
(* pointers, since every operation is a handful of pointer writes.         *)
(*                                                                         *)
(* One thread runs the heap (alloc.c has no lock).  The two loops, which   *)
(* split a large block down and merge a freed block up, take one step per  *)
(* turn; no other call starts before they end.                             *)
(***************************************************************************)
EXTENDS Integers

CONSTANTS MaxBucket,   \* C4A_MAX_BUCKETS: a chunk is one block of 2^MaxBucket
          Header,      \* sizeof(c4a_node_t), in units
          MaxSize,     \* bound: the largest request, below the word's wrap
          MaxChunks    \* bound: how often the heap may grow

ASSUME BucketAssumption == MaxBucket \in Nat /\ Header \in Nat \ {0}
ASSUME BoundAssumption  == MaxSize \in Nat /\ MaxChunks \in Nat \ {0}

(* A fact about numbers and not about the heap: the provers know no more of *)
(* ^ than its type, so the powers of two that can occur are said to double. *)
ASSUME PowerAssumption ==
  \A k \in 0 .. MaxBucket + MaxSize + Header : 2 ^ (k + 1) = 2 * 2 ^ k

Null == -1
Bucket == 0 .. MaxBucket
Chunk == 2 ^ MaxBucket
Addr == 0 .. MaxChunks * Chunk - 1
Ptr == Addr \cup {Null}

VARIABLES heap,   \* [start, node, chunks]: bucket heads, block headers, size
          op,     \* the call in progress
          held,   \* what callers hold: pairs <<block, length>>
          asked   \* block a caller holds -> the size it asked for

vars == <<heap, op, held, asked>>

Idle == [kind |-> "idle", node |-> Null, at |-> 0, lower |-> 0, size |-> 0]

c4a_heap_init ==
  heap = [start  |-> [b \in Bucket |-> Null],
          node   |-> [a \in {} |-> 0],
          chunks |-> 0]

Init == c4a_heap_init /\ op = Idle /\ held = {} /\ asked = [n \in {} |-> 0]

Blocks(h) == DOMAIN h.node
Size(h, n) == 2 ^ h.node[n].bucket

-----------------------------------------------------------------------------
(* List surgery, as functions from heaps to heaps. *)

SetField(h, n, f, v) ==
  IF n = Null THEN h ELSE [h EXCEPT !.node[n][f] = v]

(* Mutant of c4a_node_unlink: the bucket's head is not moved on. *)
unlink_headless(h, n) ==
  LET nd == h.node[n]
      h2 == SetField(h, nd.previous, "next", nd.next)
      h3 == SetField(h2, nd.next, "previous", nd.previous)
  IN  [h3 EXCEPT !.node[n].next = Null, !.node[n].previous = Null]

c4a_node_unlink(h, n) ==
  LET nd == h.node[n]
      h1 == IF h.start[nd.bucket] = n
            THEN [h EXCEPT !.start[nd.bucket] = nd.next] ELSE h
      h2 == SetField(h1, nd.previous, "next", nd.next)
      h3 == SetField(h2, nd.next, "previous", nd.previous)
  IN  [h3 EXCEPT !.node[n].next = Null, !.node[n].previous = Null]

c4a_bucket_insert(h, b, n) ==
  LET h1 == SetField(h, h.start[b], "previous", n)
  IN  [h1 EXCEPT !.node[n].next = h1.start[b],
                 !.node[n].previous = Null,
                 !.start[b] = n]

(* Another chunk, as one free block that no other chunk is chained to. *)
c4a_grow(h) ==
  LET n == h.chunks * Chunk
      new == [status |-> "free", bucket |-> MaxBucket, next |-> Null,
              previous |-> Null, phys_next |-> Null, phys_prev |-> Null]
      h1 == [h EXCEPT !.chunks = @ + 1,
                      !.node = [a \in DOMAIN h.node \cup {n} |->
                                  IF a = n THEN new ELSE h.node[a]]]
  IN  c4a_bucket_insert(h1, MaxBucket, n)

(* The upper half of a block becomes a block of its own. *)
c4a_split_node(h, n) ==
  LET b == h.node[n].bucket - 1
      t == n + 2 ^ b
      after == h.node[n].phys_next
      new == [status |-> h.node[n].status, bucket |-> b,
              next |-> h.node[n].next, previous |-> n,
              phys_next |-> after, phys_prev |-> n]
      h1 == [h EXCEPT !.node = [a \in DOMAIN h.node \cup {t} |->
                                  IF a = t THEN new ELSE h.node[a]]]
      h2 == [h1 EXCEPT !.node[n].bucket = b, !.node[n].next = t,
                       !.node[n].phys_next = t]
  IN  SetField(h2, after, "phys_prev", t)

c4a_can_coalesce(h, a, b) ==
  /\ a # Null /\ b # Null
  /\ h.node[a].status = "free" /\ h.node[b].status = "free"
  /\ h.node[a].bucket = h.node[b].bucket

(* b disappears into a: its header is no longer one. *)
c4a_do_coalesce(h, a, b) ==
  LET h1 == c4a_node_unlink(c4a_node_unlink(h, a), b)
      after == h1.node[b].phys_next
      h2 == [h1 EXCEPT !.node[a].bucket = @ + 1, !.node[a].phys_next = after]
      h3 == SetField(h2, after, "phys_prev", a)
  IN  [h3 EXCEPT !.node = [x \in DOMAIN h3.node \ {b} |-> h3.node[x]]]

-----------------------------------------------------------------------------
(* The largest power of two that is no larger. *)
ulog2(n) == CHOOSE i \in 0 .. n : 2 ^ i <= n /\ n < 2 ^ (i + 1)

(* Mutant of BucketFor: rounds down. *)
BucketBelow(size) == ulog2(size + Header)

(* The bucket that holds the request and its header, rounded up. *)
BucketFor(size) ==
  LET adjusted == size + Header
      index == ulog2(adjusted)
  IN  IF adjusted # 2 ^ index THEN index + 1 ELSE index

HandOut(h, n, size) ==
  /\ heap' = [h EXCEPT !.node[n].status = "used"]
  /\ held' = held \cup {<<n, Size(h, n)>>}
  /\ asked' = [m \in DOMAIN asked \cup {n} |-> IF m = n THEN size ELSE asked[m]]
  /\ op' = Idle

(* More than the largest block: NULL. *)
AllocTooLarge(size) ==
  /\ op = Idle
  /\ BucketFor(size) > MaxBucket
  /\ UNCHANGED vars

(* Mutant of AllocExact: the block stays on its list. *)
AllocExact_listed(size) ==
  LET b == BucketFor(size) IN
  /\ op = Idle
  /\ b <= MaxBucket
  /\ heap.start[b] # Null
  /\ HandOut(heap, heap.start[b], size)

(* A block of the right size is on its list. *)
AllocExact(size) ==
  LET b == BucketFor(size) IN
  /\ op = Idle
  /\ b <= MaxBucket
  /\ heap.start[b] # Null
  /\ HandOut(c4a_node_unlink(heap, heap.start[b]), heap.start[b], size)

(* c4a_find_upwards_bucket, then the pop that starts the spill-over. *)
AllocSpill(size) ==
  LET b == BucketFor(size)
      above == {k \in b + 1 .. MaxBucket : heap.start[k] # Null}
      h == IF above = {} THEN c4a_grow(heap) ELSE heap
      k == IF above = {} THEN MaxBucket
           ELSE CHOOSE x \in above : \A y \in above : x <= y
  IN
  /\ op = Idle
  /\ b <= MaxBucket
  /\ heap.start[b] = Null
  /\ above = {} => heap.chunks < MaxChunks
  /\ op' = [kind |-> "spill", node |-> h.start[k], at |-> k, lower |-> b, size |-> size]
  /\ heap' = c4a_node_unlink(h, h.start[k])
  /\ UNCHANGED <<held, asked>>

(* One turn of c4a_bucket_spillover: the upper half goes on its list. *)
Spill ==
  LET h == c4a_split_node(heap, op.node)
      t == op.node + 2 ^ (op.at - 1)
  IN
  /\ op.kind = "spill" /\ op.at > op.lower
  /\ heap' = c4a_bucket_insert(h, op.at - 1, t)
  /\ op' = [op EXCEPT !.at = @ - 1]
  /\ UNCHANGED <<held, asked>>

(* The lower half is listed, popped again, unlinked once more, and used. *)
SpillEnd ==
  LET h1 == c4a_bucket_insert(heap, op.lower, op.node)
      n  == h1.start[op.lower]
      h2 == c4a_node_unlink(c4a_node_unlink(h1, n), n)
  IN
  /\ op.kind = "spill" /\ op.at = op.lower
  /\ HandOut(h2, n, op.size)

c4a_alloc(size) == AllocTooLarge(size) \/ AllocExact(size) \/ AllocSpill(size)

-----------------------------------------------------------------------------
(* c4a_free on a block a caller holds: it is free but on no list yet. *)
c4a_free(n) ==
  /\ op = Idle
  /\ heap.node[n].status = "used"
  /\ heap' = [heap EXCEPT !.node[n].status = "free", !.node[n].next = Null,
                          !.node[n].previous = Null]
  /\ held' = held \ {<<n, Size(heap, n)>>}
  /\ asked' = [m \in DOMAIN asked \ {n} |-> asked[m]]
  /\ op' = [Idle EXCEPT !.kind = "merge", !.node = n]

(* A block that is already free is refused. *)
c4a_free_refused(n) ==
  /\ op = Idle
  /\ heap.node[n].status # "used"
  /\ UNCHANGED vars

(* One turn of c4a_coalesce's loop: the previous block, then the next one. *)
MergePrevious(h, n) ==
  LET p == h.node[n].phys_prev
  IN  IF c4a_can_coalesce(h, p, n)
      THEN <<c4a_do_coalesce(h, p, n), p>> ELSE <<h, n>>

(* Mutant of MergeNext: the next block is left alone. *)
MergeNext_skipped(h, n) == <<h, n>>

MergeNext(h, n) ==
  LET x == h.node[n].phys_next
  IN  IF c4a_can_coalesce(h, n, x)
      THEN <<c4a_do_coalesce(h, n, x), n>> ELSE <<h, n>>

Coalesce ==
  LET one == MergePrevious(heap, op.node)
      two == MergeNext(one[1], one[2])
  IN
  /\ op.kind = "merge"
  /\ two[1] # heap
  /\ heap' = two[1]
  /\ op' = [op EXCEPT !.node = two[2]]
  /\ UNCHANGED <<held, asked>>

(* Nothing was merged: the block goes on its list. *)
CoalesceEnd ==
  /\ op.kind = "merge"
  /\ MergeNext(heap, op.node)[1] = heap /\ MergePrevious(heap, op.node)[1] = heap
  /\ heap' = c4a_bucket_insert(heap, heap.node[op.node].bucket, op.node)
  /\ op' = Idle
  /\ UNCHANGED <<held, asked>>

Next ==
  \/ \E size \in 0 .. MaxSize : c4a_alloc(size)
  \/ \E n \in Blocks(heap) : c4a_free(n) \/ c4a_free_refused(n)
  \/ Spill \/ SpillEnd \/ Coalesce \/ CoalesceEnd

Spec == Init /\ [][Next]_vars

-----------------------------------------------------------------------------
NodeType == [status : {"free", "used"}, bucket : Bucket, next : Ptr,
             previous : Ptr, phys_next : Ptr, phys_prev : Ptr]

(* Every pointer is an address of the heap and every block is of a bucket.  *)
HeapTyped(h) ==
  /\ h = [start |-> h.start, node |-> h.node, chunks |-> h.chunks]
  /\ h.start \in [Bucket -> Ptr] /\ h.chunks \in 0 .. MaxChunks
  /\ Blocks(h) \subseteq Addr /\ h.node \in [Blocks(h) -> NodeType]

End(h, n) == n + Size(h, n)

(* phys_next and phys_prev chain the blocks of each chunk in address order  *)
(* with no gap and no overlap: splitting and merging lose no memory.        *)
PhysChain(h) ==
  /\ HeapTyped(h)
  /\ \A c \in 0 .. h.chunks - 1 : c * Chunk \in Blocks(h)
  /\ \A n \in Blocks(h) :
       LET nd  == h.node[n]
           end == End(h, n)
       IN  /\ end <= h.chunks * Chunk
           /\ IF end % Chunk = 0 THEN nd.phys_next = Null
              ELSE nd.phys_next = end /\ end \in Blocks(h) /\ h.node[end].phys_prev = n
           /\ IF n % Chunk = 0 THEN nd.phys_prev = Null
              ELSE nd.phys_prev \in Blocks(h) /\ End(h, nd.phys_prev) = n
           /\ \A m \in Blocks(h) : n < m => end <= m

(* A proper doubly linked list from the head of bucket b: next and previous *)
(* agree, and whatever holds the head and follows next holds all of free.   *)
ListOf(h, b, free) ==
  LET head == h.start[b]
      next(n) == h.node[n].next
      previous(n) == h.node[n].previous
  IN  /\ head \in free \cup {Null}
      /\ \A n \in free :
           /\ next(n) # Null => next(n) \in free /\ previous(next(n)) = n
           /\ IF n = head THEN previous(n) = Null
              ELSE previous(n) \in free /\ next(previous(n)) = n
      /\ \A met \in SUBSET free :
           /\ head # Null => head \in met
           /\ \A n \in met : next(n) # Null => next(n) \in met
           => met = free

(* The block a call is working on is on no list. *)
Detached == IF op = Idle THEN {} ELSE {op.node}

FreeOf(h, b, off) ==
  {n \in Blocks(h) \ off : h.node[n].status = "free" /\ h.node[n].bucket = b}

(* Each bucket's list holds exactly the free blocks of that size: unlinking *)
(* from the middle, the head or no list at all never drops or captures      *)
(* another block.                                                           *)
FreeLists(h, off) == \A b \in Bucket : ListOf(h, b, FreeOf(h, b, off))

(* c4a_split_node, c4a_do_coalesce and the bucket operations: the physical  *)
(* chain and the free lists run through the same headers, and both stay     *)
(* whole, between calls and between the turns of a call's loop.             *)
HeapIntact == PhysChain(heap) /\ FreeLists(heap, Detached)

(* c4a_alloc and c4a_free: what callers hold are the blocks in use, as they *)
(* are in the heap, and each holds the size its caller asked for behind its *)
(* header, with no more to spare than the rounding to a power of two        *)
(* explains, from whichever list it came and whatever was split and merged  *)
(* since.                                                                   *)
BlockFits ==
  /\ DOMAIN asked = {n \in Blocks(heap) : heap.node[n].status = "used"}
  /\ held = {<<n, Size(heap, n)>> : n \in DOMAIN asked}
  /\ \A n \in DOMAIN asked : /\ asked[n] + Header <= Size(heap, n)
                             /\ Size(heap, n) < 2 * (asked[n] + Header)

Runs == INSTANCE RegionAlloc WITH Units <- MaxChunks * Chunk

(* malloc hands out disjoint blocks, each until it is freed. *)
IsRegionAlloc == Runs!Spec

(* When a free ends, the block it leaves behind has no free neighbour of    *)
(* its size.                                                                *)
FreedBlockIsMerged ==
  [][op.kind = "merge" /\ op' = Idle =>
       LET n == op.node IN
       /\ ~c4a_can_coalesce(heap', heap'.node[n].phys_prev, n)
       /\ ~c4a_can_coalesce(heap', n, heap'.node[n].phys_next)]_vars
=============================================================================
