---------------------------- MODULE RegionAlloc ----------------------------
(***************************************************************************)
(* What an allocator of runs of units (pages, bytes) promises its callers: *)
(* a run it hands out lies inside the region and overlaps no run that is   *)
(* still held, and a run stays with its holder until the holder gives it   *)
(* back.  AddrMan and C4Alloc are shown to implement it.                   *)
(***************************************************************************)
EXTENDS Integers

CONSTANT Units     \* the size of the region

VARIABLE held      \* the runs handed out, as pairs <<first unit, length>>

Disjoint(r, s) == r[1] + r[2] <= s[1] \/ s[1] + s[2] <= r[1]

Init == held = {}

Alloc(first, length) ==
  /\ first + length <= Units
  /\ \A r \in held : Disjoint(r, <<first, length>>)
  /\ held' = held \cup {<<first, length>>}

Free(r) == held' = held \ {r}

Next == \/ \E first \in 0 .. Units - 1, length \in 1 .. Units :
             Alloc(first, length)
        \/ \E r \in held : Free(r)

Spec == Init /\ [][Next]_held
=============================================================================
