------------------------------- MODULE Memory -------------------------------
(***************************************************************************)
(* libraries/c4rt/src/mem.c: memory objects.  A c4_mem_object_t pairs a    *)
(* frame of the kernel's with the range of addresses it is mapped at; the  *)
(* range comes from the program's general region (AddrMan), the frame from *)
(* the pager or from a peer that granted it.                               *)
(*                                                                         *)
(* The kernel is external.  It maps a frame, all its pages, at a page of   *)
(* an address space, over whatever was there, or refuses; and it unmaps    *)
(* the frame that is at a page.  Addresses count pages.                    *)
(***************************************************************************)
EXTENDS AddrMan

CONSTANTS Obj,          \* the program's c4_mem_object_t variables
          NoObj,        \* none of them
          Sizes,        \* bound: the bytes asked for
          Space,        \* address spaces
          Self,         \* the program's own
          PageNumbers,  \* the pages of an address space
          Base,         \* where the general region begins
          NoFrame       \* what is at a page that is not mapped

ASSUME SpaceAssumption == Self \in Space /\ NoObj \notin Obj
ASSUME LayoutAssumption == /\ PageNumbers \subseteq Nat /\ Base \in Nat
                           /\ Base .. Base + Pages - 1 \subseteq PageNumbers
ASSUME SizesAssumption == Sizes \subseteq 1 .. MaxBytes

VARIABLES aspace,   \* space -> page -> <<frame, page of it>>, or NoFrame
          obj,      \* object -> its fields; its frame is named after it
          freeing   \* the object c4_memobj_free is at work on, or NoObj

memvars == <<aspace, obj, freeing>>

Unused == [live |-> FALSE, vaddr |-> 0, pages |-> 0, mapped |-> FALSE]

MemInit ==
  /\ Init
  /\ aspace = [s \in Space |-> [p \in PageNumbers |-> NoFrame]]
  /\ obj = [o \in Obj |-> Unused]
  /\ freeing = NoObj

-----------------------------------------------------------------------------
(* The kernel's system calls, on the address spaces as. *)

c4_addrspace_map(as, space, frame, pages, at) ==
  [as EXCEPT ![space] = [p \in PageNumbers |->
     IF at <= p /\ p < at + pages THEN <<frame, p - at>> ELSE as[space][p]]]

c4_addrspace_unmap(as, space, at) ==
  [as EXCEPT ![space] = [p \in PageNumbers |->
     IF as[space][at] # NoFrame /\ as[space][p] # NoFrame /\ as[space][p][1] = as[space][at][1]
     THEN NoFrame ELSE as[space][p]]]

-----------------------------------------------------------------------------
(* A frame of pages_of(bytes) pages is put where the region has room; the   *)
(* kernel may refuse to map it, and the object keeps its range then.        *)
MapAt(o, node, pages) ==
  \E mapped \in BOOLEAN :
    /\ obj' = [obj EXCEPT ![o] = [live |-> TRUE, vaddr |-> Base + node,
                                  pages |-> pages, mapped |-> mapped]]
    /\ aspace' = IF mapped THEN c4_addrspace_map(aspace, Self, o, pages, Base + node)
                 ELSE aspace

(* Mutant of c4_memobj_region_map: the range is given back when the kernel  *)
(* refuses, but the object still names it.                                  *)
region_map_undone(o, bytes) ==
  \/ \E node \in Offsets : alloc_vnode(node, pages_of(bytes)) /\ MapAt(o, node, pages_of(bytes))
  \/ \E node \in Offsets :
       /\ find_at_least(node, pages_of(bytes))
       /\ obj' = [obj EXCEPT ![o] = [live |-> TRUE, vaddr |-> Base + node,
                                     pages |-> pages_of(bytes), mapped |-> FALSE]]
       /\ UNCHANGED vars /\ UNCHANGED aspace
  \/ c4rt_vaddr_alloc_fails(bytes) /\ UNCHANGED <<obj, aspace>>

(* The region may have no room: *memobj is left as it was. *)
c4_memobj_region_map(o, bytes) ==
  \/ \E node \in Offsets : alloc_vnode(node, pages_of(bytes)) /\ MapAt(o, node, pages_of(bytes))
  \/ c4rt_vaddr_alloc_fails(bytes) /\ UNCHANGED <<obj, aspace>>

(* A frame of the pager's; region_map of a granted frame is no different.   *)
c4_memobj_alloc(o, bytes) ==
  /\ freeing = NoObj /\ ~obj[o].live
  /\ c4_memobj_region_map(o, bytes)
  /\ UNCHANGED freeing

(* Mutant of c4_memobj_unmap: nothing is unmapped. *)
memobj_unmap_not(o) == aspace

c4_memobj_unmap(o) ==
  IF obj[o].mapped THEN c4_addrspace_unmap(aspace, Self, obj[o].vaddr) ELSE aspace

(* c4_memobj_region_unmap, up to the loop in c4rt_vaddr_free. *)
c4_memobj_free(o) ==
  LET offset == obj[o].vaddr - Base IN
  /\ freeing = NoObj /\ obj[o].live
  /\ aspace' = c4_memobj_unmap(o)
  /\ obj' = [obj EXCEPT ![o].mapped = FALSE]
  /\ freeing' = o
  /\ IF offset \in layout THEN give_back(offset) ELSE UNCHANGED vars

Merge == (MergePrevious \/ MergeNext) /\ UNCHANGED memvars

(* The loop ends and the frame's capability is removed. *)
c4_memobj_destroy ==
  /\ freeing # NoObj
  /\ MergeDone \/ (temp = NoNode /\ UNCHANGED vars)
  /\ obj' = [obj EXCEPT ![freeing] = Unused]
  /\ freeing' = NoObj
  /\ UNCHANGED aspace

MemNext ==
  \/ \E o \in Obj, bytes \in Sizes : c4_memobj_alloc(o, bytes)
  \/ \E o \in Obj : c4_memobj_free(o)
  \/ Merge \/ c4_memobj_destroy

-----------------------------------------------------------------------------
Covers(o, p) == obj[o].vaddr <= p /\ p < obj[o].vaddr + obj[o].pages

(* c4_memobj_region_map and c4_memobj_free: the ranges taken from the       *)
(* region are those of the objects there are, mapped or not.  Each mapped   *)
(* object has its whole frame at its own pages, whatever was mapped, freed  *)
(* and refused before, and nothing else is mapped in the region.            *)
ObjectsApart ==
  /\ held = {<<obj[o].vaddr - Base, obj[o].pages>> : o \in {x \in Obj : obj[x].live /\ x # freeing}}
  /\ \A p \in Base .. Base + Pages - 1 :
       /\ \A o \in Obj : obj[o].mapped /\ Covers(o, p) => aspace[Self][p] = <<o, p - obj[o].vaddr>>
       /\ aspace[Self][p] # NoFrame => \E o \in Obj : obj[o].mapped /\ Covers(o, p)

(* mem.c uses the region the way addrman.c takes on trust: it asks for a    *)
(* byte at least and gives each range back once, so that what is shown of   *)
(* the region holds for a program's memory objects.                         *)
AllocatorUsed == Spec
=============================================================================
