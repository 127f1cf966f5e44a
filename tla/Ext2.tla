-------------------------------- MODULE Ext2 --------------------------------
(***************************************************************************)
(* programs/ext2fs/src/main.c: blocks, descriptors, bitmaps and inodes of  *)
(* an ext2 file system, as functions of the disk and of block_buffer, the  *)
(* one page that every block is read into and written from.                *)
(*                                                                         *)
(* A block is a sequence of BlockSize cells.  A cell stands for a 32-bit   *)
(* word of the metadata and for a byte of a file, so that a block holds    *)
(* BlockSize pointers.                                                     *)
(* The driver is taken to carry every request out.                         *)
(***************************************************************************)
EXTENDS Integers, Sequences, FiniteSetsExt

CONSTANTS BlockSize,        \* ext2_block_size
          PageSize,         \* of block_buffer, at least a block
          WordBits,         \* 32: bits of a bitmap word
          TotalBlocks, BlocksPerGroup,
          TotalInodes, InodesPerGroup,
          NDirect,          \* 12
          DescBlock         \* the block with the group descriptors: 1 or 2

(* The cell at an offset, the size cells from there, and s put there. *)
Cell(buf, at) == buf[at + 1]
CellsAt(buf, at, size) == SubSeq(buf, at + 1, at + size)
Paste(buf, at, s) == SubSeq(buf, 1, at) \o s \o SubSeq(buf, at + Len(s) + 1, Len(buf))
Least(a, b) == IF a < b THEN a ELSE b
Zeros(size) == [c \in 1 .. size |-> 0]

(* ext2_max_block is the number of blocks, and the tests against it let    *)
(* that number through: the disk goes on behind the file system.           *)
Blocks == 0 .. TotalBlocks

(* ext2_block_group_desc_t and ext2_inode_t, reduced to what is used.      *)
block_map == 0
inode_table == 1
unalloced_blocks == 2
DescSize == 3
modes == 0
lower_size == 1
direct_ptr == 2
single_indirect_ptr == 2 + NDirect
InodeSize == 3 + NDirect

TypeDirectory == 4   \* EXT2_INODE_TYPE_DIRECTORY
TypeFile == 8        \* EXT2_INODE_TYPE_REGULAR_FILE

ASSUME BlockAssumption ==
  BlockSize \in Nat \ {0} /\ PageSize \in Nat /\ PageSize >= BlockSize
ASSUME GroupAssumption ==
  /\ WordBits \in Nat \ {0}
  /\ TotalBlocks \in Nat /\ BlocksPerGroup \in Nat \ {0}
  /\ TotalInodes \in Nat /\ InodesPerGroup \in Nat \ {0}
ASSUME LayoutAssumption ==
  /\ NDirect \in Nat \ {0} /\ InodeSize <= BlockSize
  /\ DescBlock \in Blocks \ {0}

(* m is [disk, buf, fault].  fault: a NULL that the code does not look at   *)
(* was used as an address, and the server is gone.                          *)

Fault(m) == [m EXCEPT !.fault = TRUE]

ext2_read_block(m, b) ==
  IF b > TotalBlocks THEN Fault(m)
  ELSE [m EXCEPT !.buf = Paste(@, 0, m.disk[b])]

(* Out of the file system nothing is written, and nobody asks. *)
ext2_write_block(m, b) ==
  IF b > TotalBlocks THEN m
  ELSE [m EXCEPT !.disk[b] = CellsAt(m.buf, 0, BlockSize)]

Store(m, at, v) == [m EXCEPT !.buf[at + 1] = v]

ext2_get_block_descs(m)   == ext2_read_block(m, DescBlock)
ext2_write_block_descs(m) == ext2_write_block(m, DescBlock)

ext2_total_block_descs == TotalBlocks \div BlocksPerGroup
ext2_inodes_per_block  == BlockSize \div InodeSize
ext2_block_group(i) == (i - 1) \div InodesPerGroup
ext2_group_index(i) == (i - 1) % InodesPerGroup

-----------------------------------------------------------------------------
(* Allocation. *)

Bit(word, k) == (word \div 2^k) % 2

(* The scan takes WordBits bits at a time, and bit n of the group is looked *)
(* for where the code looks: word i of the bitmap for bits i to i + 31.     *)
Start(n) == n - (n % WordBits)
MapBlock(map, n) == map + Start(n) \div BlockSize
MapCell(n) == Start(n) % BlockSize

(* Bits that are 0 where the scan looks for them, up to the end of a word.  *)
Scanned == {n \in 0 .. BlocksPerGroup + WordBits - 1 : Start(n) < BlocksPerGroup}
FreeBits(m, map) ==
  {n \in Scanned : Bit(Cell(m.disk[MapBlock(map, n)], MapCell(n)), n % WordBits) = 0}

(* The bit is set in the bitmap, which is in the buffer, and after that the *)
(* descriptors are read again and the group's count goes down.              *)
SetBit(m, map, n) ==
  ext2_write_block(Store(m, MapCell(n), Cell(m.buf, MapCell(n)) + 2^(n % WordBits)),
                   MapBlock(map, n))
CountDown(m, g) ==
  LET at == g * DescSize + unalloced_blocks
  IN  ext2_write_block_descs(Store(m, at, (Cell(m.buf, at) - 1) % 2^16))

(* The first free block of the group with the map; 0 is no block. *)
TakeBlock(m, g, map, free) ==
  IF free = {}
  THEN [m |-> ext2_read_block(m, MapBlock(map, Max(Scanned))), block |-> 0]
  ELSE [m |-> CountDown(ext2_get_block_descs(
                SetBit(ext2_read_block(m, MapBlock(map, Min(free))), map, Min(free))), g),
        block |-> g * BlocksPerGroup + Min(free)]

ext2_alloc_block(m, g) ==
  LET d == ext2_get_block_descs(m)
      map == Cell(d.buf, g * DescSize + block_map)
  IN  IF g >= ext2_total_block_descs THEN [m |-> m, block |-> 0]
      ELSE TakeBlock(d, g, map, FreeBits(m, map))

-----------------------------------------------------------------------------
(* Inodes. *)

(* Where in its block an inode is, and which block that is once the         *)
(* descriptors are in the buffer.                                           *)
InodeCell(i) == (ext2_group_index(i) % ext2_inodes_per_block) * InodeSize
ext2_inode_table_block(d, i) ==
  Cell(d.buf, ext2_block_group(i) * DescSize + inode_table)
    + ext2_group_index(i) \div ext2_inodes_per_block

(* Leaves the block with the inode in the buffer; found is FALSE for NULL.  *)
InodeFrom(d, i) ==
  LET t == ext2_read_block(d, ext2_inode_table_block(d, i))
  IN  IF i > TotalInodes \/ t.fault THEN [m |-> d, found |-> FALSE]
      ELSE [m |-> t, found |-> TRUE,
            inode |-> CellsAt(t.buf, InodeCell(i), InodeSize)]
ext2_get_inode(m, i) == InodeFrom(ext2_get_block_descs(m), i)

(* The block an inode was found in, with the inode put at a cell of it.     *)
UpdateAt(g, cell, inode, b) ==
  IF g.found THEN ext2_write_block([g.m EXCEPT !.buf = Paste(@, cell, inode)], b) ELSE g.m

(* Mutant of ext2_inode_update: the inode is put at the block's start. *)
inode_update_first(m, i, inode) ==
  UpdateAt(ext2_get_inode(m, i), 0, inode, ext2_inode_table_block(ext2_get_block_descs(m), i))

ext2_inode_update(m, i, inode) ==
  UpdateAt(ext2_get_inode(m, i), InodeCell(i), inode,
           ext2_inode_table_block(ext2_get_block_descs(m), i))

(* A newly allocated block a, made cell c of the inode. *)
PointTo(a, i, inode, c) ==
  IF a.block = 0 THEN a
  ELSE [m |-> ext2_inode_update(a.m, i, [inode EXCEPT ![c + 1] = a.block]), block |-> a.block]

(* The block in cell c of the inode, given one where there is none yet. *)
AllocPointer(g, i, c) ==
  IF Cell(g.inode, c) # 0 THEN [m |-> g.m, block |-> Cell(g.inode, c)]
  ELSE PointTo(ext2_alloc_block(g.m, ext2_block_group(i)), i, g.inode, c)

(* A newly allocated block a, made an entry of the indirect block: it is    *)
(* stored into whatever the buffer holds by then.                           *)
StoreEntry(a, indirect, index) ==
  IF a.block = 0 THEN a
  ELSE [m |-> ext2_write_block(Store(a.m, index, a.block), indirect), block |-> a.block]

AllocEntry(ents, i, indirect, index) ==
  IF Cell(ents.buf, index) # 0 THEN [m |-> ents, block |-> Cell(ents.buf, index)]
  ELSE StoreEntry(ext2_alloc_block(ents, ext2_block_group(i)), indirect, index)

AllocIndirect(p, i, index) ==
  IF p.block = 0 THEN p ELSE AllocEntry(ext2_read_block(p.m, p.block), i, p.block, index)

(* Mutant of ext2_inode_alloc_block: a block that is there is not looked    *)
(* for.                                                                     *)
inode_alloc_block_always(m, i, block) ==
  LET g == ext2_get_inode(m, i)
  IN  PointTo(ext2_alloc_block(g.m, ext2_block_group(i)), i, g.inode, direct_ptr + block)

(* The block behind a file's block, given one where there is none yet;      *)
(* doubly indirect blocks are unimplemented.                                *)
ext2_inode_alloc_block(m, i, block) ==
  LET g == ext2_get_inode(m, i)
  IN  IF block < NDirect THEN AllocPointer(g, i, direct_ptr + block)
      ELSE IF block < BlockSize + NDirect
      THEN AllocIndirect(AllocPointer(g, i, single_indirect_ptr), i, block - NDirect)
      ELSE [m |-> g.m, block |-> 0]

(* Reads a file's block b into the buffer.  Where the file has none the     *)
(* buffer is cleared, and the result is NULL all the same.                  *)
ReadOrClear(m, b) ==
  IF b # 0 THEN [m |-> ext2_read_block(m, b), null |-> FALSE]
  ELSE [m |-> [m EXCEPT !.buf = Paste(@, 0, Zeros(BlockSize))], null |-> TRUE]
ReadEntry(ents, index) == ReadOrClear(ents, Cell(ents.buf, index))

ext2_inode_read_block(m, inode, block) ==
  IF block < NDirect THEN ReadOrClear(m, Cell(inode, direct_ptr + block))
  ELSE IF block < BlockSize + NDirect /\ Cell(inode, single_indirect_ptr) # 0
  THEN ReadEntry(ext2_read_block(m, Cell(inode, single_indirect_ptr)), block - NDirect)
  ELSE ReadOrClear(m, 0)
=============================================================================
