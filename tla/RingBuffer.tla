----------------------------- MODULE RingBuffer -----------------------------
(***************************************************************************)
(* libraries/c4rt/src/ringbuffer.c: the byte ring that a client and a      *)
(* server share in the page granted at connection time.  One side runs     *)
(* c4_ringbuf_write, the other c4_ringbuf_read, with nothing but the two   *)
(* indices between them, so every load and store of the shared page that   *)
(* the other side can tell apart is a step of its own.                     *)
(*                                                                         *)
(* The build is unoptimised (buildconf.mk: -Wall -g) and x86 keeps stores  *)
(* in order, so a side's accesses take effect in program order.            *)
(***************************************************************************)
EXTENDS Integers, Sequences

CONSTANTS Byte,      \* the bytes that travel through the ring
          Size,      \* buf->size: cells in data[], 4084 for a 4096-byte page
          WordMod,   \* 2^32, the modulus of the unsigned index arithmetic
          MaxReq     \* bound: the largest size passed to a read or a write

ASSUME SizeAssumption == Size \in Nat /\ Size > 1
ASSUME WordAssumption == WordMod \in Nat /\ WordMod >= Size
ASSUME ReqAssumption  == MaxReq \in Nat
ASSUME ByteAssumption == Byte # {}

VARIABLES read_index, write_index, data,   \* the shared page
          writer,   \* the locals of c4_ringbuf_write and its put_byte
          reader    \* the locals of c4_ringbuf_read and its get_byte

ring_vars == <<read_index, write_index, data, writer, reader>>

Cells == 0 .. Size - 1

(* A side's control state: where it is in the byte loop, the size it was    *)
(* asked for, how many bytes it has moved (wrote, read), the byte in hand,  *)
(* and whether the call was preceded by a can_write or can_read that        *)
(* answered yes while the indices had not wrapped past each other.          *)
PC == {"idle", "test", "move", "bump"}
Side == [pc : PC, size : 0 .. MaxReq, done : 0 .. MaxReq,
         byte : Byte, vetted : BOOLEAN]

mask(value) == value % Size

increment(value) == mask(value + 1)

c4_ringbuf_full == increment(write_index) = read_index

c4_ringbuf_empty == read_index = write_index

(* size - (write_index - read_index) % size, with the difference taken in   *)
(* unsigned words: WordMod is added to it when it is negative.              *)
c4_ringbuf_available ==
  Size - mask(IF read_index <= write_index
              THEN write_index - read_index
              ELSE write_index - read_index + WordMod)

(* Mutant of c4_ringbuf_can_write: forgets the cell that is never used. *)
can_write_last(size) == size <= c4_ringbuf_available

c4_ringbuf_can_write(size) == size < c4_ringbuf_available

c4_ringbuf_can_read(size) == size <= Size - c4_ringbuf_available

c4_ringbuf_init ==
  /\ read_index = 0
  /\ write_index = 0
  /\ data \in [Cells -> Byte]

RingInit ==
  /\ c4_ringbuf_init
  /\ \E b \in Byte : LET idle == [pc |-> "idle", size |-> 0, done |-> 0,
                                  byte |-> b, vetted |-> FALSE]
                     IN  writer = idle /\ reader = idle

Unwrapped == read_index <= write_index

Call(side, size, vetted) ==
  [side EXCEPT !.pc = "test", !.size = size, !.done = 0, !.vetted = vetted]

Return(side) == [side EXCEPT !.pc = "idle"]

-----------------------------------------------------------------------------
(* The writing side.  A call may be vetted first, the way handle_read_block *)
(* and handle_list_dir of ext2fs do, or made unconditionally.               *)

WriteCall(size, vetted) ==
  /\ writer.pc = "idle"
  /\ vetted => c4_ringbuf_can_write(size) /\ Unwrapped
  /\ writer' = Call(writer, size, vetted)
  /\ UNCHANGED <<read_index, write_index, data, reader>>

(* Mutant of PutTest: waits for room instead of returning. *)
PutTest_waits(b) ==
  /\ writer.pc = "test"
  /\ writer' = IF writer.done = writer.size THEN Return(writer)
               ELSE IF c4_ringbuf_full THEN writer
               ELSE [writer EXCEPT !.pc = "move", !.byte = b]
  /\ UNCHANGED <<read_index, write_index, data, reader>>

(* The loop bound and the full test of put_byte; either ends the call. *)
PutTest(b) ==
  /\ writer.pc = "test"
  /\ writer' = IF writer.done = writer.size \/ c4_ringbuf_full
               THEN Return(writer)
               ELSE [writer EXCEPT !.pc = "move", !.byte = b]
  /\ UNCHANGED <<read_index, write_index, data, reader>>

(* Mutant of PutMove: increments before it stores. *)
PutMove_ahead ==
  /\ writer.pc = "move"
  /\ data' = [data EXCEPT ![increment(write_index)] = writer.byte]
  /\ writer' = [writer EXCEPT !.pc = "bump"]
  /\ UNCHANGED <<read_index, write_index, reader>>

PutMove ==
  /\ writer.pc = "move"
  /\ data' = [data EXCEPT ![write_index] = writer.byte]
  /\ writer' = [writer EXCEPT !.pc = "bump"]
  /\ UNCHANGED <<read_index, write_index, reader>>

PutBump ==
  /\ writer.pc = "bump"
  /\ write_index' = increment(write_index)
  /\ writer' = [writer EXCEPT !.pc = "test", !.done = @ + 1]
  /\ UNCHANGED <<read_index, data, reader>>

c4_ringbuf_write == (\E b \in Byte : PutTest(b)) \/ PutMove \/ PutBump

-----------------------------------------------------------------------------
(* The reading side, vetted in fs_next_dirent and handle_find_name.         *)

ReadCall(size, vetted) ==
  /\ reader.pc = "idle"
  /\ vetted => c4_ringbuf_can_read(size) /\ Unwrapped
  /\ reader' = Call(reader, size, vetted)
  /\ UNCHANGED <<read_index, write_index, data, writer>>

GetTest ==
  /\ reader.pc = "test"
  /\ reader' = IF reader.done = reader.size \/ c4_ringbuf_empty
               THEN Return(reader)
               ELSE [reader EXCEPT !.pc = "move"]
  /\ UNCHANGED <<read_index, write_index, data, writer>>

GetMove ==
  /\ reader.pc = "move"
  /\ reader' = [reader EXCEPT !.pc = "bump", !.byte = data[read_index]]
  /\ UNCHANGED <<read_index, write_index, data, writer>>

GetBump ==
  /\ reader.pc = "bump"
  /\ read_index' = increment(read_index)
  /\ reader' = [reader EXCEPT !.pc = "test", !.done = @ + 1]
  /\ UNCHANGED <<write_index, data, writer>>

c4_ringbuf_read == GetTest \/ GetMove \/ GetBump

-----------------------------------------------------------------------------
RingNext ==
  \/ \E size \in 0 .. MaxReq, vetted \in BOOLEAN :
       WriteCall(size, vetted) \/ ReadCall(size, vetted)
  \/ c4_ringbuf_write
  \/ c4_ringbuf_read

(* Each side keeps running once it has called into the ring. *)
RingSpec ==
  /\ RingInit /\ [][RingNext]_ring_vars
  /\ WF_ring_vars(c4_ringbuf_write) /\ WF_ring_vars(c4_ringbuf_read)

-----------------------------------------------------------------------------
(* The cells between the two indices, counted from the reader's. *)
Used == IF read_index <= write_index THEN write_index - read_index
                                     ELSE write_index - read_index + Size

(* Cell number i of the unread part, i = 0 being the next to read. *)
Cell(i) == IF read_index + i < Size THEN read_index + i
                                    ELSE read_index + i - Size

(* Every index stays inside data[] and every local inside its type:         *)
(* ringbuffer.c indexes data[] with no check of its own.                    *)
RingTypeOK ==
  /\ read_index \in Cells
  /\ write_index \in Cells
  /\ data \in [Cells -> Byte]
  /\ writer \in Side
  /\ reader \in Side

(* A cell the writer has claimed is outside the unread part, and a cell the *)
(* reader is looking at is inside it: put_byte's unguarded store and        *)
(* get_byte's unguarded load never touch the same cell, whatever the other  *)
(* side does between the test and the access.                               *)
NoSharedCell ==
  /\ writer.pc \in {"move", "bump"} => Used < Size - 1
  /\ reader.pc \in {"move", "bump"} => Used > 0

(* A write that can_write allowed, or a read that can_read allowed, moves   *)
(* all its bytes even though the other side runs between the question and   *)
(* each byte.  The question is only reliable while read_index <=            *)
(* write_index: see c4_ringbuf_available.                                   *)
VettedTransferComplete ==
  /\ writer.vetted => writer.size - writer.done <= Size - 1 - Used
  /\ reader.vetted => reader.size - reader.done <= Used
  /\ \A side \in {writer, reader} :
       side.vetted /\ side.pc = "idle" => side.done = side.size

(* The bytes not yet handed to the reader.  get_byte takes a byte when it   *)
(* loads it and only later gives the cell back.                             *)
Taken == IF reader.pc = "bump" THEN 1 ELSE 0
Queue == [i \in 1 .. Used - Taken |-> data[Cell(i - 1 + Taken)]]

Fifo == INSTANCE BoundedFifo
          WITH Capacity <- Size - 1, queue <- Queue,
               arg <- writer.byte, out <- reader.byte

(* The ring is a bounded FIFO of bytes: the reader is given exactly what    *)
(* the writer put in, in order, under every interleaving of the two loops.  *)
IsFifo == Fifo!Spec

(* A side that called into the ring returns: the loops are bounded by size  *)
(* and a full or empty ring ends them, so neither side can hang the other.  *)
TransfersReturn ==
  /\ writer.pc # "idle" ~> writer.pc = "idle"
  /\ reader.pc # "idle" ~> reader.pc = "idle"
=============================================================================
