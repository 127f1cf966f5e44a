--------------------------- MODULE ConnmanProofs ---------------------------
(***************************************************************************)
(* A connection: the page its two sides share, and the protocol that sets  *)
(* it up and carries its calls.                                            *)
(*                                                                         *)
(* The ring buffer in the page, for every size, word width, request bound  *)
(* and set of bytes: its indices stay in bounds, the two sides never touch *)
(* the same cell, vetted transfers complete, and it implements BoundedFifo.*)
(*                                                                         *)
(* The connection manager, for every set of clients and strays, and        *)
(* however often they connect and call: the server pairs each connection   *)
(* with its client's own objects and every call returns the answer to its  *)
(* own request.                                                            *)
(***************************************************************************)
EXTENDS RingBuffer, Connman, TLAPS

-----------------------------------------------------------------------------
(* The ring buffer. *)

(* The modulus of a value below twice the size, as used by increment. *)
LEMMA MaskLemma ==
  ASSUME NEW v \in 0 .. Size
  PROVE  mask(v) = IF v < Size THEN v ELSE 0
BY SizeAssumption DEF mask

(* increment moves to the next cell and wraps at the end of data[]. *)
LEMMA IncrementLemma ==
  ASSUME NEW v \in Cells
  PROVE  /\ increment(v) = IF v + 1 < Size THEN v + 1 ELSE 0
         /\ increment(v) \in Cells
<1>1. v + 1 \in 0 .. Size
  BY SizeAssumption DEF Cells
<1>2. increment(v) = IF v + 1 < Size THEN v + 1 ELSE 0
  BY <1>1, MaskLemma DEF increment
<1>. QED
  BY <1>2, SizeAssumption DEF Cells

(* c4_ringbuf_available is exact as long as the writer has not wrapped past *)
(* the reader, whatever the word width.                                     *)
LEMMA AvailableLemma ==
  ASSUME RingTypeOK, Unwrapped
  PROVE  c4_ringbuf_available = Size - Used
<1>1. write_index - read_index \in 0 .. Size /\ write_index - read_index < Size
  BY SizeAssumption DEF RingTypeOK, Unwrapped, Cells
<1>2. mask(write_index - read_index) = write_index - read_index
  BY <1>1, MaskLemma
<1>. QED
  BY <1>2 DEF c4_ringbuf_available, Used, Unwrapped

(* The full test is exact: it holds when Size - 1 cells are unread. *)
LEMMA FullLemma ==
  ASSUME RingTypeOK
  PROVE  /\ c4_ringbuf_full <=> Used = Size - 1
         /\ Used \in 0 .. Size - 1
<1>1. /\ increment(write_index) =
            IF write_index + 1 < Size THEN write_index + 1 ELSE 0
      /\ read_index \in 0 .. Size - 1
      /\ write_index \in 0 .. Size - 1
  BY IncrementLemma DEF RingTypeOK, Cells
<1>. QED
  BY <1>1, SizeAssumption DEF c4_ringbuf_full, Used

-----------------------------------------------------------------------------
(* The inductive invariant: a side that passed its test still holds what    *)
(* the test promised, since the other side can only move it further away.   *)
RingInv ==
  /\ RingTypeOK
  /\ NoSharedCell
  /\ VettedTransferComplete
  /\ \A side \in {writer, reader} :
       /\ side.done <= side.size
       /\ side.pc \in {"move", "bump"} => side.done < side.size

(* The ring starts empty with both sides idle, so the invariant holds. *)
LEMMA InitRing == RingInit => RingInv
BY SizeAssumption, ReqAssumption
   DEF RingInit, c4_ringbuf_init, RingInv, RingTypeOK, NoSharedCell, Side, PC,
       VettedTransferComplete, Used, Cells

(* Each step of ringbuffer.c keeps the invariant. *)
LEMMA NextRing == RingInv /\ [RingNext]_ring_vars => RingInv'
<1>. SUFFICES ASSUME RingInv, [RingNext]_ring_vars
              PROVE  RingInv'
  OBVIOUS
<1>u. Used \in 0 .. Size - 1
  BY FullLemma DEF RingInv
<1>t. /\ writer \in Side /\ reader \in Side
      /\ read_index \in Cells /\ write_index \in Cells
      /\ data \in [Cells -> Byte]
  BY DEF RingInv, RingTypeOK
<1>1. ASSUME NEW size \in 0 .. MaxReq, NEW vetted \in BOOLEAN,
             WriteCall(size, vetted)
      PROVE  RingInv'
  <2>1. writer' = Call(writer, size, vetted)
    BY <1>1 DEF WriteCall
  <2>2. vetted => size < Size - Used
    BY <1>1, AvailableLemma DEF WriteCall, c4_ringbuf_can_write, RingInv
  <2>a. 0 \in 0 .. MaxReq
    BY ReqAssumption
  <2>3. writer' \in Side
    BY <1>t, <2>1, <2>a, Zenon DEF Call, Side, PC
  <2>4. /\ writer'.pc = "test" /\ writer'.size = size /\ writer'.done = 0
        /\ writer'.vetted = vetted
    BY <1>t, <2>1 DEF Call, Side
  <2>. QED
    BY <1>1, <1>t, <1>u, <2>2, <2>3, <2>4, SizeAssumption
       DEF WriteCall, RingInv, RingTypeOK, NoSharedCell, VettedTransferComplete, Used
<1>2. ASSUME NEW b \in Byte, PutTest(b)
      PROVE  RingInv'
  <2>1. writer' \in Side
    BY <1>2, <1>t DEF PutTest, Return, Side, PC
  <2>2. /\ writer'.size = writer.size /\ writer'.done = writer.done
        /\ writer'.vetted = writer.vetted
        /\ \/ writer'.pc = "idle" /\ (writer.done = writer.size \/ Used = Size - 1)
           \/ writer'.pc = "move" /\ writer.done # writer.size /\ Used < Size - 1
    BY <1>2, <1>t, <1>u, FullLemma, SizeAssumption DEF PutTest, Return, Side, RingInv
  <2>. QED
    BY <1>2, <1>t, <1>u, <2>1, <2>2, SizeAssumption
       DEF PutTest, RingInv, RingTypeOK, NoSharedCell, VettedTransferComplete, Used, Side
<1>3. CASE PutMove
  <2>1. /\ writer' \in Side
        /\ writer'.pc = "bump" /\ writer'.size = writer.size
        /\ writer'.done = writer.done /\ writer'.vetted = writer.vetted
    BY <1>3, <1>t DEF PutMove, Side, PC
  <2>2. data' \in [Cells -> Byte]
    BY <1>3, <1>t DEF PutMove, Side
  <2>. QED
    BY <1>3, <1>t, <1>u, <2>1, <2>2
       DEF PutMove, RingInv, RingTypeOK, NoSharedCell, VettedTransferComplete, Used
<1>4. CASE PutBump
  <2>1. /\ writer.done < writer.size /\ Used < Size - 1
        /\ writer.pc = "bump"
    BY <1>4 DEF PutBump, RingInv, NoSharedCell
  <2>a. writer.done + 1 \in 0 .. MaxReq
    BY <1>t, <2>1, ReqAssumption DEF Side
  <2>2. /\ writer' \in Side
        /\ writer'.pc = "test" /\ writer'.size = writer.size
        /\ writer'.done = writer.done + 1 /\ writer'.vetted = writer.vetted
    BY <1>4, <1>t, <2>a DEF PutBump, Side, PC
  <2>3. write_index' \in Cells /\ Used' = Used + 1
    BY <1>4, <1>t, <2>1, IncrementLemma, SizeAssumption, SMTT(30) DEF PutBump, Used, Cells
  <2>. QED
    BY <1>4, <1>t, <1>u, <2>1, <2>2, <2>3, SizeAssumption
       DEF PutBump, RingInv, RingTypeOK, NoSharedCell, VettedTransferComplete, Side
<1>5. ASSUME NEW size \in 0 .. MaxReq, NEW vetted \in BOOLEAN,
             ReadCall(size, vetted)
      PROVE  RingInv'
  <2>1. reader' = Call(reader, size, vetted)
    BY <1>5 DEF ReadCall
  <2>2. vetted => size <= Used
    BY <1>5, AvailableLemma, <1>u, SizeAssumption DEF ReadCall, c4_ringbuf_can_read, RingInv
  <2>a. 0 \in 0 .. MaxReq
    BY ReqAssumption
  <2>3. reader' \in Side
    BY <1>t, <2>1, <2>a, Zenon DEF Call, Side, PC
  <2>4. /\ reader'.pc = "test" /\ reader'.size = size /\ reader'.done = 0
        /\ reader'.vetted = vetted
    BY <1>t, <2>1 DEF Call, Side
  <2>. QED
    BY <1>5, <1>t, <1>u, <2>2, <2>3, <2>4, SizeAssumption
       DEF ReadCall, RingInv, RingTypeOK, NoSharedCell, VettedTransferComplete, Used
<1>6. CASE GetTest
  <2>1. reader' \in Side
    BY <1>6, <1>t DEF GetTest, Return, Side, PC
  <2>2. /\ reader'.size = reader.size /\ reader'.done = reader.done
        /\ reader'.vetted = reader.vetted
        /\ \/ reader'.pc = "idle" /\ (reader.done = reader.size \/ Used = 0)
           \/ reader'.pc = "move" /\ reader.done # reader.size /\ Used > 0
    BY <1>6, <1>t, <1>u, SizeAssumption
       DEF GetTest, Return, Side, c4_ringbuf_empty, Used, Cells
  <2>. QED
    BY <1>6, <1>t, <1>u, <2>1, <2>2
       DEF GetTest, RingInv, RingTypeOK, NoSharedCell, VettedTransferComplete, Used, Side
<1>7. CASE GetMove
  <2>1. /\ reader' \in Side
        /\ reader'.pc = "bump" /\ reader'.size = reader.size
        /\ reader'.done = reader.done /\ reader'.vetted = reader.vetted
    BY <1>7, <1>t DEF GetMove, Side, PC
  <2>. QED
    BY <1>7, <1>t, <1>u, <2>1
       DEF GetMove, RingInv, RingTypeOK, NoSharedCell, VettedTransferComplete, Used
<1>8. CASE GetBump
  <2>1. reader.done < reader.size /\ Used > 0 /\ reader.pc = "bump"
    BY <1>8 DEF GetBump, RingInv, NoSharedCell
  <2>a. reader.done + 1 \in 0 .. MaxReq
    BY <1>t, <2>1, ReqAssumption DEF Side
  <2>2. /\ reader' \in Side
        /\ reader'.pc = "test" /\ reader'.size = reader.size
        /\ reader'.done = reader.done + 1 /\ reader'.vetted = reader.vetted
    BY <1>8, <1>t, <2>a DEF GetBump, Side, PC
  <2>3. read_index' \in Cells /\ Used' = Used - 1
    BY <1>8, <1>t, <2>1, IncrementLemma, SizeAssumption, SMTT(30) DEF GetBump, Used, Cells
  <2>. QED
    BY <1>8, <1>t, <1>u, <2>1, <2>2, <2>3, SizeAssumption
       DEF GetBump, RingInv, RingTypeOK, NoSharedCell, VettedTransferComplete, Side
<1>9. CASE UNCHANGED ring_vars
  BY <1>9 DEF ring_vars, RingInv, RingTypeOK, NoSharedCell, VettedTransferComplete, Used
<1>. QED
  BY <1>1, <1>2, <1>3, <1>4, <1>5, <1>6, <1>7, <1>8, <1>9
     DEF RingNext, c4_ringbuf_write, c4_ringbuf_read

(* The invariant holds in every reachable state. *)
LEMMA Invariance == RingSpec => []RingInv
BY InitRing, NextRing, PTL DEF RingSpec

(* The indices of ringbuffer.c never leave data[], for any ring size. *)
THEOREM TypeCorrect == RingSpec => []RingTypeOK
<1>1. RingInv => RingTypeOK
  BY DEF RingInv
<1>. QED
  BY <1>1, Invariance, PTL

(* put_byte and get_byte never work on the same cell. *)
THEOREM CellsNotShared == RingSpec => []NoSharedCell
<1>1. RingInv => NoSharedCell
  BY DEF RingInv
<1>. QED
  BY <1>1, Invariance, PTL

(* A transfer that can_write or can_read allowed moves every byte. *)
THEOREM VettedTransfers == RingSpec => []VettedTransferComplete
<1>1. RingInv => VettedTransferComplete
  BY DEF RingInv
<1>. QED
  BY <1>1, Invariance, PTL

-----------------------------------------------------------------------------
(* Refinement.  Between the store of put_byte and its index update, the     *)
(* claimed cell holds the byte that the update will publish.                *)
StoredByte == writer.pc = "bump" => data[write_index] = writer.byte

(* The store precedes the index update in put_byte and nobody else writes   *)
(* data[].                                                                  *)
LEMMA StoredByteInv == RingSpec => []StoredByte
<1>1. RingInit => StoredByte
  BY DEF RingInit, StoredByte
<1>2. RingInv /\ StoredByte /\ [RingNext]_ring_vars => StoredByte'
  <2>. SUFFICES ASSUME RingInv, StoredByte, [RingNext]_ring_vars
                PROVE  StoredByte'
    OBVIOUS
  <2>t. writer \in Side /\ write_index \in Cells /\ data \in [Cells -> Byte]
    BY DEF RingInv, RingTypeOK
  <2>1. CASE PutMove
    BY <2>1, <2>t DEF PutMove, StoredByte, Side
  <2>2. CASE \E size \in 0 .. MaxReq, vetted \in BOOLEAN : WriteCall(size, vetted)
    BY <2>2, <2>t DEF WriteCall, Call, StoredByte, Side
  <2>3. CASE \E b \in Byte : PutTest(b)
    BY <2>3, <2>t DEF PutTest, Return, StoredByte, Side
  <2>4. CASE PutBump
    BY <2>4, <2>t DEF PutBump, StoredByte, Side
  <2>5. CASE UNCHANGED <<write_index, data, writer>>
    BY <2>5 DEF StoredByte
  <2>. QED
    BY <2>1, <2>2, <2>3, <2>4, <2>5
       DEF RingNext, ring_vars, c4_ringbuf_write, c4_ringbuf_read, ReadCall, GetTest,
           GetMove, GetBump
<1>. QED
  BY <1>1, <1>2, Invariance, PTL DEF RingSpec

(* The unread cells: they are cells, the writer's cell is not among them    *)
(* but follows the last of them.                                            *)
LEMMA CellLemma ==
  ASSUME RingTypeOK
  PROVE  /\ \A i \in 0 .. Size - 1 : Cell(i) \in Cells
         /\ \A i \in 0 .. Used - 1 : Cell(i) # write_index
         /\ Cell(Used) = write_index
         /\ Cell(0) = read_index
BY SizeAssumption DEF RingTypeOK, Cells, Cell, Used

(* The mapped queue is a sequence of bytes, one per unread cell that the    *)
(* reader has not loaded yet.                                               *)
QueueOK ==
  /\ Used - Taken \in 0 .. Size - 1
  /\ Queue \in Seq(Byte)
  /\ Len(Queue) = Used - Taken
  /\ \A i \in 1 .. Used - Taken : Queue[i] = data[Cell(i - 1 + Taken)]

(* The mapped queue is well formed in every state of the invariant. *)
LEMMA QueueLemma == RingInv => QueueOK
<1>. SUFFICES ASSUME RingInv
              PROVE  QueueOK
  OBVIOUS
<1>1. Used \in 0 .. Size - 1
  BY FullLemma DEF RingInv
<1>2. Used - Taken \in 0 .. Size - 1 /\ Taken \in {0, 1}
  BY <1>1, SizeAssumption DEF RingInv, NoSharedCell, Taken
<1>3. \A i \in 1 .. Used - Taken : data[Cell(i - 1 + Taken)] \in Byte
  <2>. SUFFICES ASSUME NEW i \in 1 .. Used - Taken
                PROVE  data[Cell(i - 1 + Taken)] \in Byte
    OBVIOUS
  <2>1. i - 1 + Taken \in 0 .. Size - 1
    BY <1>1, <1>2, SizeAssumption
  <2>. QED
    BY <2>1, CellLemma DEF RingInv, RingTypeOK
<1>. QED
  BY <1>2, <1>3 DEF Queue, QueueOK

(* The same of the state a step leads to. *)
LEMMA QueueLemmaNext == RingInv' => QueueOK'
BY QueueLemma, PTL

(* Steps that leave the shared page and the reader's progress alone leave   *)
(* the mapped queue alone.                                                  *)
LEMMA QueueUnchanged ==
  ASSUME UNCHANGED <<read_index, write_index, data>>, Taken' = Taken
  PROVE  Queue' = Queue
BY DEF Queue, Used, Cell

(* put_byte's store goes to a cell outside the mapped queue. *)
LEMMA MoveKeepsQueue ==
  ASSUME RingInv, PutMove
  PROVE  Queue' = Queue
<1>1. Used' = Used /\ Taken' = Taken
  BY DEF PutMove, Used, Taken
<1>2. ASSUME NEW i \in 1 .. Used - Taken
      PROVE  data'[Cell(i - 1 + Taken)'] = data[Cell(i - 1 + Taken)]
  <2>1. i - 1 + Taken \in 0 .. Used - 1
    BY QueueLemma, FullLemma DEF Taken, RingInv, QueueOK
  <2>2. Cell(i - 1 + Taken)' = Cell(i - 1 + Taken)
    BY <1>1 DEF Cell, PutMove
  <2>3. Cell(i - 1 + Taken) # write_index
    BY <2>1, CellLemma DEF RingInv
  <2>. QED
    BY <2>2, <2>3 DEF PutMove, RingInv, RingTypeOK
<1>. QED
  BY <1>1, <1>2 DEF Queue

(* put_byte's index update appends the byte in hand. *)
LEMMA BumpAppends ==
  ASSUME RingInv, StoredByte, PutBump, RingInv'
  PROVE  Queue' = Append(Queue, writer.byte)
<1>1. /\ Used < Size - 1 /\ Used \in Int /\ Taken \in Int
      /\ read_index \in Cells /\ write_index \in Cells
  BY FullLemma, SizeAssumption DEF PutBump, RingInv, NoSharedCell, Taken, RingTypeOK
<1>2. Used' = Used + 1
  BY <1>1, IncrementLemma, SizeAssumption DEF PutBump, Used, Cells
<1>3. Taken' = Taken /\ data' = data /\ \A i : Cell(i)' = Cell(i)
  BY DEF PutBump, Taken, Cell
<1>4. /\ Queue' \in Seq(Byte) /\ Len(Queue') = Used + 1 - Taken
      /\ Queue \in Seq(Byte) /\ Len(Queue) = Used - Taken
      /\ Used - Taken \in Nat
  BY <1>1, <1>2, <1>3, QueueLemma, QueueLemmaNext, SizeAssumption DEF QueueOK
<1>5. ASSUME NEW i \in 1 .. Used + 1 - Taken
      PROVE  Queue'[i] = Append(Queue, writer.byte)[i]
  <2>1. Queue'[i] = data[Cell(i - 1 + Taken)]
    BY <1>1, <1>2, <1>3, QueueLemmaNext DEF QueueOK
  <2>2. CASE i \in 1 .. Used - Taken
    BY <1>1, <2>1, <2>2, <1>4, QueueLemma DEF QueueOK
  <2>3. CASE i = Used + 1 - Taken
    <3>1. i - 1 + Taken = Used
      BY <2>3, <1>1
    <3>2. data[Cell(i - 1 + Taken)] = writer.byte
      BY <3>1, CellLemma DEF StoredByte, PutBump, RingInv
    <3>. QED
      BY <1>1, <2>1, <2>3, <3>2, <1>4
  <2>. QED
    BY <2>2, <2>3, <1>1, <1>4
<1>6. writer.byte \in Byte
  BY DEF RingInv, RingTypeOK, Side
<1>7. /\ Append(Queue, writer.byte) \in Seq(Byte)
      /\ Len(Append(Queue, writer.byte)) = Used + 1 - Taken
  BY <1>1, <1>4, <1>6
<1>. QED
  BY <1>1, <1>4, <1>5, <1>7

(* get_byte's load takes the oldest byte. *)
LEMMA LoadTakesHead ==
  ASSUME RingInv, GetMove, RingInv'
  PROVE  Queue # <<>> /\ reader'.byte = Head(Queue) /\ Queue' = Tail(Queue)
<1>1. Used > 0 /\ Used \in 0 .. Size - 1 /\ Taken = 0 /\ Taken' = 1
  BY FullLemma DEF GetMove, RingInv, NoSharedCell, Taken, RingTypeOK, Side
<1>2. Used' = Used /\ data' = data /\ \A i : Cell(i)' = Cell(i)
  BY DEF GetMove, Used, Cell
<1>3. /\ Queue' \in Seq(Byte) /\ Len(Queue') = Used - 1
      /\ Queue \in Seq(Byte) /\ Len(Queue) = Used
  BY <1>1, <1>2, QueueLemma, QueueLemmaNext DEF QueueOK
<1>4. Queue[1] = data[read_index]
  BY <1>1, QueueLemma, CellLemma DEF RingInv, QueueOK
<1>5. reader'.byte = data[read_index]
  BY DEF GetMove, RingInv, RingTypeOK, Side
<1>6. ASSUME NEW i \in 1 .. Used - 1
      PROVE  Queue'[i] = Tail(Queue)[i]
  <2>1. Queue'[i] = data[Cell(i - 1 + 1)]
    BY <1>1, <1>2, QueueLemmaNext DEF QueueOK
  <2>2. i + 1 \in 1 .. Used - Taken /\ i + 1 - 1 + Taken = i - 1 + 1
    BY <1>1
  <2>3. Queue[i + 1] = data[Cell(i - 1 + 1)]
    BY <2>2, QueueLemma DEF QueueOK
  <2>. QED
    BY <2>1, <2>3, <1>1, <1>3
<1>. QED
  BY <1>1, <1>3, <1>4, <1>5, <1>6

(* get_byte's index update gives the cell back without touching the rest. *)
LEMMA ReleaseKeepsQueue ==
  ASSUME RingInv, GetBump, RingInv'
  PROVE  Queue' = Queue
<1>1. Used > 0 /\ Used \in 0 .. Size - 1 /\ Taken = 1 /\ Taken' = 0
  BY FullLemma DEF GetBump, RingInv, NoSharedCell, Taken, RingTypeOK, Side
<1>2. Used' = Used - 1 /\ data' = data
  BY <1>1, IncrementLemma, SizeAssumption, SMTT(30) DEF GetBump, Used, Cells, RingInv, RingTypeOK
<1>3. ASSUME NEW i \in 1 .. Used - 1
      PROVE  Cell(i - 1 + 0)' = Cell(i - 1 + 1)
  BY <1>1, IncrementLemma, SizeAssumption, SMTT(30) DEF GetBump, Cell, Cells, RingInv, RingTypeOK
<1>4. /\ Queue' \in Seq(Byte) /\ Len(Queue') = Used - 1
      /\ Queue \in Seq(Byte) /\ Len(Queue) = Used - 1
  BY <1>1, <1>2, QueueLemma, QueueLemmaNext DEF QueueOK
<1>5. ASSUME NEW i \in 1 .. Used - 1
      PROVE  Queue'[i] = Queue[i]
  BY <1>1, <1>2, <1>3, QueueLemma, QueueLemmaNext DEF QueueOK
<1>. QED
  BY <1>4, <1>5

(* Every step of the ring is a step of the FIFO or leaves it as it is. *)
LEMMA StepRefines ==
  RingInv /\ RingInv' /\ StoredByte /\ [RingNext]_ring_vars => [Fifo!Next]_(Fifo!vars)
<1>. SUFFICES ASSUME RingInv, RingInv', StoredByte, [RingNext]_ring_vars
              PROVE  [Fifo!Next]_(Fifo!vars)
  OBVIOUS
<1>. USE DEF Fifo!Next, Fifo!vars
<1>t. writer \in Side /\ reader \in Side
  BY DEF RingInv, RingTypeOK
<1>1. ASSUME NEW size \in 0 .. MaxReq, NEW vetted \in BOOLEAN,
             WriteCall(size, vetted)
      PROVE  UNCHANGED Fifo!vars
  <2>1. Taken' = Taken /\ writer'.byte = writer.byte
    BY <1>1, <1>t DEF WriteCall, Call, Taken, Side
  <2>. QED
    BY <1>1, <2>1, QueueUnchanged DEF WriteCall
<1>2. ASSUME NEW b \in Byte, PutTest(b)
      PROVE  [Fifo!Next]_(Fifo!vars)
  <2>1. Taken' = Taken /\ writer'.byte \in {b, writer.byte}
    BY <1>2, <1>t DEF PutTest, Return, Taken, Side
  <2>2. Queue' = Queue /\ reader' = reader
    BY <1>2, <2>1, QueueUnchanged DEF PutTest
  <2>. QED
    BY <2>1, <2>2 DEF Fifo!Offer
<1>3. CASE PutMove
  <2>1. writer'.byte = writer.byte /\ reader' = reader
    BY <1>3, <1>t DEF PutMove, Side
  <2>. QED
    BY <1>3, <2>1, MoveKeepsQueue
<1>4. CASE PutBump
  <2>1. writer'.byte = writer.byte /\ reader' = reader
    BY <1>4, <1>t DEF PutBump, Side
  <2>2. Len(Queue) < Size - 1
    <3>1. Used < Size - 1 /\ Used \in Int
      BY <1>4, FullLemma, SizeAssumption DEF PutBump, RingInv, NoSharedCell
    <3>. QED
      BY <3>1, QueueLemma, SizeAssumption DEF QueueOK, Taken
  <2>. QED
    BY <1>4, <2>1, <2>2, BumpAppends DEF Fifo!Put
<1>5. ASSUME NEW size \in 0 .. MaxReq, NEW vetted \in BOOLEAN,
             ReadCall(size, vetted)
      PROVE  UNCHANGED Fifo!vars
  <2>1. Taken' = Taken /\ reader'.byte = reader.byte
    BY <1>5, <1>t DEF ReadCall, Call, Taken, Side
  <2>. QED
    BY <1>5, <2>1, QueueUnchanged DEF ReadCall
<1>6. CASE GetTest
  <2>1. Taken' = Taken /\ reader'.byte = reader.byte
    BY <1>6, <1>t DEF GetTest, Return, Taken, Side
  <2>. QED
    BY <1>6, <2>1, QueueUnchanged DEF GetTest
<1>7. CASE GetMove
  <2>1. writer' = writer
    BY <1>7 DEF GetMove
  <2>. QED
    BY <1>7, <2>1, LoadTakesHead DEF Fifo!Get
<1>8. CASE GetBump
  <2>1. writer' = writer /\ reader'.byte = reader.byte
    BY <1>8, <1>t DEF GetBump, Side
  <2>. QED
    BY <1>8, <2>1, ReleaseKeepsQueue
<1>9. CASE UNCHANGED ring_vars
  <2>1. Taken' = Taken
    BY <1>9 DEF ring_vars, Taken
  <2>. QED
    BY <1>9, <2>1, QueueUnchanged DEF ring_vars
<1>. QED
  BY <1>1, <1>2, <1>3, <1>4, <1>5, <1>6, <1>7, <1>8, <1>9
     DEF RingNext, c4_ringbuf_write, c4_ringbuf_read

(* The initialised ring is the empty FIFO. *)
LEMMA InitRefines == RingInit => Fifo!Init
<1>. SUFFICES ASSUME RingInit
              PROVE  Fifo!Init
  OBVIOUS
<1>1. Used = 0 /\ Taken = 0
  BY DEF RingInit, c4_ringbuf_init, Used, Taken
<1>2. Queue = <<>>
  BY <1>1 DEF Queue
<1>3. writer.byte \in Byte /\ reader.byte \in Byte
  BY DEF RingInit
<1>. QED
  BY <1>2, <1>3 DEF Fifo!Init

(* ringbuffer.c implements a bounded FIFO of Size - 1 bytes. *)
THEOREM RingIsFifo == RingSpec => IsFifo
<1>1. RingInit => Fifo!Init
  BY InitRefines
<1>2. RingInv /\ RingInv' /\ StoredByte /\ [RingNext]_ring_vars => [Fifo!Next]_(Fifo!vars)
  BY StepRefines
<1>. QED
  BY <1>1, <1>2, Invariance, StoredByteInv, PTL DEF RingSpec, IsFifo, Fifo!Spec

-----------------------------------------------------------------------------
(* The connection manager. *)

Grants   == {"grant_to", "grant_from", "grant_page"}
Meeting  == {"connecting", "awaiting_id"} \cup Grants
ClientPC == {"idle", "granting", "gone"} \cup Meeting \cup InCall
ServerPC == {"listen", "connect", "send_id", "serve", "stale"} \cup Grants
Kind     == {"to", "from", "page"}

ClientType == [Client -> [pc : ClientPC, n : 0 .. MaxConns, id : Id \cup {NoId},
                          calls : 0 .. MaxCalls, answer : Request \cup {None}]]
ServerType == [pc : ServerPC, peer : Client \cup {None}, conn : Conn \cup {NoConn},
               request : Request \cup {None}]

TypeOK ==
  /\ client \in ClientType /\ server \in ServerType
  /\ tree \subseteq Conn
  /\ queue \in [Object -> Seq(Request)]

(* A client counts its connections from 1 and the calls on each from 0. *)
Counts ==
  \A c \in Client : /\ client[c].pc # "idle" => client[c].n \in 1 .. MaxConns
                    /\ client[c].pc \in {"granting"} \cup Meeting => client[c].calls = 0

(* The server's struct for a client's n-th connection. *)
Struct(c, n, id) == [client_id |-> id, async_to |-> <<c, n, "from">>,
                     async_from |-> <<c, n, "to">>, ringbuf |-> <<c, n, "page">>]

Partial(x) == None \in {x.async_to, x.async_from, x.ringbuf}

(* Where the client is while the server is at a step of handle_connect. *)
Meets(at) == CASE at = "connect" -> "connecting"
               [] at = "send_id" -> "awaiting_id"
               [] OTHER -> at

(* The server and the one client that shakes hands with it agree on how far *)
(* they are, and so on which object the next grant is.                      *)
HandsShaken ==
  /\ server.pc \notin {"listen", "serve", "stale"} => server.peer \in Client
  /\ \A c \in Client : server.pc \notin {"listen", "serve", "stale"} /\ server.peer = c =>
       /\ client[c].pc = Meets(server.pc)
       /\ server.pc # "connect" =>
            /\ server.conn \in tree
            /\ server.conn.ringbuf = None
            /\ server.conn.async_from = IF server.pc \in {"grant_from", "grant_page"}
                                        THEN <<c, client[c].n, "to">> ELSE None
            /\ server.conn.async_to = IF server.pc = "grant_page"
                                      THEN <<c, client[c].n, "from">> ELSE None
       /\ server.pc \in Grants => client[c].id = server.conn.client_id
  /\ \A c \in Client : client[c].pc \in Meeting =>
       server.peer = c /\ server.pc \notin {"listen", "serve", "stale"}
  /\ server.pc = "listen" => server = Listening
  /\ server.pc = "connect" => server.conn = NoConn

(* The tree has one struct for an id and for a connection, the only         *)
(* unfinished one the server is at, and none for a connection to come.      *)
IdsUnique == \A x, y \in tree : x.client_id = y.client_id => x = y

QueuesUnique ==
  \A x, y \in tree : x.async_from = y.async_from /\ x.async_from # None => x = y

OnePartial ==
  \A x \in tree : Partial(x) =>
    server.pc = "stale" \/ (server.pc \notin {"listen", "serve", "connect"} /\ x = server.conn)

WholeStructs ==
  \A x \in tree : ~Partial(x) =>
    \E c \in Client : \E n \in 1 .. client[c].n : x = Struct(c, n, x.client_id)

NoneYet ==
  server.pc # "stale" =>
    \A c \in Client : client[c].pc \in {"granting", "connecting", "awaiting_id", "grant_to"} =>
      \A x \in tree : x.async_from # <<c, client[c].n, "to">>

Connected ==
  \A c \in Client : client[c].pc \in InCall => Struct(c, client[c].n, client[c].id) \in tree

TreeRight == /\ IdsUnique /\ QueuesUnique /\ OnePartial
             /\ WholeStructs /\ NoneYet /\ Connected

Calling(c) == client[c].pc \in {"notifying", "awaiting"}
Serves(c) == server.pc = "serve" /\ server.conn.async_to = <<c, client[c].n, "from">>

(* A call's request is in one place: on its way to the server, with it, or  *)
(* on its way back; nothing else is in any queue.                           *)
OthersEmpty ==
  \A c \in Client, n \in 1 .. MaxConns, k \in Kind :
    queue[<<c, n, k>>] # <<>> => Calling(c) /\ n = client[c].n /\ k # "page"

InOnePlace ==
  \A c \in Client : Calling(c) =>
    LET r == <<c, client[c].n, client[c].calls>>
        to == queue[<<c, client[c].n, "to">>]
        from == queue[<<c, client[c].n, "from">>]
    IN  \/ to = <<r>> /\ from = <<>> /\ ~Serves(c)
        \/ to = <<>> /\ from = <<>> /\ Serves(c)
        \/ to = <<>> /\ from = <<r>> /\ ~Serves(c)

ServesOne ==
  server.pc = "serve" => \E c \in Client :
    /\ Calling(c)
    /\ server.conn = Struct(c, client[c].n, client[c].id)
    /\ server.request = <<c, client[c].n, client[c].calls>>

LastAnswer ==
  \A c \in Client : client[c].pc = "connected" /\ client[c].calls > 0
    => client[c].answer = <<c, client[c].n, client[c].calls>>

OneInFlight == OthersEmpty /\ InOnePlace /\ ServesOne /\ LastAnswer

IInv == TypeOK /\ Counts /\ HandsShaken /\ TreeRight /\ OneInFlight

-----------------------------------------------------------------------------
(* Sequences of one element, as the queues are. *)
LEMMA SingleLemma ==
  ASSUME NEW r
  PROVE  /\ Append(<<>>, r) = <<r>> /\ Head(<<r>>) = r /\ Tail(<<r>>) = <<>>
         /\ <<r>> # <<>> /\ Len(<<r>>) = 1 /\ Len(<<>>) = 0
OBVIOUS

(* A client's objects, and that none of them is the missing one. *)
LEMMA ObjectLemma ==
  /\ None \notin Object
  /\ \A c \in Client, n \in 1 .. MaxConns, k \in Kind :
       <<c, n, k>> \in Object /\ <<c, n, k>> # None
  /\ \A o \in Object : \E c \in Client, n \in 1 .. MaxConns, k \in Kind : o = <<c, n, k>>
<1>1. \A o \in Object : \E c \in Client, n \in 1 .. MaxConns, k \in Kind : o = <<c, n, k>>
  BY DEF Object, Kind
<1>2. \A c \in Client, n \in 1 .. MaxConns, k \in Kind : <<c, n, k>> \in Object
  BY DEF Object, Kind
<1>3. \A c, n, k : <<c, n, k>> # <<>>
  <2>. TAKE c, n, k
  <2>1. Len(<<c, n, k>>) = 3 /\ Len(<<>>) = 0
    OBVIOUS
  <2>. QED BY <2>1
<1>. QED BY <1>1, <1>2, <1>3 DEF None

(* The structs of connections are whole, and tell them apart. *)
LEMMA StructLemma ==
  /\ \A c \in Client, n \in 1 .. MaxConns, id \in Id :
       ~Partial(Struct(c, n, id)) /\ Struct(c, n, id) \in Conn
  /\ \A c, n, id, d, m, jd : Struct(c, n, id) = Struct(d, m, jd) => c = d /\ n = m /\ id = jd
<1>1. \A c, n, id, d, m, jd : Struct(c, n, id) = Struct(d, m, jd) => c = d /\ n = m /\ id = jd
  BY DEF Struct
<1>2. ASSUME NEW c \in Client, NEW n \in 1 .. MaxConns, NEW id \in Id
      PROVE  ~Partial(Struct(c, n, id)) /\ Struct(c, n, id) \in Conn
  <2>1. \A k \in Kind : <<c, n, k>> \in Objects /\ <<c, n, k>> # None
    BY ObjectLemma DEF Objects
  <2>. QED BY <2>1 DEF Struct, Partial, Conn, Kind
<1>. QED BY <1>1, <1>2

(* A step that leaves the queues and the calls alone keeps their part of    *)
(* the invariant.                                                           *)
LEMMA CallFrame ==
  ASSUME OneInFlight, UNCHANGED queue,
         server'.pc = "serve" <=> server.pc = "serve",
         server.pc = "serve" => server' = server,
         \A c \in Client :
           /\ Calling(c)' <=> Calling(c)
           /\ Calling(c) => /\ client'[c].n = client[c].n /\ client'[c].id = client[c].id
                            /\ client'[c].calls = client[c].calls
           /\ client'[c].pc = "connected" => client'[c].calls = 0 \/ client'[c] = client[c]
  PROVE  OneInFlight'
<1>0. queue' = queue
  OBVIOUS
<1>1. OthersEmpty'
  BY <1>0 DEF OneInFlight, OthersEmpty
<1>2. ASSUME NEW c \in Client, Calling(c)
      PROVE  Serves(c)' <=> Serves(c)
  BY <1>2 DEF Serves
<1>3. InOnePlace'
  BY <1>0, <1>2, ZenonT(30) DEF OneInFlight, InOnePlace
<1>4. ServesOne'
  BY DEF OneInFlight, ServesOne
<1>5. LastAnswer'
  BY DEF OneInFlight, LastAnswer
<1>. QED BY <1>1, <1>3, <1>4, <1>5 DEF OneInFlight

(* A step that leaves the tree alone, and takes nobody to a new connection, *)
(* keeps what is said of it.                                                *)
LEMMA TreeFrame ==
  ASSUME TreeRight, UNCHANGED tree,
         server.pc \notin {"listen", "serve", "connect"} =>
           server'.pc \notin {"listen", "serve", "connect"} /\ server'.conn = server.conn,
         server.pc = "stale" => server'.pc = "stale",
         \A c \in Client :
           /\ client'[c].n = client[c].n
           /\ client'[c].pc \in {"granting", "connecting", "awaiting_id", "grant_to"} =>
                client[c].pc \in {"granting", "connecting", "awaiting_id", "grant_to"}
           /\ client'[c].pc \in InCall => client[c].pc \in InCall /\ client'[c].id = client[c].id
  PROVE  TreeRight'
<1>0. tree' = tree
  OBVIOUS
<1>1. IdsUnique' /\ QueuesUnique'
  BY <1>0 DEF TreeRight, IdsUnique, QueuesUnique
<1>2. OnePartial'
  BY <1>0 DEF TreeRight, OnePartial
<1>3. WholeStructs'
  BY <1>0 DEF TreeRight, WholeStructs
<1>4. NoneYet'
  BY <1>0 DEF TreeRight, NoneYet
<1>5. Connected'
  BY <1>0 DEF TreeRight, Connected
<1>. QED BY <1>1, <1>2, <1>3, <1>4, <1>5 DEF TreeRight

(* The server listens, nobody is connected and all queues are empty. *)
LEMMA InitInv == Init => IInv
<1>. SUFFICES ASSUME Init PROVE IInv
  OBVIOUS
<1>1. TypeOK
  <2>1. client \in ClientType
    BY BoundAssumption DEF Init, ClientType, ClientPC
  <2>2. server \in ServerType
    BY DEF Init, c4rt_connman_server_init, Listening, ServerType, ServerPC
  <2>. QED BY <2>1, <2>2 DEF Init, c4rt_connman_server_init, TypeOK
<1>2. Counts
  BY DEF Init, Counts, Meeting, Grants
<1>3. HandsShaken
  BY DEF Init, c4rt_connman_server_init, HandsShaken, Listening, Meeting, Grants
<1>4. TreeRight
  BY DEF Init, c4rt_connman_server_init, TreeRight, IdsUnique, QueuesUnique, OnePartial,
         WholeStructs, NoneYet, Connected, InCall
<1>5. OneInFlight
  BY ObjectLemma DEF Init, c4rt_connman_server_init, Listening, OneInFlight, OthersEmpty,
         InOnePlace, ServesOne, LastAnswer, Calling
<1>. QED BY <1>1, <1>2, <1>3, <1>4, <1>5 DEF IInv

(* A client makes its objects and turns to the port. *)
LEMMA ConnectStarts ==
  ASSUME IInv, NEW d \in Client, c4rt_connman_connect(d)
  PROVE  IInv'
<1>0. client' = [client EXCEPT ![d].pc = "granting", ![d].n = @ + 1,
                               ![d].calls = 0, ![d].answer = None]
  BY DEF c4rt_connman_connect
<1>1. /\ client[d].pc = "idle" /\ client[d].n < MaxConns
      /\ server' = server /\ tree' = tree /\ queue' = queue
  BY DEF c4rt_connman_connect
<1>2. /\ client \in ClientType /\ server \in ServerType /\ tree \subseteq Conn
      /\ client[d].n \in Nat /\ MaxConns \in Nat
  BY BoundAssumption DEF IInv, TypeOK, ClientType
<1>3. /\ \A c \in Client : c # d => client'[c] = client[c]
      /\ client'[d].pc = "granting" /\ client'[d].n = client[d].n + 1
      /\ client'[d].calls = 0
  BY <1>0, <1>2 DEF ClientType
<1>4. client[d].n + 1 \in 1 .. MaxConns
  BY <1>1, <1>2
<1>5. TypeOK'
  <2>1. client[d].n + 1 \in 0 .. MaxConns /\ 0 \in 0 .. MaxCalls
    BY <1>4, BoundAssumption
  <2>2. client' \in ClientType
    BY <1>0, <1>2, <2>1 DEF ClientType, ClientPC
  <2>. QED BY <1>1, <2>2 DEF IInv, TypeOK
<1>6. Counts'
  BY <1>3, <1>4 DEF IInv, Counts
<1>7. server.pc \notin {"listen", "serve", "stale"} => server.peer # d
  <2>1. \A at : Meets(at) = "idle" => at = "idle"
    BY DEF Meets
  <2>2. server.pc # "idle"
    BY <1>2 DEF ServerType, ServerPC, Grants
  <2>. QED BY <1>1, <2>1, <2>2 DEF IInv, HandsShaken
<1>8. HandsShaken'
  BY <1>1, <1>3, <1>7 DEF IInv, HandsShaken, Meeting, Grants
<1>9. WholeStructs'
  <2>1. \A c \in Client : \A n \in 1 .. client[c].n : n \in 1 .. client'[c].n
    BY <1>2, <1>3
  <2>. QED BY <1>1, <2>1 DEF IInv, TreeRight, WholeStructs
<1>10. NoneYet'
  <2>1. ASSUME NEW x \in tree, x.async_from = <<d, client[d].n + 1, "to">>, server.pc # "stale"
        PROVE  FALSE
    <3>1. CASE ~Partial(x)
      <4>1. PICK c \in Client : \E n \in 1 .. client[c].n : x = Struct(c, n, x.client_id)
        BY <3>1 DEF IInv, TreeRight, WholeStructs
      <4>2. PICK n \in 1 .. client[c].n : x = Struct(c, n, x.client_id)
        BY <4>1
      <4>3. x.async_from = <<c, n, "to">>
        BY <4>2 DEF Struct
      <4>4. c = d /\ n = client[d].n + 1
        BY <2>1, <4>3
      <4>. QED BY <1>2, <4>4
    <3>2. CASE Partial(x)
      <4>1. x = server.conn /\ server.pc \notin {"listen", "serve", "connect", "stale"}
        BY <2>1, <3>2 DEF IInv, TreeRight, OnePartial
      <4>2. PICK c \in Client : server.peer = c
        BY <4>1 DEF IInv, HandsShaken
      <4>3. x.async_from \in {None, <<c, client[c].n, "to">>}
        BY <4>1, <4>2 DEF IInv, HandsShaken
      <4>4. <<d, client[d].n + 1, "to">> # None
        BY <1>4, ObjectLemma DEF Kind
      <4>. QED BY <1>7, <2>1, <4>1, <4>2, <4>3, <4>4
    <3>. QED BY <3>1, <3>2
  <2>. QED BY <1>1, <1>3, <2>1 DEF IInv, TreeRight, NoneYet
<1>11. IdsUnique' /\ QueuesUnique' /\ OnePartial'
  BY <1>1 DEF IInv, TreeRight, IdsUnique, QueuesUnique, OnePartial
<1>12. Connected'
  <2>1. \A c \in Client : client'[c].pc \in InCall => client'[c] = client[c]
    BY <1>3 DEF InCall
  <2>. QED BY <1>1, <2>1 DEF IInv, TreeRight, Connected
<1>13. OneInFlight'
  <2>1. \A c \in Client :
          /\ Calling(c)' <=> Calling(c)
          /\ Calling(c) => client'[c] = client[c]
          /\ client'[c].pc = "connected" => client'[c] = client[c]
    BY <1>1, <1>3 DEF Calling
  <2>. QED BY <1>1, <2>1, CallFrame DEF IInv
<1>. QED BY <1>5, <1>6, <1>8, <1>9, <1>10, <1>11, <1>12, <1>13 DEF IInv, TreeRight

(* The server takes a temporary endpoint from the port. *)
LEMMA TempTaken ==
  ASSUME IInv, NEW d \in Client, TakeTemp(d)
  PROVE  IInv'
<1>0. /\ server' = [server EXCEPT !.pc = "connect", !.peer = d]
      /\ client' = [client EXCEPT ![d].pc = "connecting"]
  BY DEF TakeTemp, Port, Goto
<1>1. /\ client[d].pc = "granting" /\ server.pc = "listen"
      /\ tree' = tree /\ queue' = queue
  BY DEF TakeTemp, Port
<1>2. client \in ClientType /\ server \in ServerType /\ server = Listening
  BY <1>1 DEF IInv, TypeOK, HandsShaken
<1>3. /\ \A c \in Client : c # d => client'[c] = client[c]
      /\ client'[d].pc = "connecting" /\ client'[d].n = client[d].n
      /\ client'[d].id = client[d].id /\ client'[d].calls = client[d].calls
      /\ server'.pc = "connect" /\ server'.peer = d /\ server'.conn = NoConn
  BY <1>0, <1>2 DEF ClientType, ServerType, Listening
<1>4. TypeOK'
  <2>1. client' \in ClientType
    BY <1>0, <1>2 DEF ClientType, ClientPC, Meeting
  <2>2. server' \in ServerType
    BY <1>0, <1>2 DEF ServerType, ServerPC
  <2>. QED BY <1>1, <2>1, <2>2 DEF IInv, TypeOK
<1>5. Counts'
  BY <1>1, <1>3 DEF IInv, Counts
<1>6. HandsShaken'
  <2>1. \A c \in Client : client[c].pc \notin Meeting
    BY <1>1 DEF IInv, HandsShaken
  <2>2. \A c \in Client : client'[c].pc \in Meeting => c = d
    BY <1>3, <2>1
  <2>. QED BY <1>3, <2>2 DEF HandsShaken, Meets, Grants
<1>7. TreeRight'
  <2>1. \A c \in Client :
           /\ client'[c].n = client[c].n
           /\ client'[c].pc \in {"granting", "connecting", "awaiting_id", "grant_to"} =>
                client[c].pc \in {"granting", "connecting", "awaiting_id", "grant_to"}
           /\ client'[c].pc \in InCall => client[c].pc \in InCall /\ client'[c].id = client[c].id
    BY <1>1, <1>3 DEF InCall
  <2>. QED BY <1>1, <2>1, TreeFrame DEF IInv
<1>8. OneInFlight'
  <2>1. \A c \in Client :
          /\ Calling(c)' <=> Calling(c)
          /\ Calling(c) => client'[c] = client[c]
          /\ client'[c].pc = "connected" => client'[c] = client[c]
    BY <1>1, <1>3 DEF Calling
  <2>. QED BY <1>1, <1>3, <2>1, CallFrame DEF IInv
<1>. QED BY <1>4, <1>5, <1>6, <1>7, <1>8 DEF IInv

(* The server takes the connect request and makes a struct under a new id. *)
LEMMA ConnectTaken ==
  ASSUME IInv, NEW d \in Client, NEW id \in Id, TakeConnect(d, id)
  PROVE  IInv'
<1>. DEFINE conn == [NoConn EXCEPT !.client_id = id]
<1>0. /\ server' = [server EXCEPT !.pc = "send_id", !.conn = conn]
      /\ client' = [client EXCEPT ![d].pc = "awaiting_id"]
  BY DEF TakeConnect, Temp, Goto
<1>1. /\ client[d].pc = "connecting" /\ server.pc = "connect" /\ server.peer = d
      /\ \A x \in tree : x.client_id # id
      /\ tree' = tree \cup {conn} /\ queue' = queue
  BY DEF TakeConnect, Temp, ClientIds
<1>2. client \in ClientType /\ server \in ServerType /\ tree \subseteq Conn
  BY DEF IInv, TypeOK
<1>n. /\ conn.client_id = id /\ conn.async_to = None /\ conn.async_from = None
      /\ conn.ringbuf = None /\ conn \in Conn /\ Partial(conn)
  BY DEF NoConn, Conn, Objects, Partial
<1>. HIDE DEF conn
<1>3. /\ \A c \in Client : c # d => client'[c] = client[c]
      /\ client'[d].pc = "awaiting_id" /\ client'[d].n = client[d].n
      /\ client'[d].id = client[d].id /\ client'[d].calls = client[d].calls
      /\ server'.pc = "send_id" /\ server'.peer = d /\ server'.conn = conn
  BY <1>0, <1>1, <1>2 DEF ClientType, ServerType
<1>4. TypeOK'
  <2>1. client' \in ClientType
    BY <1>0, <1>2 DEF ClientType, ClientPC, Meeting
  <2>2. server' \in ServerType
    BY <1>0, <1>2, <1>n DEF ServerType, ServerPC
  <2>. QED BY <1>1, <1>2, <1>n, <2>1, <2>2 DEF IInv, TypeOK
<1>5. Counts'
  BY <1>1, <1>3 DEF IInv, Counts, Meeting
<1>6. HandsShaken'
  <2>1. \A c \in Client : client'[c].pc \in Meeting => c = d
    BY <1>1, <1>3 DEF IInv, HandsShaken
  <2>. QED BY <1>1, <1>3, <1>n, <2>1 DEF HandsShaken, Meets, Grants
<1>7. IdsUnique'
  BY <1>1, <1>n DEF IInv, TreeRight, IdsUnique
<1>8. QueuesUnique'
  BY <1>1, <1>n DEF IInv, TreeRight, QueuesUnique
<1>9. OnePartial'
  BY <1>1, <1>3 DEF IInv, TreeRight, OnePartial
<1>10. WholeStructs'
  <2>1. \A c \in Client : client'[c].n = client[c].n
    BY <1>3
  <2>. QED BY <1>1, <1>n, <2>1 DEF IInv, TreeRight, WholeStructs
<1>11. NoneYet'
  <2>1. ASSUME NEW c \in Client, client[c].pc # "idle"
        PROVE  <<c, client[c].n, "to">> # None
    <3>1. client[c].n \in 1 .. MaxConns
      BY <2>1 DEF IInv, Counts
    <3>. QED BY <3>1, ObjectLemma DEF Kind
  <2>2. \A c \in Client :
          client'[c].pc \in {"granting", "connecting", "awaiting_id", "grant_to"} =>
            /\ client[c].pc \in {"granting", "connecting", "awaiting_id", "grant_to"}
            /\ client'[c].n = client[c].n
    BY <1>1, <1>3
  <2>3. \A c \in Client :
          client'[c].pc \in {"granting", "connecting", "awaiting_id", "grant_to"} =>
            \A x \in tree : x.async_from # <<c, client'[c].n, "to">>
    BY <1>1, <2>2 DEF IInv, TreeRight, NoneYet
  <2>4. \A c \in Client :
          client'[c].pc \in {"granting", "connecting", "awaiting_id", "grant_to"} =>
            conn.async_from # <<c, client'[c].n, "to">>
    BY <1>n, <2>1, <2>2
  <2>. QED BY <1>1, <2>3, <2>4 DEF NoneYet
<1>12. Connected'
  <2>1. \A c \in Client : client'[c].pc \in InCall => client'[c] = client[c]
    BY <1>3 DEF InCall
  <2>. QED BY <1>1, <2>1 DEF IInv, TreeRight, Connected
<1>13. OneInFlight'
  <2>1. \A c \in Client :
          /\ Calling(c)' <=> Calling(c)
          /\ Calling(c) => client'[c] = client[c]
          /\ client'[c].pc = "connected" => client'[c] = client[c]
    BY <1>1, <1>3 DEF Calling
  <2>. QED BY <1>1, <1>3, <2>1, CallFrame DEF IInv
<1>. QED BY <1>4, <1>5, <1>6, <1>7, <1>8, <1>9, <1>10, <1>11, <1>12, <1>13 DEF IInv, TreeRight

(* The server tells the client its id. *)
LEMMA IdSent ==
  ASSUME IInv, NEW d \in Client, SendId(d)
  PROVE  IInv'
<1>0. /\ server' = [server EXCEPT !.pc = "grant_to"]
      /\ client' = [client EXCEPT ![d].pc = "grant_to", ![d].id = server.conn.client_id]
  BY DEF SendId, Temp
<1>1. /\ client[d].pc = "awaiting_id" /\ server.pc = "send_id" /\ server.peer = d
      /\ tree' = tree /\ queue' = queue
  BY DEF SendId, Temp
<1>2. client \in ClientType /\ server \in ServerType /\ tree \subseteq Conn
  BY DEF IInv, TypeOK
<1>3. /\ \A c \in Client : c # d => client'[c] = client[c]
      /\ client'[d].pc = "grant_to" /\ client'[d].n = client[d].n
      /\ client'[d].id = server.conn.client_id /\ client'[d].calls = client[d].calls
      /\ server'.pc = "grant_to" /\ server'.peer = d /\ server'.conn = server.conn
  BY <1>0, <1>1, <1>2 DEF ClientType, ServerType
<1>4. /\ server.conn \in tree /\ server.conn.ringbuf = None
      /\ server.conn.async_from = None /\ server.conn.async_to = None
  BY <1>1 DEF IInv, HandsShaken
<1>5. TypeOK'
  <2>1. server.conn.client_id \in Id \cup {NoId}
    BY <1>2, <1>4 DEF Conn
  <2>2. \A id \in Id \cup {NoId} :
          [client EXCEPT ![d].pc = "grant_to", ![d].id = id] \in ClientType
    BY <1>2, ZenonT(30) DEF ClientType, ClientPC, Meeting, Grants
  <2>3. client' \in ClientType
    BY <1>0, <2>1, <2>2
  <2>4. server' \in ServerType
    BY <1>0, <1>2 DEF ServerType, ServerPC, Grants
  <2>. QED BY <1>1, <2>3, <2>4 DEF IInv, TypeOK
<1>6. Counts'
  BY <1>1, <1>3 DEF IInv, Counts, Meeting
<1>7. HandsShaken'
  <2>1. \A c \in Client : client'[c].pc \in Meeting => c = d
    BY <1>1, <1>3 DEF IInv, HandsShaken
  <2>. QED BY <1>1, <1>3, <1>4, <2>1 DEF HandsShaken, Meets, Grants
<1>8. TreeRight'
  <2>1. \A c \in Client :
           /\ client'[c].n = client[c].n
           /\ client'[c].pc \in {"granting", "connecting", "awaiting_id", "grant_to"} =>
                client[c].pc \in {"granting", "connecting", "awaiting_id", "grant_to"}
           /\ client'[c].pc \in InCall => client[c].pc \in InCall /\ client'[c].id = client[c].id
    BY <1>1, <1>3 DEF InCall
  <2>. QED BY <1>1, <1>3, <2>1, TreeFrame DEF IInv
<1>9. OneInFlight'
  <2>1. \A c \in Client :
          /\ Calling(c)' <=> Calling(c)
          /\ Calling(c) => client'[c] = client[c]
          /\ client'[c].pc = "connected" => client'[c] = client[c]
    BY <1>1, <1>3 DEF Calling
  <2>. QED BY <1>1, <1>3, <2>1, CallFrame DEF IInv
<1>. QED BY <1>5, <1>6, <1>7, <1>8, <1>9 DEF IInv

(* The server takes the next grant: the struct gets the object that belongs *)
(* there, and with the third the client is connected.                       *)
LEMMA GrantTaken ==
  ASSUME IInv, NEW d \in Client, NEW at \in Grants, NEW new \in Conn,
         NEW next \in {"grant_from", "grant_page", "connected"},
         Temp(d, at, at),
         new.client_id = server.conn.client_id,
         new.async_from = <<d, client[d].n, "to">>,
         new.async_to = IF next = "grant_from" THEN None ELSE <<d, client[d].n, "from">>,
         new.ringbuf = IF next = "connected" THEN <<d, client[d].n, "page">> ELSE None,
         tree' = (tree \ {server.conn}) \cup {new},
         server' = IF next = "connected" THEN Listening
                   ELSE [server EXCEPT !.pc = next, !.conn = new],
         Goto(d, next), UNCHANGED queue
  PROVE  IInv'
<1>0. client' = [client EXCEPT ![d].pc = next]
  BY DEF Goto
<1>1. /\ client[d].pc = at /\ server.pc = at /\ server.peer = d
      /\ queue' = queue /\ at \notin {"listen", "serve", "connect"} /\ at \in Meeting
  BY DEF Temp, Grants, Meeting
<1>2. client \in ClientType /\ server \in ServerType /\ tree \subseteq Conn
  BY DEF IInv, TypeOK
<1>3. /\ \A c \in Client : c # d => client'[c] = client[c]
      /\ client'[d].pc = next /\ client'[d].n = client[d].n
      /\ client'[d].id = client[d].id /\ client'[d].calls = client[d].calls
      /\ \A c \in Client : client'[c].n = client[c].n /\ client'[c].id = client[c].id
  BY <1>0, <1>2 DEF ClientType
<1>4. /\ next # "connected" => server'.pc = next /\ server'.peer = d /\ server'.conn = new
      /\ next = "connected" => server' = Listening /\ server'.pc = "listen"
  BY <1>1, <1>2 DEF ServerType, Listening
<1>5. /\ server.conn \in tree /\ server.conn.ringbuf = None /\ Partial(server.conn)
      /\ client[d].id = server.conn.client_id
      /\ at # "grant_to" => server.conn.async_from = <<d, client[d].n, "to">>
  <2>1. server.conn \in tree /\ server.conn.ringbuf = None /\ client[d].id = server.conn.client_id
    BY <1>1 DEF IInv, HandsShaken
  <2>2. at # "grant_to" => server.conn.async_from = <<d, client[d].n, "to">>
    BY <1>1 DEF IInv, HandsShaken, Grants
  <2>. QED BY <2>1, <2>2 DEF Partial
<1>6. /\ client[d].n \in 1 .. MaxConns /\ client[d].calls = 0
      /\ \A k \in Kind : <<d, client[d].n, k>> # None
  <2>1. client[d].n \in 1 .. MaxConns /\ client[d].calls = 0
    BY <1>1 DEF IInv, Counts, Meeting, Grants
  <2>. QED BY <2>1, ObjectLemma
<1>7. next = "connected" => ~Partial(new) /\ new = Struct(d, client[d].n, new.client_id)
  <2>1. new = [client_id |-> new.client_id, async_to |-> new.async_to,
               async_from |-> new.async_from, ringbuf |-> new.ringbuf]
    BY DEF Conn
  <2>2. next = "connected" => new = Struct(d, client[d].n, new.client_id)
    BY <2>1 DEF Struct
  <2>3. next = "connected" => ~Partial(new)
    BY <1>6 DEF Partial, Kind
  <2>. QED BY <2>2, <2>3
<1>8. TypeOK'
  <2>1. client' \in ClientType
    BY <1>0, <1>2 DEF ClientType, ClientPC, Meeting, Grants, InCall
  <2>2. server' \in ServerType
    <3>1. Listening \in ServerType
      BY DEF Listening, ServerType, ServerPC
    <3>2. next # "connected" => [server EXCEPT !.pc = next, !.conn = new] \in ServerType
      BY <1>2 DEF ServerType, ServerPC, Grants
    <3>. QED BY <3>1, <3>2
  <2>3. tree' \subseteq Conn
    BY <1>2
  <2>. QED BY <1>1, <2>1, <2>2, <2>3 DEF IInv, TypeOK
<1>9. Counts'
  BY <1>3, <1>6 DEF IInv, Counts
<1>10. HandsShaken'
  <2>1. \A c \in Client : client'[c].pc \in Meeting => c = d
    BY <1>1, <1>3 DEF IInv, HandsShaken
  <2>2. CASE next = "connected"
    BY <1>3, <1>4, <2>1, <2>2 DEF HandsShaken, Meeting, Grants
  <2>3. CASE next = "grant_from"
    BY <1>3, <1>4, <1>5, <2>1, <2>3 DEF HandsShaken, Meets, Grants
  <2>4. CASE next = "grant_page"
    BY <1>3, <1>4, <1>5, <2>1, <2>4 DEF HandsShaken, Meets, Grants
  <2>. QED BY <2>2, <2>3, <2>4
<1>11. IdsUnique'
  BY <1>5 DEF IInv, TreeRight, IdsUnique
<1>12. QueuesUnique'
  <2>1. \A x \in tree \ {server.conn} : x.async_from # <<d, client[d].n, "to">>
    <3>1. CASE at = "grant_to"
      BY <1>1, <3>1 DEF IInv, TreeRight, NoneYet
    <3>2. CASE at # "grant_to"
      BY <1>5, <1>6, <3>2 DEF IInv, TreeRight, QueuesUnique, Kind
    <3>. QED BY <3>1, <3>2
  <2>. QED BY <2>1 DEF IInv, TreeRight, QueuesUnique
<1>13. OnePartial'
  <2>1. \A x \in tree \ {server.conn} : ~Partial(x)
    BY <1>1, <1>3 DEF IInv, TreeRight, OnePartial, Grants
  <2>. QED BY <1>4, <1>7, <2>1 DEF OnePartial
<1>14. WholeStructs'
  <2>1. ASSUME NEW x \in tree, ~Partial(x)
        PROVE  \E c \in Client : \E n \in 1 .. client'[c].n : x = Struct(c, n, x.client_id)
    BY <1>3, <2>1 DEF IInv, TreeRight, WholeStructs
  <2>2. ~Partial(new) => next = "connected"
    BY DEF Partial
  <2>3. client[d].n \in 1 .. client'[d].n
    BY <1>3, <1>6
  <2>4. ASSUME ~Partial(new)
        PROVE  \E c \in Client : \E n \in 1 .. client'[c].n : new = Struct(c, n, new.client_id)
    BY <1>7, <2>2, <2>3, <2>4
  <2>. QED BY <2>1, <2>4 DEF WholeStructs
<1>15. NoneYet'
  <2>1. \A c \in Client : client'[c].pc \in {"granting", "connecting", "awaiting_id", "grant_to"}
          => c # d /\ client'[c] = client[c]
    BY <1>3
  <2>. QED BY <1>1, <2>1 DEF IInv, TreeRight, NoneYet, Meeting, Grants
<1>16. Connected'
  <2>. SUFFICES ASSUME NEW c \in Client, client'[c].pc \in InCall
                PROVE  Struct(c, client'[c].n, client'[c].id) \in tree'
    BY DEF Connected
  <2>1. CASE c = d
    <3>1. next = "connected"
      BY <1>3, <2>1 DEF InCall
    <3>. QED BY <1>3, <1>5, <1>7, <2>1, <3>1
  <2>2. CASE c # d
    <3>1. client[c].pc \in InCall /\ client[c].n \in 1 .. MaxConns
      BY <1>3, <2>2 DEF IInv, Counts, InCall
    <3>2. Struct(c, client[c].n, client[c].id) \in tree
      BY <3>1 DEF IInv, TreeRight, Connected
    <3>3. \A k \in Kind : <<c, client[c].n, k>> # None
      BY <3>1, ObjectLemma
    <3>4. ~Partial(Struct(c, client[c].n, client[c].id))
      BY <3>3 DEF Partial, Struct, Kind
    <3>. QED BY <1>3, <1>5, <2>2, <3>2, <3>4
  <2>. QED BY <2>1, <2>2
<1>17. OneInFlight'
  <2>1. \A c \in Client :
          /\ Calling(c)' <=> Calling(c)
          /\ Calling(c) => client'[c] = client[c]
          /\ client'[c].pc = "connected" => client'[c].calls = 0 \/ client'[c] = client[c]
    BY <1>1, <1>3, <1>6 DEF Calling, Grants
  <2>2. server'.pc = "serve" <=> server.pc = "serve"
    BY <1>1, <1>4
  <2>. QED BY <1>1, <2>1, <2>2, CallFrame DEF IInv
<1>. QED BY <1>8, <1>9, <1>10, <1>11, <1>12, <1>13, <1>14, <1>15, <1>16, <1>17
         DEF IInv, TreeRight

(* Each of the three grants is one of those. *)
LEMMA GrantsTaken ==
  ASSUME IInv, NEW d \in Client, TakeGrants(d)
  PROVE  IInv'
<1>1. ASSUME NEW at \in Grants, Temp(d, at, at)
      PROVE  /\ server.conn \in Conn
             /\ \A k \in Kind : <<d, client[d].n, k>> \in Objects
             /\ at # "grant_to" => server.conn.async_from = <<d, client[d].n, "to">>
             /\ at # "grant_page" => server.conn.async_to = None
             /\ at = "grant_page" => server.conn.async_to = <<d, client[d].n, "from">>
             /\ server.conn.ringbuf = None
  <2>1. client[d].pc = at /\ server.pc = at /\ server.peer = d
    BY <1>1 DEF Temp
  <2>2. client[d].n \in 1 .. MaxConns
    BY <2>1 DEF IInv, Counts, Grants
  <2>3. \A k \in Kind : <<d, client[d].n, k>> \in Objects
    BY <2>2, ObjectLemma DEF Objects
  <2>4. /\ server.conn \in tree /\ server.conn.ringbuf = None
        /\ server.conn.async_from = IF at \in {"grant_from", "grant_page"}
                                    THEN <<d, client[d].n, "to">> ELSE None
        /\ server.conn.async_to = IF at = "grant_page" THEN <<d, client[d].n, "from">> ELSE None
    BY <2>1 DEF IInv, HandsShaken, Grants
  <2>. QED BY <2>3, <2>4 DEF IInv, TypeOK, Grants
<1>2. CASE TakeGrant(d, "grant_to", "to", "async_from", "grant_from")
  <2>. DEFINE new == [server.conn EXCEPT !["async_from"] = <<d, client[d].n, "to">>]
  <2>1. /\ Temp(d, "grant_to", "grant_to")
        /\ tree' = (tree \ {server.conn}) \cup {new}
        /\ server' = [server EXCEPT !.pc = "grant_from", !.conn = new]
        /\ Goto(d, "grant_from") /\ UNCHANGED queue
    BY <1>2 DEF TakeGrant, Mine
  <2>2. /\ new \in Conn /\ new.client_id = server.conn.client_id
        /\ new.async_from = <<d, client[d].n, "to">>
        /\ new.async_to = server.conn.async_to /\ new.ringbuf = server.conn.ringbuf
    BY <1>1, <2>1, SMTT(30) DEF Conn, Grants, Kind
  <2>. HIDE DEF new
  <2>. QED BY <1>1, <2>1, <2>2, GrantTaken DEF Grants
<1>3. CASE TakeGrant(d, "grant_from", "from", "async_to", "grant_page")
  <2>. DEFINE new == [server.conn EXCEPT !["async_to"] = <<d, client[d].n, "from">>]
  <2>1. /\ Temp(d, "grant_from", "grant_from")
        /\ tree' = (tree \ {server.conn}) \cup {new}
        /\ server' = [server EXCEPT !.pc = "grant_page", !.conn = new]
        /\ Goto(d, "grant_page") /\ UNCHANGED queue
    BY <1>3 DEF TakeGrant, Mine
  <2>2. /\ new \in Conn /\ new.client_id = server.conn.client_id
        /\ new.async_to = <<d, client[d].n, "from">>
        /\ new.async_from = server.conn.async_from /\ new.ringbuf = server.conn.ringbuf
    BY <1>1, <2>1, SMTT(30) DEF Conn, Grants, Kind
  <2>. HIDE DEF new
  <2>. QED BY <1>1, <2>1, <2>2, GrantTaken DEF Grants
<1>4. CASE TakeGrant(d, "grant_page", "page", "ringbuf", "connected")
  <2>. DEFINE new == [server.conn EXCEPT !["ringbuf"] = <<d, client[d].n, "page">>]
  <2>1. /\ Temp(d, "grant_page", "grant_page")
        /\ tree' = (tree \ {server.conn}) \cup {new}
        /\ server' = Listening
        /\ Goto(d, "connected") /\ UNCHANGED queue
    BY <1>4 DEF TakeGrant, Mine
  <2>2. /\ new \in Conn /\ new.client_id = server.conn.client_id
        /\ new.ringbuf = <<d, client[d].n, "page">>
        /\ new.async_from = server.conn.async_from /\ new.async_to = server.conn.async_to
    BY <1>1, <2>1 DEF Conn, Grants, Kind
  <2>. HIDE DEF new
  <2>. QED BY <1>1, <2>1, <2>2, GrantTaken DEF Grants
<1>. QED BY <1>2, <1>3, <1>4 DEF TakeGrants

(* A stray breaks off: the server drops the struct it was at. *)
LEMMA BrokenOff ==
  ASSUME IInv, NEW d \in Client, BreakOff(d), tree' = tree \ {server.conn}, server' = Listening
  PROVE  IInv'
<1>0. client' = [client EXCEPT ![d].pc = "gone"] /\ server' = Listening
  BY DEF BreakOff, Goto
<1>1. /\ server.pc \in {"connect"} \cup Grants /\ server.peer = d
      /\ client[d].pc \in {"connecting"} \cup Grants
      /\ tree' = tree \ {server.conn} /\ queue' = queue
  BY DEF BreakOff, Temp, Grants
<1>2. client \in ClientType /\ server \in ServerType /\ tree \subseteq Conn
  BY DEF IInv, TypeOK
<1>3. /\ \A c \in Client : c # d => client'[c] = client[c]
      /\ client'[d].pc = "gone" /\ client'[d].n = client[d].n
      /\ \A c \in Client : client'[c].n = client[c].n
      /\ server'.pc = "listen" /\ server' = Listening
  BY <1>0, <1>2 DEF ClientType, Listening
<1>4. TypeOK'
  <2>1. client' \in ClientType
    BY <1>0, <1>2 DEF ClientType, ClientPC
  <2>2. server' \in ServerType
    BY <1>0 DEF Listening, ServerType, ServerPC
  <2>. QED BY <1>1, <2>1, <2>2 DEF IInv, TypeOK
<1>5. Counts'
  <2>1. client[d].n \in 1 .. MaxConns
    BY <1>1 DEF IInv, Counts, Grants
  <2>. QED BY <1>3, <2>1 DEF IInv, Counts, Meeting, Grants
<1>6. HandsShaken'
  <2>1. \A c \in Client : client'[c].pc \in Meeting => c = d
    BY <1>1, <1>3 DEF IInv, HandsShaken
  <2>. QED BY <1>3, <2>1 DEF HandsShaken, Meeting, Grants
<1>7. IdsUnique' /\ QueuesUnique'
  BY <1>1 DEF IInv, TreeRight, IdsUnique, QueuesUnique
<1>8. OnePartial'
  BY <1>1 DEF IInv, TreeRight, OnePartial, Grants
<1>9. WholeStructs'
  BY <1>1, <1>3 DEF IInv, TreeRight, WholeStructs
<1>10. NoneYet'
  <2>1. \A c \in Client : client'[c].pc \in {"granting", "connecting", "awaiting_id", "grant_to"}
          => client'[c] = client[c]
    BY <1>3
  <2>. QED BY <1>1, <2>1 DEF IInv, TreeRight, NoneYet, Grants
<1>11. Connected'
  <2>. SUFFICES ASSUME NEW c \in Client, client'[c].pc \in InCall
                PROVE  Struct(c, client'[c].n, client'[c].id) \in tree'
    BY DEF Connected
  <2>1. client'[c] = client[c] /\ client[c].pc \in InCall
    BY <1>3 DEF InCall
  <2>2. Struct(c, client[c].n, client[c].id) \in tree
    BY <2>1 DEF IInv, TreeRight, Connected
  <2>3. client[c].n \in 1 .. MaxConns
    BY <2>1 DEF IInv, Counts, InCall
  <2>4. \A k \in Kind : <<c, client[c].n, k>> # None
    BY <2>3, ObjectLemma
  <2>5. server.conn.ringbuf = None
    <3>1. CASE server.pc = "connect"
      BY <3>1 DEF IInv, HandsShaken, NoConn
    <3>2. CASE server.pc \in Grants
      BY <1>1, <3>2 DEF IInv, HandsShaken, Grants
    <3>. QED BY <1>1, <3>1, <3>2
  <2>6. Struct(c, client[c].n, client[c].id) # server.conn
    BY <2>4, <2>5 DEF Struct, Kind
  <2>. QED BY <1>1, <2>1, <2>2, <2>6
<1>12. OneInFlight'
  <2>1. \A c \in Client :
          /\ Calling(c)' <=> Calling(c)
          /\ Calling(c) => client'[c] = client[c]
          /\ client'[c].pc = "connected" => client'[c] = client[c]
    BY <1>1, <1>3 DEF Calling, Grants
  <2>2. server.pc # "serve"
    BY <1>1 DEF Grants
  <2>. QED BY <1>1, <1>3, <2>1, <2>2, CallFrame DEF IInv
<1>. QED BY <1>4, <1>5, <1>6, <1>7, <1>8, <1>9, <1>10, <1>11, <1>12 DEF IInv, TreeRight

(* A stray breaks off and the struct is freed but stays in the tree.        *)
LEMMA BrokenOffStale ==
  ASSUME IInv, NEW d \in Client, BreakOff(d), tree' = tree,
         server' = [Listening EXCEPT !.pc = "stale"]
  PROVE  IInv'
<1>0. client' = [client EXCEPT ![d].pc = "gone"]
  BY DEF BreakOff, Goto
<1>1. /\ server.pc \in {"connect"} \cup Grants /\ server.peer = d
      /\ client[d].pc \in {"connecting"} \cup Grants
      /\ tree' = tree /\ queue' = queue
  BY DEF BreakOff, Temp, Grants
<1>2. client \in ClientType /\ server \in ServerType /\ tree \subseteq Conn
  BY DEF IInv, TypeOK
<1>3. /\ \A c \in Client : c # d => client'[c] = client[c]
      /\ client'[d].pc = "gone"
      /\ \A c \in Client : client'[c].n = client[c].n
      /\ server'.pc = "stale"
  BY <1>0, <1>2 DEF ClientType, Listening
<1>4. TypeOK'
  <2>1. client' \in ClientType
    BY <1>0, <1>2 DEF ClientType, ClientPC
  <2>2. server' \in ServerType
    BY DEF Listening, ServerType, ServerPC
  <2>. QED BY <1>1, <2>1, <2>2 DEF IInv, TypeOK
<1>5. Counts'
  <2>1. client[d].n \in 1 .. MaxConns
    BY <1>1 DEF IInv, Counts, Grants
  <2>. QED BY <1>3, <2>1 DEF IInv, Counts, Meeting, Grants
<1>6. HandsShaken'
  <2>1. \A c \in Client : client'[c].pc \in Meeting => c = d
    BY <1>1, <1>3 DEF IInv, HandsShaken
  <2>. QED BY <1>3, <2>1 DEF HandsShaken, Meeting, Grants
<1>7. IdsUnique' /\ QueuesUnique' /\ OnePartial' /\ WholeStructs'
  BY <1>1, <1>3 DEF IInv, TreeRight, IdsUnique, QueuesUnique, OnePartial, WholeStructs
<1>8. NoneYet'
  <2>1. \A c \in Client : client'[c].pc \in {"granting", "connecting", "awaiting_id", "grant_to"}
          => client'[c] = client[c]
    BY <1>3
  <2>. QED BY <1>1, <2>1 DEF IInv, TreeRight, NoneYet
<1>9. Connected'
  <2>1. \A c \in Client : client'[c].pc \in InCall => client'[c] = client[c]
    BY <1>3 DEF InCall
  <2>. QED BY <1>1, <2>1 DEF IInv, TreeRight, Connected
<1>10. OneInFlight'
  <2>1. \A c \in Client :
          /\ Calling(c)' <=> Calling(c)
          /\ Calling(c) => client'[c] = client[c]
          /\ client'[c].pc = "connected" => client'[c] = client[c]
    BY <1>1, <1>3 DEF Calling, Grants
  <2>2. server.pc # "serve"
    BY <1>1 DEF Grants
  <2>. QED BY <1>1, <1>3, <2>1, <2>2, CallFrame DEF IInv
<1>. QED BY <1>4, <1>5, <1>6, <1>7, <1>8, <1>9, <1>10 DEF IInv, TreeRight

(* A client puts a request on its queue. *)
LEMMA RequestSent ==
  ASSUME IInv, NEW d \in Client, c4rt_connman_send(d)
  PROVE  IInv'
<1>. DEFINE k == client[d].calls + 1
            r == <<d, client[d].n, k>>
            q == <<d, client[d].n, "to">>
<1>0. /\ queue' = [queue EXCEPT ![q] = Append(@, r)]
      /\ client' = [client EXCEPT ![d].pc = "notifying", ![d].calls = k]
  BY DEF c4rt_connman_send, Mine
<1>1. /\ client[d].pc = "connected" /\ client[d].calls < MaxCalls
      /\ server' = server /\ tree' = tree
  BY DEF c4rt_connman_send
<1>2. /\ client \in ClientType /\ server \in ServerType /\ tree \subseteq Conn
      /\ queue \in [Object -> Seq(Request)]
      /\ client[d].n \in 1 .. MaxConns /\ k \in 1 .. MaxCalls
  <2>1. client[d].n \in 1 .. MaxConns
    BY <1>1 DEF IInv, Counts
  <2>2. client[d].calls \in 0 .. MaxCalls
    BY DEF IInv, TypeOK, ClientType
  <2>. QED BY <1>1, <2>1, <2>2, BoundAssumption DEF IInv, TypeOK
<1>k. k \in 0 .. MaxCalls /\ r \in Request /\ q \in Object
  <2>1. k \in 0 .. MaxCalls
    BY <1>2
  <2>2. \A j \in 1 .. MaxCalls : <<d, client[d].n, j>> \in Request
    BY <1>2 DEF Request
  <2>3. q \in Object
    BY <1>2, ObjectLemma DEF Kind
  <2>. QED BY <1>2, <2>1, <2>2, <2>3
<1>. HIDE DEF k, r, q
<1>3. /\ \A c \in Client : c # d => client'[c] = client[c]
      /\ client'[d].pc = "notifying" /\ client'[d].n = client[d].n
      /\ client'[d].id = client[d].id /\ client'[d].calls = k
      /\ \A c \in Client : client'[c].n = client[c].n /\ client'[c].id = client[c].id
  BY <1>0, <1>2 DEF ClientType
<1>4. /\ queue'[q] = Append(queue[q], r)
      /\ \A o \in Object : o # q => queue'[o] = queue[o]
  BY <1>0, <1>2, <1>k
<1>5. TypeOK'
  <2>1. client' \in ClientType
    BY <1>0, <1>2, <1>k, ZenonT(60) DEF ClientType, ClientPC, InCall
  <2>2. Append(queue[q], r) \in Seq(Request)
    BY <1>2, <1>k
  <2>3. queue' \in [Object -> Seq(Request)]
    BY <1>0, <1>2, <2>2
  <2>. QED BY <1>1, <2>1, <2>3 DEF IInv, TypeOK
<1>6. Counts'
  BY <1>2, <1>3 DEF IInv, Counts, Meeting, Grants
<1>7. HandsShaken'
  <2>1. client[d].pc \notin Meeting /\ client'[d].pc \notin Meeting
    BY <1>1, <1>3 DEF Meeting, Grants
  <2>2. server.pc \notin {"listen", "serve", "stale"} => server.peer # d
    <3>1. server.pc \notin {"listen", "serve", "stale"} => Meets(server.pc) # "connected"
      BY <1>2 DEF Meets, ServerType, ServerPC, Grants
    <3>. QED BY <1>1, <3>1 DEF IInv, HandsShaken
  <2>. QED BY <1>1, <1>3, <2>1, <2>2 DEF IInv, HandsShaken
<1>8. TreeRight'
  <2>1. \A c \in Client :
           /\ client'[c].n = client[c].n
           /\ client'[c].pc \in {"granting", "connecting", "awaiting_id", "grant_to"} =>
                client[c].pc \in {"granting", "connecting", "awaiting_id", "grant_to"}
           /\ client'[c].pc \in InCall => client[c].pc \in InCall /\ client'[c].id = client[c].id
    BY <1>1, <1>3 DEF InCall
  <2>. QED BY <1>1, <2>1, TreeFrame DEF IInv
<1>9. ~Calling(d) /\ Calling(d)' /\ \A c \in Client : c # d => (Calling(c)' <=> Calling(c))
  BY <1>1, <1>3 DEF Calling
<1>10. \A n \in 1 .. MaxConns, kind \in Kind : queue[<<d, n, kind>>] = <<>>
  BY <1>9 DEF IInv, OneInFlight, OthersEmpty
<1>11. OthersEmpty'
  <2>. SUFFICES ASSUME NEW c \in Client, NEW n \in 1 .. MaxConns, NEW kind \in Kind,
                       queue'[<<c, n, kind>>] # <<>>
                PROVE  Calling(c)' /\ n = client'[c].n /\ kind # "page"
    BY DEF OthersEmpty
  <2>1. <<c, n, kind>> \in Object
    BY ObjectLemma
  <2>2. CASE <<c, n, kind>> = q
    BY <1>3, <1>9, <2>2 DEF q
  <2>3. CASE <<c, n, kind>> # q
    <3>1. queue[<<c, n, kind>>] # <<>>
      BY <1>4, <2>1, <2>3
    <3>2. c # d
      BY <1>10, <3>1
    <3>. QED BY <1>3, <1>9, <3>1, <3>2 DEF IInv, OneInFlight, OthersEmpty
  <2>. QED BY <2>2, <2>3
<1>12. ServesOne'
  <2>. SUFFICES ASSUME server.pc = "serve"
                PROVE  \E c \in Client : /\ Calling(c)'
                                         /\ server.conn = Struct(c, client'[c].n, client'[c].id)
                                         /\ server.request = <<c, client'[c].n, client'[c].calls>>
    BY <1>1 DEF ServesOne
  <2>1. PICK c \in Client : /\ Calling(c)
                            /\ server.conn = Struct(c, client[c].n, client[c].id)
                            /\ server.request = <<c, client[c].n, client[c].calls>>
    BY DEF IInv, OneInFlight, ServesOne
  <2>2. c # d
    BY <1>9, <2>1
  <2>. QED BY <1>3, <1>9, <2>1, <2>2
<1>13. ~Serves(d)'
  <2>. SUFFICES ASSUME server.pc = "serve"
                PROVE  server.conn.async_to # <<d, client[d].n, "from">>
    BY <1>1, <1>3 DEF Serves
  <2>1. PICK c \in Client : /\ Calling(c)
                            /\ server.conn = Struct(c, client[c].n, client[c].id)
    BY DEF IInv, OneInFlight, ServesOne
  <2>2. c # d
    BY <1>9, <2>1
  <2>. QED BY <2>1, <2>2 DEF Struct
<1>14. InOnePlace'
  <2>1. /\ queue'[<<d, client'[d].n, "to">>] = <<r>>
        /\ queue'[<<d, client'[d].n, "from">>] = <<>>
        /\ r = <<d, client'[d].n, client'[d].calls>>
    <3>1. queue[q] = <<>> /\ queue[<<d, client[d].n, "from">>] = <<>>
      BY <1>2, <1>10 DEF Kind, q
    <3>2. <<d, client[d].n, "from">> \in Object /\ <<d, client[d].n, "from">> # q
      BY <1>2, ObjectLemma DEF Kind, q
    <3>. QED BY <1>3, <1>4, <3>1, <3>2, SingleLemma DEF q, r
  <2>2. ASSUME NEW c \in Client, c # d, Calling(c)
        PROVE  /\ queue'[<<c, client'[c].n, "to">>] = queue[<<c, client[c].n, "to">>]
               /\ queue'[<<c, client'[c].n, "from">>] = queue[<<c, client[c].n, "from">>]
               /\ client'[c] = client[c] /\ (Serves(c)' <=> Serves(c))
    <3>1. client[c].n \in 1 .. MaxConns
      BY <2>2 DEF IInv, Counts, Calling
    <3>2. /\ <<c, client[c].n, "to">> \in Object /\ <<c, client[c].n, "from">> \in Object
          /\ <<c, client[c].n, "to">> # q /\ <<c, client[c].n, "from">> # q
      BY <2>2, <3>1, ObjectLemma DEF Kind, q
    <3>. QED BY <1>1, <1>3, <1>4, <2>2, <3>2 DEF Serves
  <2>3. ASSUME NEW c \in Client, Calling(c)'
        PROVE  LET s == <<c, client'[c].n, client'[c].calls>>
                   to == queue'[<<c, client'[c].n, "to">>]
                   from == queue'[<<c, client'[c].n, "from">>]
               IN  \/ to = <<s>> /\ from = <<>> /\ ~Serves(c)'
                   \/ to = <<>> /\ from = <<>> /\ Serves(c)'
                   \/ to = <<>> /\ from = <<s>> /\ ~Serves(c)'
    <3>1. CASE c = d
      BY <1>13, <2>1, <3>1
    <3>2. CASE c # d
      BY <1>9, <2>2, <2>3, <3>2 DEF IInv, OneInFlight, InOnePlace
    <3>. QED BY <3>1, <3>2
  <2>. QED BY <2>3 DEF InOnePlace
<1>15. LastAnswer'
  <2>1. \A c \in Client : client'[c].pc = "connected" => client'[c] = client[c]
    BY <1>3
  <2>. QED BY <2>1 DEF IInv, OneInFlight, LastAnswer
<1>. QED BY <1>5, <1>6, <1>7, <1>8, <1>11, <1>12, <1>14, <1>15 DEF IInv, OneInFlight

(* A new message is announced: the server takes the request of the          *)
(* connection that is found, if there is one, whoever announced it.         *)
LEMMA MessageTaken ==
  ASSUME IInv, NEW id, server.pc = "listen", NewMessage(id), UNCHANGED tree,
         client' \in ClientType,
         \A c \in Client :
           /\ client'[c].n = client[c].n /\ client'[c].id = client[c].id
           /\ client'[c].calls = client[c].calls
           /\ client'[c] = client[c] \/ (Calling(c) /\ Calling(c)')
  PROVE  IInv'
<1>1. /\ client \in ClientType /\ server \in ServerType /\ server = Listening
      /\ tree \subseteq Conn /\ queue \in [Object -> Seq(Request)] /\ tree' = tree
  BY DEF IInv, TypeOK, HandsShaken
<1>2. \A c \in Client : /\ Calling(c)' <=> Calling(c)
                        /\ ~Calling(c) => client'[c] = client[c]
                        /\ client'[c].pc \in Meeting <=> client[c].pc \in Meeting
                        /\ client'[c].pc \in InCall <=> client[c].pc \in InCall
  BY DEF Calling, Meeting, Grants, InCall
<1>3. Counts'
  <2>1. ASSUME NEW c \in Client
        PROVE  /\ client'[c].pc # "idle" => client'[c].n \in 1 .. MaxConns
               /\ client'[c].pc \in {"granting"} \cup Meeting => client'[c].calls = 0
    <3>1. CASE client'[c] = client[c]
      BY <3>1 DEF IInv, Counts
    <3>2. CASE Calling(c) /\ Calling(c)'
      BY <3>2 DEF IInv, Counts, Calling, Meeting, Grants
    <3>. QED BY <3>1, <3>2
  <2>. QED BY <2>1 DEF Counts
<1>4. \A c \in Client : client'[c].pc \notin Meeting
  BY <1>2 DEF IInv, HandsShaken
<1>t. \A c \in Client :
        /\ client'[c].n = client[c].n
        /\ client'[c].pc \in {"granting", "connecting", "awaiting_id", "grant_to"} =>
             client[c].pc \in {"granting", "connecting", "awaiting_id", "grant_to"}
        /\ client'[c].pc \in InCall => client[c].pc \in InCall /\ client'[c].id = client[c].id
  BY <1>2 DEF Calling
<1>5. TreeRight'
  BY <1>t, TreeFrame DEF IInv
<1>6. CASE UNCHANGED <<server, queue>>
  <2>1. TypeOK'
    BY <1>6 DEF IInv, TypeOK
  <2>2. HandsShaken'
    BY <1>1, <1>4, <1>6 DEF HandsShaken
  <2>3. OneInFlight'
    <3>1. \A c \in Client : client'[c].pc = "connected" => client'[c] = client[c]
      BY DEF Calling
    <3>. QED BY <1>2, <1>6, <3>1, CallFrame DEF IInv
  <2>. QED BY <1>3, <1>5, <2>1, <2>2, <2>3 DEF IInv
<1>7. CASE ~ UNCHANGED <<server, queue>>
  <2>1. PICK conn \in tree :
          /\ queue[conn.async_from] # <<>>
          /\ server' = [server EXCEPT !.pc = "serve", !.conn = conn,
                                      !.request = Head(queue[conn.async_from])]
          /\ queue' = [queue EXCEPT ![conn.async_from] = Tail(@)]
    BY <1>7 DEF NewMessage
  <2>2. ~Partial(conn)
    BY DEF IInv, TreeRight, OnePartial
  <2>3. PICK c \in Client, n \in Nat : n \in 1 .. client[c].n /\ conn = Struct(c, n, conn.client_id)
    BY <2>2 DEF IInv, TreeRight, WholeStructs
  <2>4. conn.async_from = <<c, n, "to">> /\ conn.async_to = <<c, n, "from">>
    BY <2>3 DEF Struct
  <2>5. n \in 1 .. MaxConns
    <3>1. client[c].n \in 0 .. MaxConns
      BY <1>1 DEF ClientType
    <3>. QED BY <2>3, <3>1, BoundAssumption
  <2>6. Calling(c) /\ n = client[c].n /\ client[c].pc \in InCall
    <3>1. Calling(c) /\ n = client[c].n
      BY <2>1, <2>4, <2>5 DEF IInv, OneInFlight, OthersEmpty, Kind
    <3>. QED BY <3>1 DEF Calling, InCall
  <2>7. conn = Struct(c, client[c].n, client[c].id)
    <3>1. Struct(c, client[c].n, client[c].id) \in tree
      BY <2>6 DEF IInv, TreeRight, Connected
    <3>2. Struct(c, client[c].n, client[c].id).async_from = conn.async_from
      BY <2>4, <2>6 DEF Struct
    <3>3. conn.async_from # None
      BY <2>2 DEF Partial
    <3>. QED BY <3>1, <3>2, <3>3 DEF IInv, TreeRight, QueuesUnique
  <2>. DEFINE r == <<c, client[c].n, client[c].calls>>
              q == <<c, client[c].n, "to">>
              p == <<c, client[c].n, "from">>
  <2>8. queue[q] = <<r>> /\ queue[p] = <<>>
    <3>1. queue[q] # <<>>
      BY <2>1, <2>4, <2>6
    <3>. QED BY <2>6, <3>1 DEF IInv, OneInFlight, InOnePlace
  <2>9. q \in Object /\ p \in Object /\ p # q /\ r \in Request
    <3>1. q \in Object /\ p \in Object /\ p # q
      BY <2>5, <2>6, ObjectLemma DEF Kind
    <3>2. queue[q] \in Seq(Request)
      BY <1>1, <3>1
    <3>3. Head(queue[q]) \in Request
      BY <2>8, <3>2, SingleLemma
    <3>. QED BY <2>8, <3>1, <3>3, SingleLemma
  <2>10. conn.async_from = q /\ conn.async_to = p
    BY <2>4, <2>6
  <2>11. /\ Head(queue[conn.async_from]) = r /\ Tail(queue[conn.async_from]) = <<>>
    BY <2>8, <2>10, SingleLemma
  <2>. HIDE DEF r, q, p
  <2>12. /\ server'.pc = "serve" /\ server'.conn = conn /\ server'.request = r
         /\ queue'[q] = <<>> /\ \A o \in Object : o # q => queue'[o] = queue[o]
    BY <1>1, <2>1, <2>9, <2>10, <2>11 DEF ServerType
  <2>13. TypeOK'
    <3>1. server' = [server EXCEPT !.pc = "serve", !.conn = conn, !.request = r]
      BY <2>1, <2>11
    <3>2. server' \in ServerType
      BY <1>1, <2>9, <3>1 DEF ServerType, ServerPC
    <3>3. queue' = [queue EXCEPT ![q] = <<>>]
      BY <2>1, <2>10, <2>11
    <3>e. <<>> \in Seq(Request)
      OBVIOUS
    <3>4. queue' \in [Object -> Seq(Request)]
      BY <1>1, <3>3, <3>e
    <3>. QED BY <1>1, <3>2, <3>4 DEF TypeOK
  <2>14. HandsShaken'
    BY <1>4, <2>12 DEF HandsShaken, Grants
  <2>15. OthersEmpty'
    <3>. SUFFICES ASSUME NEW e \in Client, NEW m \in 1 .. MaxConns, NEW kind \in Kind,
                         queue'[<<e, m, kind>>] # <<>>
                  PROVE  Calling(e)' /\ m = client'[e].n /\ kind # "page"
      BY DEF OthersEmpty
    <3>1. <<e, m, kind>> \in Object
      BY ObjectLemma
    <3>2. queue[<<e, m, kind>>] # <<>>
      BY <2>12, <3>1
    <3>. QED BY <1>2, <3>2 DEF IInv, OneInFlight, OthersEmpty
  <2>16. ServesOne'
    <3>1. Calling(c)' /\ Struct(c, client'[c].n, client'[c].id) = conn
      BY <1>2, <2>6, <2>7
    <3>2. <<c, client'[c].n, client'[c].calls>> = r
      BY DEF r
    <3>. QED BY <2>12, <3>1, <3>2 DEF ServesOne
  <2>17. InOnePlace'
    <3>1. ASSUME NEW e \in Client, Calling(e)'
          PROVE  LET s == <<e, client'[e].n, client'[e].calls>>
                     to == queue'[<<e, client'[e].n, "to">>]
                     from == queue'[<<e, client'[e].n, "from">>]
                 IN  \/ to = <<s>> /\ from = <<>> /\ ~Serves(e)'
                     \/ to = <<>> /\ from = <<>> /\ Serves(e)'
                     \/ to = <<>> /\ from = <<s>> /\ ~Serves(e)'
      <4>1. CASE e = c
        <5>1. Serves(e)'
          BY <2>10, <2>12, <4>1 DEF Serves, p
        <5>2. <<e, client'[e].n, "to">> = q /\ <<e, client'[e].n, "from">> = p
          BY <4>1 DEF p, q
        <5>. QED BY <2>8, <2>9, <2>12, <5>1, <5>2
      <4>2. CASE e # c
        <5>1. client[e].n \in 1 .. MaxConns /\ Calling(e)
          BY <1>2, <3>1 DEF IInv, Counts, Calling
        <5>2. /\ <<e, client[e].n, "to">> \in Object /\ <<e, client[e].n, "from">> \in Object
              /\ <<e, client[e].n, "to">> # q /\ <<e, client[e].n, "from">> # q
          BY <4>2, <5>1, ObjectLemma DEF Kind, q
        <5>3. ~Serves(e)' /\ ~Serves(e)
          BY <1>1, <2>10, <2>12, <4>2 DEF Serves, p, Listening
        <5>4. /\ queue'[<<e, client'[e].n, "to">>] = queue[<<e, client[e].n, "to">>]
              /\ queue'[<<e, client'[e].n, "from">>] = queue[<<e, client[e].n, "from">>]
          BY <2>12, <5>2
        <5>. QED BY <5>1, <5>3, <5>4 DEF IInv, OneInFlight, InOnePlace
      <4>. QED BY <4>1, <4>2
    <3>. QED BY <3>1 DEF InOnePlace
  <2>18. LastAnswer'
    <3>1. \A e \in Client : client'[e].pc = "connected" => client'[e] = client[e]
      BY DEF Calling
    <3>. QED BY <3>1 DEF IInv, OneInFlight, LastAnswer
  <2>. QED BY <1>3, <1>5, <2>13, <2>14, <2>15, <2>16, <2>17, <2>18, SMTT(30) DEF IInv, OneInFlight
<1>. QED BY <1>6, <1>7

(* The server answers the request it is at. *)
LEMMA Responded ==
  ASSUME IInv, c4rt_connman_server_respond
  PROVE  IInv'
<1>1. /\ server.pc = "serve" /\ server' = Listening /\ server'.pc = "listen"
      /\ queue' = [queue EXCEPT ![server.conn.async_to] = Append(@, server.request)]
      /\ client' = client /\ tree' = tree
  BY DEF c4rt_connman_server_respond, Listening
<1>2. queue \in [Object -> Seq(Request)]
  BY DEF IInv, TypeOK
<1>3. PICK c \in Client : /\ Calling(c)
                          /\ server.conn = Struct(c, client[c].n, client[c].id)
                          /\ server.request = <<c, client[c].n, client[c].calls>>
  BY <1>1 DEF IInv, OneInFlight, ServesOne
<1>. DEFINE r == <<c, client[c].n, client[c].calls>>
            q == <<c, client[c].n, "to">>
            p == <<c, client[c].n, "from">>
<1>4. server.conn.async_to = p /\ server.request = r /\ Serves(c)
  BY <1>1, <1>3 DEF Struct, Serves
<1>5. queue[q] = <<>> /\ queue[p] = <<>>
  BY <1>3, <1>4 DEF IInv, OneInFlight, InOnePlace
<1>6. q \in Object /\ p \in Object /\ p # q
  <2>1. client[c].n \in 1 .. MaxConns
    BY <1>3 DEF IInv, Counts, Calling
  <2>. QED BY <2>1, ObjectLemma DEF Kind
<1>7. r \in Request
  <2>1. server.request \in Request \cup {None}
    BY DEF IInv, TypeOK, ServerType
  <2>2. r # None
    <3>1. Len(r) = 3 /\ Len(<<>>) = 0
      OBVIOUS
    <3>. QED BY <3>1 DEF None
  <2>. QED BY <1>4, <2>1, <2>2
<1>. HIDE DEF p, q, r
<1>8. /\ queue' = [queue EXCEPT ![p] = <<r>>]
      /\ queue'[p] = <<r>> /\ \A o \in Object : o # p => queue'[o] = queue[o]
  BY <1>1, <1>2, <1>4, <1>5, <1>6, SingleLemma
<1>9. TypeOK'
  <2>1. Listening \in ServerType
    BY DEF Listening, ServerType, ServerPC
  <2>2. <<r>> \in Seq(Request)
    BY <1>7
  <2>3. queue' \in [Object -> Seq(Request)]
    BY <1>2, <1>8, <2>2
  <2>. QED BY <1>1, <2>1, <2>3 DEF IInv, TypeOK
<1>10. Counts'
  BY <1>1 DEF IInv, Counts
<1>11. HandsShaken'
  BY <1>1 DEF IInv, HandsShaken
<1>12. TreeRight'
  BY <1>1, TreeFrame DEF IInv
<1>13. \A e \in Client : Calling(e)' <=> Calling(e)
  BY <1>1 DEF Calling
<1>14. OthersEmpty'
  <2>. SUFFICES ASSUME NEW e \in Client, NEW m \in 1 .. MaxConns, NEW kind \in Kind,
                       queue'[<<e, m, kind>>] # <<>>
                PROVE  Calling(e)' /\ m = client'[e].n /\ kind # "page"
    BY DEF OthersEmpty
  <2>1. CASE <<e, m, kind>> = p
    BY <1>1, <1>3, <1>13, <2>1, Zenon DEF p
  <2>2. CASE <<e, m, kind>> # p
    <3>1. queue[<<e, m, kind>>] # <<>>
      BY <1>8, <2>2, ObjectLemma
    <3>. QED BY <1>1, <1>13, <3>1 DEF IInv, OneInFlight, OthersEmpty
  <2>. QED BY <2>1, <2>2
<1>15. ServesOne'
  BY <1>1, SMTT(30) DEF ServesOne
<1>16. InOnePlace'
  <2>1. ASSUME NEW e \in Client, Calling(e)
        PROVE  LET s == <<e, client[e].n, client[e].calls>>
                   to == queue'[<<e, client[e].n, "to">>]
                   from == queue'[<<e, client[e].n, "from">>]
               IN  \/ to = <<s>> /\ from = <<>>
                   \/ to = <<>> /\ from = <<s>>
    <3>1. CASE e = c
      BY <1>5, <1>6, <1>8, <3>1 DEF p, q, r
    <3>2. CASE e # c
      <4>1. client[e].n \in 1 .. MaxConns
        BY <2>1 DEF IInv, Counts, Calling
      <4>2. /\ <<e, client[e].n, "to">> \in Object /\ <<e, client[e].n, "from">> \in Object
            /\ <<e, client[e].n, "to">> # p /\ <<e, client[e].n, "from">> # p
        BY <3>2, <4>1, ObjectLemma DEF Kind, p
      <4>3. ~Serves(e)
        BY <1>4, <3>2 DEF Serves, p
      <4>. QED BY <1>8, <2>1, <4>2, <4>3 DEF IInv, OneInFlight, InOnePlace
    <3>. QED BY <3>1, <3>2
  <2>2. \A e \in Client : ~Serves(e)'
    BY <1>1 DEF Serves
  <2>. QED BY <1>1, <1>13, <2>1, <2>2 DEF InOnePlace
<1>17. LastAnswer'
  BY <1>1 DEF IInv, OneInFlight, LastAnswer
<1>. QED BY <1>9, <1>10, <1>11, <1>12, <1>14, <1>15, <1>16, <1>17 DEF IInv, OneInFlight

(* A client takes the answer. *)
LEMMA AnswerTaken ==
  ASSUME IInv, NEW d \in Client, c4rt_connman_recv(d)
  PROVE  IInv'
<1>. DEFINE r == <<d, client[d].n, client[d].calls>>
            q == <<d, client[d].n, "to">>
            p == <<d, client[d].n, "from">>
<1>0. /\ client[d].pc = "awaiting" /\ queue[p] # <<>>
      /\ client' = [client EXCEPT ![d].pc = "connected", ![d].answer = Head(queue[p])]
      /\ queue' = [queue EXCEPT ![p] = Tail(@)]
      /\ server' = server /\ tree' = tree
  BY DEF c4rt_connman_recv, Mine
<1>1. /\ client[d].pc = "awaiting" /\ Calling(d) /\ queue[p] # <<>>
      /\ server' = server /\ tree' = tree
  BY <1>0 DEF Calling
<1>2. /\ client \in ClientType /\ server \in ServerType
      /\ queue \in [Object -> Seq(Request)] /\ client[d].n \in 1 .. MaxConns
  BY <1>1 DEF IInv, TypeOK, Counts
<1>3. queue[q] = <<>> /\ queue[p] = <<r>> /\ ~Serves(d)
  BY <1>1 DEF IInv, OneInFlight, InOnePlace
<1>4. q \in Object /\ p \in Object /\ p # q /\ r \in Request
  <2>1. q \in Object /\ p \in Object /\ p # q
    BY <1>2, ObjectLemma DEF Kind
  <2>2. Head(queue[p]) \in Request
    <3>1. queue[p] \in Seq(Request)
      BY <1>2, <2>1
    <3>. QED BY <1>3, <3>1, SingleLemma
  <2>. QED BY <1>3, <2>1, <2>2, SingleLemma
<1>5. /\ client' = [client EXCEPT ![d].pc = "connected", ![d].answer = r]
      /\ queue' = [queue EXCEPT ![p] = <<>>]
  BY <1>0, <1>2, <1>3, <1>4, SingleLemma
<1>. HIDE DEF p, q, r
<1>6. /\ \A c \in Client : c # d => client'[c] = client[c]
      /\ client'[d].pc = "connected" /\ client'[d].n = client[d].n
      /\ client'[d].id = client[d].id /\ client'[d].calls = client[d].calls
      /\ client'[d].answer = r
      /\ \A c \in Client : client'[c].n = client[c].n /\ client'[c].id = client[c].id
      /\ queue'[p] = <<>> /\ \A o \in Object : o # p => queue'[o] = queue[o]
  BY <1>2, <1>4, <1>5 DEF ClientType
<1>7. TypeOK'
  <2>1. client' \in ClientType
    BY <1>2, <1>4, <1>5, ZenonT(60) DEF ClientType, ClientPC, InCall
  <2>2. <<>> \in Seq(Request)
    OBVIOUS
  <2>3. queue' \in [Object -> Seq(Request)]
    BY <1>2, <1>5, <2>2
  <2>. QED BY <1>1, <2>1, <2>3 DEF IInv, TypeOK
<1>8. Counts'
  BY <1>2, <1>6 DEF IInv, Counts, Meeting, Grants
<1>9. HandsShaken'
  <2>1. client[d].pc \notin Meeting /\ client'[d].pc \notin Meeting
    BY <1>1, <1>6 DEF Meeting, Grants
  <2>2. server.pc \notin {"listen", "serve", "stale"} => server.peer # d
    <3>1. server.pc \notin {"listen", "serve", "stale"} => Meets(server.pc) # "awaiting"
      BY <1>2 DEF Meets, ServerType, ServerPC, Grants
    <3>. QED BY <1>1, <3>1 DEF IInv, HandsShaken
  <2>. QED BY <1>1, <1>6, <2>1, <2>2 DEF IInv, HandsShaken
<1>10. TreeRight'
  <2>1. \A c \in Client :
           /\ client'[c].n = client[c].n
           /\ client'[c].pc \in {"granting", "connecting", "awaiting_id", "grant_to"} =>
                client[c].pc \in {"granting", "connecting", "awaiting_id", "grant_to"}
           /\ client'[c].pc \in InCall => client[c].pc \in InCall /\ client'[c].id = client[c].id
    BY <1>1, <1>6 DEF InCall
  <2>. QED BY <1>1, <2>1, TreeFrame DEF IInv
<1>11. ~Calling(d)' /\ \A c \in Client : c # d => (Calling(c)' <=> Calling(c))
  BY <1>6 DEF Calling
<1>12. OthersEmpty'
  <2>. SUFFICES ASSUME NEW c \in Client, NEW n \in 1 .. MaxConns, NEW kind \in Kind,
                       queue'[<<c, n, kind>>] # <<>>
                PROVE  Calling(c)' /\ n = client'[c].n /\ kind # "page"
    BY DEF OthersEmpty
  <2>1. queue[<<c, n, kind>>] # <<>> /\ <<c, n, kind>> # p
    BY <1>6, ObjectLemma
  <2>2. Calling(c) /\ n = client[c].n /\ kind # "page"
    BY <2>1 DEF IInv, OneInFlight, OthersEmpty
  <2>3. c # d
    <3>1. c = d => <<c, n, kind>> \in {p, q}
      BY <2>2 DEF Kind, p, q
    <3>. QED BY <1>3, <2>1, <3>1
  <2>. QED BY <1>6, <1>11, <2>2, <2>3
<1>13. ServesOne'
  <2>. SUFFICES ASSUME server.pc = "serve"
                PROVE  \E c \in Client : /\ Calling(c)'
                                         /\ server.conn = Struct(c, client'[c].n, client'[c].id)
                                         /\ server.request = <<c, client'[c].n, client'[c].calls>>
    BY <1>1 DEF ServesOne
  <2>1. PICK c \in Client : /\ Calling(c)
                            /\ server.conn = Struct(c, client[c].n, client[c].id)
                            /\ server.request = <<c, client[c].n, client[c].calls>>
    BY DEF IInv, OneInFlight, ServesOne
  <2>2. c # d
    BY <1>3, <2>1 DEF Serves, Struct
  <2>. QED BY <1>6, <1>11, <2>1, <2>2
<1>14. InOnePlace'
  <2>1. ASSUME NEW c \in Client, c # d, Calling(c)
        PROVE  /\ queue'[<<c, client'[c].n, "to">>] = queue[<<c, client[c].n, "to">>]
               /\ queue'[<<c, client'[c].n, "from">>] = queue[<<c, client[c].n, "from">>]
               /\ client'[c] = client[c] /\ (Serves(c)' <=> Serves(c))
    <3>1. client[c].n \in 1 .. MaxConns
      BY <2>1 DEF IInv, Counts, Calling
    <3>2. /\ <<c, client[c].n, "to">> \in Object /\ <<c, client[c].n, "from">> \in Object
          /\ <<c, client[c].n, "to">> # p /\ <<c, client[c].n, "from">> # p
      BY <2>1, <3>1, ObjectLemma DEF Kind, p
    <3>. QED BY <1>1, <1>6, <2>1, <3>2 DEF Serves
  <2>2. ASSUME NEW c \in Client, Calling(c)'
        PROVE  LET s == <<c, client'[c].n, client'[c].calls>>
                   to == queue'[<<c, client'[c].n, "to">>]
                   from == queue'[<<c, client'[c].n, "from">>]
               IN  \/ to = <<s>> /\ from = <<>> /\ ~Serves(c)'
                   \/ to = <<>> /\ from = <<>> /\ Serves(c)'
                   \/ to = <<>> /\ from = <<s>> /\ ~Serves(c)'
    <3>1. c # d /\ Calling(c)
      BY <1>11, <2>2
    <3>. QED BY <2>1, <3>1 DEF IInv, OneInFlight, InOnePlace
  <2>. QED BY <2>2 DEF InOnePlace
<1>15. LastAnswer'
  <2>1. r = <<d, client'[d].n, client'[d].calls>>
    BY <1>6 DEF r
  <2>. QED BY <1>6, <2>1 DEF IInv, OneInFlight, LastAnswer
<1>. QED BY <1>7, <1>8, <1>9, <1>10, <1>12, <1>13, <1>14, <1>15 DEF IInv, OneInFlight

(* A client that is through with a connection, and the server's hearing it. *)
LEMMA Disconnected ==
  ASSUME IInv, NEW d \in Client, c4rt_connman_disconnect(d) \/ TakeDisconnect(d)
  PROVE  IInv'
<1>0. \/ client' = [client EXCEPT ![d].pc = "disconnecting"]
      \/ client' = [client EXCEPT ![d].pc = "idle", ![d].id = NoId]
  BY DEF c4rt_connman_disconnect, TakeDisconnect, Goto
<1>1. /\ client[d].pc \in {"connected", "disconnecting"}
      /\ server' = server /\ tree' = tree /\ queue' = queue
  BY DEF c4rt_connman_disconnect, TakeDisconnect, Port
<1>2. client \in ClientType /\ server \in ServerType
  BY DEF IInv, TypeOK
<1>3. /\ \A c \in Client : c # d => client'[c] = client[c]
      /\ \A c \in Client : client'[c].n = client[c].n
      /\ \/ client'[d].pc = "disconnecting" /\ client'[d].id = client[d].id
         \/ client'[d].pc = "idle"
  BY <1>0, <1>2 DEF ClientType
<1>4. TypeOK'
  <2>1. client' \in ClientType
    BY <1>0, <1>2 DEF ClientType, ClientPC, InCall
  <2>. QED BY <1>1, <2>1 DEF IInv, TypeOK
<1>5. Counts'
  <2>1. client[d].n \in 1 .. MaxConns
    BY <1>1 DEF IInv, Counts
  <2>. QED BY <1>3, <2>1 DEF IInv, Counts, Meeting, Grants
<1>6. HandsShaken'
  <2>1. client[d].pc \notin Meeting /\ client'[d].pc \notin Meeting
    BY <1>1, <1>3 DEF Meeting, Grants
  <2>2. server.pc \notin {"listen", "serve", "stale"} => server.peer # d
    <3>1. server.pc \notin {"listen", "serve", "stale"} =>
            Meets(server.pc) \notin {"connected", "disconnecting"}
      BY <1>2 DEF Meets, ServerType, ServerPC, Grants
    <3>. QED BY <1>1, <3>1 DEF IInv, HandsShaken
  <2>. QED BY <1>1, <1>3, <2>1, <2>2 DEF IInv, HandsShaken
<1>7. TreeRight'
  <2>1. \A c \in Client :
           /\ client'[c].n = client[c].n
           /\ client'[c].pc \in {"granting", "connecting", "awaiting_id", "grant_to"} =>
                client[c].pc \in {"granting", "connecting", "awaiting_id", "grant_to"}
           /\ client'[c].pc \in InCall => client[c].pc \in InCall /\ client'[c].id = client[c].id
    BY <1>1, <1>3 DEF InCall
  <2>. QED BY <1>1, <2>1, TreeFrame DEF IInv
<1>8. OneInFlight'
  <2>1. \A c \in Client :
          /\ Calling(c)' <=> Calling(c)
          /\ Calling(c) => client'[c] = client[c]
          /\ client'[c].pc = "connected" => client'[c] = client[c]
    BY <1>1, <1>3 DEF Calling
  <2>. QED BY <1>1, <2>1, CallFrame DEF IInv
<1>. QED BY <1>4, <1>5, <1>6, <1>7, <1>8 DEF IInv

(* Every step of connman.c, on either side, keeps the invariant. *)
LEMMA NextInv == IInv /\ [Next]_vars => IInv'
<1>. SUFFICES ASSUME IInv, [Next]_vars PROVE IInv'
  OBVIOUS
<1>1. ASSUME NEW c \in Client, TakeNewMessage(c)
      PROVE  IInv'
  <2>1. /\ client[c].pc = "notifying" /\ server.pc = "listen" /\ NewMessage(client[c].id)
        /\ client' = [client EXCEPT ![c].pc = "awaiting"] /\ UNCHANGED tree
    BY <1>1 DEF TakeNewMessage, Port, Goto
  <2>2. client \in ClientType
    BY DEF IInv, TypeOK
  <2>3. client' \in ClientType
    BY <2>1, <2>2 DEF ClientType, ClientPC, InCall
  <2>4. \A e \in Client :
           /\ client'[e].n = client[e].n /\ client'[e].id = client[e].id
           /\ client'[e].calls = client[e].calls
           /\ client'[e] = client[e] \/ (Calling(e) /\ Calling(e)')
    BY <2>1, <2>2 DEF Calling, ClientType
  <2>. QED BY <2>1, <2>3, <2>4, MessageTaken
<1>2. ASSUME NEW id \in Id, StrayNewMessage(id)
      PROVE  IInv'
  <2>1. server.pc = "listen" /\ NewMessage(id) /\ client' = client /\ UNCHANGED tree
    BY <1>2 DEF StrayNewMessage
  <2>2. client' \in ClientType
    BY <2>1 DEF IInv, TypeOK
  <2>. QED BY <2>1, <2>2, MessageTaken
<1>3. ASSUME NEW c \in Client, OnPort(c)
      PROVE  IInv'
  BY <1>1, <1>3, TempTaken, Disconnected DEF OnPort
<1>4. ASSUME NEW c \in Client, Handshake(c)
      PROVE  IInv'
  BY <1>4, ConnectTaken, IdSent, GrantsTaken DEF Handshake
<1>5. ASSUME NEW c \in Client,
             \/ c4rt_connman_connect(c) \/ c4rt_connman_send(c) \/ c4rt_connman_recv(c)
             \/ c4rt_connman_disconnect(c) \/ BreakOff(c)
      PROVE  IInv'
  <2>1. CASE BreakOff(c)
    <3>1. \/ tree' = tree \ {server.conn} /\ server' = Listening
          \/ server' = [Listening EXCEPT !.pc = "stale"] /\ tree' = tree
      BY <2>1 DEF BreakOff
    <3>. QED BY <2>1, <3>1, BrokenOff, BrokenOffStale
  <2>. QED BY <1>5, <2>1, ConnectStarts, RequestSent, AnswerTaken, Disconnected
<1>6. CASE UNCHANGED vars
  <2>1. client' = client /\ server' = server /\ tree' = tree /\ queue' = queue
    BY <1>6 DEF vars
  <2>2. TypeOK' /\ Counts' /\ HandsShaken'
    BY <2>1 DEF IInv, TypeOK, Counts, HandsShaken
  <2>3. TreeRight'
    BY <2>1, TreeFrame DEF IInv
  <2>4. \A c \in Client : Calling(c)' <=> Calling(c)
    BY <2>1 DEF Calling
  <2>5. OneInFlight'
    BY <2>1, <2>4, CallFrame DEF IInv
  <2>. QED BY <2>2, <2>3, <2>5 DEF IInv
<1>. QED BY <1>2, <1>3, <1>4, <1>5, <1>6, Responded DEF Next

(* The invariant holds in every state of the connection manager. *)
LEMMA Invariant == Spec => []IInv
BY InitInv, NextInv, PTL DEF Spec

(* The struct found under a connected client's id holds its own queues and  *)
(* page, each at its place, and no half-made struct is left when the server *)
(* is back at its port: for every number of clients, strays, connections.   *)
THEOREM Connections_Paired == Spec => []Paired
<1>1. IInv => Paired
  <2>. SUFFICES ASSUME IInv PROVE Paired
    OBVIOUS
  <2>1. ASSUME NEW c \in Client, client[c].pc \in InCall
        PROVE  {conn \in tree : conn.client_id = client[c].id} =
                 {[client_id |-> client[c].id, async_from |-> Mine(c, "to"),
                   async_to |-> Mine(c, "from"), ringbuf |-> Mine(c, "page")]}
    <3>. DEFINE x == Struct(c, client[c].n, client[c].id)
    <3>1. x \in tree
      BY <2>1 DEF IInv, TreeRight, Connected
    <3>2. /\ x.client_id = client[c].id
          /\ x = [client_id |-> client[c].id, async_from |-> Mine(c, "to"),
                  async_to |-> Mine(c, "from"), ringbuf |-> Mine(c, "page")]
      BY DEF Struct, Mine
    <3>. HIDE DEF x
    <3>3. \A y \in tree : y.client_id = client[c].id => y = x
      BY <3>1, <3>2 DEF IInv, TreeRight, IdsUnique
    <3>4. {conn \in tree : conn.client_id = client[c].id} = {x}
      BY <3>1, <3>2, <3>3
    <3>. QED BY <3>2, <3>4
  <2>2. server.pc \in {"listen", "serve"} => \A x \in tree : ~Partial(x)
    BY DEF IInv, TreeRight, OnePartial
  <2>. QED BY <2>1, <2>2 DEF Paired, Partial
<1>. QED BY <1>1, Invariant, PTL

(* A call returns the answer to its own request and leaves nothing behind   *)
(* in the queues, however requests are announced and whoever else calls.    *)
THEOREM Answers_Match == Spec => []AnswersMatch
<1>1. IInv => AnswersMatch
  <2>. SUFFICES ASSUME IInv, NEW c \in Client
                PROVE  /\ client[c].pc = "connected" /\ client[c].calls > 0
                            => client[c].answer = <<c, client[c].n, client[c].calls>>
                       /\ client[c].pc = "connected"
                            => queue[Mine(c, "to")] = <<>> /\ queue[Mine(c, "from")] = <<>>
                       /\ client[c].pc \in {"notifying", "awaiting"} =>
                            Len(queue[Mine(c, "to")]) + Len(queue[Mine(c, "from")])
                              + (IF server.pc = "serve" /\ server.conn.async_to = Mine(c, "from")
                                 THEN 1 ELSE 0) = 1
    BY DEF AnswersMatch
  <2>1. client[c].pc = "connected" /\ client[c].calls > 0
          => client[c].answer = <<c, client[c].n, client[c].calls>>
    BY DEF IInv, OneInFlight, LastAnswer
  <2>2. ASSUME client[c].pc = "connected"
        PROVE  queue[Mine(c, "to")] = <<>> /\ queue[Mine(c, "from")] = <<>>
    <3>1. client[c].n \in 1 .. MaxConns /\ ~Calling(c)
      BY <2>2 DEF IInv, Counts, Calling
    <3>. QED BY <3>1 DEF IInv, OneInFlight, OthersEmpty, Mine, Kind
  <2>3. ASSUME client[c].pc \in {"notifying", "awaiting"}
        PROVE  Len(queue[Mine(c, "to")]) + Len(queue[Mine(c, "from")])
                 + (IF server.pc = "serve" /\ server.conn.async_to = Mine(c, "from")
                    THEN 1 ELSE 0) = 1
    <3>. DEFINE r == <<c, client[c].n, client[c].calls>>
                to == queue[Mine(c, "to")]
                from == queue[Mine(c, "from")]
                busy == server.pc = "serve" /\ server.conn.async_to = Mine(c, "from")
    <3>1. \/ to = <<r>> /\ from = <<>> /\ ~busy
          \/ to = <<>> /\ from = <<>> /\ busy
          \/ to = <<>> /\ from = <<r>> /\ ~busy
      BY <2>3 DEF IInv, OneInFlight, InOnePlace, Calling, Serves, Mine
    <3>. HIDE DEF r, to, from, busy
    <3>. DEFINE here == IF busy THEN 1 ELSE 0
    <3>2. \/ Len(to) = 1 /\ Len(from) = 0 /\ here = 0
          \/ Len(to) = 0 /\ Len(from) = 0 /\ here = 1
          \/ Len(to) = 0 /\ Len(from) = 1 /\ here = 0
      BY <3>1, SingleLemma, Zenon
    <3>. HIDE DEF here
    <3>3. Len(to) + Len(from) + here = 1
      <4>. HIDE DEF to, from
      <4>1. CASE Len(to) = 1 /\ Len(from) = 0 /\ here = 0
        <5>1. Len(to) + Len(from) + here = 1 + 0 + 0
          BY <4>1, Zenon
        <5>. QED BY <5>1
      <4>2. CASE Len(to) = 0 /\ Len(from) = 0 /\ here = 1
        <5>1. Len(to) + Len(from) + here = 0 + 0 + 1
          BY <4>2, Zenon
        <5>. QED BY <5>1
      <4>3. CASE Len(to) = 0 /\ Len(from) = 1 /\ here = 0
        <5>1. Len(to) + Len(from) + here = 0 + 1 + 0
          BY <4>3, Zenon
        <5>. QED BY <5>1
      <4>. QED BY <3>2, <4>1, <4>2, <4>3, Zenon
    <3>. QED BY <3>3 DEF to, from, busy, here
  <2>. QED BY <2>1, <2>2, <2>3
<1>. QED BY <1>1, Invariant, PTL
=============================================================================
