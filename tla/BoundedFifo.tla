---------------------------- MODULE BoundedFifo ----------------------------
(***************************************************************************)
(* What a byte queue between one writer and one reader promises: at most   *)
(* Capacity bytes are in flight, and the reader is handed exactly the      *)
(* bytes the writer handed over, in that order, none lost, repeated or     *)
(* made up.  RingBuffer is shown to implement it.                          *)
(***************************************************************************)
EXTENDS Naturals, Sequences

CONSTANTS Byte,      \* the values a queue cell can hold
          Capacity   \* how many cells can be in flight, a natural number

VARIABLES queue,     \* the bytes in flight, oldest first
          arg,       \* the byte the writer is handing over
          out        \* the last byte the reader was given

vars == <<queue, arg, out>>

Init == /\ queue = <<>>
        /\ arg \in Byte
        /\ out \in Byte

(* The writer picks the next byte it wants to hand over. *)
Offer == /\ arg' \in Byte
         /\ UNCHANGED <<queue, out>>

Put == /\ Len(queue) < Capacity
       /\ queue' = Append(queue, arg)
       /\ UNCHANGED <<arg, out>>

Get == /\ queue # <<>>
       /\ out' = Head(queue)
       /\ queue' = Tail(queue)
       /\ UNCHANGED arg

Next == Offer \/ Put \/ Get

Spec == Init /\ [][Next]_vars
=============================================================================
