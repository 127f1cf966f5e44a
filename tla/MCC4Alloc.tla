----------------------------- MODULE MCC4Alloc -----------------------------
(* Chunks of four units and blocks down to one, with a header of one unit:  *)
(* splits over two levels, merges over two levels and a second chunk.       *)
EXTENDS C4Alloc
=============================================================================
