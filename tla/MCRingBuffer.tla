---------------------------- MODULE MCRingBuffer ----------------------------
(* A three-cell ring with two byte values, requests up to one more than the  *)
(* ring holds, and a word modulus that, like 2^32 and 4084, is no multiple  *)
(* of the ring's size.                                                      *)
EXTENDS RingBuffer

MCByte == {0, 1}
=============================================================================
