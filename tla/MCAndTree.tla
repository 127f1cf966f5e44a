----------------------------- MODULE MCAndTree -----------------------------
(* AndTree with some equal keys, as vnodes of equal size have, and an int   *)
(* just wide enough for their differences.                                  *)
EXTENDS AndTree
MCData == 1 .. 9
MCKey == 0 .. 7
MCget_key == [d \in MCData |-> IF d <= 3 THEN 1 ELSE d - 2]
=============================================================================
