------------------------------- MODULE MCInput -------------------------------
(* The queues of two keyboard clients, a window manager and a forth, and of  *)
(* one mouse client.  Scancode 3 is a letter, 4 the left shift, and 5 lies   *)
(* behind the tables.                                                        *)
EXTENDS Input

CONSTANTS wm, forth, pointer

MCConnects == [d \in Driver |-> IF d = "keyboard" THEN {wm, forth} ELSE {pointer}]
MCLower == [code \in Code |-> IF code = 3 THEN "a" ELSE IF code = 4 THEN "shift" ELSE "behind"]
MCUpper == [code \in Code |-> IF code = 3 THEN "A" ELSE "shift"]

(* A letter, the shift pressed and released, a key that is not in the        *)
(* tables; a move left and an overflow.                                      *)
MCScancodes == {3, 4, 5, 132}
MCPackets == {<<24, 254, 2>>, <<72, 0, 0>>}

MCSymmetry == Permutations({wm, forth})
=============================================================================
