-------------------------- MODULE MCWindowManager --------------------------
(* Two consoles on a screen of four cells, windows of two with a border of   *)
(* one, a cursor of one.  A click beside the windows only moves the mouse.   *)
EXTENDS WindowManager

CONSTANTS one, two
MCClient == {one, two}
MCSymmetry == Permutations(MCClient)

MCMouseEvents == {[flags |-> {"left"}, x |-> 1], [flags |-> {"right"}, x |-> 2]}
=============================================================================
