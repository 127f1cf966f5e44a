----------------------------- MODULE MCConnman -----------------------------
(* Connman with a client that connects twice and a stray; there are ids for *)
(* every connection, since none is ever given back, some sets of them in    *)
(* order and some, like 0, 3 and 6, not.                                    *)
EXTENDS Connman
CONSTANTS c1, c2
MCClient == {c1, c2}
MCStrays == {c2}
MCId == {0, 1, 3, 6}
=============================================================================
