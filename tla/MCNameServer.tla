---------------------------- MODULE MCNameServer ----------------------------
(* A system's name server and a console's below it.  The console hides name *)
(* 1, bound above too, rebinds it, and binds a name whose hash is the one   *)
(* that marks the table's end; nobody binds name 2.                         *)
EXTENDS NameServer
CONSTANTS root, inner, none
MCServer == {root, inner}
MCUp == [s \in MCServer |-> IF s = inner THEN root ELSE none]
MCBinds == {<<root, 1, 11>>, <<inner, 1, 12>>, <<inner, 1, 13>>, <<inner, 0, 14>>}
MCLookups == {<<inner, 1>>, <<root, 2>>}
=============================================================================
