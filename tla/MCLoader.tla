------------------------------ MODULE MCLoader ------------------------------
(* A region of three pages, two memory objects, so that ranges are split    *)
(* and merged on either side, and two spawns.  Two programs: one of a text  *)
(* and a data segment, which begins inside a page and has .bss on a second  *)
(* page; one of a single segment, in a shorter file, so that the rest of    *)
(* the first stays in progbuf.  A text and an empty file are not programs.  *)
EXTENDS Loader

TwoSegments == <<90, 24, 4, 2,  12, 24, 3, 3,  15, 50, 2, 27,  61, 62, 63, 64, 65>>
OneSegment  == <<90, 25, 4, 1,  8, 24, 2, 4,  71, 72>>
MCFiles == {TwoSegments, OneSegment, <<1, 2>>, << >>}

(* A program's name, a second argument, and an environment of one variable. *)
MCCalls == {<< << <<11>>, <<12, 13>> >>, << <<21, 20, 22>> >> >>, << << <<11>> >>, << >> >>}
MCSpace == {0} \cup Child
MCPages == 0 .. 11
=============================================================================
