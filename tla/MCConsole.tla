----------------------------- MODULE MCConsole -----------------------------
(* A display of three columns and four lines, so that a prompt and three    *)
(* characters are too long and the third newline scrolls, and a line        *)
(* buffer that four characters fill.  The interpreter answers one line      *)
(* with text, a cleared screen or a cursor set inside or outside.           *)
EXTENDS Console

MCIntro == << <<"put", "v">>, <<"put", "nl">> >>
MCOutputs == {<< >>, << <<"put", "o">>, <<"put", "nl">> >>,
              << <<"clear">> >>, << <<"set", 0, 0>> >>, << <<"set", 3, 0>> >>}
=============================================================================
