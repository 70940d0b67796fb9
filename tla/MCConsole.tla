------------------------------ MODULE MCConsole ------------------------------
(* Console for TLC: a screen of two rows of two cells, with one spare cell  *)
(* in its page, so that the row below the screen reaches the saved screen   *)
(* of terminal 0 as it does in the code (80 cells, 48 of them spare).       *)
EXTENDS Console

MCTexts == {<<"nl", "out">>, <<"out", "out", "nl">>, <<"nul", "out">>}
MCWelcome == <<"out", "nl">>
=============================================================================
