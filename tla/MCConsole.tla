------------------------------ MODULE MCConsole ------------------------------
(* A small screen for TLC: two columns, three rows, prompts and lines.     *)
EXTENDS Console

MCTexts == {<<"a">>, <<Blank, Newline>>}
=============================================================================
