------------------------------- MODULE MCTools -------------------------------
(* NUL, a blank, an equals sign, a letter and the highest byte: each means *)
(* something to one of the tools.                                          *)
EXTENDS Tools

MCChars == {0, 32, 61, 65, 255}
=============================================================================
