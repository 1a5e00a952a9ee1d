----------------------------- MODULE MCTerminal -----------------------------
(***************************************************************************)
(* Terminal with two threads that print, and an output buffer that is full *)
(* after one character.                                                    *)
(***************************************************************************)
EXTENDS Terminal

CONSTANT other

MCPrinter == {boot, other}
MCNumerals == {<<"1", "0">>}
=============================================================================
