--------------------------- MODULE MCCommandInput ---------------------------
(****************************************************************************)
(* Finite instance of CommandInput: a ring of four slots (three bytes) and a *)
(* command buffer of one character and its terminator.                      *)
(****************************************************************************)
EXTENDS CommandInput

CONSTANTS a, b, eol, del, nul

MCPrintable == {a, b}
MCBytes == {a, b, eol, del, nul}
==============================================================================
