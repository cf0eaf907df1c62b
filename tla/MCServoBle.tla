------------------------------- MODULE MCServoBle -------------------------------
(****************************************************************************)
(* Finite instance of ServoBle: a range of 0..5 swept in strides of 2, as    *)
(* 0..255 is in strides of 32, numbers modulo 16, and a buffer of three      *)
(* characters and the terminator.                                           *)
(****************************************************************************)
EXTENDS ServoBle

MCPackets == {<<"servo", "1", "9", EndOfLine, ".", EndOfLine>>,
              <<"test on">>, <<"test off", Control, Erase, EndOfLine>>,
              <<"?", "?", "?", "?">>}
==============================================================================
