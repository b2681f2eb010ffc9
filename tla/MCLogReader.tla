---------------------------- MODULE MCLogReader -----------------------------
(***************************************************************************)
(* Instance of LogReader for TLC: a log of letters, newlines and zero      *)
(* bytes, written in pieces shorter and longer than one read.              *)
(***************************************************************************)
EXTENDS LogReader

\* The default separator and one of two bytes.
Newlines == {<<"n">>, <<"n", "n">>}
Newline  == {<<"n">>}

\* A letter, the end of a line, a line and a half, a zero byte inside a piece.
\* Lines of other lengths are made of several writes before one read.
MixedWrites ==
  {<<"a">>, <<"n">>, <<"a", "n", "a">>, <<"a", "Z", "n">>}
=============================================================================
