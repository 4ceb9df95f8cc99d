------------------------------- MODULE MCDisplay -------------------------------
(***************************************************************************)
(* A small instance of Display for TLC.                                    *)
(***************************************************************************)
EXTENDS Display

\* The empty text, texts of every length up to a row of three and one that has to
\* be cut, with characters that differ and a space.
SomeTexts ==
  {<<>>, <<"a">>, <<"a", "b">>, <<" ", "b">>, <<"b", "a", "b">>, <<"a", "b", "b", "a">>}

=============================================================================
