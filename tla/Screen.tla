--------------------------------- MODULE Screen ---------------------------------
(***************************************************************************)
(* What the application expects of the LCD: rows of text. A row shows the  *)
(* last text printed on it, centred and cut to the row's length; it goes   *)
(* from one text to the next in one step, and no other row changes.        *)
(***************************************************************************)
EXTENDS Naturals, Sequences

CONSTANTS Rows, RowLen, Texts, Space

VARIABLE shown  \* for each row, its half characters from left to right

Halves == {"left", "right"}
Blank  == <<Space, "left">>

\* A space looks the same on both sides.
Half(char, side) == IF char = Space THEN Blank ELSE <<char, side>>

Blanks(n) == [i \in 1..n |-> Blank]

\* A centred text begins and ends half a character further in for each
\* character it is shorter than the row.
Picture(text) ==
  LET cut    == SubSeq(text, 1, IF Len(text) < RowLen THEN Len(text) ELSE RowLen)
      margin == Blanks(RowLen - Len(cut))
      chars  == [i \in 1..2 * Len(cut) |->
                  IF i % 2 = 1 THEN Half(cut[(i + 1) \div 2], "left")
                               ELSE Half(cut[i \div 2], "right")]
  IN  margin \o chars \o margin

Init == shown = [r \in Rows |-> Blanks(2 * RowLen)]

Write(r, text) == shown' = [shown EXCEPT ![r] = Picture(text)]

Next == \E r \in Rows, text \in Texts : Write(r, text)

Spec == Init /\ [][Next]_shown

=============================================================================
