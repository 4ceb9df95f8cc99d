------------------------------ MODULE MCLedBoard ------------------------------
(***************************************************************************)
(* Small instances of LedBoard for TLC.                                    *)
(***************************************************************************)
EXTENDS LedBoard

CONSTANTS keypad, stranger, none

\* The keypad board alone, or next to another device: the first three bytes of an address
\* name the maker.
KeypadOnly == [d \in {keypad} |-> 6]
SameMaker  == [d \in {keypad, stranger} |-> IF d = keypad THEN 6 ELSE 3]

=============================================================================
