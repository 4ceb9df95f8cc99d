--------------------------------- MODULE Mirror ---------------------------------
(***************************************************************************)
(* What the pair of boards promises of the button values: the LED board is *)
(* told values the keypad board's attribute really had, each at the moment *)
(* it left, in the order they left; while the connection lasts none is     *)
(* lost, and none outlives it into the next one.                           *)
(***************************************************************************)
EXTENDS Naturals, Sequences

CONSTANT Values

VARIABLES
  attribute,  \* the Button_input attribute of the keypad board
  session,    \* the two boards are on one connection
  told        \* values that left the keypad board and were not yet acted on

vars == <<attribute, session, told>>

Init ==
  /\ attribute = 0
  /\ session = FALSE
  /\ told = <<>>

\* A connection begins with nothing left over from the one before.
Open ==
  /\ ~session
  /\ session' = TRUE
  /\ told = <<>>
  /\ UNCHANGED <<attribute, told>>

\* A new value of the keys; it may be told at once.
Write ==
  /\ attribute' \in Values
  /\ told' \in {told} \cup (IF session THEN {Append(told, attribute')} ELSE {})
  /\ UNCHANGED session

\* The LED board asks.
Answer ==
  /\ session
  /\ told' = Append(told, attribute)
  /\ UNCHANGED <<attribute, session>>

\* The LED board acts on the oldest value.
Act ==
  /\ told # <<>>
  /\ told' = Tail(told)
  /\ UNCHANGED <<attribute, session>>

\* The connection ends on either side, or one has ended and a board restarts:
\* the values that left last may be lost.
Lose ==
  /\ session' = FALSE
  /\ \E n \in 0..Len(told) : told' = SubSeq(told, 1, n)
  /\ attribute' \in {attribute, 0}

Next == Open \/ Write \/ Answer \/ Act \/ Lose

Spec == Init /\ [][Next]_vars

=============================================================================
