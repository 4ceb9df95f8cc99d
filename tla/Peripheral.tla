------------------------------- MODULE Peripheral -------------------------------
(***************************************************************************)
(* What a peripheral with one connection at a time promises, without its   *)
(* event queue: it can be found exactly while it has no connection in      *)
(* hand, and it takes note of every connection once, and of its end once,  *)
(* after it has really ended and before anybody can connect again.         *)
(***************************************************************************)

VARIABLES
  awake,      \* the application has started
  findable,   \* it advertises
  connected,  \* a central is connected
  known       \* the application has taken note of the connection

vars == <<awake, findable, connected, known>>

Init ==
  /\ awake = FALSE
  /\ findable = FALSE
  /\ connected = FALSE
  /\ known = FALSE

Wake ==
  /\ ~awake
  /\ awake' = TRUE
  /\ findable' = TRUE
  /\ UNCHANGED <<connected, known>>

Connect ==
  /\ findable /\ ~connected /\ ~known
  /\ findable' = FALSE
  /\ connected' = TRUE
  /\ UNCHANGED <<awake, known>>

\* Perhaps too late: the connection may have ended already.
TakeNote ==
  /\ awake /\ ~findable /\ ~known
  /\ known' = TRUE
  /\ UNCHANGED <<awake, findable, connected>>

End ==
  /\ connected
  /\ connected' = FALSE
  /\ UNCHANGED <<awake, findable, known>>

TakeNoteOfEnd ==
  /\ known /\ ~connected
  /\ known' = FALSE
  /\ findable' = TRUE
  /\ UNCHANGED <<awake, connected>>

Next == Wake \/ Connect \/ TakeNote \/ End \/ TakeNoteOfEnd

Spec == Init /\ [][Next]_vars

=============================================================================
