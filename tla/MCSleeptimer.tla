----------------------------- MODULE MCSleeptimer -----------------------------
(* Model values for the runs of Sleeptimer. *)
EXTENDS Sleeptimer

\* Two timers of two priorities; the one of the LCD comes second.
TwoPriorities == [t \in Timer |-> IF t = "lcd" THEN 1 ELSE 0]

=============================================================================
