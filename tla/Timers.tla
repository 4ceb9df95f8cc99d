-------------------------------- MODULE Timers --------------------------------
(***************************************************************************)
(* What the sleep timer promises its callers: a callback comes no earlier  *)
(* than it was asked for, a one-shot timer calls once, and a periodic one  *)
(* once per period, counted from its start and not from the last callback. *)
(***************************************************************************)
EXTENDS Integers

CONSTANTS
  Timer,     \* the timers there are
  Timeouts,  \* timeouts asked for, in ticks
  Early      \* ticks a periodic callback may come too early

VARIABLES
  running,   \* timers that are going to call back
  period,    \* of a running timer, 0 if it is a one-shot timer
  due        \* ticks until the callback is due, negative once it is late

vars == <<running, period, due>>

Init ==
  /\ running = {}
  /\ period = [t \in Timer |-> 0]
  /\ due = [t \in Timer |-> 0]

Start(t, timeout, every) ==
  /\ t \notin running
  /\ running' = running \cup {t}
  /\ period' = [period EXCEPT ![t] = every]
  /\ due' = [due EXCEPT ![t] = timeout]

Leave(t) ==
  /\ running' = running \ {t}
  /\ period' = [period EXCEPT ![t] = 0]
  /\ due' = [due EXCEPT ![t] = 0]

Stop(t) ==
  /\ t \in running
  /\ Leave(t)

\* One tick of the counter.
Pass ==
  /\ due' = [t \in Timer |-> IF t \in running THEN due[t] - 1 ELSE 0]
  /\ UNCHANGED <<running, period>>

CallOnce(t) ==
  /\ t \in running /\ period[t] = 0
  /\ due[t] <= 0
  /\ Leave(t)

CallAgain(t) ==
  /\ t \in running /\ period[t] # 0
  /\ due[t] <= Early
  /\ due' = [due EXCEPT ![t] = @ + period[t]]
  /\ UNCHANGED <<running, period>>

Next ==
  \/ Pass
  \/ \E t \in Timer : Stop(t) \/ CallOnce(t) \/ CallAgain(t)
  \/ \E t \in Timer, n \in Timeouts, again \in BOOLEAN :
       Start(t, n, IF again THEN n ELSE 0)

Spec == Init /\ [][Next]_vars

=============================================================================
