---------------------------- MODULE PowerManager ----------------------------
(***************************************************************************)
(* The power manager of the platform (sl_power_manager.c) as both boards   *)
(* use it: the main loop sleeps in EM2, whose clocks have to be restored   *)
(* on waking, or in EM1 while some driver requires it. The application     *)
(* requires EM2 for good (app_init()), so EM3 is never entered, and on     *)
(* this device restoring waits for the oscillator on the spot              *)
(* (sl_power_manager_hal_s0_s1.c), so that nobody ever sleeps meanwhile.   *)
(*                                                                         *)
(* Sleep timers with option_flags = 0 need the fast clock at their         *)
(* callback: the power manager starts a timer of its own that wakes the    *)
(* board early enough before the first of them. A critical section is one  *)
(* step; interrupt handlers run between them.                              *)
(***************************************************************************)
EXTENDS Integers

CONSTANTS
  Timeouts,         \* ticks to the first timer that needs the clock
  MinimumOfftime,   \* high_frequency_min_offtime_tick
  WakeupDelay,      \* overhead of a wake-up, configured and of the hardware
  Latency,          \* bound: ticks that handlers take when the board wakes
  MaxRequirements   \* bound: requirements of the drivers, 255 in the code

ASSUME PowerAssumption == /\ Timeouts \subseteq Nat
                          /\ MinimumOfftime \in Nat /\ WakeupDelay \in Nat
                          /\ MaxRequirements \in Nat
                          /\ Latency \in Nat /\ Latency < WakeupDelay

VARIABLES
  requirements,    \* requirement_em_table[] of EM1
  requirement_on_em1_added,  \* one of them is the power manager's own
  current_em,
  is_states_saved, \* the clocks are saved and not restored
  cpu,             \* "runs", "sleeps", or "woken" to let interrupt handlers run
  first_timer,     \* ticks to the first timer that needs the clock
  early_wakeup,    \* ticks to the power manager's own timer
  woken_for,       \* ticks the handlers have taken
  required,        \* requirements the drivers hold
  told             \* the energy mode the listeners were told last

power == <<requirements, requirement_on_em1_added, current_em, is_states_saved, told>>
vars  == <<power, cpu, first_timer, early_wakeup, woken_for, required>>

None == -1  \* of a timer that does not run

TypeOK ==
  /\ requirements \in Nat /\ required \in 0..MaxRequirements
  /\ requirement_on_em1_added \in BOOLEAN /\ is_states_saved \in BOOLEAN
  /\ current_em \in 0..2 /\ told \in 0..2
  /\ cpu \in {"runs", "sleeps", "woken"}
  /\ first_timer \in Nat \cup {None} /\ early_wakeup \in Nat \cup {None}
  /\ woken_for \in 0..Latency

\* After app_init(); in EM0 nothing is saved.
Init ==
  /\ requirements = 0 /\ required = 0 /\ requirement_on_em1_added = FALSE
  /\ current_em = 0 /\ told = 0 /\ is_states_saved = FALSE
  /\ cpu = "runs"
  /\ first_timer = None /\ early_wakeup = None /\ woken_for = 0

-----------------------------------------------------------------------------
(* The clocks.                                                             *)

\* power_manager_notify_em_transition(), and the mode is the current one.
Enter(em) == current_em' = em /\ told' = em

\* Mutant: the drivers are told before the clocks are back.
clock_restoreLater ==
  /\ IF is_states_saved THEN Enter(1) ELSE UNCHANGED <<current_em, told>>
  /\ UNCHANGED is_states_saved

\* clock_restore(): the oscillator is always ready.
clock_restore ==
  IF is_states_saved THEN is_states_saved' = FALSE /\ Enter(1)
  ELSE UNCHANGED <<is_states_saved, current_em, told>>

-----------------------------------------------------------------------------
(* Sleeping.                                                               *)

get_lowest_em(count) == IF count > 0 THEN 1 ELSE 2

\* Mutant: only the time the oscillator is worth switching off counts.
TooCloseForOfftime == first_timer # None /\ first_timer <= MinimumOfftime

\* Deep sleep is not worth its while, or would last too long, before the first timer.
TooClose ==
  first_timer # None /\ (first_timer <= MinimumOfftime \/ first_timer <= WakeupDelay)

\* Mutant: the requirement of the last time is not taken back.
OthersRequireForever == requirements

\* Mutant: it is taken back whether it was added or not.
OthersRequireAlways == requirements - 1

\* One turn of the loop in sl_power_manager_sleep() takes back the power manager's
\* requirement before it evaluates the modes.
OthersRequire == requirements - (IF requirement_on_em1_added THEN 1 ELSE 0)

\* evaluate_wakeup(): the power manager requires EM1 itself, and restores the
\* clocks if it comes from deep sleep (update_em1_requirement());
SleepBriefly ==
  /\ get_lowest_em(OthersRequire) = 2 /\ TooClose
  /\ requirements' = OthersRequire + 1 /\ requirement_on_em1_added' = TRUE
  /\ is_states_saved' = (is_states_saved /\ current_em < 2)
  /\ Enter(1)
  /\ early_wakeup' = None

\* or it sets its timer;
SleepDeeply ==
  /\ get_lowest_em(OthersRequire) = 2 /\ ~TooClose
  /\ requirements' = OthersRequire /\ requirement_on_em1_added' = FALSE
  /\ is_states_saved' = TRUE
  /\ Enter(2)
  /\ early_wakeup' = IF first_timer = None THEN None ELSE first_timer - WakeupDelay

\* or a driver requires EM1, and there is nothing to do.
SleepLightly ==
  /\ get_lowest_em(OthersRequire) = 1
  /\ requirements' = OthersRequire /\ requirement_on_em1_added' = FALSE
  /\ UNCHANGED is_states_saved
  /\ Enter(1)
  /\ early_wakeup' = None

\* sl_power_manager_sleep() from the main loop if everybody agrees to sleep, or
\* again from its end if the handlers do (sl_power_manager_sleep_on_isr_exit()).
\* The power manager's timer has been stopped at the end of the last turn.
FallAsleep ==
  /\ cpu \in {"runs", "woken"} /\ cpu' = "sleeps"
  /\ SleepBriefly \/ SleepDeeply \/ SleepLightly
  /\ UNCHANGED <<first_timer, woken_for, required>>

\* An interrupt: its handler runs once the critical section is left.
WakeUp ==
  /\ cpu = "sleeps" /\ cpu' = "woken" /\ woken_for' = 0
  /\ UNCHANGED <<power, first_timer, early_wakeup, required>>

\* The handlers have run: the timer is stopped, and the main loop goes on.
Return ==
  /\ cpu = "woken" /\ cpu' = "runs"
  /\ early_wakeup' = None
  /\ is_states_saved' = FALSE
  /\ requirements' = OthersRequire /\ requirement_on_em1_added' = FALSE
  /\ Enter(0)
  /\ UNCHANGED <<first_timer, woken_for, required>>

-----------------------------------------------------------------------------
(* Drivers and timers, from interrupt handlers and from the main loop.     *)

Awake == cpu # "sleeps"

\* Mutant: a handler that needs the clock finds it unrestored.
AddRequirementOnly ==
  /\ Awake /\ required < MaxRequirements
  /\ required' = required + 1 /\ requirements' = requirements + 1
  /\ UNCHANGED <<requirement_on_em1_added, is_states_saved, current_em, told, cpu,
                 first_timer, early_wakeup, woken_for>>

\* sli_power_manager_update_em_requirement(): in a handler that interrupts deep
\* sleep the clocks are restored at once (clock_restore_and_wait()).
AddRequirement ==
  /\ Awake /\ required < MaxRequirements
  /\ required' = required + 1 /\ requirements' = requirements + 1
  /\ IF current_em = 2 THEN is_states_saved' = FALSE /\ Enter(1)
     ELSE UNCHANGED <<is_states_saved, current_em, told>>
  /\ UNCHANGED <<requirement_on_em1_added, cpu, first_timer, early_wakeup, woken_for>>

RemoveRequirement ==
  /\ Awake /\ required > 0
  /\ required' = required - 1 /\ requirements' = requirements - 1
  /\ UNCHANGED <<requirement_on_em1_added, is_states_saved, current_em, told, cpu,
                 first_timer, early_wakeup, woken_for>>

\* A timer that needs the clock is started: one that interrupts deep sleep is put off
\* until the clocks are back, if need be (delta_list_insert_timer()).
StartTimer(timeout) ==
  LET tooSoon == current_em = 2 /\ timeout < WakeupDelay
      ticks   == IF tooSoon THEN WakeupDelay ELSE timeout
  IN  /\ Awake
      /\ IF tooSoon THEN clock_restore ELSE UNCHANGED <<is_states_saved, current_em, told>>
      /\ first_timer' = IF first_timer = None \/ ticks < first_timer THEN ticks ELSE first_timer
      /\ UNCHANGED <<requirements, requirement_on_em1_added, cpu, early_wakeup, woken_for, required>>

\* The first timer is stopped, or calls back; another one may follow.
FirstTimerEnds ==
  /\ Awake /\ first_timer # None
  /\ first_timer' \in {None} \cup {n \in Timeouts : n >= first_timer}
  /\ UNCHANGED <<power, cpu, early_wakeup, woken_for, required>>

\* The power manager's timer calls back.
on_clock_wakeup_timeout ==
  /\ Awake /\ early_wakeup = 0
  /\ early_wakeup' = None
  /\ clock_restore
  /\ UNCHANGED <<requirements, requirement_on_em1_added, cpu, first_timer, woken_for, required>>

\* One tick of the sleep timer. A timer that expires wakes the processor.
Passed(ticks) == IF ticks > 0 THEN ticks - 1 ELSE ticks
Tick ==
  /\ cpu = "sleeps" => first_timer # 0 /\ early_wakeup # 0
  /\ cpu = "woken" => woken_for < Latency
  /\ woken_for' = IF cpu = "woken" THEN woken_for + 1 ELSE woken_for
  /\ first_timer' = Passed(first_timer) /\ early_wakeup' = Passed(early_wakeup)
  /\ UNCHANGED <<power, cpu, required>>

Next ==
  \/ FallAsleep \/ WakeUp \/ Return
  \/ AddRequirement \/ RemoveRequirement
  \/ \E timeout \in Timeouts : StartTimer(timeout)
  \/ FirstTimerEnds \/ on_clock_wakeup_timeout
  \/ Tick

Spec == Init /\ [][Next]_vars

-----------------------------------------------------------------------------
(* Properties.                                                             *)

\* The power manager neither loses nor leaks a requirement of its own: over any
\* sequence of waking, sleeping on and returning, the drivers' are what remains
\* (sl_power_manager_sleep(), evaluate_wakeup()). One that leaked would keep the
\* board out of deep sleep for good.
RequirementsBalanced ==
  requirements = required + (IF requirement_on_em1_added THEN 1 ELSE 0)

\* The main loop, a driver that holds a requirement and the callback of a timer that
\* needs the clock all have it, whenever the timer was started and the board woke.
ClocksWhereNeeded ==
  cpu = "runs" \/ required > 0 \/ (Awake /\ first_timer = 0) => ~is_states_saved

\* Asleep with the clocks saved, the power manager's timer wakes the board in time
\* for the first timer that needs them (evaluate_wakeup(): "not enough time remains").
RestoreStartsInTime ==
  cpu = "sleeps" /\ is_states_saved /\ first_timer # None =>
    early_wakeup # None /\ early_wakeup + WakeupDelay <= first_timer

\* What the listeners were told last is the mode, and in EM0 and EM1 they may count
\* on the clocks ("We do the notification only when the restore is completed").
ListenersKnowMode == told = current_em /\ (told < 2 => ~is_states_saved)

=============================================================================
