-------------------------- MODULE PowerManagerProofs --------------------------
(***************************************************************************)
(* Proofs about PowerManager: for any timeouts and delays, the clocks are  *)
(* where they are needed and the requirements are balanced.                *)
(***************************************************************************)
EXTENDS PowerManager, TLAPS

LEMMA Times == /\ \A n \in Timeouts : n \in Nat
               /\ MinimumOfftime \in Nat /\ WakeupDelay \in Nat /\ WakeupDelay > 0
               /\ MaxRequirements \in Nat
               /\ Latency \in Nat /\ Latency < WakeupDelay
BY PowerAssumption DEF PowerAssumption

FlagInv == is_states_saved \in BOOLEAN /\ requirement_on_em1_added \in BOOLEAN

\* The clocks are saved in EM2 and only there; only the main loop is in EM0.
ModeInv ==
  /\ cpu \in {"runs", "sleeps", "woken"}
  /\ current_em \in 0..2 /\ told = current_em
  /\ is_states_saved = TRUE <=> current_em = 2
  /\ cpu = "runs" <=> current_em = 0

\* A driver's requirement keeps the board out of EM2, or takes it out.
CountInv ==
  /\ requirements \in Nat /\ required \in 0..MaxRequirements
  /\ requirement_on_em1_added = TRUE => requirements = required + 1
  /\ requirement_on_em1_added = FALSE => requirements = required
  /\ current_em = 2 => required = 0

\* The power manager's timer comes early enough; the ticks left and gone are enough.
Early(early, first) == early + WakeupDelay <= first
Enough(first, gone) == WakeupDelay <= first + gone

LEMMA EarlyByDelay ==
  \A n \in Nat : n > WakeupDelay => n - WakeupDelay \in Nat /\ Early(n - WakeupDelay, n)
BY Times DEF Early

LEMMA EarlyStays ==
  \A e, n \in Nat : e > 0 /\ Early(e, n) => n > 0 /\ Early(e - 1, n - 1)
BY Times DEF Early

LEMMA EarlyIsEnough == \A e, n \in Nat : Early(e, n) => Enough(n, 0)
BY Times DEF Early, Enough

LEMMA StartedIsEnough == \A n, g \in Nat : n >= WakeupDelay => Enough(n, g)
BY Times DEF Enough

LEMMA EnoughStays ==
  \A n, g \in Nat : Enough(n, g) /\ g < Latency => n > 0 /\ Enough(n - 1, g + 1)
BY Times DEF Enough

\* In EM2 the clocks have time to come back: asleep the power manager's timer is
\* ahead, and while handlers run no more than their ticks are gone.
TimerInv ==
  /\ first_timer \in Nat \cup {None} /\ early_wakeup \in Nat \cup {None}
  /\ woken_for \in 0..Latency
  /\ cpu = "sleeps" /\ current_em = 2 /\ first_timer # None =>
       early_wakeup # None /\ Early(early_wakeup, first_timer)
  /\ cpu = "woken" /\ current_em = 2 /\ first_timer # None =>
       Enough(first_timer, woken_for)

PowerInv == FlagInv /\ ModeInv /\ CountInv /\ TimerInv

LEMMA InitPower == Init => PowerInv
<1> SUFFICES ASSUME Init PROVE PowerInv
  OBVIOUS
<1>1. FlagInv
  BY DEF Init, FlagInv
<1>4. ModeInv
  BY DEF Init, ModeInv
<1>2. CountInv
  BY Times DEF Init, CountInv
<1>3. TimerInv
  BY Times DEF Init, TimerInv
<1> QED
  BY <1>1, <1>2, <1>3, <1>4 DEF PowerInv

\* What is taken back at the head of the loop is the power manager's own.
LEMMA OthersAreDrivers ==
  ASSUME FlagInv, CountInv
  PROVE  OthersRequire = required
<1>1. CASE requirement_on_em1_added = TRUE
  <2>1. requirements = required + 1 /\ OthersRequire = requirements - 1
    BY <1>1 DEF CountInv, OthersRequire
  <2> QED
    BY <2>1 DEF CountInv
<1>2. CASE requirement_on_em1_added = FALSE
  <2>1. requirements = required /\ OthersRequire = requirements - 0
    BY <1>2 DEF CountInv, OthersRequire
  <2> QED
    BY <2>1 DEF CountInv
<1> QED
  BY <1>1, <1>2 DEF FlagInv

LEMMA Balance ==
  ASSUME FlagInv, CountInv
  PROVE  RequirementsBalanced
<1>1. requirement_on_em1_added = FALSE => requirements = required + 0
  BY DEF CountInv
<1> QED
  BY <1>1, Zenon DEF FlagInv, CountInv, RequirementsBalanced

LEMMA FallAsleepPower ==
  ASSUME PowerInv, FallAsleep
  PROVE  PowerInv'
<1>1. /\ cpu' = "sleeps" /\ UNCHANGED <<first_timer, woken_for, required>>
      /\ OthersRequire = required
  BY OthersAreDrivers DEF FallAsleep, PowerInv
<1>2. CASE SleepBriefly
  <2>1. /\ current_em' = 1 /\ told' = 1 /\ early_wakeup' = None
        /\ requirements' = required + 1 /\ requirement_on_em1_added' = TRUE
    BY <1>1, <1>2 DEF SleepBriefly, Enter
  <2>2. is_states_saved' = FALSE
    <3>1. is_states_saved' = (is_states_saved /\ current_em < 2)
      BY <1>2 DEF SleepBriefly
    <3>2. is_states_saved = TRUE => ~(current_em < 2)
      BY DEF PowerInv, ModeInv
    <3>3. is_states_saved = TRUE \/ is_states_saved = FALSE
      BY DEF PowerInv, FlagInv
    <3> QED
      BY <3>1, <3>2, <3>3, Zenon
  <2>3. ModeInv'
    BY <1>1, <2>1, <2>2 DEF ModeInv
  <2>6. FlagInv'
    BY <2>1, <2>2 DEF FlagInv
  <2>4. CountInv'
    <3>1. required' = required /\ required \in 0..MaxRequirements
      BY <1>1 DEF PowerInv, CountInv
    <3>2. required + 1 \in Nat
      BY <3>1, Times
    <3> QED
      BY <2>1, <3>1, <3>2 DEF CountInv
  <2>5. TimerInv'
    BY <1>1, <2>1 DEF PowerInv, TimerInv
  <2> QED
    BY <2>3, <2>4, <2>5, <2>6 DEF PowerInv
<1>3. CASE SleepDeeply
  <2>1. /\ current_em' = 2 /\ told' = 2 /\ is_states_saved' = TRUE
        /\ requirements' = required /\ requirement_on_em1_added' = FALSE
        /\ early_wakeup' = IF first_timer = None THEN None ELSE first_timer - WakeupDelay
        /\ ~TooClose
    BY <1>1, <1>3 DEF SleepDeeply, Enter
  <2>2. required = 0
    BY <1>1, <1>3 DEF SleepDeeply, get_lowest_em, PowerInv, CountInv
  <2>3. ModeInv'
    BY <1>1, <2>1 DEF ModeInv
  <2>6. FlagInv'
    BY <2>1 DEF FlagInv
  <2>4. CountInv'
    BY <1>1, <2>1, <2>2, Times DEF CountInv
  <2>5. TimerInv'
    <3>1. CASE first_timer = None
      BY <1>1, <2>1, <3>1 DEF PowerInv, TimerInv
    <3>2. CASE first_timer # None
      <4>1. first_timer \in Nat /\ first_timer > WakeupDelay
        BY <2>1, <3>2, Times DEF PowerInv, TimerInv, TooClose
      <4>2. early_wakeup' \in Nat /\ Early(early_wakeup', first_timer')
        BY <1>1, <2>1, <3>2, <4>1, EarlyByDelay
      <4>3. \A n \in Nat : n # None
        BY DEF None
      <4> QED
        BY <1>1, <4>1, <4>2, <4>3 DEF PowerInv, TimerInv
    <3> QED
      BY <3>1, <3>2
  <2> QED
    BY <2>3, <2>4, <2>5, <2>6 DEF PowerInv
<1>4. CASE SleepLightly
  <2>1. /\ current_em' = 1 /\ told' = 1 /\ early_wakeup' = None
        /\ requirements' = required /\ requirement_on_em1_added' = FALSE
        /\ is_states_saved' = is_states_saved
    BY <1>1, <1>4 DEF SleepLightly, Enter
  <2>2. required # 0
    BY <1>1, <1>4 DEF SleepLightly, get_lowest_em
  <2>3. current_em # 2 /\ is_states_saved = FALSE
    BY <2>2 DEF PowerInv, CountInv, ModeInv
  <2>4. ModeInv'
    BY <1>1, <2>1, <2>3 DEF ModeInv
  <2>7. FlagInv'
    BY <2>1, <2>3 DEF FlagInv
  <2>5. CountInv'
    <3>1. required' = required /\ required \in 0..MaxRequirements /\ required \in Nat
      BY <1>1, Times DEF PowerInv, CountInv
    <3> QED
      BY <2>1, <3>1 DEF CountInv
  <2>6. TimerInv'
    BY <1>1, <2>1 DEF PowerInv, TimerInv
  <2> QED
    BY <2>4, <2>5, <2>6, <2>7 DEF PowerInv
<1> QED
  BY <1>2, <1>3, <1>4 DEF FallAsleep

LEMMA WakeUpPower ==
  ASSUME PowerInv, WakeUp
  PROVE  PowerInv'
<1>1. /\ cpu = "sleeps" /\ cpu' = "woken" /\ woken_for' = 0
      /\ UNCHANGED <<power, first_timer, early_wakeup, required>>
  BY DEF WakeUp
<1>2. FlagInv' /\ ModeInv' /\ CountInv'
  BY <1>1 DEF PowerInv, FlagInv, ModeInv, CountInv, power
<1>3. TimerInv'
  <2>1. ASSUME current_em = 2, first_timer # None PROVE Enough(first_timer, 0)
    BY <1>1, <2>1, EarlyIsEnough DEF PowerInv, TimerInv
  <2> QED
    BY <1>1, <2>1, Times DEF PowerInv, TimerInv, power
<1> QED
  BY <1>2, <1>3 DEF PowerInv

LEMMA ReturnPower ==
  ASSUME PowerInv, Return
  PROVE  PowerInv'
<1>1. /\ cpu' = "runs" /\ early_wakeup' = None /\ is_states_saved' = FALSE
      /\ current_em' = 0 /\ told' = 0
      /\ requirements' = required /\ requirement_on_em1_added' = FALSE
      /\ UNCHANGED <<first_timer, woken_for, required>>
  BY OthersAreDrivers DEF Return, PowerInv, Enter
<1>2. ModeInv'
  BY <1>1 DEF ModeInv
<1>5. FlagInv'
  BY <1>1 DEF FlagInv
<1>3. CountInv'
  <2>1. required' = required /\ required \in 0..MaxRequirements /\ required \in Nat
    BY <1>1, Times DEF PowerInv, CountInv
  <2> QED
    BY <1>1, <2>1 DEF CountInv
<1>4. TimerInv'
  BY <1>1 DEF PowerInv, TimerInv
<1> QED
  BY <1>2, <1>3, <1>4, <1>5 DEF PowerInv

\* clock_restore() leaves the clocks restored, and EM2 if it was in it.
LEMMA RestoreClocks ==
  ASSUME PowerInv, clock_restore
  PROVE  /\ is_states_saved' = FALSE /\ told' = current_em'
         /\ current_em = 2 => current_em' = 1
         /\ current_em # 2 => current_em' = current_em
<1>1. CASE is_states_saved = TRUE
  BY <1>1 DEF clock_restore, Enter, PowerInv, ModeInv
<1>2. CASE is_states_saved = FALSE
  BY <1>2 DEF clock_restore, Enter, PowerInv, ModeInv
<1> QED
  BY <1>1, <1>2 DEF PowerInv, FlagInv

\* A step that leaves EM2, or stays out of it, with its clocks restored.
LEMMA RestoredModes ==
  ASSUME PowerInv, cpu' = cpu, is_states_saved' = FALSE, told' = current_em',
         current_em = 2 => current_em' = 1, current_em # 2 => current_em' = current_em,
         requirement_on_em1_added' = requirement_on_em1_added
  PROVE  ModeInv' /\ FlagInv'
<1>1. ModeInv'
  BY DEF PowerInv, ModeInv
<1>2. FlagInv'
  BY DEF PowerInv, FlagInv
<1> QED
  BY <1>1, <1>2

LEMMA AddRequirementPower ==
  ASSUME PowerInv, AddRequirement
  PROVE  PowerInv'
<1>1. /\ required < MaxRequirements /\ required' = required + 1
      /\ requirements' = requirements + 1
      /\ UNCHANGED <<requirement_on_em1_added, cpu, first_timer, early_wakeup, woken_for>>
  BY DEF AddRequirement
<1>2. /\ told' = current_em' /\ current_em' # 2
      /\ current_em = 2 => current_em' = 1
      /\ current_em # 2 => current_em' = current_em
  BY DEF AddRequirement, Enter, PowerInv, ModeInv
<1>3. is_states_saved' = FALSE
  <2>1. current_em # 2 => is_states_saved = FALSE
    BY DEF PowerInv, ModeInv, FlagInv
  <2> QED
    BY <2>1 DEF AddRequirement
<1>4. ModeInv' /\ FlagInv'
  BY <1>1, <1>2, <1>3, RestoredModes
<1>5. CountInv'
  BY <1>1, <1>2, Times DEF PowerInv, CountInv
<1>6. TimerInv'
  BY <1>1, <1>2 DEF PowerInv, TimerInv
<1> QED
  BY <1>4, <1>5, <1>6 DEF PowerInv

LEMMA RemoveRequirementPower ==
  ASSUME PowerInv, RemoveRequirement
  PROVE  PowerInv'
<1>1. /\ required > 0 /\ required' = required - 1
      /\ requirements' = requirements - 1
      /\ UNCHANGED <<requirement_on_em1_added, is_states_saved, current_em, told, cpu,
                     first_timer, early_wakeup, woken_for>>
  BY DEF RemoveRequirement
<1>2. FlagInv' /\ ModeInv' /\ TimerInv'
  BY <1>1 DEF PowerInv, FlagInv, ModeInv, TimerInv
<1>3. CountInv'
  BY <1>1, Times DEF PowerInv, CountInv
<1> QED
  BY <1>2, <1>3 DEF PowerInv

\* A timer started while handlers run has the time the clocks need.
LEMMA StartTimerPower ==
  ASSUME PowerInv, NEW timeout \in Timeouts, StartTimer(timeout)
  PROVE  PowerInv'
<1> DEFINE tooSoon == current_em = 2 /\ timeout < WakeupDelay
           ticks   == IF tooSoon THEN WakeupDelay ELSE timeout
<1>1. /\ UNCHANGED <<requirements, requirement_on_em1_added, cpu, early_wakeup, woken_for,
                     required>>
      /\ Awake
      /\ first_timer' = IF first_timer = None \/ ticks < first_timer THEN ticks ELSE first_timer
  BY DEF StartTimer
<1>2. ticks \in Nat /\ first_timer' \in Nat
  BY <1>1, Times DEF PowerInv, TimerInv
<1>3. CASE tooSoon
  <2>1. clock_restore /\ current_em = 2
    BY <1>3 DEF StartTimer
  <2>2. ModeInv' /\ FlagInv' /\ current_em' # 2
    BY <1>1, <2>1, RestoreClocks, RestoredModes
  <2>3. CountInv'
    BY <1>1, <2>2 DEF PowerInv, CountInv
  <2>4. TimerInv'
    BY <1>1, <1>2, <2>2 DEF PowerInv, TimerInv
  <2> QED
    BY <2>2, <2>3, <2>4 DEF PowerInv
<1>4. CASE ~tooSoon
  <2>1. UNCHANGED <<is_states_saved, current_em, told>>
    BY <1>4 DEF StartTimer
  <2>2. ModeInv' /\ FlagInv' /\ CountInv'
    BY <1>1, <2>1 DEF PowerInv, ModeInv, FlagInv, CountInv
  <2>3. ASSUME cpu = "woken", current_em = 2 PROVE Enough(first_timer', woken_for)
    <3>1. CASE first_timer' = ticks
      <4>1. ticks >= WakeupDelay
        BY <1>4, <2>3, Times
      <4> QED
        BY <1>2, <3>1, <4>1, StartedIsEnough DEF PowerInv, TimerInv
    <3>2. CASE first_timer' = first_timer /\ first_timer # None
      BY <2>3, <3>2 DEF PowerInv, TimerInv
    <3> QED
      BY <1>1, <3>1, <3>2
  <2>4. TimerInv'
    <3>1. cpu' # "sleeps" /\ early_wakeup' \in Nat \cup {None} /\ woken_for' \in 0..Latency
      BY <1>1 DEF Awake, PowerInv, TimerInv
    <3> QED
      BY <1>1, <1>2, <2>1, <2>3, <3>1 DEF TimerInv
  <2> QED
    BY <2>2, <2>4 DEF PowerInv
<1> QED
  BY <1>3, <1>4

\* A timer after the first one has at least as much time.
LEMMA LaterIsEnough ==
  \A m, n, g \in Nat : Enough(m, g) /\ n >= m => Enough(n, g)
BY Times DEF Enough

LEMMA FirstTimerEndsPower ==
  ASSUME PowerInv, FirstTimerEnds
  PROVE  PowerInv'
<1>1. /\ Awake /\ first_timer # None
      /\ first_timer' \in {None} \cup {n \in Timeouts : n >= first_timer}
      /\ UNCHANGED <<power, cpu, early_wakeup, woken_for, required>>
  BY DEF FirstTimerEnds
<1>2. ModeInv' /\ FlagInv' /\ CountInv'
  BY <1>1 DEF PowerInv, ModeInv, FlagInv, CountInv, power
<1>3. first_timer' \in Nat \cup {None} /\ first_timer \in Nat /\ woken_for \in Nat
  BY <1>1, Times DEF PowerInv, TimerInv
<1>4. ASSUME cpu = "woken", current_em = 2, first_timer' # None
      PROVE  Enough(first_timer', woken_for)
  <2>1. Enough(first_timer, woken_for)
    BY <1>1, <1>4 DEF PowerInv, TimerInv
  <2>2. first_timer' \in Nat /\ first_timer' >= first_timer
    BY <1>1, <1>3, <1>4
  <2> QED
    BY <1>3, <2>1, <2>2, LaterIsEnough
<1>5. TimerInv'
  <2>1. cpu' # "sleeps" /\ early_wakeup' \in Nat \cup {None} /\ woken_for' \in 0..Latency
    BY <1>1 DEF Awake, PowerInv, TimerInv
  <2> QED
    BY <1>1, <1>3, <1>4, <2>1 DEF TimerInv, power
<1> QED
  BY <1>2, <1>5 DEF PowerInv

LEMMA ClockWakeupPower ==
  ASSUME PowerInv, on_clock_wakeup_timeout
  PROVE  PowerInv'
<1>1. /\ early_wakeup' = None /\ clock_restore
      /\ UNCHANGED <<requirements, requirement_on_em1_added, cpu, first_timer, woken_for,
                     required>>
  BY DEF on_clock_wakeup_timeout
<1>2. ModeInv' /\ FlagInv' /\ current_em' # 2
  BY <1>1, RestoreClocks, RestoredModes
<1>3. CountInv' /\ TimerInv'
  BY <1>1, <1>2 DEF PowerInv, CountInv, TimerInv
<1> QED
  BY <1>2, <1>3 DEF PowerInv

LEMMA TickPower ==
  ASSUME PowerInv, Tick
  PROVE  PowerInv'
<1>1. /\ cpu = "sleeps" => first_timer # 0 /\ early_wakeup # 0
      /\ cpu = "woken" => woken_for < Latency /\ woken_for' = woken_for + 1
      /\ cpu # "woken" => woken_for' = woken_for
      /\ first_timer' = Passed(first_timer) /\ early_wakeup' = Passed(early_wakeup)
      /\ UNCHANGED <<power, cpu, required>>
  BY DEF Tick
<1>2. ModeInv' /\ FlagInv' /\ CountInv'
  BY <1>1 DEF PowerInv, ModeInv, FlagInv, CountInv, power
<1>3. \A n \in Nat \cup {None} : /\ Passed(n) \in Nat \cup {None}
                                 /\ Passed(n) = None <=> n = None
                                 /\ n > 0 => Passed(n) = n - 1
  BY DEF Passed, None
<1>4. woken_for' \in 0..Latency /\ woken_for \in Nat
  BY <1>1, Times DEF PowerInv, TimerInv
<1>5. ASSUME cpu = "sleeps", current_em = 2, first_timer' # None
      PROVE  early_wakeup' # None /\ Early(early_wakeup', first_timer')
  <2>1. /\ first_timer \in Nat /\ early_wakeup \in Nat /\ early_wakeup > 0
        /\ Early(early_wakeup, first_timer)
    BY <1>1, <1>3, <1>5 DEF PowerInv, TimerInv
  <2>2. first_timer > 0 /\ Early(early_wakeup - 1, first_timer - 1)
    BY <2>1, EarlyStays
  <2>3. early_wakeup' = early_wakeup - 1 /\ first_timer' = first_timer - 1
    BY <1>1, <1>3, <2>1, <2>2
  <2>4. early_wakeup' # None
    BY <1>1, <1>3, <2>1 DEF None
  <2> QED
    BY <2>2, <2>3, <2>4
<1>6. ASSUME cpu = "woken", current_em = 2, first_timer' # None
      PROVE  Enough(first_timer', woken_for')
  <2>1. first_timer \in Nat /\ Enough(first_timer, woken_for) /\ woken_for < Latency
    BY <1>1, <1>3, <1>6 DEF PowerInv, TimerInv
  <2>2. first_timer > 0 /\ Enough(first_timer - 1, woken_for + 1)
    BY <1>4, <2>1, EnoughStays
  <2> QED
    BY <1>1, <1>3, <1>6, <2>1, <2>2
<1>7. TimerInv'
  <2>1. first_timer' \in Nat \cup {None} /\ early_wakeup' \in Nat \cup {None}
    BY <1>1, <1>3 DEF PowerInv, TimerInv
  <2> QED
    BY <1>1, <1>4, <1>5, <1>6, <2>1 DEF TimerInv, power
<1> QED
  BY <1>2, <1>7 DEF PowerInv

LEMMA NextPower == PowerInv /\ [Next]_vars => PowerInv'
<1> SUFFICES ASSUME PowerInv, [Next]_vars PROVE PowerInv'
  OBVIOUS
<1>1. CASE FallAsleep
  BY <1>1, FallAsleepPower
<1>2. CASE WakeUp
  BY <1>2, WakeUpPower
<1>3. CASE Return
  BY <1>3, ReturnPower
<1>4. CASE AddRequirement
  BY <1>4, AddRequirementPower
<1>5. CASE RemoveRequirement
  BY <1>5, RemoveRequirementPower
<1>6. ASSUME NEW timeout \in Timeouts, StartTimer(timeout) PROVE PowerInv'
  BY <1>6, StartTimerPower
<1>7. CASE FirstTimerEnds
  BY <1>7, FirstTimerEndsPower
<1>8. CASE on_clock_wakeup_timeout
  BY <1>8, ClockWakeupPower
<1>9. CASE Tick
  BY <1>9, TickPower
<1>10. CASE UNCHANGED vars
  BY <1>10 DEF vars, power, PowerInv, FlagInv, ModeInv, CountInv, TimerInv
<1> QED
  BY <1>1, <1>2, <1>3, <1>4, <1>5, <1>6, <1>7, <1>8, <1>9, <1>10 DEF Next

THEOREM PowerInvariant == Spec => []PowerInv
BY InitPower, NextPower, PTL DEF Spec

\* Every variable of the power manager keeps its type.
THEOREM TypeCorrect == Spec => []TypeOK
<1>1. ASSUME PowerInv PROVE TypeOK
  <2>1. requirement_on_em1_added \in BOOLEAN /\ is_states_saved \in BOOLEAN
    BY <1>1 DEF PowerInv, FlagInv
  <2>2. requirements \in Nat /\ required \in 0..MaxRequirements
    BY <1>1 DEF PowerInv, CountInv
  <2>3. /\ current_em \in 0..2 /\ told \in 0..2 /\ cpu \in {"runs", "sleeps", "woken"}
        /\ first_timer \in Nat \cup {None} /\ early_wakeup \in Nat \cup {None}
        /\ woken_for \in 0..Latency
    BY <1>1 DEF PowerInv, ModeInv, TimerInv
  <2> QED
    BY <2>1, <2>2, <2>3, Zenon DEF TypeOK
<1> QED
  BY <1>1, PowerInvariant, PTL

\* Over any run the requirements are the drivers' and at most one of the power
\* manager's own, which its flag knows of (evaluate_wakeup()).
THEOREM RequirementsAreBalanced == Spec => []RequirementsBalanced
<1>1. PowerInv => RequirementsBalanced
  BY Balance DEF PowerInv
<1> QED
  BY <1>1, PowerInvariant, PTL

\* The main loop, drivers with a requirement and callbacks of timers that need the
\* fast clock never run without it, for any timeouts, if the handlers that run when
\* the board wakes take less than restoring the clocks does.
THEOREM ClocksAreThere == Spec => []ClocksWhereNeeded
<1>1. ASSUME PowerInv PROVE ClocksWhereNeeded
  <2>1. ASSUME cpu = "runs" \/ required > 0 PROVE ~is_states_saved
    BY <1>1, <2>1 DEF PowerInv, ModeInv, CountInv
  <2>2. ASSUME Awake, first_timer = 0 PROVE ~is_states_saved
    <3>1. first_timer \in Nat /\ woken_for \in Nat /\ woken_for <= Latency /\ first_timer # None
      BY <1>1, <2>2, Times DEF PowerInv, TimerInv, None
    <3>2. ~Enough(first_timer, woken_for)
      BY <2>2, <3>1, Times DEF Enough
    <3>3. current_em # 2
      BY <1>1, <2>2, <3>1, <3>2 DEF PowerInv, ModeInv, TimerInv, Awake
    <3> QED
      BY <1>1, <3>3 DEF PowerInv, ModeInv
  <2> QED
    BY <2>1, <2>2 DEF ClocksWhereNeeded
<1> QED
  BY <1>1, PowerInvariant, PTL

\* The power manager's timer always comes early enough before the first timer.
THEOREM RestoreIsInTime == Spec => []RestoreStartsInTime
<1>1. PowerInv => RestoreStartsInTime
  BY DEF PowerInv, ModeInv, TimerInv, Early, RestoreStartsInTime
<1> QED
  BY <1>1, PowerInvariant, PTL

\* The listeners know the mode, and may count on the clocks in EM0 and EM1.
THEOREM ListenersAreTold == Spec => []ListenersKnowMode
<1>1. PowerInv => ListenersKnowMode
  BY DEF PowerInv, ModeInv, ListenersKnowMode
<1> QED
  BY <1>1, PowerInvariant, PTL

=============================================================================
