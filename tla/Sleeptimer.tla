------------------------------ MODULE Sleeptimer ------------------------------
(***************************************************************************)
(* The sleep timer of the platform (sl_sleeptimer.c) on the real-time      *)
(* counter (sl_sleeptimer_hal_rtcc.c): software timers share one compare   *)
(* register. The timers wait in a list ordered by expiry in which each one *)
(* holds the ticks after the one before it.                                *)
(*                                                                         *)
(* The thread starts and stops timers, the interrupt handler of the        *)
(* counter runs expired callbacks, and a callback may start or stop timers *)
(* too. The counter runs on all the time. A critical section is one step;  *)
(* it is short against a tick of 30 microseconds.                          *)
(*                                                                         *)
(* Nothing keeps a callback from starting the very handle the thread is    *)
(* starting: the check looks at the list, where the handle is not yet. The *)
(* model follows the code up to the thread's write over the listed handle, *)
(* or its second link, and ends there; the promises are claimed for        *)
(* handles that are not shared in this way.                                *)
(***************************************************************************)
EXTENDS Integers, FiniteSets, Sequences, SequencesExt

CONSTANTS
  Timer,         \* timer handles
  NoTimer,
  Priority,      \* priority of each timer, 0 first
  Width,         \* values of the counter, 2^32 in the code
  Timeouts,      \* timeouts asked for, in ticks
  HfTimers,      \* timers with option_flags = 0: they need the fast clock
  RestoreDelay,  \* ticks it takes to restore that clock after deep sleep
  Latency,       \* bound: ticks from a flag to its handler's end, or in create_timer()
  MaxLate        \* bound: ticks a timer of the model is late

ASSUME TimerAssumption    == NoTimer \notin Timer /\ HfTimers \subseteq Timer
ASSUME PriorityAssumption == Priority \in [Timer -> Nat]
ASSUME TimeAssumption     == /\ Width \in Nat \ {0, 1} /\ Latency \in Nat /\ MaxLate \in Nat
                             /\ RestoreDelay \in Nat
                             /\ Timeouts \subseteq 1..(Width - 1)

VARIABLES
  \* the real-time counter
  counter,
  compare,            \* its compare register
  armed,              \* the compare channel and its interrupt are on
  comp_flag, of_flag, \* pending compare match and overflow
  \* sl_sleeptimer.c
  chain,              \* timer_head and what follows: timers with their deltas
  last_delta_update_count,
  overflow_counter,
  timeout_periodic, timeout_expected_tc,  \* of each running handle; 0 if not read
  calling,            \* the handle the thread has checked or stopped, to start it
  creating,           \* the thread is in create_timer() with this handle
  handler,            \* where the interrupt handler is
  reading,            \* what sl_sleeptimer_get_tick_count64() has read of the counter
  \* history
  shared,             \* "started": a callback has started the handle in create_timer();
                      \* "spoiled": the thread has written or linked a listed handle
  due,                \* ticks until the callback is due, as asked for
  waited,             \* ticks since the interrupt was flagged
  wraps               \* times the counter has overflowed

rtcc  == <<counter, compare, armed, comp_flag, of_flag>>
vars  == <<rtcc, chain, last_delta_update_count, overflow_counter, timeout_periodic,
           timeout_expected_tc, calling, creating, handler, reading, shared, due, waited,
           wraps>>

-----------------------------------------------------------------------------
SLEEPTIMER_COMPARE_MIN_DIFF == 3

Idle      == [timer |-> NoTimer, timeout |-> 0]
NoReading == -1

\* What sl_sleeptimer_is_timer_running() finds, and what is going to call back.
Listed  == {chain[i].timer : i \in DOMAIN chain}
Running == Listed \cup ({creating.timer} \ {NoTimer})

\* Interrupts are on, and the list is one.
Ready      == reading = NoReading /\ shared # "spoiled"
ThreadFree == handler = "none" /\ creating = Idle /\ calling = NoTimer

\* Differences of counter values, unsigned and signed.
Diff(a, b)   == (a - b) % Width
Signed(a, b) == IF Diff(a, b) < Width \div 2 THEN Diff(a, b) ELSE Diff(a, b) - Width

Types ==
  /\ counter \in 0..(Width - 1)
  /\ compare \in 0..(Width - 1)
  /\ armed \in BOOLEAN /\ comp_flag \in BOOLEAN /\ of_flag \in BOOLEAN
  /\ chain \in Seq([timer : Timer, delta : Nat])
  /\ Cardinality(Listed) = Len(chain)
  /\ last_delta_update_count \in 0..(Width - 1)
  /\ overflow_counter \in 0..1
  /\ timeout_periodic \in [Timer -> Timeouts \cup {0}]
  /\ timeout_expected_tc \in [Timer -> 0..(Width - 1)]
  /\ calling \in Timer \cup {NoTimer}
  /\ creating \in [timer : Timer, timeout : Timeouts] \cup {Idle}
  /\ handler \in {"none", "loop", "callback"}
  /\ reading \in 0..(Width - 1) \cup {NoReading}
  /\ due \in [Timer -> Int]
  /\ waited \in 0..Latency
  /\ wraps \in 0..1

\* A timer is in the list once, as long as the list is not spoiled; no delta wraps, as
\* long as no handle is shared.
TypeOK ==
  /\ shared \in {"no", "started", "spoiled"}
  /\ shared # "spoiled" => Types
  /\ shared = "no" => \A i \in DOMAIN chain : chain[i].delta < Width

\* sl_sleeptimer_init(); the flag of the overflow is always enabled.
Init ==
  /\ counter = 0 /\ compare = 0
  /\ armed = FALSE /\ comp_flag = FALSE /\ of_flag = FALSE
  /\ chain = <<>>
  /\ last_delta_update_count = 0
  /\ overflow_counter = 0
  /\ timeout_periodic = [t \in Timer |-> 0]
  /\ timeout_expected_tc = [t \in Timer |-> 0]
  /\ calling = NoTimer
  /\ creating = Idle
  /\ handler = "none"
  /\ reading = NoReading
  /\ shared = "no"
  /\ due = [t \in Timer |-> 0]
  /\ waited = 0
  /\ wraps = 0

-----------------------------------------------------------------------------
(* The delta list.                                                         *)

\* Ticks from the last update to the expiry of the i-th timer of a list.
Expiry(list, i) ==
  LET sum[k \in 0..Len(list)] == IF k = 0 THEN 0 ELSE sum[k - 1] + list[k].delta IN sum[i]

\* update_delta_list(): the elapsed ticks are taken off from the head on.
Left(list, i, elapsed) == IF Expiry(list, i) > elapsed THEN Expiry(list, i) - elapsed ELSE 0

Updated(list) ==
  LET elapsed == Diff(counter, last_delta_update_count)
  IN  [i \in DOMAIN list |->
         [list[i] EXCEPT !.delta = Left(list, i, elapsed) - Left(list, i - 1, elapsed)]]

\* Mutant: the timer behind the new one keeps its delta.
InsertedKeepingNext(list, timer, timeout) ==
  LET before == Cardinality({i \in DOMAIN list : Expiry(list, i) <= timeout})
  IN  InsertAt(list, before + 1, [timer |-> timer, delta |-> timeout - Expiry(list, before)])

\* delta_list_insert_timer(): behind the timers that expire no later; the one
\* behind it now counts from it.
Inserted(list, timer, timeout) ==
  LET before == Cardinality({i \in DOMAIN list : Expiry(list, i) <= timeout})
      delta  == timeout - Expiry(list, before)
      behind == IF before < Len(list)
                THEN [list EXCEPT ![before + 1].delta = @ - delta] ELSE list
  IN  InsertAt(behind, before + 1, [timer |-> timer, delta |-> delta])

\* delta_list_insert_timer() of a timer that is in the list already, at i. Its delta
\* is overwritten. Put in front of a timer before its own place, it closes a circle:
\* the list up to where it comes round. Else it meets itself, expires at once, and
\* the timers that expire with it are lost.
LinkedAgain(list, timer, timeout) ==
  LET i      == CHOOSE k \in DOMAIN list : list[k].timer = timer
      before == Cardinality({k \in 1..(i - 1) : Expiry(list, k) <= timeout})
      delta  == timeout - Expiry(list, before)
      again  == [timer |-> timer, delta |-> delta]
      same   == Cardinality({k \in DOMAIN list : k >= i /\ Expiry(list, k) = Expiry(list, i)})
  IN  IF before < i - 1
      THEN InsertAt(SubSeq([list EXCEPT ![before + 1].delta = @ - delta], 1, i - 1),
                    before + 1, again) \o <<again>>
      ELSE SubSeq(list, 1, i - 1) \o <<[timer |-> timer, delta |-> 0]>>
                                  \o SubSeq(list, i + same, Len(list))

\* The same of a timer whose handle->next create_timer() has cleared.
CutBehind(list, timer) ==
  SubSeq(list, 1, CHOOSE k \in DOMAIN list : list[k].timer = timer)

\* In deep sleep a timer that needs the fast clock waits until it is restored.
Timeout(timer, timeout) ==
  IF timer \in HfTimers
  THEN {timeout, IF timeout < RestoreDelay THEN RestoreDelay ELSE timeout} ELSE {timeout}

\* Mutant: the timer behind it expires that much earlier.
RemovedForgetting(list, timer) ==
  LET i == CHOOSE k \in DOMAIN list : list[k].timer = timer IN RemoveAt(list, i)

\* delta_list_remove_timer(): the timer behind it takes its delta over.
Removed(list, timer) ==
  LET i == CHOOSE k \in DOMAIN list : list[k].timer = timer
  IN  RemoveAt(IF i < Len(list) THEN [list EXCEPT ![i + 1].delta = @ + list[i].delta] ELSE list, i)

-----------------------------------------------------------------------------
(* The compare register.                                                   *)

\* Mutant: the value may be too close for the counter to meet it.
sleeptimer_hal_set_compareClose(value, matched) ==
  compare' = ((value % (Width - 1)) - 1) % Width

\* A match that is about to come is not disturbed, and a value that is too close
\* is put off. The handler runs one tick after the match, so one is taken off;
\* the code's modulus is the largest value of the counter.
sleeptimer_hal_set_compare(value, matched) ==
  IF matched \/ Diff(compare, counter) > SLEEPTIMER_COMPARE_MIN_DIFF \/ compare = counter
  THEN LET wanted == IF Diff(value, counter) < SLEEPTIMER_COMPARE_MIN_DIFF
                     THEN (counter + SLEEPTIMER_COMPARE_MIN_DIFF) % Width ELSE value
       IN  compare' = ((wanted % (Width - 1)) - 1) % Width
  ELSE UNCHANGED compare

set_comparator_for_next_timer(list, updated, matched) ==
  /\ armed' = TRUE
  /\ sleeptimer_hal_set_compare((updated + list[1].delta) % Width, matched)

-----------------------------------------------------------------------------
(* Starting and stopping timers.                                           *)

\* The fields create_timer() sets before its critical section. Only a periodic
\* timer's expected count is ever read.
Prepare(t, timeout, every) ==
  /\ timeout_periodic' = [timeout_periodic EXCEPT ![t] = every]
  /\ timeout_expected_tc' =
       [timeout_expected_tc EXCEPT ![t] = IF every = 0 THEN 0 ELSE (counter + every) % Width]
  /\ due' = [due EXCEPT ![t] = timeout]

\* What a handle holds is not read any more once its timer has left the list, unless
\* create_timer() is about to link it again.
Forget(t) ==
  IF t = creating.timer THEN UNCHANGED <<timeout_periodic, timeout_expected_tc, due>>
  ELSE /\ timeout_periodic' = [timeout_periodic EXCEPT ![t] = 0]
       /\ timeout_expected_tc' = [timeout_expected_tc EXCEPT ![t] = 0]
       /\ due' = [due EXCEPT ![t] = 0]

\* The critical section of create_timer(); the comparator is set if the timer is first.
Enlist(t, timeout) ==
  \E ticks \in Timeout(t, timeout) :
    LET list == IF t \in Listed THEN LinkedAgain(Updated(chain), t, ticks)
                ELSE Inserted(Updated(chain), t, ticks)
    IN  /\ chain' = list
        /\ last_delta_update_count' = counter
        /\ IF list[1].timer = t
           THEN set_comparator_for_next_timer(list, counter, comp_flag)
           ELSE UNCHANGED <<compare, armed>>

\* sl_sleeptimer_start_timer(), sl_sleeptimer_start_periodic_timer(): refused if the
\* timer is in the list. The interrupt may come before create_timer(), ...
CheckTimer(t) ==
  /\ Ready /\ ThreadFree /\ t \notin Listed
  /\ calling' = t
  /\ UNCHANGED <<rtcc, chain, last_delta_update_count, overflow_counter, timeout_periodic,
                 timeout_expected_tc, creating, handler, reading, shared, due, waited, wraps>>

\* ... and between its writes to the handle and its critical section.
StartTimer(t, timeout, every) ==
  /\ Ready /\ handler = "none" /\ calling = t /\ creating = Idle
  /\ Prepare(t, timeout, every)
  /\ IF t \in Listed THEN chain' = CutBehind(chain, t) /\ shared' = "spoiled"
     ELSE UNCHANGED <<chain, shared>>
  /\ calling' = NoTimer
  /\ creating' = [timer |-> t, timeout |-> timeout]
  /\ UNCHANGED <<rtcc, last_delta_update_count, overflow_counter, handler, reading, waited,
                 wraps>>

EnlistTimer ==
  /\ Ready /\ handler = "none" /\ creating # Idle
  /\ Enlist(creating.timer, creating.timeout)
  /\ creating' = Idle
  /\ shared' = IF shared = "started" THEN "spoiled" ELSE shared
  /\ UNCHANGED <<counter, comp_flag, of_flag, overflow_counter, timeout_periodic,
                 timeout_expected_tc, calling, handler, reading, due, waited, wraps>>

\* A callback starts a timer that is not in the list: no interrupt comes in between.
CallbackStarts(t, timeout, every) ==
  /\ Ready /\ handler = "callback" /\ t \notin Listed
  /\ Prepare(t, timeout, every)
  /\ Enlist(t, timeout)
  /\ shared' = IF t = creating.timer THEN "started" ELSE shared
  /\ UNCHANGED <<counter, comp_flag, of_flag, overflow_counter, calling, creating, handler,
                 reading, waited, wraps>>

\* A restart stops the timer, whether it is listed or not, and starts it unchecked:
\* the thread is then where CheckTimer leaves it.
MayRestart(t) == calling' \in IF handler = "none" THEN {NoTimer, t} ELSE {calling}

\* sl_sleeptimer_stop_timer(), by the thread or by a callback.
StopTimer(t) ==
  /\ Ready /\ (ThreadFree \/ handler = "callback")
  /\ t \in Listed
  /\ LET list  == Updated(chain)
         fewer == Removed(list, t)
     IN  /\ chain' = fewer
         /\ last_delta_update_count' = counter
         /\ IF fewer = <<>> THEN armed' = FALSE /\ UNCHANGED compare
            ELSE IF list[1].timer = t THEN set_comparator_for_next_timer(fewer, counter, comp_flag)
            ELSE UNCHANGED <<compare, armed>>
  /\ Forget(t)
  /\ MayRestart(t)
  /\ UNCHANGED <<counter, comp_flag, of_flag, overflow_counter, creating, handler,
                 reading, shared, waited, wraps>>

\* The same of a timer that is not in the list: the list is updated all the same.
StopUnlisted(t) ==
  /\ Ready /\ (ThreadFree \/ handler = "callback")
  /\ t \notin Listed
  /\ chain' = Updated(chain)
  /\ last_delta_update_count' = counter
  /\ MayRestart(t)
  /\ UNCHANGED <<rtcc, overflow_counter, timeout_periodic, timeout_expected_tc, creating,
                 handler, reading, shared, due, waited, wraps>>

-----------------------------------------------------------------------------
(* The interrupt handler.                                                  *)

Pending == of_flag \/ (comp_flag /\ armed)

\* RTCC_IRQHandler() and process_timer_irq() up to the loop: it takes the flags,
\* whether or not their interrupts are enabled.
RTCC_IRQHandler ==
  /\ Ready /\ handler = "none" /\ Pending
  /\ comp_flag' = FALSE /\ of_flag' = FALSE
  /\ overflow_counter' = IF of_flag THEN (overflow_counter + 1) % 2 ELSE overflow_counter
  /\ chain' = Updated(chain)
  /\ last_delta_update_count' = counter
  /\ IF of_flag /\ chain # <<>>
     THEN set_comparator_for_next_timer(Updated(chain), counter, FALSE)
     ELSE UNCHANGED <<compare, armed>>
  /\ handler' = IF comp_flag THEN "loop" ELSE "none"
  /\ waited' = IF comp_flag \/ creating # Idle THEN waited ELSE 0
  /\ UNCHANGED <<counter, timeout_periodic, timeout_expected_tc, calling, creating, reading, shared,
                 due, wraps>>

\* The timers at the head that have expired, and the one that is first by priority.
Expired == {i \in DOMAIN chain : \A k \in 1..i : chain[k].delta = 0}
Current ==
  chain[CHOOSE i \in Expired :
          \A k \in Expired : \/ Priority[chain[i].timer] < Priority[chain[k].timer]
                             \/ /\ Priority[chain[i].timer] = Priority[chain[k].timer]
                                /\ i <= k].timer

\* A one-shot timer leaves the list and calls back.
ExpireOnce(t) ==
  /\ timeout_periodic[t] = 0
  /\ chain' = Removed(chain, t)
  /\ Forget(t)

\* Mutant: the period counts from the callback.
CorrectionNone(t) == 0

\* Ticks the callback comes late.
Correction(t) == Signed(counter, timeout_expected_tc[t])

\* A periodic timer goes back into the list, for what is left of its period; or it
\* stays at its head if it is more than a period late.
ExpirePeriodic(t) ==
  LET every == timeout_periodic[t]
  IN  /\ every # 0
      /\ IF Correction(t) > every THEN UNCHANGED chain
         ELSE \E ticks \in Timeout(t, every - Correction(t)) :
                chain' = Inserted(Removed(chain, t), t, ticks)
      /\ timeout_expected_tc' = [timeout_expected_tc EXCEPT ![t] = (@ + every) % Width]
      /\ due' = [due EXCEPT ![t] = @ + every]
      /\ UNCHANGED timeout_periodic

\* One turn of the loop, up to the callback.
Expire ==
  /\ Ready /\ handler = "loop" /\ Expired # {}
  /\ ExpireOnce(Current) \/ ExpirePeriodic(Current)
  /\ handler' = "callback"
  /\ UNCHANGED <<rtcc, last_delta_update_count, overflow_counter, calling, creating,
                 reading, shared, waited, wraps>>

CallbackReturns ==
  /\ Ready /\ handler = "callback"
  /\ chain' = Updated(chain)
  /\ last_delta_update_count' = counter
  /\ handler' = "loop"
  /\ UNCHANGED <<rtcc, overflow_counter, timeout_periodic, timeout_expected_tc,
                 calling, creating, reading, shared, due, waited, wraps>>

\* No timer is left that has expired.
HandlerEnds ==
  /\ Ready /\ handler = "loop" /\ Expired = {}
  /\ IF chain # <<>>
     THEN set_comparator_for_next_timer(chain, last_delta_update_count, comp_flag)
     ELSE armed' = FALSE /\ UNCHANGED compare
  /\ handler' = "none"
  /\ waited' = IF creating # Idle THEN waited ELSE 0
  /\ UNCHANGED <<counter, comp_flag, of_flag, chain, last_delta_update_count,
                 overflow_counter, timeout_periodic, timeout_expected_tc, calling, creating,
                 reading, shared, due, wraps>>

-----------------------------------------------------------------------------
(* The 64-bit tick count. Its low part is the counter, its high part counts the     *)
(* overflows; the code reads both, then the flag of an overflow that waits, and     *)
(* then the counter again. Interrupts are off, the counter runs on.                 *)

\* The first half of sl_sleeptimer_get_tick_count64(), by the thread or a callback.
GetTickCount64 ==
  /\ Ready /\ (ThreadFree \/ handler = "callback")
  /\ reading' = counter
  /\ UNCHANGED <<rtcc, chain, last_delta_update_count, overflow_counter, timeout_periodic,
                 timeout_expected_tc, calling, creating, handler, shared, due, waited, wraps>>

\* Mutant: the counter is not read again.
TickCountLowOnce == reading

\* The answer, should the flag be looked at now.
TickCountLow  == IF of_flag THEN counter ELSE reading
TickCountHigh == (overflow_counter + (IF of_flag THEN 1 ELSE 0)) % 2

TickCountReturns ==
  /\ reading # NoReading
  /\ reading' = NoReading
  /\ UNCHANGED <<rtcc, chain, last_delta_update_count, overflow_counter, timeout_periodic,
                 timeout_expected_tc, calling, creating, handler, shared, due, waited, wraps>>

-----------------------------------------------------------------------------
\* One tick. The match is flagged at the end of the tick it names. In the loop, and
\* in reading the tick count, the counter is read again within a few instructions: at
\* most one tick passes.
Tick ==
  /\ shared # "spoiled"
  /\ reading # NoReading => counter = reading
  /\ Pending \/ handler # "none" \/ creating # Idle => waited < Latency
  /\ handler = "loop" => counter = last_delta_update_count
  /\ \A t \in Running : due[t] > -MaxLate
  /\ counter' = IF counter = Width - 1 THEN 0 ELSE counter + 1
  /\ comp_flag' = (comp_flag \/ (armed /\ counter = compare))
  /\ of_flag' = (of_flag \/ counter = Width - 1)
  /\ wraps' = IF counter = Width - 1 THEN (wraps + 1) % 2 ELSE wraps
  /\ waited' = IF Pending \/ handler # "none" \/ creating # Idle THEN waited + 1 ELSE 0
  /\ due' = [t \in Timer |-> IF t \in Running THEN due[t] - 1 ELSE 0]
  /\ UNCHANGED <<compare, armed, chain, last_delta_update_count, overflow_counter,
                 timeout_periodic, timeout_expected_tc, calling, creating, handler, reading,
                 shared>>

\* What follows is not modelled: a list in a circle is searched for ever.
Spoiled == shared = "spoiled" /\ UNCHANGED vars

Next ==
  \/ \E t \in Timer, timeout \in Timeouts, again \in BOOLEAN :
       LET every == IF again THEN timeout ELSE 0
       IN  StartTimer(t, timeout, every) \/ CallbackStarts(t, timeout, every)
  \/ EnlistTimer
  \/ \E t \in Timer : CheckTimer(t) \/ StopTimer(t) \/ StopUnlisted(t)
  \/ RTCC_IRQHandler
  \/ Expire
  \/ CallbackReturns
  \/ HandlerEnds
  \/ GetTickCount64
  \/ TickCountReturns
  \/ Tick
  \/ Spoiled

Spec == Init /\ [][Next]_vars

-----------------------------------------------------------------------------
(* Properties.                                                             *)

\* The sleep timer keeps its promise to the callers, up to the first handle shared by
\* the thread and a callback: no one-shot callback comes early and no period is lost
\* or gained (process_timer_irq()). A periodic timer is put back against the counter of
\* the last update: one tick too early at most.
T == INSTANCE Timers WITH running <- Running, period <- timeout_periodic, Early <- 1
TimersKept == T!Init /\ [][T!Next \/ shared' # "no"]_(T!vars)

\* Outside the handler the interrupt for the first timer is on and flagged, or its
\* match still comes: no later than the timer expires, or than the margin if that
\* is too close. (The code's modulus costs one tick where the counter overflows.)
WakeupSet ==
  handler = "none" /\ shared # "spoiled" /\ chain # <<>> =>
    LET left == Left(chain, 1, Diff(counter, last_delta_update_count))
    IN  /\ armed
        /\ \/ comp_flag \/ of_flag
           \/ Diff(compare, counter) <= SLEEPTIMER_COMPARE_MIN_DIFF
           \/ Diff(compare, counter) <= left

\* What the list plans is what was asked for: as long as no handle is shared, no callback
\* is planned later, but for an interrupt in create_timer() and for the clock's
\* restoring. With WakeupSet, a late callback does not make the next one late.
PlannedInTime ==
  handler = "none" /\ shared = "no" =>
    \A i \in DOMAIN chain :
      LET t    == chain[i].timer
          left == Left(chain, i, Diff(counter, last_delta_update_count))
      IN  left > 0 => left <= due[t] + Latency + (IF t \in HfTimers THEN RestoreDelay ELSE 0)

\* The tick count is right at any moment: its high part is the number of overflows, and
\* with the low part, read before it or again after it, it is the present time or that
\* of a tick before; the two halves never come from the two sides of an overflow.
TickCountAgrees ==
  /\ TickCountHigh = wraps
  /\ reading # NoReading => TickCountLow \in {counter, counter - 1}

=============================================================================
