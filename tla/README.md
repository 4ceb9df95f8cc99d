# Verification of the BLE remote control for LED lights

Two Blue Gecko boards: the *keypad board* (Board 1, `DEVICE_IS_BLE_SERVER == 1`)
reads two keys and publishes them as a GATT attribute; the *LED board* (Board 2,
the client build) connects to it, subscribes and shows LED patterns. Both
images are built from the same files under `src/`: everything in `src/src/`
plus `src/app.c` is the program; `src/gecko_sdk_3.2.9/` is vendored. Of the
vendored code the parts that run the program's timers, its sleep and its display
are modelled as well, because their state outlives a call and they are entered
from interrupts.

All file names below are relative to the repository; `ble.c` is `src/src/ble.c`
and so on, `sl_*.c`, `dmd_*.c` and `glib*.c` are in the SDK.

## 1. Inventory

| Component | State | Operations | Properties that make it right |
|---|---|---|---|
| Button input (`gpio.c`, `irq.c`, `scheduler.c:20-55`) | pin levels, GPIO interrupt flags, the stack's external-signal mask | edge, two interrupt handlers, delivery of the mask as one event | no edge is forgotten before a handler has looked at the pins |
| Keypad board handler (`ble.c:51-283`, `ble.c:712-743`) | `ble_data` flags and handles, the `Button_input` attribute, LCD rows | one case per stack event, `button_state_to_gatt` | the attribute follows the keys; notifications are paced; the board can be found again after any disconnect; the display agrees with the flags |
| Keypad state machine (`scheduler.c:58-89`) | `currentState` | one step per external signal, after the handler | selects one LCD message |
| LED board handler (`ble.c:295-651`) | flags, four attribute handles, `address_check`, LCD, `LED_output` | one case per stack event | connects to the keypad board and no other (it does not: section 3); keeps scanning when idle; the rows agree with the flags |
| Discovery (`scheduler.c:92-254`) | `current_state` (7 states) | one step per event, after the handler | a waiting state always has something coming that moves it; when it is through, the board is ready |
| The pair | both boards, the link as each sees it, values under way | advertising, connecting, reads, notifications, losses, resets | the LED board acts on values the keys had, in order; the pair comes together again |
| LED patterns (`ble.c:655-710`) | LED pins, `LED_output` | two busy loops, attribute write | the pattern is that of the last value |
| LCD (`lcd.c`, GLIB, `dmd_memlcd.c`, `sl_memlcd.c`) | frame buffer, dirty lines, panel, EXTCOMIN | `displayInit`, `displayPrintf`, `displayUpdate` | a row shows the last text, whole, and nothing older |
| Sleep timer (`sl_sleeptimer.c`, `sl_sleeptimer_hal_rtcc.c`) | delta list, compare register, overflow count | start, stop, interrupt handler, callbacks | callbacks when they are due, from one compare register |
| Power manager (`sl_power_manager.c`, `app.c`, `main.c`) | requirements, energy mode, saved clocks, early wake-up | sleep loop, requirements, wake-up timer | clocks are back where they are needed; nothing leaks |
| Start-up (`oscillators.c`) | | straight-line initialisation | |
| Bluetooth stack, radio, security manager, GATT database | connection, procedure in progress, pairing, event queue | commands the code calls, events it handles | external |
| Logging, rest of the SDK, boot loader scripts | | | not part of the behaviour |

How they interact: an interrupt handler sets a bit in the stack's mask; the
stack calls `sl_bt_on_event()` (`app.c:230-258`) with one event at a time, and
that calls the build's handler and then the build's state machine on the same
event. Both read and write the one `ble_data`. The handlers call stack commands,
which take effect at once, are refused, or end in a later event. Notifications,
answers to reads and connection events travel between the boards. Between
events the main loop sleeps (`sl_power_manager_sleep()`); the sleep timer's
interrupt wakes it, and the power manager uses a sleep timer itself to have the
clocks back before the first timer that needs them. Every row a handler prints
goes through the frame buffer to the panel before the call returns.

What is hard: interrupts come at any point between two events and are merged; a
pin is read long after the edge; events are handled late, so the link an event
speaks of may be gone or replaced; commands can be refused and the code mostly
logs that and goes on; only one GATT procedure runs at a time and its end does
not say whose it was; flags survive disconnects selectively; each board notices
the end of a link for itself and either may be reset alone; one compare register
serves all timers while the counter runs on; requirements are added in the
handlers that interrupt the sleep they are meant to prevent; the flags of dirty lines
are walked word by word. The list with lines is `hazards` in `PROJECT.json`.

## 2. Modules

| Module | Models | |
|---|---|---|
| `KeySignals` | button input on either board | extended by both boards |
| `KeypadBoard` | keypad board, with the stack and a central as environment | implements `Peripheral` |
| `LedBoard` | LED board, with the stack and the devices around as environment | |
| `RemoteControl` | both boards over one link | instantiates both, implements `Mirror` |
| `Sleeptimer` | sleep timer and real-time counter | implements `Timers` |
| `PowerManager` | sleep loop and clocks | |
| `Display` | LCD from `displayPrintf` to the panel | implements `Screen` |
| `Peripheral`, `Mirror`, `Timers`, `Screen` | abstract specifications: what is promised | |
| `MCKeypadBoard`, `MCLedBoard`, `MCSleeptimer`, `MCDisplay` | values of constants for TLC | |
| `KeypadBoardProofs`, `KeypadLinkProofs`, `LedBoardProofs`, `LedLinkProofs`, `RemoteControlProofs`, `SleeptimerProofs`, `PowerManagerProofs`, `DisplayProofs` | theorems | TLAPS |

Mutated forms, used to see that each property can fail, stand beside the
definitions they mutate and are marked *Mutant*.

### KeySignals

`low` is the set of pins that read 0, `intf` the set GPIO interrupt flags,
`pending` the mask collected by `sl_bt_external_signal`, `signal` the mask of the
event in the handler's hands (`{}`: none). A mask is a set of signals, so the
code's `extsignals == evt_x` is `signal = {evt_x}`: equality, not membership.
Each vector clears all its flags and raises its one signal, so PB0 (PF6, even)
raises the even key's. `schedulerSetEvent_PB0` has no caller and so no action.
Between `RaiseSignalEvent` and the handler, edges and interrupts can still
happen: that is the window between the delivery of an event and the read of the
pin. An event is otherwise handled in one step: the handlers do not wait, and an
interrupt in their middle changes only what `intf`, `pending` and the next
event carry - except the pins, which are read once, one after the other.

### KeypadBoard

One action per case of `handle_ble_event_server()`; the case's name is the
action's (`OnBoot`, `OnOpened`, `OnClosed`, `OnExternalSignal`,
`OnCharacteristicStatus`, `OnBonded`, `OnConfirmBonding`, `OnConfirmPasskey`,
`OnBondingFailed`). `OnExternalSignal` contains the whole handler: the passkey
branch, the pin reads, `button_state_to_gatt`, the LCD rows and then the step of
`keypad_server_state_machine`. Variables carry the names of `ble_data`'s
fields; `lcd` has the connection row, whether the passkey rows are filled, the
key row (ROW_9) and whether "Handling notif" is shown (TEMPVALUE).

Environment: a central connects and configures (`CentralConnects`,
`CentralConfigures`: the Button_input configuration or another characteristic's),
the link drops at any moment (`LinkDrops`), indications the stack sends on its
own account, such as Service Changed, are confirmed (`IndicationConfirmed`),
pairing proceeds by numeric comparison or passkey entry, and every event waits in
a queue `evq` behind older ones. `sent`, `confirmed`, `missed` are history
variables that only properties read. `StackSends` is the stack's rule for
notifications: subscribed and on the connection's handle; it may refuse anyway.

Left out: `button_notification_flag`, which is never true in this build (it is
written FALSE at `ble.c:144` and nowhere else); connection parameters; statuses that
are only logged; the soft timer (EXTCOMIN only).

### LedBoard

One action per case of `handle_ble_event_client()`, each with the step
`discovery_state_machine()` takes on the same event: `DiscoveryOnOpened`,
`DiscoveryOnCompleted`, `DiscoveryOnClosed`. `Discovery` is the machine as a table:
what a state asks for when a procedure has completed, and where it goes. `saved` is
the set of attribute handles that have been stored; a handle never stored is 0, and
`TakesZeroHandle` says whether the stack takes a command with it.

`Issue` is the stack's rule for GATT commands: one procedure at a time on a live
link, otherwise refused. A procedure is answered by the peer (`PeerAnswers`) and
ends with a procedure-completed event (`ProcedureCompletes`), with an error if
`Failures`, if the peer has no such attribute, or if the subscription is `Protected`
and the link not bonded. `Shown` is the value handler's three tests. The keypad
board's notification has one byte; the tests look at three, so the model leaves
the other two undetermined.

`connection_handle` is whether `ble_data.connection_handle` is the handle of the last connection
opened. The opened event sets it (`scheduler.c:110`), but only in `stateOPEN`; so does a
`sl_bt_connection_open()` that is accepted, and one that is refused, for a second report, may
leave the field not valid (`ble.c:425`). A command on a handle that is not right is refused.
A second device may share address bytes: `MatchingBytes` says how many, and `OnScanReport` adds
them up over all reports as the code does, so a stranger may be connected to and answer none of
the requests for attributes.

`SlowLoss` is a timing assumption, used where stated: a link is not lost while a
scan report from before it opened still waits. Losing a link takes a supervision
timeout of many connection intervals; handling a queued report does not. Without
the assumption a second report of the keypad board can open a second connection
before the close of the first is handled, and the close then resets discovery
under the new connection.

### RemoteControl

Both board modules are instantiated, the keypad board's central being the LED
board and the LED board's peer the keypad board; what each leaves to its
environment is here one step of both. `ProcedureAnswered` is the LED board's
`PeerAnswers` with the value of the keypad board's attribute, and for a subscription
its `CentralConfigures`; `NotificationArrives` takes what `button_state_to_gatt` sent.
`LinkOpensUnheard` is a connection request the keypad board does not hear.
`KeypadLosesLink` and `LedLosesLink` are separate: each board runs its own
supervision timeout, so one may believe in a connection the other has lost.
`KeypadResets` and `LedResets` start one board over while the other goes on. The
pins survive a reset, the attribute and everything in RAM do not.

Abstractions: pairing is left out (`PairMethods = {}`): nothing in the composition asks
for encryption, and the boards' own modules cover it. The LED board's button,
which turns notifications off, is not pressed here but in `LedBoard`. Values carry the one
byte that is sent; what the LED board makes of it is `Shown`. `SlowLoss` is
assumed: without it a connection opened before the close of the last has been handled
can be discovered by a machine that the close then resets, and neither
`SubscriptionAgrees` nor `BoardsConverge` holds.

`Mirror` is the promise: an attribute, whether both are on one connection, and
the values that have left and were not acted on. A value is told when it is written
or asked for, acted on in order, and lost only when the connection ends;
a new connection begins with nothing left of the last.

### Sleeptimer

`chain` is the delta list, `compare` and `counter` the registers of the real-time
counter with a width of `Width` values. A critical section is one step, and
the interrupt handler runs in four: `RTCC_IRQHandler` (flags, overflow, update),
`Expire` (one turn of the loop up to the callback), `CallbackReturns`, `HandlerEnds`; a
callback may start and stop timers (`CallbackStarts`, `StopTimer`, `StopUnlisted`). The thread's
start is three steps, because the interrupt may come between them: `CheckTimer` (is the timer in the
list?), `StartTimer` (`create_timer()` fills the handle before its critical section) and
`EnlistTimer` (the critical section). A restart is a stop, whether the timer is listed or not, and
then a start without the check (`MayRestart`). `sl_sleeptimer_get_tick_count64()` reads the
counter, the overflow count, the overflow flag and the counter again, with interrupts off but the
counter running: `GetTickCount64` and `TickCountReturns` with at most a tick between. `Tick` is
one tick of the counter, at any point; `Latency` bounds how long an interrupt waits or a handler
runs, `MaxLate` how late a timer of the model gets.

*Handles shared by the thread and a callback.* `sl_sleeptimer_is_timer_running()` looks at the list
only (`sl_sleeptimer.c:344-366`), and the handle the thread is starting is not in it yet. A callback
may therefore start that very handle. The thread then writes over a listed handle and cuts the
list behind it (`CutBehind`, line 1244), or links it a second time (`LinkedAgain`, line 1264): its
delta is overwritten while the walk still uses it, and it expires at once or the list becomes a
circle. `shared` records this: `"started"` once a callback has started the thread's handle,
`"spoiled"` once the thread has written or linked it again. The model follows the code up to and
including that step and then ends (`Spoiled`); `TimersKept` and `PlannedInTime` are claimed until
`"started"`, `WakeupSet` and the types until `"spoiled"`. The header does not forbid such a callback. This
program has none: its callbacks start no timer, and its two starts are restarts, at
`sl_power_manager.c:754` inside a critical section and at `sl_memlcd.c:158`.

`Timers` is the promise: a one-shot callback never early and once, a periodic one once per
period counted from the start. `Early` is 1: a periodic timer is put back
against the counter of the last update (`process_timer_irq()` reads the counter again for
its correction), so a single callback may come a tick early, but the error does not add up.

Readings of the code worth knowing: `sleeptimer_hal_set_compare()` also rewrites the register
when it equals the counter, so a burst of starts in one tick can put a match off;
`WakeupSet` therefore says that a match is set, not how late it may come. The value is
taken modulo the largest counter value rather than the number of values, which costs one tick
where the counter wraps. Left out: a start with timeout 0 (calls
back at once), the flags that tell the power manager whose timer expires next, calendar and unit
conversions.

### PowerManager

The application requires EM2 once and for good (`app_init()`), so the modes are EM0, EM1, EM2.
`FallAsleep` is one turn of the loop of `sl_power_manager_sleep()` up to the
instruction that sleeps, with what `evaluate_wakeup()` decides as three disjuncts:
`SleepBriefly` (too little time, the power manager requires EM1 itself), `SleepDeeply` (with
its early wake-up timer), `SleepLightly` (a driver requires EM1). `WakeUp` leaves the critical
section for the handlers; from there `FallAsleep` again (all agree to sleep on) or `Return`.
Drivers add and remove requirements and timers start and end in handlers or in the main
loop. `first_timer` is what `sl_sleeptimer_get_remaining_time_of_first_timer()` answers.
The oscillator of this device is waited for on the spot
(`sl_power_manager_hal_s0_s1.c:268-309`), so nobody sleeps during a restore.

### Display

`framebuffer` and `panel` hold half characters per line: a text shorter by one character begins
half a character further right (`Centre`, 3 of 6 pixels). `dirtyRows` is the words of flags.
`displayPrintf` draws (erase, then text) and starts an update; the update goes line by line as
the loop of `DMD_updateDisplay()` does (`PassDirtyLine`, `DrawSeries`, `PassCleanLine`,
`EndUpdate`). The handlers wait for it, so a row is printed only when the last update has ended.
Behind the last line the loop reads one word past the array; the value is chosen freely and is
never used. `Screen` is the promise: a row goes from one text to the next, centred and cut, in
one step, and no other row changes.


## 3. What is checked

Passing runs; sizes are distinct states, and each run is complete within its
bounds.

| Run | Instance | Shows | States |
|---|---|---|---|
| `keypad_keys` | both keys, one handle, queue of 1, fair | `TypeOK`; `AttributeFollowsKeys`: with all edges worked off, and the last signal not dropped, the attribute is what the keys are; `EdgeReachesAttribute`: an edge reaches the attribute, unless the central unsubscribes or both signals come in one event; `LostLinkReadvertised` | 316k |
| `keypad_link` | two handles (symmetric), PB0, both pairing methods, queue of 2, one foreign confirmation | `LifeCycle`: the board implements `Peripheral`; `NotificationsPaced`: every notification but the first waits for a confirmation; `DrainedBoardAgreesWithStack`: with no event waiting, connection, handle and advertising agree with the stack; `ScreenAgrees`: the rows agree with the flags, whatever the order of pairing events and closes | 817k |
| `led_buttons` | PB0 presses, a second device that shares three address bytes, failing procedures and lost links at any time | `TypeOK`; `DiscoveryStallsOnlyWithoutHandles`; `WaitMeansReady`: `stateWAIT` without an error or a press since the link came up means handles, flag and subscription are there; `ScreenAgrees`: no key is shown without a connection; `IdleBoardScans` | 2.4M |
| `led_live` | fair, no presses, no failures, protected subscription, both pairing methods | `DiscoveryHasWakeup`: a waiting state has a procedure, a completion or a close on its way; `ScreenAgrees`: bond and prompt rows; `LinkGetsDiscovered`: a link that lasts reaches `stateWAIT` | 2.9k |
| `remote` | the pair, one key, both boards reset at any time | `SubscriptionAgrees`: a subscription the LED board believes in is one the keypad board serves; `ValuesMirrored`: the pair implements `Mirror` | 1.1M |
| `remote_live` | the pair, fair, both boards reset | `BoardsConverge`: when faults stop, the pair ends connected, discovered and subscribed | 3.3k |
| `sleeptimer` | two timers of two priorities, one needing the high-frequency clock | `TypeOK`; `TimersKept`: implements `Timers`; `WakeupSet`: a match is set for the first timer; `PlannedInTime`: no plan is later than the timer is due; `TickCountAgrees`: the two halves of the 64-bit count belong together, and no overflow is missed, whoever asks whenever | 1.7M |
| `power` | timers of 1 to 8 ticks, up to three requirements | `TypeOK`; `RequirementsBalanced`, `ClocksWhereNeeded`, `RestoreStartsInTime`, `ListenersKnowMode` | 1.0k |
| `display` | three rows, six texts | `TypeOK`; `CleanLinesShown`: an unmarked line is on the panel, at every step of an update; `ScreenKept`: implements `Screen` | 58k |

Each property is broken by a plausible mutation of the code (`mutants` in
`PROJECT.json`; the mutated forms stand in the modules, marked *Mutant*).

`LinkGetsDiscovered` is checked without presses because with them it does not hold:
a press whose procedure is still running when the opened event is handled makes the
first discovery command refused (`scheduler.c:114`), the state stays `stateOPEN`, and
no other event starts discovery. `WaitMeansReady` holds with presses because it speaks
of connections without one. In `RemoteControl` nobody presses the LED board's button for
the same reason.

Three disagreements between what the sources say and what the code does, each the
one property of a run that TLC finds violated:

| Run | Said | Done |
|---|---|---|
| `keypad_coalesced` | README: key presses and releases are detected and translated | edges of both keys merge into one mask that matches neither test (`ble.c:184`); the change is not translated |
| `led_strangers` | `ble.c:407-410`: the connection is opened if the address is the keypad board's, "all the address bytes match" | matching bytes are counted on over several reports (`ble.c:416`); two of a device of the same maker, three bytes each, make six, and the board connects to it |
| `remote_leds` | README: the LED strip is controlled by the keys pressed | one byte, 0, 1 or 2, is sent and three bytes are tested as flags (`ble.c:540`); a working, quiet pair shows another pattern than the key's |

Other readings of the code, which the models keep as they are: `notif_in_flight` is set
by a notification and cleared only by a confirmation, never by a close, so a board with no
foreign confirmation sends one notification per reset (`ble.c:740`); PB0's own signal is
never raised (`irq.c:31`), so no press confirms a passkey ("Confirm with PB0") and its
edges count as the even key's; any procedure's completion advances discovery, a button's too
(`scheduler.c:129`); the
notification flag is turned over although the request was refused (`ble.c:629`); the value
handler reads again after every value, until a read is refused or fails (`ble.c:538`).

### Bounds

* `MaxQueue` bounds the waiting events: an event the environment would queue beyond it
  comes later. In `keypad_link` two suffice for a close and an open, or an open and a
  configuration, to wait at once; `keypad_keys`, whose subject is the signals beside the queue, has one; the theorems hold for every length. The LED board takes
  three: an open, a close, and a completion or report between them. The pair takes 2 and 3.
* `MaxConfirmations` 1 lets a notification be sent, the latch be cleared by a foreign
  confirmation, and a second one be sent and held.
* `MaxCheck` bounds the `address_check` at which a report is still received; 6 is an exact
  match, and the 9 of `led_buttons` lets the count go past it. Two handles, because the stack may give a new connection a new one and stale ones
  are the hazard.
* Buttons: both keys in `keypad_keys`, where merging matters; PB0 in `keypad_link` and
  `led_buttons`, because it reaches the handlers as an even key's edge; the odd key in `remote`.
* In `led_live` only passkey entry completes a pairing: nothing on the LED board can
  confirm a comparison, since PB0's signal is never raised.
* `Sleeptimer`: `Width` 9 lets timeouts of 1 and 4 and their sums cross an overflow, and is the
  least that `TimeScale` (section 4) allows with them; `Latency` 1 and `MaxLate` 2 let an
  interrupt come after the next expiry; `RestoreDelay` 3 is longer than one timeout and shorter
  than the other.
* `PowerManager`: with `WakeupDelay` 3, `MinimumOfftime` 1 and `Latency` 2 the timeouts 1, 2, 4 and
  8 fall below, at and above each threshold of `evaluate_wakeup()`. Drivers hold up to three
  requirements, beside the power manager's own.
* `Display`: three rows on 8 lines with words of 4 flags. The second row crosses a word,
  and the last ends on the last line of the panel, as rows 3, 6, 9 and 12 of the real
  display (128 lines, words of 32, a row every 10 lines) cross or end.

### Fairness

On either board: weak fairness of the interrupt handlers (a flagged, enabled
interrupt is taken), of the delivery of the signal mask and of the signal handler (the main
loop calls the stack for ever, `main.c`), strong fairness of `HandleEvent` (a signal
in hand disables the others for a moment, but the stack's queue is served). On the
LED board also of the peer's answers and of procedures ending (a live BLE link either
answers within the ATT timeout or is closed); strong, because other events interleave.

For the pair: advertisements are heard, links open and notifications arrive if tried for
ever (strong), and a board notices the loss of a link the other no longer has
(`~Connected /\ KeypadLosesLink`: supervision timeout). Nothing is assumed of users. `BoardsConverge` has as premise that faults stop: a link both
have is no longer lost, requests are heard, nobody is reset. Deadlock is checked in
every run.

## 4. What is proved

All theorems are for every value of the constants, under the named assumptions of
the module that declares them.

**Keypad board** (`KeypadBoardProofs`, `KeypadLinkProofs`)

* `TypeCorrect`: `Spec => []TypeOK`. One lemma per group of actions; queue
  operations through `TakeType` and `QueueType`.
* `NotificationsArePaced`: `sent <= confirmed + 1` is not inductive, as nothing in it
  says the latch is set after a send. The inductive `Paced` adds
  `~notif_in_flight => sent <= confirmed`.
* `AttributeIsRight`: `AttributeFollowsKeys` is inductive as it stands: an edge is
  outstanding as soon as the pin changes, every step on the way hands it on (`KeysKept`),
  and only the signal handler ends it, after reading the pins.
* `DrainedBoardAgrees`: a drained queue is the end of a story the property does not
  tell. `Life` tells it: the board is asleep (only the boot event waits), findable
  (advertising, nothing waits) or engaged, and while it is engaged an opened event can only
  be first in the queue, a closed event only last, each there exactly while
  application and stack disagree (`InOrder`).
* `LifeCycleImplemented`: with `Life`, every step of the board is a step of
  `Peripheral` or a stutter.
* `ScreenIsRight`: `OnConfirmBonding` clears `passkey_flag` but not the prompt, so the
  invariant must say no prompt stands when a bonding request is handled.
  `Standing(p, q, n)` is whether a prompt will stand after the first `n` events waiting;
  `PromptOrder` says it will not at a bonding request.

**LED board** (`LedBoardProofs`, `LedLinkProofs`)

* `TypeCorrect`.
* `IdleScans`: `IdleBoardScans`. `Scanned` says that a scanner that is off without a link has a
  boot or closed event waiting, which will start it. Needs no `SlowLoss`.
* `StallsOnlyWithoutHandles`, under `SlowLoss`. `Moving` adds what follows in the queue: a machine that runs
  without a link has a closed event waiting, an opened event whose link is gone has one
  behind it, and a found event has its procedure's end behind it. A command issued with all
  handles is then refused only while another procedure, or a closed event, is there, or because the connection
  handle is not right. `Announced` excludes that: with `SlowLoss` no report is left when a link is lost,
  so a refused second open is followed by the opened event of the link that is there.
* `ScreenIsRight`: `Ordered` says that there is a reading of the queue (`Believes`) by which
  opened and closed events take turns and every other event of a connection lies
  between its two.
* `WaitIsReady`, under `SlowLoss`. `Session` says what the queue may hold in each of four stages:
  asleep, free, connected, and parted, where one closed event comes last. With `SlowLoss` no
  event of an earlier session is left when the next begins, so what a state of discovery has
  found can be followed through the queue: `Phase` says, per state, which handles are stored, that
  a completion without an error has its handle stored or found before it (`Stored`), that one
  procedure is on its way, and that nothing only a subscriber gets comes without the
  subscription. It is claimed of sessions without an error or a press (`Phased`).
* `UndisturbedWakes`: from `Moved` (part of `Phase`) and `Moving`, on such a connection a waiting state has
  a procedure, a completion or a close on its way, whatever disturbed earlier ones.
* `DiscoveryWakes`: `DiscoveryHasWakeup` as the run checks it, under `CalmAssumed`: nobody presses,
  nothing fails, links are lost slowly and no other device in range shares one, two or three bytes of
  the address (`ApartAssumed`; `Counted` shows that nothing but the keypad board is then connected to), which
  is what `led_live` instantiates. `Calm` says that then no searched session is ever disturbed.

**The pair** (`RemoteControlProofs`). Both boards' proof modules are instantiated, as
the boards are in `RemoteControl`: a step of the pair is a step of a board, its
environment's, or its reset (`LedProjection`, `KeypadProjection`), so the
boards' invariants hold of the pair (`Alone`).

* `SubscriptionIsShared`: `Agreed` says that a subscription of a connection both have is known to
  the keypad board or waits in its queue, and that nothing else is ever configured.
* `ValuesAreMirrored`: the pair implements `Mirror`. The values under way are those in the LED
  board's queue followed by what is in the air (`InAir`); each kind of step is a step of `Mirror` or a
  stutter: an answer asked for, a value written, one acted on, a session begun or ended. The values in a
  queue are a recursive function; `ValuesAreTold` shows by `SetInduction` that it is what its
  definition says for every queue, and `ValuesQueued`, `ValuesTaken` what an
  event more or less does to it.

**Sleep timer** (`SleeptimerProofs`). The list holds differences, so every statement about
a timer is one about a sum. `Plans(list, t, n)` says that `t` expires `n` ticks after the
list's last update. The lemmas about the three operations on the list
(`Inserted`, `Removed`, `Updated`) say that each leaves what the list plans for the
others as it was, less the ticks an update accounts for; everything after is stated with `Plans`.
Induction along a list goes through `LeastNumber`, as everything that would go wrong has a first place.

All of it is claimed for handles that are not shared by the thread and a callback, as section 2 says:
the invariants carry `shared # "spoiled"` or `shared = "no"` as their premise, and the steps that
share a handle end them.

* `SleepInv` holds for all constants: the types but for the bound on deltas, `OncePlanned` (a
  timer is in the list once, and the one in `create_timer()` is not in it unless a callback has
  started it), and `Fresh` (in the handler's loop the last update is at most a tick old).
* `WakeupIsSet`: `WakeupSet` is inductive with `SleepInv`.
* `PromiseKept`: the sleep timer implements `Timers`, for every width and latency. `NotEarly` says
  that no timer is planned before it is due, less the tick of a periodic one, and that a
  periodic timer's expected count is its due time modulo the width (`ExpectedWhenDue`). The
  correction of a late periodic timer then never takes back more than its lateness.
* `SleepTypeCorrect` and `PlansAreInTime` hold under `TimeScale`: the counter is wider than each
  timeout, the time to restore the fast clock and twice what a timer may be late. On the real board
  that is 2^32 ticks against seconds; without it a delta wraps and both are false.
  `NotLate` bounds each plan from above.
* `TickCountIsRight`, under `CounterOutlastsHandlers`: the counter does not go round twice while
  an overflow waits for its handler. `TickInv`: a pending overflow came while the handler that
  runs, or the one before, was at work, so the counter is at most `Latency + waited` past it. `ReadInv`: what has been read of the counter
  is a tick old at most, unless an overflow has been flagged since, and then it is read again.

**Power manager** (`PowerManagerProofs`). One inductive invariant `PowerInv` in four parts:
`FlagInv` (the flags are Boolean), `ModeInv` (the clocks are saved in EM2 and only there), `CountInv`
(the own requirement is counted exactly while its flag is set, and no driver requires EM1 in EM2),
`TimerInv` (asleep in EM2 the early wake-up precedes the first timer by the wake-up delay; woken, what
is left and what the handlers took still make up the delay).
From it `TypeCorrect`, `RequirementsAreBalanced`, `ClocksAreThere`, `RestoreIsInTime`,
`ListenersAreTold`. Assumption: `Latency < WakeupDelay`.

**Display** (`DisplayProofs`), for panels, fonts and words of any size in which rows fit and
words are whole, and texts that are sequences of characters.

* `TypeCorrect`: the loop never counts beyond the panel and reads at most one word behind the array.
* `CleanLinesAreShown`. `DisplayInv` adds to the property what the loop knows at
  its line: the flags in hand are those of the line and of what is left of its word
  (`FlagsInHand`), and every line before the open series is on the panel (`Scan`).
* `ScreenIsKept`: the display implements `Screen`. `InOneTransfer` says that the marked lines of an
  update are those of the row printed, all reading its text, and that the open series is
  still before that row or grows over it; so the row reaches the panel in one transfer.
  The erasing string covers what any earlier text left, whatever the lengths.

The strengthenings (`Life`, `PromptOrder`, `Moving`, `Scanned`, `Session`, `Phased`, `Calm`, `Agreed`,
`OncePlanned`, `NotEarly`, `NotLate`, `PowerInv`, `InOneTransfer` and the others) were model-checked on
the instances of the runs before they were proved, those of the sleep timer on widths
from 2 up as well.

Every safety property of a passing run, and every refinement, is stated by a theorem. Only
model-checked: all liveness, which is out of this prover's reach (`LostLinkReadvertised`,
`EdgeReachesAttribute`, `LinkGetsDiscovered`, `BoardsConverge`). That the theorems' hypotheses
(`SlowLoss`, `CalmAssumed`, `ApartAssumed`, `TimeScale`, `CounterOutlastsHandlers`) can be met is shown by the
runs, which instantiate them.

## 5. Not modelled, and why

* Start-up and clock selection (`oscillators.c`, `gpioInit`): straight-line code with one
  compile-time outcome.
* LED patterns: how long they block the event loop (`ble.c:655`) is a question of milliseconds, which
  no model here counts; that the pattern shown is that of the value is in `LedBoard`.
* EXTCOMIN (a pin toggled every second by a soft timer), logging, the advertising and connection
  parameters: they influence nothing else.
* Of the SDK: emlib, the register headers, the radio library and the Bluetooth stack's binary. The
  headers are most of the repository's lines and have no behaviour; the stack is modelled from how the
  program uses it and marked external. Of the sleep timer the calendar and unit conversions, of the
  power manager EM1P and EM3, which this device and this configuration do not use.
* Boot loader scripts and image properties: build tooling.

## 6. What is left

LED presses in the composition, with the notification flag against the subscription; the start
with timeout 0 of the sleep timer; how far rewriting the compare register can put a match off.
