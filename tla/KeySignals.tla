------------------------------ MODULE KeySignals ------------------------------
(***************************************************************************)
(* The three push buttons of a board and the way an edge on one of them    *)
(* reaches the event handler: pin level, GPIO interrupt flag, one of the   *)
(* two GPIO interrupt vectors (irq.c), the external-signal bits of the     *)
(* Bluetooth stack (scheduler.c) and the external-signal event.            *)
(*                                                                         *)
(* Both boards run this code: gpio.c, irq.c and scheduler.c are compiled   *)
(* into the keypad build and into the LED build alike.                     *)
(***************************************************************************)

\* The input pins gpioInit() configures, by port and pin number, each with an
\* interrupt on the rising and on the falling edge.
OddKey  == "PD11"
EvenKey == "PD12"
PB0     == "PF6"
Pins    == {OddKey, EvenKey, PB0}

\* The two interrupt vectors look at the odd and at the even pin numbers.
OddPins  == {OddKey}
EvenPins == {EvenKey, PB0}

\* enum myEvent. The stack ORs the bits: a set of signals is a bit mask, and
\* extsignals == evt_x in the code is equality with the singleton {evt_x}.
evt_button_even_pressed == "even"
evt_button_odd_pressed  == "odd"
evt_pb0_pressed         == "pb0"
Signals == {evt_button_even_pressed, evt_button_odd_pressed, evt_pb0_pressed}

VARIABLES
  low,       \* the pins that read 0: the buttons that are held down
  intf,      \* the GPIO interrupt flags that are set
  pending,   \* the signal bits the stack has collected and not yet handed out
  signal     \* the bits of the external-signal event being handled, {} if none

keyVars == <<low, intf, pending, signal>>

KeyTypeOK ==
  /\ low \subseteq Pins
  /\ intf \subseteq Pins
  /\ pending \subseteq Signals
  /\ signal \subseteq Signals

KeyInit ==
  /\ low = {}
  /\ intf = {}
  /\ pending = {}
  /\ signal = {}

-----------------------------------------------------------------------------
\* A button is pressed or released; either edge sets the pin's interrupt flag.
Edge(p) ==
  /\ low' = IF p \in low THEN low \ {p} ELSE low \cup {p}
  /\ intf' = intf \cup {p}
  /\ UNCHANGED <<pending, signal>>

\* sl_bt_external_signal(): the bits are ORed into the stack's mask.
ExternalSignal(s) == pending' = pending \cup {s}

schedulerSetEvent_Keypad_EVEN == ExternalSignal(evt_button_even_pressed)
schedulerSetEvent_Keypad_ODD  == ExternalSignal(evt_button_odd_pressed)

\* The handlers clear every flag of their vector and raise one signal, whatever
\* the pins were: PB0 sits on an even pin and raises the even keypad signal.
GPIO_EVEN_IRQHandler ==
  /\ intf \cap EvenPins # {}
  /\ intf' = intf \ EvenPins
  /\ schedulerSetEvent_Keypad_EVEN
  /\ UNCHANGED <<low, signal>>

GPIO_ODD_IRQHandler ==
  /\ intf \cap OddPins # {}
  /\ intf' = intf \ OddPins
  /\ schedulerSetEvent_Keypad_ODD
  /\ UNCHANGED <<low, signal>>

\* The stack hands the collected bits to the application as one event and
\* clears them. Interrupts can still come before the handler looks at a pin.
RaiseSignalEvent ==
  /\ signal = {}
  /\ pending # {}
  /\ signal' = pending
  /\ pending' = {}
  /\ UNCHANGED <<low, intf>>

\* A pin whose edge has not been worked off yet: flagged, signalled or in hand.
SignalOutstanding == intf \cup pending \cup signal # {}

=============================================================================
