------------------------------ MODULE KeypadBoard ------------------------------
(***************************************************************************)
(* The keypad board: the DEVICE_IS_BLE_SERVER build. Its application code  *)
(* is one callback, sl_bt_on_event(), which runs every event of the        *)
(* Bluetooth stack first through handle_ble_event_server() and then        *)
(* through keypad_server_state_machine(). Events are handled one at a      *)
(* time and to the end; button interrupts preempt them (KeySignals).       *)
(*                                                                         *)
(* The stack, the radio and the central that connects are external: they   *)
(* are modelled by the calls the code makes and the events it handles.     *)
(***************************************************************************)
EXTENDS KeySignals, Naturals, Sequences

CONSTANTS
  Handles,          \* connection handles the stack may give a connection
  NoHandle,         \* no connection; also a handle variable's value at reset
  MaxQueue,         \* bound: events waiting for the application
  MaxConfirmations, \* bound: confirmations of indications the stack sent itself
  PairMethods,      \* pairing methods the central's input and output allow
  Buttons           \* the buttons somebody uses

ASSUME HandlesAssumption == NoHandle \notin Handles
ASSUME BoundsAssumption  == MaxQueue \in Nat /\ MaxConfirmations \in Nat
ASSUME ButtonsAssumption == Buttons \subseteq Pins
ASSUME PairMethodsAssumption == PairMethods \subseteq {"comparison", "entry"}

VARIABLES
  \* the application's static data (ble_data, currentState) and its outputs
  connection_open, ok_to_send_htm_notif, notif_in_flight, bonding_flag,
  passkey_flag, connection_handle, handle_for_client, currentState,
  lcd,         \* what the LCD rows show
  button,      \* the Button_input attribute of the local GATT database
  \* the Bluetooth stack and the central, as far as this code can tell
  advertising, \* the advertising set is started
  link,        \* the handle of the connection, NoHandle without one
  cccd,        \* what the central wrote to the configuration of Button_input
  pairing,     \* how far the pairing on the connection has come
  evq,         \* events the stack has for the application, oldest first
  air,         \* notifications handed to the radio and not yet received
  \* history, read by properties only
  sent,        \* notifications the stack accepted since the reset
  confirmed,   \* confirmation events handled since the reset
  missed       \* the last signal handled left the attribute alone

appVars   == <<connection_open, ok_to_send_htm_notif, notif_in_flight,
               bonding_flag, passkey_flag, connection_handle,
               handle_for_client, currentState, lcd, button>>
stackVars == <<advertising, link, cccd, pairing, evq, air>>
histVars  == <<sent, confirmed, missed>>
vars      == <<keyVars, appVars, stackVars, histVars>>

-----------------------------------------------------------------------------
States       == {"stateIDLE", "stateKEYPAD_TO_GATT"}
ConnRows     == {"blank", "Advertising", "Connected", "Bonded", "Failed"}
KeyRows      == {"blank", "No Button", "Button ODD", "Button EVEN"}
ButtonValues == 0..2
PairingSteps == {"idle", "requested", "exchanging", "comparing", "answered", "bonded"}
EventIds     == {"boot", "opened", "closed", "characteristic_status",
                 "confirm_bonding", "confirm_passkey", "bonded", "bonding_failed"}
\* What a characteristic_status event is about: the configuration of
\* Button_input, that of another characteristic, or a confirmation.
StatusArgs   == {"disable", "notification", "other", "confirmation"}

AnyHandle == Handles \cup {NoHandle}
Events    == [id : EventIds, conn : AnyHandle, arg : StatusArgs \cup {"none"}]
Event(id) == [id |-> id, conn |-> link, arg |-> "none"]

TypeOK ==
  /\ KeyTypeOK
  /\ connection_open \in BOOLEAN
  /\ ok_to_send_htm_notif \in BOOLEAN
  /\ notif_in_flight \in BOOLEAN
  /\ bonding_flag \in BOOLEAN
  /\ passkey_flag \in BOOLEAN
  /\ connection_handle \in AnyHandle
  /\ handle_for_client \in AnyHandle
  /\ currentState \in States
  /\ lcd \in [conn : ConnRows, prompt : BOOLEAN, key : KeyRows, notif : BOOLEAN]
  /\ button \in ButtonValues
  /\ advertising \in BOOLEAN
  /\ link \in AnyHandle
  /\ cccd \in {"disable", "notification"}
  /\ pairing \in PairingSteps
  /\ evq \in Seq(Events)
  /\ air \in Seq(ButtonValues)
  /\ sent \in Nat
  /\ confirmed \in Nat
  /\ missed \in BOOLEAN

\* After reset: static data is zero, and the stack has one event to deliver.
Init ==
  /\ KeyInit
  /\ connection_open = FALSE
  /\ ok_to_send_htm_notif = FALSE
  /\ notif_in_flight = FALSE
  /\ bonding_flag = FALSE
  /\ passkey_flag = FALSE
  /\ connection_handle = NoHandle
  /\ handle_for_client = NoHandle
  /\ currentState = "stateIDLE"
  /\ lcd = [conn |-> "blank", prompt |-> FALSE, key |-> "blank", notif |-> FALSE]
  /\ button = 0
  /\ advertising = FALSE
  /\ link = NoHandle
  /\ cccd = "disable"
  /\ pairing = "idle"
  /\ evq = <<[id |-> "boot", conn |-> NoHandle, arg |-> "none"]>>
  /\ air = <<>>
  /\ sent = 0
  /\ confirmed = 0
  /\ missed = TRUE

-----------------------------------------------------------------------------
(* handle_ble_event_server(): one action per case of the switch.           *)

\* sl_bt_on_event() gets the oldest event; not while a signal is in hand.
Take(id) ==
  /\ signal = {}
  /\ evq # <<>>
  /\ Head(evq).id = id
  /\ evq' = Tail(evq)

\* Mutant: the advertiser is not restarted while a connection is believed open.
advertiser_startIfNotOpen == advertising' = ~connection_open

\* sl_bt_advertiser_start(): takes the result for granted, as the code does.
advertiser_start == advertising' = TRUE

\* Mutant: the passkey rows are not cleared.
AdvertisingScreenWithPrompt ==
  [conn |-> "Advertising", prompt |-> lcd.prompt, key |-> "blank", notif |-> FALSE]

\* The rows after displayInit() and after a close. CONNECTION is one row, PASSKEY
\* and ACTION are written together, then ROW_9 and TEMPVALUE.
AdvertisingScreen ==
  [conn |-> "Advertising", prompt |-> FALSE, key |-> "blank", notif |-> FALSE]

OnBoot ==
  /\ Take("boot")
  /\ bonding_flag' = FALSE
  /\ passkey_flag' = FALSE
  /\ advertiser_start
  /\ lcd' = AdvertisingScreen
  /\ UNCHANGED <<keyVars, histVars, connection_open, ok_to_send_htm_notif,
                 notif_in_flight, connection_handle, handle_for_client,
                 currentState, button, link, cccd, pairing, air>>

OnOpened ==
  /\ Take("opened")
  /\ connection_open' = TRUE
  /\ advertising' = FALSE
  /\ handle_for_client' = Head(evq).conn
  /\ lcd' = [lcd EXCEPT !.conn = "Connected"]
  /\ UNCHANGED <<keyVars, histVars, ok_to_send_htm_notif, notif_in_flight,
                 bonding_flag, passkey_flag, connection_handle, currentState,
                 button, link, cccd, pairing, air>>

\* ok_to_send_htm_notif, notif_in_flight, the handles and the keypad state
\* survive the connection. Bondings are deleted, so nothing of the pairing does.
OnClosed ==
  /\ Take("closed")
  /\ connection_open' = FALSE
  /\ bonding_flag' = FALSE
  /\ passkey_flag' = FALSE
  /\ advertiser_start
  /\ lcd' = AdvertisingScreen
  /\ UNCHANGED <<keyVars, histVars, ok_to_send_htm_notif, notif_in_flight,
                 connection_handle, handle_for_client, currentState, button,
                 link, cccd, pairing, air>>

\* Mutant: the test for the odd key is missing.
IsKeySignalEvenOnly(s) == s = {evt_button_even_pressed}

\* extsignals == evt_button_even_pressed || extsignals == evt_button_odd_pressed
IsKeySignal(s) == s = {evt_button_even_pressed} \/ s = {evt_button_odd_pressed}

\* Mutant: two keys held down are reported as the sum of their codes.
KeyValueSum ==
  (IF OddKey \in low THEN 1 ELSE 0) + (IF EvenKey \in low THEN 2 ELSE 0)

\* The pins are read when the event is handled, the odd key first.
KeyValue == IF OddKey \in low THEN 1 ELSE IF EvenKey \in low THEN 2 ELSE 0
KeyRow(v) == CASE v = 1 -> "Button ODD" [] v = 2 -> "Button EVEN" [] OTHER -> "No Button"

\* sl_bt_gatt_server_send_notification(): refused without a subscription on
\* that connection; it may also be refused for want of a buffer.
StackSends(conn) == link # NoHandle /\ conn = link /\ cccd = "notification"

\* Mutant: the attribute is written only along with a notification.
button_state_to_gattIfClear(value) ==
  /\ button' = IF notif_in_flight THEN button ELSE value
  /\ \/ /\ ~notif_in_flight
        /\ StackSends(connection_handle)
        /\ notif_in_flight' = TRUE
        /\ air' = Append(air, value)
        /\ sent' = sent + 1
     \/ UNCHANGED <<notif_in_flight, air, sent>>

\* Mutant: a notification is not remembered as being in flight.
button_state_to_gattUnmarked(value) ==
  /\ button' = value
  /\ \/ /\ ~notif_in_flight
        /\ StackSends(connection_handle)
        /\ air' = Append(air, value)
        /\ sent' = sent + 1
     \/ UNCHANGED <<air, sent>>
  /\ UNCHANGED notif_in_flight

\* Mutant: the notification carries the attribute as it was before.
button_state_to_gattOld(value) ==
  /\ button' = value
  /\ \/ /\ ~notif_in_flight
        /\ StackSends(connection_handle)
        /\ notif_in_flight' = TRUE
        /\ air' = Append(air, button)
        /\ sent' = sent + 1
     \/ UNCHANGED <<notif_in_flight, air, sent>>

\* The attribute is always written, the notification only sent while none is
\* believed to be in flight; a refusal is logged and forgotten.
button_state_to_gatt(value) ==
  /\ button' = value
  /\ \/ /\ ~notif_in_flight
        /\ StackSends(connection_handle)
        /\ notif_in_flight' = TRUE
        /\ air' = Append(air, value)
        /\ sent' = sent + 1
     \/ UNCHANGED <<notif_in_flight, air, sent>>

\* keypad_server_state_machine(), run on the same event after the handler.
KeypadNext ==
  CASE currentState = "stateIDLE" /\ IsKeySignal(signal) -> "stateKEYPAD_TO_GATT"
    [] currentState = "stateKEYPAD_TO_GATT" /\ ok_to_send_htm_notif -> "stateIDLE"
    [] OTHER -> currentState
keypad_server_state_machine ==
  currentState' = IF connection_open THEN KeypadNext ELSE currentState

\* The handler's PB0 branch: sl_bt_sm_passkey_confirm() on a bonded link.
ConfirmsPasskey == bonding_flag /\ signal = {evt_pb0_pressed}

ActsOnKeys == ok_to_send_htm_notif /\ IsKeySignal(signal)

OnExternalSignal ==
  /\ signal # {}
  /\ signal' = {}
  /\ pairing' = IF ConfirmsPasskey /\ handle_for_client = link /\ pairing = "comparing"
                  THEN "answered" ELSE pairing
  /\ keypad_server_state_machine
  /\ lcd' = [lcd EXCEPT !.key = IF ActsOnKeys THEN KeyRow(KeyValue) ELSE @,
                        !.notif = @ \/ (currentState = "stateKEYPAD_TO_GATT"
                                          /\ currentState' = "stateIDLE")]
  /\ missed' = ~ActsOnKeys
  /\ IF ActsOnKeys THEN button_state_to_gatt(KeyValue)
                   ELSE UNCHANGED <<button, notif_in_flight, air, sent>>
  /\ UNCHANGED <<low, intf, pending, connection_open, ok_to_send_htm_notif,
                 bonding_flag, passkey_flag, connection_handle, handle_for_client,
                 advertising, link, cccd, evq, confirmed>>

\* Which subscription state an event reports; a confirmation of any
\* characteristic counts as the end of the notification in flight.
OnCharacteristicStatus ==
  /\ Take("characteristic_status")
  /\ LET arg == Head(evq).arg IN
     /\ connection_handle' = IF arg \in {"disable", "notification"}
                             THEN Head(evq).conn ELSE connection_handle
     /\ ok_to_send_htm_notif' = CASE arg = "disable" -> FALSE
                                  [] arg = "notification" -> TRUE
                                  [] OTHER -> ok_to_send_htm_notif
     /\ lcd' = [lcd EXCEPT !.notif = @ /\ arg # "disable"]
     /\ notif_in_flight' = (notif_in_flight /\ arg # "confirmation")
     /\ confirmed' = IF arg = "confirmation" THEN confirmed + 1 ELSE confirmed
  /\ UNCHANGED <<keyVars, connection_open, bonding_flag, passkey_flag,
                 handle_for_client, currentState, button, advertising, link,
                 cccd, pairing, air, sent, missed>>

OnBonded ==
  /\ Take("bonded")
  /\ bonding_flag' = TRUE
  /\ lcd' = [lcd EXCEPT !.conn = "Bonded", !.prompt = FALSE]
  /\ UNCHANGED <<keyVars, histVars, connection_open, ok_to_send_htm_notif,
                 notif_in_flight, passkey_flag, connection_handle,
                 handle_for_client, currentState, button, advertising, link,
                 cccd, pairing, air>>

\* sl_bt_sm_bonding_confirm() lets the pairing go on, if the link still is.
OnConfirmBonding ==
  /\ Take("confirm_bonding")
  /\ passkey_flag' = FALSE
  /\ pairing' = IF handle_for_client = link /\ pairing = "requested"
                THEN "exchanging" ELSE pairing
  /\ UNCHANGED <<keyVars, histVars, connection_open, ok_to_send_htm_notif,
                 notif_in_flight, bonding_flag, connection_handle,
                 handle_for_client, currentState, lcd, button, advertising,
                 link, cccd, air>>

OnConfirmPasskey ==
  /\ Take("confirm_passkey")
  /\ passkey_flag' = TRUE
  /\ lcd' = [lcd EXCEPT !.prompt = TRUE]
  /\ UNCHANGED <<keyVars, histVars, connection_open, ok_to_send_htm_notif,
                 notif_in_flight, bonding_flag, connection_handle,
                 handle_for_client, currentState, button, advertising, link,
                 cccd, pairing, air>>

OnBondingFailed ==
  /\ Take("bonding_failed")
  /\ bonding_flag' = FALSE
  /\ passkey_flag' = FALSE
  /\ lcd' = [lcd EXCEPT !.conn = "Failed", !.prompt = FALSE]
  /\ UNCHANGED <<keyVars, histVars, connection_open, ok_to_send_htm_notif,
                 notif_in_flight, connection_handle, handle_for_client,
                 currentState, button, advertising, link, cccd, pairing, air>>

HandleEvent ==
  \/ OnBoot
  \/ OnOpened
  \/ OnClosed
  \/ OnCharacteristicStatus
  \/ OnBonded
  \/ OnConfirmBonding
  \/ OnConfirmPasskey
  \/ OnBondingFailed

-----------------------------------------------------------------------------
(* The Bluetooth stack, the link and the central (external).               *)

Queue(e) == Len(evq) < MaxQueue /\ evq' = Append(evq, e)

\* A connectable advertiser is connected to; advertising stops by itself.
CentralConnects(h) ==
  /\ advertising /\ link = NoHandle
  /\ link' = h
  /\ advertising' = FALSE
  /\ cccd' = "disable"
  /\ Queue([id |-> "opened", conn |-> h, arg |-> "none"])
  /\ UNCHANGED <<keyVars, appVars, histVars, pairing, air>>

\* The link is lost or closed, at any moment and with anything on it.
LinkDrops ==
  /\ link # NoHandle
  /\ link' = NoHandle
  /\ cccd' = "disable"
  /\ pairing' = "idle"
  /\ air' = <<>>
  /\ Queue(Event("closed"))
  /\ UNCHANGED <<keyVars, appVars, histVars, advertising>>

\* The central writes a client characteristic configuration.
CentralConfigures(arg) ==
  /\ link # NoHandle
  /\ cccd' = IF arg = "other" THEN cccd ELSE arg
  /\ Queue([id |-> "characteristic_status", conn |-> link, arg |-> arg])
  /\ UNCHANGED <<keyVars, appVars, histVars, advertising, link, pairing, air>>

\* The central confirms an indication the stack sent on its own account. This
\* application sends notifications only, and those are never confirmed.
IndicationConfirmed ==
  /\ link # NoHandle
  /\ confirmed < MaxConfirmations
  /\ \A i \in 1..Len(evq) : evq[i].arg # "confirmation"
  /\ Queue([id |-> "characteristic_status", conn |-> link, arg |-> "confirmation"])
  /\ UNCHANGED <<keyVars, appVars, histVars, advertising, link, cccd, pairing, air>>

NotificationReceived ==
  /\ air # <<>>
  /\ air' = Tail(air)
  /\ UNCHANGED <<keyVars, appVars, histVars, advertising, link, cccd, pairing, evq>>

\* One step of the pairing procedure, with the event it raises.
Pairs(from, to, id) ==
  /\ link # NoHandle
  /\ pairing \in from
  /\ pairing' = to
  /\ Queue(Event(id))
  /\ UNCHANGED <<keyVars, appVars, histVars, advertising, link, cccd, air>>

PairingRequested == PairMethods # {} /\ Pairs({"idle"}, "requested", "confirm_bonding")
PasskeyCompared  == "comparison" \in PairMethods
                      /\ Pairs({"exchanging"}, "comparing", "confirm_passkey")
\* Passkey entry needs no answer here: the event that carries the passkey has
\* no case in the switch.
PairingCompletes == Pairs({"answered"} \cup
                          (IF "entry" \in PairMethods THEN {"exchanging"} ELSE {}),
                          "bonded", "bonded")
PairingFails     == Pairs({"requested", "exchanging", "comparing", "answered"},
                          "idle", "bonding_failed")

Interrupts == GPIO_EVEN_IRQHandler \/ GPIO_ODD_IRQHandler

Environment ==
  \/ \E p \in Buttons : Edge(p) /\ UNCHANGED <<appVars, stackVars, histVars>>
  \/ Interrupts /\ UNCHANGED <<appVars, stackVars, histVars>>
  \/ RaiseSignalEvent /\ UNCHANGED <<appVars, stackVars, histVars>>
  \/ \E h \in Handles : CentralConnects(h)
  \/ LinkDrops
  \/ \E arg \in {"disable", "notification", "other"} : CentralConfigures(arg)
  \/ IndicationConfirmed
  \/ NotificationReceived
  \/ PairingRequested
  \/ PasskeyCompared
  \/ PairingCompletes
  \/ PairingFails

Next == OnExternalSignal \/ HandleEvent \/ Environment

Spec == Init /\ [][Next]_vars

\* Interrupts are taken, and the stack delivers: a set signal bit becomes an
\* event, an event is handled, and signal events do not starve the others.
Fairness ==
  /\ WF_vars(GPIO_EVEN_IRQHandler /\ UNCHANGED <<appVars, stackVars, histVars>>)
  /\ WF_vars(GPIO_ODD_IRQHandler /\ UNCHANGED <<appVars, stackVars, histVars>>)
  /\ WF_vars(RaiseSignalEvent /\ UNCHANGED <<appVars, stackVars, histVars>>)
  /\ WF_vars(OnExternalSignal)
  /\ SF_vars(HandleEvent)

FairSpec == Spec /\ Fairness

-----------------------------------------------------------------------------
(* Properties that hold.                                                   *)

\* Every notification but the first waits for a confirmation event, across any
\* number of connections (button_state_to_gatt and notif_in_flight).
NotificationsPaced == sent <= confirmed + 1

\* When every edge has been worked off and the last signal was acted on, the
\* GATT attribute is what the keys are now, although the pins are read long
\* after the interrupt and both may have changed in between.
AttributeFollowsKeys == ~SignalOutstanding /\ ~missed => button = KeyValue

\* Once no event is waiting, the application's idea of the connection is the
\* stack's, and without a connection the board can be found: opening stops the
\* advertiser and closing starts it, however quickly they follow each other.
DrainedBoardAgreesWithStack ==
  evq = <<>> => /\ connection_open <=> link # NoHandle
                /\ advertising <=> link = NoHandle
                /\ link # NoHandle => handle_for_client = link

\* The board implements Peripheral: its queue delivers an opened and a closed event
\* for every connection, in turn, and OnOpened and OnClosed stop and start the
\* advertiser so that no central comes in between.
BootHandled == evq = <<>> \/ evq[1].id # "boot"

P == INSTANCE Peripheral WITH
  awake <- BootHandled, findable <- advertising,
  connected <- link # NoHandle, known <- connection_open

LifeCycle == P!Spec

\* The LCD shows what the flags say: a live connection, a bonded one, and a
\* passkey to confirm only on a connection whose comparison is under way.
ScreenAgrees ==
  /\ lcd.conn \in {"Connected", "Bonded", "Failed"} <=> connection_open
  /\ lcd.conn = "Bonded" <=> bonding_flag
  /\ lcd.prompt => passkey_flag /\ connection_open

\* A board that lost its central advertises again (OnClosed, advertiser_start).
LostLinkReadvertised == (link = NoHandle /\ connection_open) ~> advertising

\* An edge on a key is followed by the attribute being what the keys are, unless the
\* central is not subscribed or the stack hands over both signals at once (irq.c to
\* button_state_to_gatt).
EdgeReachesAttribute ==
  (intf # {} /\ ok_to_send_htm_notif)
    ~> \/ button = KeyValue
       \/ ~ok_to_send_htm_notif
       \/ {evt_button_even_pressed, evt_button_odd_pressed} \subseteq signal

-----------------------------------------------------------------------------
(* What the sources say of the program and the program does not do.        *)

\* README: the keypad side "detects key presses and releases, translates them
\* into corresponding data". Once the keys stop moving under a central that
\* stays subscribed, the attribute is what the keys are.
KeysStop == <>[][FALSE]_low
KeysAreTranslated ==
  KeysStop => (intf # {} /\ ok_to_send_htm_notif)
                ~> (button = KeyValue \/ ~ok_to_send_htm_notif)

=============================================================================
