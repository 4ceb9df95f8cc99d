------------------------------- MODULE LedBoard -------------------------------
(***************************************************************************)
(* The LED board: the client build. Every event of the Bluetooth stack     *)
(* runs first through handle_ble_event_client() and then through           *)
(* discovery_state_machine(), which finds the services of the keypad board *)
(* and subscribes to its button characteristic.                            *)
(*                                                                         *)
(* The stack, the radio and the devices around are external. The stack     *)
(* runs one GATT procedure at a time on a connection: a command given      *)
(* while another runs is refused, and each one ends with a                 *)
(* procedure-completed event.                                              *)
(***************************************************************************)
EXTENDS KeySignals, Naturals, Sequences

CONSTANTS
  Devices,          \* devices in radio range
  NoDevice,
  MatchingBytes,    \* address bytes a device has in common with SERVER_BT_ADDRESS
  Values,           \* values the keypad board's attribute takes
  Protected,        \* the configuration of Button_input needs a bonded link
  Failures,         \* a GATT procedure may end with an error
  TakesZeroHandle,  \* the stack takes a command with a handle never stored, 0
  SlowLoss,         \* a link outlives the scan reports queued before it opened
  PairMethods,      \* pairing methods the peer's input and output allow
  Buttons,          \* the buttons of this board somebody uses
  MaxQueue,         \* bound: events waiting for the application
  MaxCheck          \* bound: largest address_check a report is received at

ASSUME DevicesAssumption == NoDevice \notin Devices
ASSUME MatchAssumption   == MatchingBytes \in [Devices -> 0..6]
ASSUME ValuesAssumption  == Values \subseteq 0..2
ASSUME SwitchAssumption  == /\ Protected \in BOOLEAN /\ Failures \in BOOLEAN
                            /\ TakesZeroHandle \in BOOLEAN /\ SlowLoss \in BOOLEAN
ASSUME PairAssumption    == PairMethods \subseteq {"comparison", "entry"}
ASSUME ButtonsAssumption == Buttons \subseteq Pins
ASSUME BoundsAssumption  == MaxQueue \in Nat /\ MaxCheck \in Nat

VARIABLES
  \* the application's static data and outputs
  connection_open, bonding_flag, passkey_flag, button_notification_flag,
  address_check,
  connection_handle, \* it is the handle of the last connection opened
  saved,          \* which of the four attribute handles have been stored
  current_state,  \* discovery_state_machine()
  lcd,            \* what the LCD rows show
  led,            \* the LED_output attribute of the local GATT database
  \* the Bluetooth stack and the peer
  scanning,       \* the scanner is started
  link,           \* "none", "opening" or "up"
  peer,           \* the device that is being connected to or connected
  procedure,      \* the GATT procedure that runs, "none" without one
  answer,         \* what the peer answered it
  subscribed,     \* the peer notifies this board of Button_input
  pairing,
  evq,            \* events the stack has for the application, oldest first
  \* history, read by properties only
  undisturbed     \* since the link came up: no press, and no procedure went wrong

appVars   == <<connection_open, bonding_flag, passkey_flag,
               button_notification_flag, address_check, connection_handle, saved,
               current_state, lcd, led>>
stackVars == <<scanning, link, peer, procedure, answer, subscribed, pairing, evq>>
vars      == <<keyVars, appVars, stackVars, undisturbed>>

-----------------------------------------------------------------------------
Attributes == {"keypad_service", "LED_service", "keypad_char", "LED_char"}

\* GATT procedures by what they are for; each discovery has the attribute's name.
Procedures == Attributes \cup {"subscribe", "unsubscribe", "read"}
Results    == {"ok", "unencrypted", "failed"}

Waiting == {"stateDISCOVER_KEYPAD_SERVICES", "stateDISCOVER_LED_SERVICES",
            "stateDISCOVER_KEYPAD_CHARACTERISTICS",
            "stateDISCOVER_LED_CHARACTERISTICS", "stateKEYPADNOTIF"}
States  == Waiting \cup {"stateOPEN", "stateWAIT"}

ConnRows == {"blank", "Discovering", "Connected", "Bonded", "Failed"}
KeyRows  == {"blank", "No Button", "Button ODD", "Button EVEN"}

PlainIds == {"boot", "opened", "closed", "confirm_bonding", "confirm_passkey",
             "bonded", "bonding_failed"}
Event(id, arg) == [id |-> id, arg |-> arg]
Events ==
  [id : PlainIds, arg : {NoDevice}] \cup [id : {"scan_report"}, arg : Devices]
    \cup [id : {"completed"}, arg : Results] \cup [id : {"found"}, arg : Attributes]
    \cup [id : {"value"}, arg : Values]

TypeOK ==
  /\ KeyTypeOK
  /\ connection_open \in BOOLEAN
  /\ bonding_flag \in BOOLEAN
  /\ passkey_flag \in BOOLEAN
  /\ button_notification_flag \in BOOLEAN
  /\ address_check \in Nat
  /\ connection_handle \in BOOLEAN
  /\ saved \subseteq Attributes
  /\ current_state \in States
  /\ lcd \in [conn : ConnRows, prompt : BOOLEAN, key : KeyRows]
  /\ led \in 0..2
  /\ scanning \in BOOLEAN
  /\ link \in {"none", "opening", "up"}
  /\ peer \in Devices \cup {NoDevice}
  /\ procedure \in Procedures \cup {"none"}
  /\ answer \in {"none", "ok", "unencrypted"}
  /\ subscribed \in BOOLEAN
  /\ pairing \in {"idle", "requested", "exchanging", "comparing", "answered", "bonded"}
  /\ evq \in Seq(Events)
  /\ undisturbed \in BOOLEAN

Init ==
  /\ KeyInit
  /\ connection_open = FALSE
  /\ bonding_flag = FALSE
  /\ passkey_flag = FALSE
  /\ button_notification_flag = FALSE
  /\ address_check = 0
  /\ connection_handle = FALSE
  /\ saved = {}
  /\ current_state = "stateOPEN"
  /\ lcd = [conn |-> "blank", prompt |-> FALSE, key |-> "blank"]
  /\ led = 0
  /\ scanning = FALSE
  /\ link = "none"
  /\ peer = NoDevice
  /\ procedure = "none"
  /\ answer = "none"
  /\ subscribed = FALSE
  /\ pairing = "idle"
  /\ evq = <<Event("boot", NoDevice)>>
  /\ undisturbed = FALSE

-----------------------------------------------------------------------------
(* Commands to the stack.                                                  *)

\* What a procedure needs to know before it can be asked for.
Needs(proc) ==
  CASE proc = "keypad_char" -> {"keypad_service"}
    [] proc = "LED_char" -> {"LED_service"}
    [] proc \in {"subscribe", "unsubscribe", "read"} -> {"keypad_char"}
    [] OTHER -> {}

StackIdle == link = "up" /\ procedure = "none"

\* A GATT command on a connection handle that is right or not: taken if the connection
\* is up and no procedure runs on it. An attribute handle that was never stored is 0,
\* which the stack may refuse.
Issue(proc, right) ==
  \/ /\ right /\ StackIdle
     /\ TakesZeroHandle \/ Needs(proc) \subseteq saved
     /\ procedure' = proc
  \/ /\ ~(right /\ StackIdle /\ Needs(proc) \subseteq saved)
     /\ UNCHANGED procedure

-----------------------------------------------------------------------------
(* discovery_state_machine(): what each state asks for when the procedure  *)
(* before it has completed, whatever its result, and where it goes.        *)

\* Mutant: the keypad characteristic is asked for twice.
DiscoveryCopied ==
  [stateDISCOVER_KEYPAD_SERVICES |->
     [asks |-> "LED_service", next |-> "stateDISCOVER_LED_SERVICES"],
   stateDISCOVER_LED_SERVICES |->
     [asks |-> "keypad_char", next |-> "stateDISCOVER_KEYPAD_CHARACTERISTICS"],
   stateDISCOVER_KEYPAD_CHARACTERISTICS |->
     [asks |-> "keypad_char", next |-> "stateDISCOVER_LED_CHARACTERISTICS"],
   stateDISCOVER_LED_CHARACTERISTICS |->
     [asks |-> "subscribe", next |-> "stateKEYPADNOTIF"]]

\* Mutant: the subscription is forgotten, the last characteristic asked for again.
DiscoveryWithoutSubscribe ==
  [stateDISCOVER_KEYPAD_SERVICES |->
     [asks |-> "LED_service", next |-> "stateDISCOVER_LED_SERVICES"],
   stateDISCOVER_LED_SERVICES |->
     [asks |-> "keypad_char", next |-> "stateDISCOVER_KEYPAD_CHARACTERISTICS"],
   stateDISCOVER_KEYPAD_CHARACTERISTICS |->
     [asks |-> "LED_char", next |-> "stateDISCOVER_LED_CHARACTERISTICS"],
   stateDISCOVER_LED_CHARACTERISTICS |->
     [asks |-> "LED_char", next |-> "stateKEYPADNOTIF"]]

\* The machine itself.
Discovery ==
  [stateDISCOVER_KEYPAD_SERVICES |->
     [asks |-> "LED_service", next |-> "stateDISCOVER_LED_SERVICES"],
   stateDISCOVER_LED_SERVICES |->
     [asks |-> "keypad_char", next |-> "stateDISCOVER_KEYPAD_CHARACTERISTICS"],
   stateDISCOVER_KEYPAD_CHARACTERISTICS |->
     [asks |-> "LED_char", next |-> "stateDISCOVER_LED_CHARACTERISTICS"],
   stateDISCOVER_LED_CHARACTERISTICS |->
     [asks |-> "subscribe", next |-> "stateKEYPADNOTIF"]]

\* A refused command is logged and the state advances all the same.
DiscoveryOnCompleted ==
  \/ /\ current_state \in DOMAIN Discovery
     /\ Issue(Discovery[current_state].asks, connection_handle)
     /\ current_state' = Discovery[current_state].next
     /\ UNCHANGED button_notification_flag
  \/ /\ current_state = "stateKEYPADNOTIF"
     /\ button_notification_flag' = TRUE
     /\ current_state' = "stateWAIT"
     /\ UNCHANGED procedure
  \/ /\ current_state \in {"stateOPEN", "stateWAIT"}
     /\ UNCHANGED <<button_notification_flag, current_state, procedure>>

\* The handle is the event's; if that connection is lost by now, its closed event waits.
\* Only here is a refusal noticed: the state stays stateOPEN.
DiscoveryOnOpened ==
  IF current_state = "stateOPEN"
  THEN /\ connection_handle' = TRUE
       /\ Issue("keypad_service", TRUE)
       /\ current_state' = IF procedure' # procedure
                           THEN "stateDISCOVER_KEYPAD_SERVICES" ELSE current_state
  ELSE UNCHANGED <<connection_handle, procedure, current_state>>

\* Mutant: only stateWAIT looks at the closed event.
DiscoveryOnClosedFromWait ==
  current_state' = IF current_state = "stateWAIT" THEN "stateOPEN" ELSE current_state

\* Every state but stateOPEN has the branch.
DiscoveryOnClosed == current_state' = "stateOPEN"

-----------------------------------------------------------------------------
(* handle_ble_event_client(): one action per case of the switch, with the  *)
(* step discovery_state_machine() takes on the same event.                 *)

\* sl_bt_on_event() gets the oldest event; not while a signal is in hand.
Take(id) ==
  /\ signal = {}
  /\ evq # <<>>
  /\ Head(evq).id = id
  /\ evq' = Tail(evq)

\* Mutant: the scanner is not restarted while a connection is believed open.
scanner_startIfNotOpen == scanning' = ~connection_open

\* sl_bt_scanner_start(): takes the result for granted, as the code does.
scanner_start == scanning' = TRUE

OnBoot ==
  /\ Take("boot")
  /\ bonding_flag' = FALSE
  /\ passkey_flag' = FALSE
  /\ button_notification_flag' = FALSE
  /\ scanner_start
  /\ lcd' = [conn |-> "Discovering", prompt |-> FALSE, key |-> "blank"]
  /\ UNCHANGED <<keyVars, connection_open, address_check, connection_handle, saved,
                 current_state, led, link, peer, procedure, answer, subscribed, pairing,
                 undisturbed>>

OnOpened ==
  /\ Take("opened")
  /\ connection_open' = TRUE
  /\ lcd' = [lcd EXCEPT !.conn = "Connected"]
  /\ DiscoveryOnOpened
  /\ UNCHANGED <<keyVars, bonding_flag, passkey_flag, button_notification_flag,
                 address_check, saved, led, scanning, link, peer, answer,
                 subscribed, pairing, undisturbed>>

\* Mutant: ROW_9 is not cleared.
ClosedScreenWithKey == [lcd EXCEPT !.conn = "Discovering"]

\* Mutant: CONNECTION is not rewritten.
ClosedScreenBonded == [lcd EXCEPT !.key = "blank"]

\* CONNECTION is rewritten and ROW_9 cleared; PASSKEY and ACTION are left alone.
ClosedScreen == [lcd EXCEPT !.conn = "Discovering", !.key = "blank"]

\* button_notification_flag, address_check and the stored handles survive; the
\* rows that ask for the passkey are not cleared.
OnClosed ==
  /\ Take("closed")
  /\ connection_open' = FALSE
  /\ bonding_flag' = FALSE
  /\ passkey_flag' = FALSE
  /\ scanner_start
  /\ lcd' = ClosedScreen
  /\ DiscoveryOnClosed
  /\ undisturbed' = FALSE
  /\ UNCHANGED <<keyVars, button_notification_flag, address_check, connection_handle, saved,
                 led, link, peer, procedure, answer, subscribed, pairing>>

\* Six bytes of an address, one count for each that matches.
AllBytesMatch(check) == check = 6

\* address_check counts matching bytes over all reports since it was last 6.
\* sl_bt_connection_open() is refused while there is a connection; the handle it gives
\* is then not valid.
OnScanReport ==
  /\ Take("scan_report")
  /\ LET device == Head(evq).arg
         check  == address_check + MatchingBytes[device]
     IN \/ /\ AllBytesMatch(check) /\ link = "none"
           /\ address_check' = 0
           /\ scanning' = FALSE
           /\ link' = "opening" /\ peer' = device
           /\ connection_handle' = TRUE
        \/ /\ AllBytesMatch(check) /\ link # "none"
           /\ address_check' = 0
           /\ scanning' = FALSE
           /\ connection_handle' \in {connection_handle, FALSE}
           /\ UNCHANGED <<link, peer>>
        \/ /\ ~AllBytesMatch(check)
           /\ address_check' = check
           /\ UNCHANGED <<scanning, link, peer, connection_handle>>
  /\ UNCHANGED <<keyVars, connection_open, bonding_flag, passkey_flag,
                 button_notification_flag, saved, current_state, lcd, led,
                 procedure, answer, subscribed, pairing, undisturbed>>

\* 0x110F, insufficient encryption, makes the board start a pairing.
OnProcedureCompleted ==
  /\ Take("completed")
  /\ pairing' = IF Head(evq).arg = "unencrypted" /\ link = "up" /\ pairing = "idle"
                   /\ connection_handle
                THEN "exchanging" ELSE pairing
  /\ DiscoveryOnCompleted
  /\ undisturbed' = (undisturbed /\ Head(evq).arg = "ok")
  /\ UNCHANGED <<keyVars, connection_open, bonding_flag, passkey_flag,
                 address_check, connection_handle, saved, lcd, led, scanning, link, peer,
                 answer, subscribed>>

\* The service and the characteristic event: a handle is stored by its UUID.
OnFound ==
  /\ Take("found")
  /\ saved' = saved \cup {Head(evq).arg}
  /\ UNCHANGED <<keyVars, connection_open, bonding_flag, passkey_flag,
                 button_notification_flag, address_check, connection_handle, current_state,
                 lcd, led, scanning, link, peer, procedure, answer, subscribed, pairing,
                 undisturbed>>

\* Mutant: the codes of the tests that hold are added up.
ShownSum(nonzero) ==
  [key |-> lcd.key, led |-> (IF 1 \in nonzero THEN 1 ELSE 0) + (IF 2 \in nonzero THEN 2 ELSE 0)]

\* The three tests of the value handler, in order, each on one byte of the
\* event: the last one that holds decides. One byte came; the two after it are
\* what an earlier event left in the buffer.
Shown(nonzero) ==
  IF 0 \in nonzero THEN [key |-> "No Button", led |-> 0]
  ELSE IF 2 \in nonzero THEN [key |-> "Button EVEN", led |-> 2]
  ELSE IF 1 \in nonzero THEN [key |-> "Button ODD", led |-> 1]
  ELSE [key |-> lcd.key, led |-> led]

\* A notification or the answer to a read: the attribute is read again at once.
OnCharacteristicValue ==
  /\ Take("value")
  /\ IF "keypad_char" \in saved
     THEN /\ Issue("read", connection_handle)
          /\ \E stale \in SUBSET {1, 2} :
               LET shown == Shown(stale \cup (IF Head(evq).arg # 0 THEN {0} ELSE {}))
               IN  lcd' = [lcd EXCEPT !.key = shown.key] /\ led' = shown.led
     ELSE UNCHANGED <<procedure, lcd, led>>
  /\ UNCHANGED <<keyVars, connection_open, bonding_flag, passkey_flag,
                 button_notification_flag, address_check, connection_handle, saved,
                 current_state, scanning, link, peer, answer, subscribed, pairing, undisturbed>>

\* sl_bt_sm_bonding_confirm() gets handle_for_client, which this build never
\* sets: the stack refuses it and the pairing stays where it is.
OnConfirmBonding ==
  /\ Take("confirm_bonding")
  /\ passkey_flag' = FALSE
  /\ UNCHANGED <<keyVars, connection_open, bonding_flag, button_notification_flag,
                 address_check, connection_handle, saved, current_state, lcd, led, scanning,
                 link, peer, procedure, answer, subscribed, pairing, undisturbed>>

OnConfirmPasskey ==
  /\ Take("confirm_passkey")
  /\ passkey_flag' = TRUE
  /\ lcd' = [lcd EXCEPT !.prompt = TRUE]
  /\ UNCHANGED <<keyVars, connection_open, bonding_flag, button_notification_flag,
                 address_check, connection_handle, saved, current_state, led, scanning, link,
                 peer, procedure, answer, subscribed, pairing, undisturbed>>

OnBonded ==
  /\ Take("bonded")
  /\ bonding_flag' = TRUE
  /\ lcd' = [lcd EXCEPT !.conn = "Bonded", !.prompt = FALSE]
  /\ UNCHANGED <<keyVars, connection_open, passkey_flag, button_notification_flag,
                 address_check, connection_handle, saved, current_state, led, scanning, link,
                 peer, procedure, answer, subscribed, pairing, undisturbed>>

OnBondingFailed ==
  /\ Take("bonding_failed")
  /\ bonding_flag' = FALSE
  /\ passkey_flag' = FALSE
  /\ lcd' = [lcd EXCEPT !.conn = "Failed", !.prompt = FALSE]
  /\ UNCHANGED <<keyVars, connection_open, button_notification_flag, address_check,
                 connection_handle, saved, current_state, led, scanning, link, peer,
                 procedure, answer, subscribed, pairing, undisturbed>>

\* Any signal, whatever button raised it, turns the notifications over; the flag
\* follows the request, not its result.
OnExternalSignal ==
  /\ signal # {}
  /\ signal' = {}
  /\ pairing' = IF /\ signal = {evt_pb0_pressed} /\ PB0 \in low
                   /\ passkey_flag /\ ~bonding_flag
                   /\ link = "up" /\ pairing = "comparing" /\ connection_handle
                THEN "answered" ELSE pairing
  /\ Issue(IF button_notification_flag THEN "unsubscribe" ELSE "subscribe", connection_handle)
  /\ button_notification_flag' = ~button_notification_flag
  /\ undisturbed' = FALSE
  /\ UNCHANGED <<low, intf, pending, connection_open, bonding_flag, passkey_flag,
                 address_check, connection_handle, saved, current_state, lcd, led, scanning,
                 link, peer, answer, subscribed, evq>>

HandleEvent ==
  \/ OnBoot
  \/ OnOpened
  \/ OnClosed
  \/ OnScanReport
  \/ OnProcedureCompleted
  \/ OnFound
  \/ OnCharacteristicValue
  \/ OnConfirmBonding
  \/ OnConfirmPasskey
  \/ OnBonded
  \/ OnBondingFailed

-----------------------------------------------------------------------------
(* The Bluetooth stack and the peer (external).                            *)

Queued(id) == \E i \in 1..Len(evq) : evq[i].id = id
Queue(e) == Len(evq) < MaxQueue /\ evq' = Append(evq, e)

\* A device advertises while the scanner runs. No report is filtered out.
DeviceReported(d) ==
  /\ scanning
  /\ address_check + MatchingBytes[d] <= MaxCheck
  /\ Queue(Event("scan_report", d))
  /\ UNCHANGED <<keyVars, appVars, undisturbed, scanning, link, peer, procedure,
                 answer, subscribed, pairing>>

ConnectionOpens ==
  /\ link = "opening"
  /\ link' = "up"
  /\ Queue(Event("opened", NoDevice))
  /\ undisturbed' = TRUE
  /\ UNCHANGED <<keyVars, appVars, scanning, peer, procedure, answer,
                 subscribed, pairing>>

\* The link is lost; the procedure and the pairing on it are gone. Losing it
\* takes several connection intervals of 75 ms, handling a report much less.
LinkDrops ==
  /\ link = "up"
  /\ SlowLoss => ~Queued("scan_report")
  /\ link' = "none"
  /\ peer' = NoDevice
  /\ procedure' = "none"
  /\ answer' = "none"
  /\ subscribed' = FALSE
  /\ pairing' = "idle"
  /\ Queue(Event("closed", NoDevice))
  /\ UNCHANGED <<keyVars, appVars, undisturbed, scanning>>

\* Only the keypad board has the attributes, at the handles it was asked for.
Answerable == MatchingBytes[peer] = 6 /\ Needs(procedure) \subseteq saved

PeerFinds ==
  /\ procedure \in Attributes
  /\ answer' = "ok"
  /\ Queue(Event("found", procedure))
  /\ UNCHANGED subscribed

PeerConfigures ==
  /\ procedure \in {"subscribe", "unsubscribe"}
  /\ Protected => pairing = "bonded"
  /\ answer' = "ok"
  /\ subscribed' = (procedure = "subscribe")
  /\ UNCHANGED evq

PeerReads ==
  /\ procedure = "read"
  /\ Protected => pairing = "bonded"
  /\ answer' = "ok"
  /\ \E v \in Values : Queue(Event("value", v))
  /\ UNCHANGED subscribed

PeerRefuses ==
  /\ procedure \in {"subscribe", "unsubscribe", "read"}
  /\ Protected /\ pairing # "bonded"
  /\ answer' = "unencrypted"
  /\ UNCHANGED <<subscribed, evq>>

PeerAnswers ==
  /\ link = "up" /\ procedure # "none" /\ answer = "none"
  /\ Answerable
  /\ PeerFinds \/ PeerConfigures \/ PeerReads \/ PeerRefuses
  /\ UNCHANGED <<keyVars, appVars, undisturbed, scanning, link, peer, procedure,
                 pairing>>

\* With the answer, or with an error if there is none or something broke.
ProcedureCompletes ==
  /\ procedure # "none"
  /\ \/ answer # "none" /\ Queue(Event("completed", answer))
     \/ /\ Failures \/ (~Answerable /\ answer = "none")
        /\ Queue(Event("completed", "failed"))
  /\ procedure' = "none"
  /\ answer' = "none"
  /\ UNCHANGED <<keyVars, appVars, undisturbed, scanning, link, peer, subscribed,
                 pairing>>

PeerNotifies ==
  /\ link = "up" /\ subscribed
  /\ \E v \in Values : Queue(Event("value", v))
  /\ UNCHANGED <<keyVars, appVars, undisturbed, scanning, link, peer, procedure,
                 answer, subscribed, pairing>>

\* One step of the pairing procedure, with the event it raises.
Pairs(from, to, id) ==
  /\ link = "up"
  /\ pairing \in from
  /\ pairing' = to
  /\ Queue(Event(id, NoDevice))
  /\ UNCHANGED <<keyVars, appVars, undisturbed, scanning, link, peer, procedure,
                 answer, subscribed>>

PeerRequestsBonding == PairMethods # {} /\ Pairs({"idle"}, "requested", "confirm_bonding")
PasskeyCompared     == "comparison" \in PairMethods
                         /\ Pairs({"exchanging"}, "comparing", "confirm_passkey")
\* Passkey entry needs no answer here: the event that carries the passkey has
\* no case in the switch.
PairingCompletes    == Pairs({"answered"} \cup
                             (IF "entry" \in PairMethods THEN {"exchanging"} ELSE {}),
                             "bonded", "bonded")
PairingFails        == Pairs({"requested", "exchanging", "comparing", "answered"},
                             "idle", "bonding_failed")

Buttoned(A) == A /\ UNCHANGED <<appVars, stackVars, undisturbed>>
Interrupts  == GPIO_EVEN_IRQHandler \/ GPIO_ODD_IRQHandler

Environment ==
  \/ \E p \in Buttons : Buttoned(Edge(p))
  \/ Buttoned(Interrupts)
  \/ Buttoned(RaiseSignalEvent)
  \/ \E d \in Devices : DeviceReported(d)
  \/ ConnectionOpens
  \/ LinkDrops
  \/ PeerAnswers
  \/ ProcedureCompletes
  \/ PeerNotifies
  \/ PeerRequestsBonding
  \/ PasskeyCompared
  \/ PairingCompletes
  \/ PairingFails

Next == OnExternalSignal \/ HandleEvent \/ Environment

Spec == Init /\ [][Next]_vars

\* Interrupts are taken, the stack delivers and the application handles; the
\* peer answers while the link is up, and a procedure ends.
Fairness ==
  /\ WF_vars(Buttoned(GPIO_EVEN_IRQHandler))
  /\ WF_vars(Buttoned(GPIO_ODD_IRQHandler))
  /\ WF_vars(Buttoned(RaiseSignalEvent))
  /\ WF_vars(OnExternalSignal)
  /\ SF_vars(HandleEvent)
  /\ SF_vars(PeerAnswers)
  /\ SF_vars(ProcedureCompletes)

FairSpec == Spec /\ Fairness

-----------------------------------------------------------------------------
(* Properties that hold.                                                   *)

\* While the state machine waits for a procedure to complete, something is on
\* its way that will move it: a running procedure, its completion, or the end
\* of the connection. The machine has no timeout of its own.
WakeupComes == procedure # "none" \/ Queued("completed") \/ Queued("closed")

DiscoveryHasWakeup == current_state \in Waiting => WakeupComes

\* Whatever the user and the peer do, it can only stall for want of a handle: a
\* command refused for any other reason leaves a procedure or a closed event.
DiscoveryStallsOnlyWithoutHandles ==
  current_state \in Waiting /\ saved = Attributes => WakeupComes

\* Reaching stateWAIT without an error or a press since the link came up means the
\* board is ready: all four handles are stored, the flag is set and the peer notifies.
WaitMeansReady ==
  current_state = "stateWAIT" /\ undisturbed
    => /\ saved = Attributes
       /\ button_notification_flag
       /\ link = "up" => subscribed

\* The LCD says what the flags say, and no key is shown without a connection: a
\* value event is never handled after the closed event of its connection.
ScreenAgrees ==
  /\ lcd.conn \in {"Connected", "Bonded", "Failed"} <=> connection_open
  /\ lcd.conn = "Bonded" <=> bonding_flag
  /\ lcd.key # "blank" => connection_open

\* With nothing waiting and no connection, the scanner runs: the board can
\* always find the keypad board again.
IdleBoardScans == evq = <<>> /\ link = "none" => scanning

\* A connection that lasts is discovered to the end: stateWAIT is reached.
LinkGetsDiscovered == link = "up" ~> (current_state = "stateWAIT" \/ link # "up")

-----------------------------------------------------------------------------
(* What the sources say of the program and it does not do.                 *)

\* "Is the bd_addr, packet_type(0) and address_type (SERVER what we expect for our
\* Server?" (ble.c, of the scan report): the board connects to the keypad board and to no
\* other device. But "variable to check if all the address bytes match" counts on over
\* several reports: two of a device that shares three bytes make six.
ConnectsToServer == link # "none" => MatchingBytes[peer] = 6

=============================================================================
