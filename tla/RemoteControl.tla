----------------------------- MODULE RemoteControl -----------------------------
(***************************************************************************)
(* Both boards over one link. The keypad board's central is the LED board, *)
(* and the LED board's peer is the keypad board: what each module leaves   *)
(* to its environment is here a step of both.                              *)
(*                                                                         *)
(* Each board notices for itself that the link is gone, so for a while one *)
(* may believe in a connection the other has lost. Either board may be     *)
(* reset at any time. Nothing asks for encryption in this instance, and    *)
(* nobody presses the LED board's button, which turns notifications off.   *)
(***************************************************************************)
EXTENDS Naturals, Sequences

CONSTANTS
  Handle, NoHandle,  \* the connection handle on the keypad board
  Server, NoDevice,  \* the keypad board as the LED board finds it
  Keys,              \* the buttons of the keypad board somebody uses
  MayReset,          \* the boards that may be reset
  KeypadQueue,       \* bound: events waiting on the keypad board
  LedQueue           \* bound: events waiting on the LED board

ASSUME HandleAssumption == Handle # NoHandle
ASSUME ServerAssumption == Server # NoDevice
ASSUME QueueAssumption  == KeypadQueue \in Nat /\ LedQueue \in Nat

VARIABLES
  \* the keypad board
  k_low, k_intf, k_pending, k_signal,
  k_connection_open, k_ok_to_send_htm_notif, k_notif_in_flight, k_bonding_flag,
  k_passkey_flag, k_connection_handle, k_handle_for_client, k_currentState,
  k_lcd, k_button, k_advertising, k_link, k_cccd, k_pairing, k_evq, k_air,
  k_sent, k_confirmed, k_missed,
  \* the LED board
  l_connection_open, l_bonding_flag, l_passkey_flag, l_button_notification_flag,
  l_address_check, l_connection_handle, l_saved, l_current_state, l_lcd, l_led, l_scanning,
  l_link, l_peer, l_procedure, l_answer, l_subscribed, l_pairing, l_evq, l_undisturbed

Keypad == INSTANCE KeypadBoard WITH
  Handles <- {Handle}, MaxQueue <- KeypadQueue, MaxConfirmations <- 0,
  PairMethods <- {}, Buttons <- Keys,
  low <- k_low, intf <- k_intf, pending <- k_pending, signal <- k_signal,
  connection_open <- k_connection_open,
  ok_to_send_htm_notif <- k_ok_to_send_htm_notif,
  notif_in_flight <- k_notif_in_flight, bonding_flag <- k_bonding_flag,
  passkey_flag <- k_passkey_flag, connection_handle <- k_connection_handle,
  handle_for_client <- k_handle_for_client, currentState <- k_currentState,
  lcd <- k_lcd, button <- k_button, advertising <- k_advertising,
  link <- k_link, cccd <- k_cccd, pairing <- k_pairing, evq <- k_evq,
  air <- k_air, sent <- k_sent, confirmed <- k_confirmed, missed <- k_missed

Led == INSTANCE LedBoard WITH
  Devices <- {Server}, MatchingBytes <- [d \in {Server} |-> 6], Values <- 0..2,
  Protected <- FALSE, Failures <- FALSE, TakesZeroHandle <- FALSE,
  SlowLoss <- TRUE, PairMethods <- {}, Buttons <- {},
  MaxQueue <- LedQueue, MaxCheck <- 6,
  low <- {}, intf <- {}, pending <- {}, signal <- {},
  connection_open <- l_connection_open, bonding_flag <- l_bonding_flag,
  passkey_flag <- l_passkey_flag,
  button_notification_flag <- l_button_notification_flag,
  address_check <- l_address_check, connection_handle <- l_connection_handle, saved <- l_saved,
  current_state <- l_current_state, lcd <- l_lcd, led <- l_led,
  scanning <- l_scanning, link <- l_link, peer <- l_peer,
  procedure <- l_procedure, answer <- l_answer, subscribed <- l_subscribed,
  pairing <- l_pairing, evq <- l_evq, undisturbed <- l_undisturbed

ASSUME KeysAssumption == Keys \subseteq Keypad!Pins

keypadRest ==
  <<k_connection_open, k_ok_to_send_htm_notif, k_notif_in_flight, k_bonding_flag, k_passkey_flag,
    k_connection_handle, k_handle_for_client, k_currentState, k_lcd, k_button,
    k_advertising, k_link, k_cccd, k_pairing, k_evq, k_air, k_sent, k_confirmed,
    k_missed>>
keypadVars == <<k_low, k_intf, k_pending, k_signal, keypadRest>>
ledVars ==
  <<l_connection_open, l_bonding_flag,
    l_passkey_flag, l_button_notification_flag, l_address_check, l_connection_handle,
    l_saved, l_current_state, l_lcd, l_led, l_scanning, l_link, l_peer, l_procedure,
    l_answer, l_subscribed, l_pairing, l_evq, l_undisturbed>>
vars == <<keypadVars, ledVars>>

Init == Keypad!Init /\ Led!Init

\* Both stacks have the connection. It is then the same one: the LED board opens
\* no other before it has noticed the loss of the last, and nor does its peer.
Connected == k_link # NoHandle /\ l_link = "up"

-----------------------------------------------------------------------------
(* Steps of one board alone.                                               *)

KeypadKeys(A) == A /\ UNCHANGED <<keypadRest, ledVars>>

KeypadHandlesEvent  == Keypad!HandleEvent /\ UNCHANGED ledVars
KeypadHandlesSignal == Keypad!OnExternalSignal /\ UNCHANGED ledVars
LedHandlesEvent     == Led!HandleEvent /\ UNCHANGED keypadVars
ProcedureEnds       == Led!ProcedureCompletes /\ UNCHANGED keypadVars

-----------------------------------------------------------------------------
(* Steps over the radio.                                                   *)

\* An advertisement of the keypad board is heard.
AdvertisementHeard ==
  /\ k_advertising
  /\ Led!DeviceReported(Server)
  /\ UNCHANGED keypadVars

LinkOpens == Keypad!CentralConnects(Handle) /\ Led!ConnectionOpens

\* The connection request is not heard: only the LED board has a connection.
LinkOpensUnheard ==
  /\ k_advertising
  /\ Led!ConnectionOpens
  /\ UNCHANGED keypadVars

KeypadLosesLink == Keypad!LinkDrops /\ UNCHANGED ledVars
LedLosesLink    == Led!LinkDrops /\ UNCHANGED keypadVars

\* A link is ordered: what was sent before has been received. A write of the
\* configuration is an event on the keypad board, a read is answered by its
\* stack from the attribute.
ProcedureAnswered ==
  /\ Connected /\ k_air = <<>>
  /\ Led!PeerAnswers
  /\ l_procedure = "read" => l_evq' = Append(l_evq, Led!Event("value", k_button))
  /\ CASE l_procedure = "subscribe"   -> Keypad!CentralConfigures("notification")
       [] l_procedure = "unsubscribe" -> Keypad!CentralConfigures("disable")
       [] OTHER -> UNCHANGED keypadVars

NotificationArrives ==
  /\ Connected
  /\ Keypad!NotificationReceived
  /\ Led!PeerNotifies
  /\ l_evq' = Append(l_evq, Led!Event("value", Head(k_air)))

-----------------------------------------------------------------------------
(* Resets: a board starts over from its initial state, and the other one   *)
(* has yet to notice.                                                      *)

KeypadResets ==
  /\ "keypad" \in MayReset
  /\ k_intf' = {}
  /\ k_pending' = {}
  /\ k_signal' = {}
  /\ k_connection_open' = FALSE
  /\ k_ok_to_send_htm_notif' = FALSE
  /\ k_notif_in_flight' = FALSE
  /\ k_bonding_flag' = FALSE
  /\ k_passkey_flag' = FALSE
  /\ k_connection_handle' = NoHandle
  /\ k_handle_for_client' = NoHandle
  /\ k_currentState' = "stateIDLE"
  /\ k_lcd' = [conn |-> "blank", prompt |-> FALSE, key |-> "blank", notif |-> FALSE]
  /\ k_button' = 0
  /\ k_advertising' = FALSE
  /\ k_link' = NoHandle
  /\ k_cccd' = "disable"
  /\ k_pairing' = "idle"
  /\ k_evq' = <<[id |-> "boot", conn |-> NoHandle, arg |-> "none"]>>
  /\ k_air' = <<>>
  /\ k_sent' = 0
  /\ k_confirmed' = 0
  /\ k_missed' = TRUE
  /\ UNCHANGED <<k_low, ledVars>>

LedResets ==
  /\ "led" \in MayReset
  /\ l_connection_open' = FALSE
  /\ l_bonding_flag' = FALSE
  /\ l_passkey_flag' = FALSE
  /\ l_button_notification_flag' = FALSE
  /\ l_address_check' = 0
  /\ l_connection_handle' = FALSE
  /\ l_saved' = {}
  /\ l_current_state' = "stateOPEN"
  /\ l_lcd' = [conn |-> "blank", prompt |-> FALSE, key |-> "blank"]
  /\ l_led' = 0
  /\ l_scanning' = FALSE
  /\ l_link' = "none"
  /\ l_peer' = NoDevice
  /\ l_procedure' = "none"
  /\ l_answer' = "none"
  /\ l_subscribed' = FALSE
  /\ l_pairing' = "idle"
  /\ l_evq' = <<Led!Event("boot", NoDevice)>>
  /\ l_undisturbed' = FALSE
  /\ UNCHANGED keypadVars

Next ==
  \/ KeypadHandlesEvent
  \/ KeypadHandlesSignal
  \/ \E p \in Keys : KeypadKeys(Keypad!Edge(p))
  \/ KeypadKeys(Keypad!Interrupts)
  \/ KeypadKeys(Keypad!RaiseSignalEvent)
  \/ LedHandlesEvent
  \/ ProcedureEnds
  \/ AdvertisementHeard
  \/ LinkOpens
  \/ LinkOpensUnheard
  \/ KeypadLosesLink
  \/ LedLosesLink
  \/ ProcedureAnswered
  \/ NotificationArrives
  \/ KeypadResets
  \/ LedResets

Spec == Init /\ [][Next]_vars

\* Both boards run; advertisements, connection requests and answers get through
\* if they are tried for ever; a link that the other side has lost is noticed.
Fairness ==
  /\ WF_vars(KeypadKeys(Keypad!GPIO_EVEN_IRQHandler))
  /\ WF_vars(KeypadKeys(Keypad!GPIO_ODD_IRQHandler))
  /\ WF_vars(KeypadKeys(Keypad!RaiseSignalEvent))
  /\ WF_vars(KeypadHandlesSignal)
  /\ SF_vars(KeypadHandlesEvent)
  /\ SF_vars(LedHandlesEvent)
  /\ SF_vars(ProcedureEnds)
  /\ SF_vars(AdvertisementHeard)
  /\ SF_vars(LinkOpens)
  /\ SF_vars(ProcedureAnswered)
  /\ SF_vars(NotificationArrives)
  /\ SF_vars(~Connected /\ KeypadLosesLink)
  /\ SF_vars(~Connected /\ LedLosesLink)

FairSpec == Spec /\ Fairness

-----------------------------------------------------------------------------
(* Properties that hold.                                                   *)

\* The LED board believes it is subscribed only when the keypad board will send:
\* stateWAIT reached without a mishap, over a link both have, means that the
\* keypad board, once it has handled its events, sends to this connection.
SubscriptionAgrees ==
  Connected /\ l_current_state = "stateWAIT" /\ l_undisturbed /\ k_evq = <<>>
    => k_ok_to_send_htm_notif /\ k_connection_handle = k_link

\* The values that left the keypad board and were not handled by the LED board:
\* value events that wait there, then notifications on the radio.
IsValue(e) == e.id = "value"
ValuesIn(queue) ==
  LET told[n \in 0..Len(queue)] ==
        IF n = 0 THEN <<>>
        ELSE IF IsValue(queue[n]) THEN Append(told[n - 1], queue[n].arg) ELSE told[n - 1]
  IN  told[Len(queue)]
ToldValues == ValuesIn(l_evq) \o (IF Connected THEN k_air ELSE <<>>)

M == INSTANCE Mirror WITH
  Values <- 0..2, attribute <- k_button, session <- Connected, told <- ToldValues

\* The pair implements Mirror: what the LED board handles are values the attribute
\* had when they left (button_state_to_gatt, the stack's answer to a read), in
\* order, and none of them belongs to an earlier connection (ble.c, both handlers).
ValuesMirrored == M!Spec

\* Whatever went wrong before, once links stay and boards are not reset any more
\* the boards find each other and end up connected, discovered and subscribed.
Working ==
  /\ k_connection_open /\ l_connection_open
  /\ l_current_state = "stateWAIT" /\ l_subscribed
  /\ k_ok_to_send_htm_notif /\ k_connection_handle = k_link

Fault ==
  \/ Connected /\ ~Connected'
  \/ LinkOpensUnheard
  \/ KeypadResets
  \/ LedResets
FaultsStop == <>[][~Fault]_vars
BoardsConverge == FaultsStop => <>[]Working

-----------------------------------------------------------------------------
(* What the sources say of the program and the program does not do.        *)

\* README: the pair lets users "remotely control the LED strip based on the keys
\* pressed on the keypad". When nothing is on its way from the keys of a working
\* pair to its LEDs any more and the LED board shows a key at all, LED_output is the
\* button the keypad board publishes.
Quiet ==
  /\ ~Keypad!SignalOutstanding /\ ~k_missed
  /\ k_evq = <<>> /\ k_air = <<>>
  /\ l_evq = <<>> /\ l_procedure = "none" /\ l_lcd.key # "blank"
LedFollowsKeys == Working /\ Connected /\ Quiet => l_led = k_button

=============================================================================
