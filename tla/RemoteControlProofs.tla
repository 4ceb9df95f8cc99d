-------------------------- MODULE RemoteControlProofs --------------------------
(***************************************************************************)
(* Proofs about the pair, for every number of events that may wait, every  *)
(* set of keys and whichever boards are reset. Each board is an instance   *)
(* of the module its own proofs are in: a step of the pair is a step of    *)
(* the board, none, or a reset, so the board's invariants hold of the pair.*)
(* From them follow that both agree on the subscription, and that the pair *)
(* implements Mirror. For the latter the values in a queue are defined by  *)
(* a recursive function, about which SetInduction lets one reason.         *)
(***************************************************************************)
EXTENDS RemoteControl, SequenceTheorems, WellFoundedInduction, TLAPS

KP == INSTANCE KeypadLinkProofs WITH
  Handles <- {Handle}, MaxQueue <- KeypadQueue, MaxConfirmations <- 0,
  PairMethods <- {}, Buttons <- Keys,
  low <- k_low, intf <- k_intf, pending <- k_pending, signal <- k_signal,
  connection_open <- k_connection_open,
  ok_to_send_htm_notif <- k_ok_to_send_htm_notif,
  notif_in_flight <- k_notif_in_flight, bonding_flag <- k_bonding_flag,
  passkey_flag <- k_passkey_flag, connection_handle <- k_connection_handle,
  handle_for_client <- k_handle_for_client, currentState <- k_currentState,
  lcd <- k_lcd, button <- k_button, advertising <- k_advertising,
  link <- k_link, cccd <- k_cccd, pairing <- k_pairing, evq <- k_evq,
  air <- k_air, sent <- k_sent, confirmed <- k_confirmed, missed <- k_missed

LP == INSTANCE LedLinkProofs WITH
  Devices <- {Server}, MatchingBytes <- [d \in {Server} |-> 6], Values <- 0..2,
  Protected <- FALSE, Failures <- FALSE, TakesZeroHandle <- FALSE,
  SlowLoss <- TRUE, PairMethods <- {}, Buttons <- {},
  MaxQueue <- LedQueue, MaxCheck <- 6,
  low <- {}, intf <- {}, pending <- {}, signal <- {},
  connection_open <- l_connection_open, bonding_flag <- l_bonding_flag,
  passkey_flag <- l_passkey_flag,
  button_notification_flag <- l_button_notification_flag,
  address_check <- l_address_check, connection_handle <- l_connection_handle, saved <- l_saved,
  current_state <- l_current_state, lcd <- l_lcd, led <- l_led,
  scanning <- l_scanning, link <- l_link, peer <- l_peer,
  procedure <- l_procedure, answer <- l_answer, subscribed <- l_subscribed,
  pairing <- l_pairing, evq <- l_evq, undisturbed <- l_undisturbed

-----------------------------------------------------------------------------
(* The steps of the boards as the proofs about each board know them.       *)

LEMMA LedHandler == Led!HandleEvent => LP!HandleEvent
  BY DEF Led!HandleEvent, LP!HandleEvent, Led!OnBoot, LP!OnBoot,
     Led!OnOpened, LP!OnOpened, Led!OnClosed, LP!OnClosed,
     Led!OnScanReport, LP!OnScanReport, Led!OnProcedureCompleted, LP!OnProcedureCompleted,
     Led!OnFound, LP!OnFound, Led!OnCharacteristicValue, LP!OnCharacteristicValue,
     Led!OnConfirmBonding, LP!OnConfirmBonding, Led!OnConfirmPasskey, LP!OnConfirmPasskey,
     Led!OnBonded, LP!OnBonded, Led!OnBondingFailed, LP!OnBondingFailed,
     Led!Take, LP!Take, Led!keyVars, LP!keyVars,
     Led!scanner_start, LP!scanner_start, Led!ClosedScreen, LP!ClosedScreen,
     Led!DiscoveryOnOpened, LP!DiscoveryOnOpened, Led!DiscoveryOnCompleted, LP!DiscoveryOnCompleted,
     Led!DiscoveryOnClosed, LP!DiscoveryOnClosed, Led!Issue, LP!Issue,
     Led!StackIdle, LP!StackIdle, Led!Needs, LP!Needs,
     Led!Discovery, LP!Discovery, Led!AllBytesMatch, LP!AllBytesMatch,
     Led!Shown, LP!Shown

LEMMA LedStack ==
  /\ \A d : Led!DeviceReported(d) => LP!DeviceReported(d)
  /\ Led!ConnectionOpens => LP!ConnectionOpens
  /\ Led!LinkDrops => LP!LinkDrops
  /\ Led!PeerAnswers => LP!PeerAnswers
  /\ Led!ProcedureCompletes => LP!ProcedureCompletes
  /\ Led!PeerNotifies => LP!PeerNotifies
  BY DEF Led!DeviceReported, LP!DeviceReported, Led!ConnectionOpens, LP!ConnectionOpens,
     Led!LinkDrops, LP!LinkDrops, Led!Queued, LP!Queued,
     Led!PeerAnswers, LP!PeerAnswers, Led!PeerFinds, LP!PeerFinds,
     Led!PeerConfigures, LP!PeerConfigures, Led!PeerReads, LP!PeerReads,
     Led!PeerRefuses, LP!PeerRefuses, Led!Answerable, LP!Answerable,
     Led!Needs, LP!Needs, Led!ProcedureCompletes, LP!ProcedureCompletes,
     Led!PeerNotifies, LP!PeerNotifies, Led!Attributes, LP!Attributes,
     Led!Queue, LP!Queue, Led!Event, LP!Event,
     Led!keyVars, LP!keyVars, Led!appVars, LP!appVars

LEMMA KeypadHandler == Keypad!HandleEvent => KP!HandleEvent
  BY DEF Keypad!HandleEvent, KP!HandleEvent, Keypad!OnBoot, KP!OnBoot,
     Keypad!OnOpened, KP!OnOpened, Keypad!OnClosed, KP!OnClosed,
     Keypad!OnCharacteristicStatus, KP!OnCharacteristicStatus, Keypad!OnBonded, KP!OnBonded,
     Keypad!OnConfirmBonding, KP!OnConfirmBonding, Keypad!OnConfirmPasskey, KP!OnConfirmPasskey,
     Keypad!OnBondingFailed, KP!OnBondingFailed, Keypad!Take, KP!Take,
     Keypad!keyVars, KP!keyVars, Keypad!histVars, KP!histVars,
     Keypad!advertiser_start, KP!advertiser_start, Keypad!AdvertisingScreen, KP!AdvertisingScreen

LEMMA KeypadSignal == Keypad!OnExternalSignal => KP!OnExternalSignal
  BY DEF Keypad!OnExternalSignal, KP!OnExternalSignal, Keypad!ConfirmsPasskey, KP!ConfirmsPasskey,
     Keypad!keypad_server_state_machine, KP!keypad_server_state_machine, Keypad!KeypadNext, KP!KeypadNext,
     Keypad!IsKeySignal, KP!IsKeySignal, Keypad!ActsOnKeys, KP!ActsOnKeys,
     Keypad!KeyRow, KP!KeyRow, Keypad!KeyValue, KP!KeyValue,
     Keypad!button_state_to_gatt, KP!button_state_to_gatt, Keypad!StackSends, KP!StackSends,
     Keypad!evt_button_even_pressed, KP!evt_button_even_pressed, Keypad!evt_button_odd_pressed, KP!evt_button_odd_pressed,
     Keypad!evt_pb0_pressed, KP!evt_pb0_pressed, Keypad!OddKey, KP!OddKey,
     Keypad!EvenKey, KP!EvenKey

LEMMA KeypadButtons ==
  /\ \A p : Keypad!Edge(p) => KP!Edge(p)
  /\ Keypad!Interrupts => KP!Interrupts
  /\ Keypad!RaiseSignalEvent => KP!RaiseSignalEvent
  BY DEF Keypad!Edge, KP!Edge, Keypad!Interrupts, KP!Interrupts,
     Keypad!GPIO_EVEN_IRQHandler, KP!GPIO_EVEN_IRQHandler, Keypad!GPIO_ODD_IRQHandler, KP!GPIO_ODD_IRQHandler,
     Keypad!RaiseSignalEvent, KP!RaiseSignalEvent, Keypad!schedulerSetEvent_Keypad_EVEN, KP!schedulerSetEvent_Keypad_EVEN,
     Keypad!schedulerSetEvent_Keypad_ODD, KP!schedulerSetEvent_Keypad_ODD, Keypad!ExternalSignal, KP!ExternalSignal,
     Keypad!EvenPins, KP!EvenPins, Keypad!OddPins, KP!OddPins,
     Keypad!OddKey, KP!OddKey, Keypad!EvenKey, KP!EvenKey,
     Keypad!PB0, KP!PB0, Keypad!evt_button_even_pressed, KP!evt_button_even_pressed,
     Keypad!evt_button_odd_pressed, KP!evt_button_odd_pressed, Keypad!evt_pb0_pressed, KP!evt_pb0_pressed

LEMMA KeypadStack ==
  /\ \A h : Keypad!CentralConnects(h) => KP!CentralConnects(h)
  /\ Keypad!LinkDrops => KP!LinkDrops
  /\ \A arg : Keypad!CentralConfigures(arg) => KP!CentralConfigures(arg)
  /\ Keypad!NotificationReceived => KP!NotificationReceived
  BY DEF Keypad!CentralConnects, KP!CentralConnects, Keypad!LinkDrops, KP!LinkDrops,
     Keypad!CentralConfigures, KP!CentralConfigures, Keypad!NotificationReceived, KP!NotificationReceived,
     Keypad!Queue, KP!Queue, Keypad!Event, KP!Event,
     Keypad!keyVars, KP!keyVars, Keypad!appVars, KP!appVars,
     Keypad!histVars, KP!histVars
\* What a step of the pair is to the LED board: a step of its own, none, or a reset.
LEMMA LedProjection ==
  ASSUME [Next]_vars
  PROVE  [LP!Next]_(LP!vars) \/ LP!Init'
<1> USE DEF LP!Next, LP!Environment
<1>1. CASE UNCHANGED ledVars
  BY <1>1 DEF ledVars, LP!vars, LP!keyVars, LP!appVars, LP!stackVars
<1>2. CASE LedHandlesEvent
  BY <1>2, LedHandler DEF LedHandlesEvent
<1>3. CASE \/ ProcedureEnds \/ AdvertisementHeard \/ LinkOpens \/ LinkOpensUnheard
           \/ LedLosesLink \/ ProcedureAnswered \/ NotificationArrives
  BY <1>3, LedStack DEF ProcedureEnds, AdvertisementHeard, LinkOpens, LinkOpensUnheard,
     LedLosesLink, ProcedureAnswered, NotificationArrives
<1>4. CASE LedResets
  BY <1>4 DEF LedResets, LP!Init, LP!KeyInit, LP!Event, Led!Event
<1>5. QED
  BY <1>1, <1>2, <1>3, <1>4 DEF Next, vars, KeypadHandlesEvent, KeypadHandlesSignal,
     KeypadKeys, KeypadLosesLink, KeypadResets

\* What it is to the keypad board: likewise, but the keys stay as they are in a reset.
LEMMA KeypadProjection ==
  ASSUME [Next]_vars
  PROVE  [KP!Next]_(KP!vars) \/ KeypadResets
<1> USE DEF KP!Next, KP!Environment
<1>1. CASE UNCHANGED keypadVars
  BY <1>1 DEF keypadVars, keypadRest, KP!vars, KP!keyVars, KP!appVars, KP!stackVars,
     KP!histVars
<1>2. CASE KeypadHandlesEvent \/ KeypadHandlesSignal
  BY <1>2, KeypadHandler, KeypadSignal DEF KeypadHandlesEvent, KeypadHandlesSignal
<1>3. ASSUME UNCHANGED keypadRest
      PROVE  UNCHANGED <<KP!appVars, KP!stackVars, KP!histVars>>
  BY <1>3 DEF keypadRest, KP!appVars, KP!stackVars, KP!histVars
<1>4. ASSUME NEW p \in Keys, KeypadKeys(Keypad!Edge(p))
      PROVE  KP!Next
  BY <1>3, <1>4, KeypadButtons DEF KeypadKeys
<1>5. CASE KeypadKeys(Keypad!Interrupts) \/ KeypadKeys(Keypad!RaiseSignalEvent)
  BY <1>3, <1>5, KeypadButtons DEF KeypadKeys
<1>6. CASE LinkOpens \/ KeypadLosesLink \/ NotificationArrives
  BY <1>6, KeypadStack DEF LinkOpens, KeypadLosesLink, NotificationArrives
<1>7. CASE ProcedureAnswered
  <2>1. \/ UNCHANGED keypadVars
        \/ \E arg \in {"notification", "disable"} : Keypad!CentralConfigures(arg)
    BY <1>7 DEF ProcedureAnswered
  <2>2. QED
    BY <1>1, <2>1, KeypadStack
<1>8. QED
  BY <1>1, <1>2, <1>4, <1>5, <1>6, <1>7 DEF Next, vars, LedHandlesEvent, ProcedureEnds,
     AdvertisementHeard, LinkOpensUnheard, LedLosesLink, LedResets
-----------------------------------------------------------------------------
(* Each board by itself.                                                   *)

\* What the proofs about each board say of it, here over one link and with resets.
Alone == /\ KP!TypeOK /\ KP!Life /\ KP!NoAir
         /\ LP!TypeOK /\ LP!Session /\ LP!Announced /\ LP!Phased

LEMMA KeypadAssumptions ==
  /\ NoHandle \notin {Handle}
  /\ KeypadQueue \in Nat /\ 0 \in Nat
  /\ Keys \subseteq KP!Pins
  /\ {} \subseteq {"comparison", "entry"}
  BY HandleAssumption, QueueAssumption, KeysAssumption
     DEF Keypad!Pins, KP!Pins, Keypad!OddKey, KP!OddKey, Keypad!EvenKey, KP!EvenKey,
         Keypad!PB0, KP!PB0

LEMMA LedAssumptions ==
  /\ NoDevice \notin {Server}
  /\ [d \in {Server} |-> 6] \in [{Server} -> 0..6]
  /\ 0..2 \subseteq 0..2
  /\ FALSE \in BOOLEAN /\ TRUE \in BOOLEAN
  /\ {} \subseteq {"comparison", "entry"} /\ {} \subseteq LP!Pins
  /\ LedQueue \in Nat /\ 6 \in Nat
  BY ServerAssumption, QueueAssumption

LEMMA KeypadStarts == KP!Init => KP!TypeOK /\ KP!Life /\ KP!NoAir
  BY KP!InitType, KP!LifeInit, KeypadAssumptions

LEMMA LedStarts == LP!Init => LP!TypeOK /\ LP!Session /\ LP!Announced /\ LP!Phased
  BY LP!InitType, LP!SessionInit, LP!AnnouncedInit, LP!PhasedInit, LedAssumptions

LEMMA LedRestarts == LP!Init' => LP!TypeOK' /\ LP!Session' /\ LP!Announced' /\ LP!Phased'
  BY LedStarts, PTL

LEMMA KeypadResetType ==
  ASSUME KP!TypeOK, KeypadResets
  PROVE  KP!TypeOK'
<1>1. [id |-> "boot", conn |-> NoHandle, arg |-> "none"] \in KP!Events
  BY DEF KP!Events, KP!EventIds, KP!AnyHandle
<1>2. k_evq' \in Seq(KP!Events) /\ k_air' \in Seq(KP!ButtonValues)
  BY <1>1, EmptySeq DEF KeypadResets
<1>3. KP!KeyTypeOK'
  BY DEF KeypadResets, KP!TypeOK, KP!KeyTypeOK
<1>4. k_lcd' \in [conn : KP!ConnRows, prompt : BOOLEAN, key : KP!KeyRows, notif : BOOLEAN]
  BY DEF KeypadResets, KP!ConnRows, KP!KeyRows
<1>5. /\ k_connection_handle' \in KP!AnyHandle /\ k_handle_for_client' \in KP!AnyHandle
      /\ k_link' \in KP!AnyHandle /\ k_button' \in KP!ButtonValues
  BY DEF KeypadResets, KP!AnyHandle, KP!ButtonValues
<1>6. k_currentState' \in KP!States /\ k_pairing' \in KP!PairingSteps
  BY DEF KeypadResets, KP!States, KP!PairingSteps
<1>7. QED
  BY <1>2, <1>3, <1>4, <1>5, <1>6 DEF KeypadResets, KP!TypeOK

LEMMA PairStarts == Init => KP!Init /\ LP!Init
  BY DEF Init, Keypad!Init, KP!Init, Keypad!KeyInit, KP!KeyInit, Led!Init, LP!Init,
     Led!KeyInit, LP!KeyInit, Led!Event, LP!Event

LEMMA AloneStep ==
  ASSUME Alone, [Next]_vars
  PROVE  Alone'
<1>1. KP!TypeOK' /\ KP!Life' /\ KP!NoAir'
  <2>1. CASE [KP!Next]_(KP!vars)
    BY <2>1, KP!StepType, KP!LifeStep, KP!NoAirStep, KeypadAssumptions DEF Alone
  <2>2. CASE KeypadResets
    <3>1. KP!Life' /\ KP!NoAir'
      BY <2>2 DEF KeypadResets, KP!Life, KP!Asleep, KP!Event, KP!NoAir
    <3>2. QED
      BY <2>2, <3>1, KeypadResetType DEF Alone
  <2>3. QED
    BY <2>1, <2>2, KeypadProjection DEF Alone
<1>2. LP!TypeOK' /\ LP!Session' /\ LP!Announced' /\ LP!Phased'
  <2>1. CASE [LP!Next]_(LP!vars)
    BY <2>1, LP!StepType, LP!SessionStep, LP!AnnouncedStep, LP!PhasedStep,
       LedAssumptions DEF Alone
  <2>2. QED
    BY <2>1, LedRestarts, LedProjection
<1>3. QED
  BY <1>1, <1>2 DEF Alone
-----------------------------------------------------------------------------
(* The subscription.                                                       *)

IsStatus(e) == e.id = "characteristic_status"
Reporting   == \E i \in 1..Len(k_evq) : IsStatus(k_evq[i])

\* The LED board only ever subscribes, and there is one handle to do it on.
OnlySubscriptions ==
  \A i \in 1..Len(k_evq) :
    IsStatus(k_evq[i]) => k_evq[i].arg = "notification" /\ k_evq[i].conn = Handle

\* The keypad board sends to the connection.
Sending == k_ok_to_send_htm_notif /\ k_connection_handle = Handle

\* A subscription on a connection of both is known to the keypad board or waits there.
Subscribed == Connected /\ l_subscribed => Sending \/ Reporting

Agreed == OnlySubscriptions /\ Subscribed /\ l_procedure # "unsubscribe"

\* The keypad board takes its oldest event.
LEMMA KeypadTakes ==
  ASSUME KP!TypeOK, OnlySubscriptions, NEW id, Keypad!Take(id)
  PROVE  /\ OnlySubscriptions'
         /\ id = "characteristic_status" =>
              Head(k_evq).arg = "notification" /\ Head(k_evq).conn = Handle
         /\ id # "characteristic_status" /\ Reporting => Reporting'
<1>1. k_evq \in Seq(KP!Events) /\ k_evq # <<>> /\ Head(k_evq).id = id /\ k_evq' = Tail(k_evq)
  BY DEF KP!TypeOK, Keypad!Take
<1>2. /\ Len(k_evq) \in Nat \ {0} /\ k_evq[1] = Head(k_evq)
      /\ Len(k_evq') = Len(k_evq) - 1
      /\ \A i \in 1..Len(k_evq') : k_evq'[i] = k_evq[i + 1]
  BY <1>1, HeadTailProperties, EmptySeq, LenProperties
<1>3. 1 \in 1..Len(k_evq) /\ \A i \in 1..Len(k_evq') : i + 1 \in 1..Len(k_evq)
  BY <1>2
<1>4. ASSUME id # "characteristic_status", Reporting
      PROVE  Reporting'
  <2>1. PICK i \in 1..Len(k_evq) : IsStatus(k_evq[i])
    BY <1>4 DEF Reporting
  <2>2. i # 1
    BY <1>1, <1>2, <1>4, <2>1 DEF IsStatus
  <2>3. i - 1 \in 1..Len(k_evq') /\ k_evq'[i - 1] = k_evq[(i - 1) + 1]
    BY <1>2, <2>2
  <2>4. k_evq'[i - 1] = k_evq[i]
    BY <2>3
  <2>5. QED
    BY <2>1, <2>3, <2>4 DEF Reporting, IsStatus
<1>5. QED
  BY <1>1, <1>2, <1>3, <1>4 DEF OnlySubscriptions, IsStatus

\* Its stack queues an event.
LEMMA KeypadQueues ==
  ASSUME KP!TypeOK, OnlySubscriptions, NEW e, Keypad!Queue(e),
         IsStatus(e) => e.arg = "notification" /\ e.conn = Handle
  PROVE  /\ OnlySubscriptions'
         /\ IsStatus(e) \/ Reporting => Reporting'
<1>1. k_evq \in Seq(KP!Events) /\ k_evq' = Append(k_evq, e)
  BY DEF KP!TypeOK, Keypad!Queue
<1>2. /\ Len(k_evq) \in Nat
      /\ Len(k_evq') = Len(k_evq) + 1
      /\ \A i \in 1..Len(k_evq) : k_evq'[i] = k_evq[i]
      /\ k_evq'[Len(k_evq) + 1] = e
  BY <1>1, LenProperties
<1>3. /\ \A i \in 1..Len(k_evq) : i \in 1..Len(k_evq')
      /\ \A i \in 1..Len(k_evq') : i \in 1..Len(k_evq) \/ i = Len(k_evq) + 1
      /\ Len(k_evq) + 1 \in 1..Len(k_evq')
  BY <1>2
<1>4. OnlySubscriptions'
  BY <1>2, <1>3 DEF OnlySubscriptions, IsStatus
<1>5. QED
  BY <1>2, <1>3, <1>4 DEF Reporting, IsStatus
\* The keypad board's handlers: the status event makes it send, none makes it stop.
LEMMA KeypadAgrees ==
  ASSUME KP!TypeOK, Agreed, KeypadHandlesEvent \/ KeypadHandlesSignal
  PROVE  Agreed'
<1>1. UNCHANGED <<k_link, l_link, l_subscribed, l_procedure>>
  BY DEF KeypadHandlesEvent, KeypadHandlesSignal, ledVars, Keypad!HandleEvent,
     Keypad!OnBoot, Keypad!OnOpened, Keypad!OnClosed, Keypad!OnCharacteristicStatus,
     Keypad!OnBonded, Keypad!OnConfirmBonding, Keypad!OnConfirmPasskey,
     Keypad!OnBondingFailed, Keypad!OnExternalSignal
<1>2. CASE KeypadHandlesSignal
  <2>1. UNCHANGED <<k_evq, k_ok_to_send_htm_notif, k_connection_handle>>
    BY <1>2 DEF KeypadHandlesSignal, Keypad!OnExternalSignal
  <2>2. QED
    BY <1>1, <2>1 DEF Agreed, OnlySubscriptions, Subscribed, Connected, Sending,
       Reporting, IsStatus
<1>3. CASE Keypad!OnCharacteristicStatus
  <2>1. OnlySubscriptions' /\ Head(k_evq).arg = "notification" /\ Head(k_evq).conn = Handle
    BY <1>3, KeypadTakes DEF Agreed, Keypad!OnCharacteristicStatus
  <2>2. Sending'
    BY <1>3, <2>1 DEF Keypad!OnCharacteristicStatus, Sending
  <2>3. QED
    BY <1>1, <2>1, <2>2 DEF Agreed, Subscribed
<1>4. ASSUME NEW id, Keypad!Take(id), id # "characteristic_status",
             UNCHANGED <<k_ok_to_send_htm_notif, k_connection_handle>>
      PROVE  Agreed'
  BY <1>1, <1>4, KeypadTakes DEF Agreed, Subscribed, Connected, Sending
<1>5. CASE \/ Keypad!OnBoot \/ Keypad!OnOpened \/ Keypad!OnClosed \/ Keypad!OnBonded
           \/ Keypad!OnConfirmBonding \/ Keypad!OnConfirmPasskey \/ Keypad!OnBondingFailed
  BY <1>4, <1>5 DEF Keypad!OnBoot, Keypad!OnOpened, Keypad!OnClosed, Keypad!OnBonded,
     Keypad!OnConfirmBonding, Keypad!OnConfirmPasskey, Keypad!OnBondingFailed
<1>6. QED
  BY <1>2, <1>3, <1>5 DEF KeypadHandlesEvent, Keypad!HandleEvent

\* The LED board's handlers ask for no end of the subscription.
LEMMA LedAgrees ==
  ASSUME Agreed, LedHandlesEvent \/ ProcedureEnds
  PROVE  Agreed'
<1>1. UNCHANGED <<k_link, k_evq, k_ok_to_send_htm_notif, k_connection_handle>>
  BY DEF LedHandlesEvent, ProcedureEnds, keypadVars, keypadRest
<1>2. UNCHANGED l_subscribed /\ (l_link' = "up" => l_link = "up")
  BY DEF LedHandlesEvent, ProcedureEnds, Led!ProcedureCompletes, Led!HandleEvent,
     Led!OnBoot, Led!OnOpened, Led!OnClosed, Led!OnScanReport, Led!OnProcedureCompleted,
     Led!OnFound, Led!OnCharacteristicValue, Led!OnConfirmBonding, Led!OnConfirmPasskey,
     Led!OnBonded, Led!OnBondingFailed
<1>3. ASSUME NEW proc, NEW right, Led!Issue(proc, right), proc # "unsubscribe"
      PROVE  l_procedure' # "unsubscribe"
  BY <1>3 DEF Agreed, Led!Issue
<1>4. l_procedure' # "unsubscribe"
  <2>1. CASE ProcedureEnds
    BY <2>1 DEF ProcedureEnds, Led!ProcedureCompletes
  <2>2. CASE Led!OnOpened
    BY <1>3, <2>2 DEF Led!OnOpened, Led!DiscoveryOnOpened, Agreed
  <2>3. CASE Led!OnProcedureCompleted
    <3>1. \A s \in DOMAIN Led!Discovery : Led!Discovery[s].asks # "unsubscribe"
      BY DEF Led!Discovery
    <3>2. QED
      BY <1>3, <2>3, <3>1 DEF Led!OnProcedureCompleted, Led!DiscoveryOnCompleted, Agreed
  <2>4. CASE Led!OnCharacteristicValue
    BY <1>3, <2>4 DEF Led!OnCharacteristicValue, Agreed
  <2>5. QED
    BY <2>1, <2>2, <2>3, <2>4 DEF LedHandlesEvent, Led!HandleEvent, Agreed,
       Led!OnBoot, Led!OnClosed, Led!OnScanReport, Led!OnFound, Led!OnConfirmBonding,
       Led!OnConfirmPasskey, Led!OnBonded, Led!OnBondingFailed
<1>5. QED
  BY <1>1, <1>2, <1>4 DEF Agreed, OnlySubscriptions, Subscribed, Connected, Sending,
     Reporting, IsStatus

\* The link comes and goes: a connection begins without a subscription.
LEMMA LinkAgrees ==
  ASSUME Alone, Agreed,
         LinkOpens \/ LinkOpensUnheard \/ KeypadLosesLink \/ LedLosesLink
  PROVE  Agreed'
<1>1. CASE LinkOpens \/ LinkOpensUnheard
  <2>1. Led!ConnectionOpens
    BY <1>1 DEF LinkOpens, LinkOpensUnheard
  <2>2. ~l_subscribed' /\ l_procedure' = "none"
    BY <2>1 DEF Led!ConnectionOpens, Alone, LP!Session
  <2>3. OnlySubscriptions'
    <3>1. CASE LinkOpens
      <4> DEFINE e == [id |-> "opened", conn |-> Handle, arg |-> "none"]
      <4>1. Keypad!Queue(e) /\ ~IsStatus(e)
        BY <3>1 DEF LinkOpens, Keypad!CentralConnects, IsStatus
      <4>2. QED
        BY <4>1, KeypadQueues DEF Alone, Agreed
    <3>2. CASE LinkOpensUnheard
      BY <3>2 DEF LinkOpensUnheard, keypadVars, keypadRest, Agreed, OnlySubscriptions, IsStatus
    <3>3. QED
      BY <1>1, <3>1, <3>2
  <2>4. QED
    BY <2>2, <2>3 DEF Agreed, Subscribed
<1>2. CASE KeypadLosesLink
  <2> DEFINE e == Keypad!Event("closed")
  <2>1. Keypad!Queue(e) /\ ~IsStatus(e) /\ k_link' = NoHandle /\ UNCHANGED l_procedure
    BY <1>2 DEF KeypadLosesLink, Keypad!LinkDrops, Keypad!Event, IsStatus, ledVars
  <2>2. OnlySubscriptions'
    BY <2>1, KeypadQueues DEF Alone, Agreed
  <2>3. QED
    BY <2>1, <2>2 DEF Agreed, Subscribed, Connected
<1>3. CASE LedLosesLink
  BY <1>3 DEF LedLosesLink, Led!LinkDrops, keypadVars, keypadRest, Agreed, Subscribed,
     Connected, OnlySubscriptions, IsStatus
<1>4. QED
  BY <1>1, <1>2, <1>3

\* A procedure is answered: the keypad board hears of the subscription before the
\* LED board hears that it is made.
LEMMA AnswerAgrees ==
  ASSUME Alone, Agreed, ProcedureAnswered
  PROVE  Agreed'
<1>1. /\ Connected /\ UNCHANGED <<l_link, l_procedure>>
      /\ Led!PeerFinds \/ Led!PeerConfigures \/ Led!PeerReads \/ Led!PeerRefuses
  BY DEF ProcedureAnswered, Led!PeerAnswers
<1>2. k_link = Handle
  BY <1>1 DEF Connected, Alone, KP!TypeOK, KP!AnyHandle
<1>3. CASE l_procedure = "subscribe"
  <2> DEFINE e == [id |-> "characteristic_status", conn |-> k_link, arg |-> "notification"]
  <2>1. Keypad!CentralConfigures("notification")
    BY <1>3 DEF ProcedureAnswered
  <2>2. Keypad!Queue(e) /\ IsStatus(e)
    BY <2>1 DEF Keypad!CentralConfigures, IsStatus
  <2>3. OnlySubscriptions' /\ Reporting'
    BY <1>2, <2>2, KeypadQueues DEF Alone, Agreed
  <2>4. QED
    BY <1>1, <2>3 DEF Agreed, Subscribed
<1>4. CASE l_procedure # "subscribe"
  <2>1. UNCHANGED keypadVars
    BY <1>4 DEF ProcedureAnswered, Agreed
  <2>2. UNCHANGED l_subscribed
    BY <1>1, <1>4 DEF Agreed, Led!PeerFinds, Led!PeerConfigures, Led!PeerReads, Led!PeerRefuses
  <2>3. QED
    BY <1>1, <2>1, <2>2 DEF keypadVars, keypadRest, Agreed, Subscribed, Connected, Sending,
       OnlySubscriptions, Reporting, IsStatus
<1>5. QED
  BY <1>3, <1>4

LEMMA AgreedStep ==
  ASSUME Alone, Agreed, [Next]_vars
  PROVE  Agreed'
<1>1. ASSUME UNCHANGED <<k_link, k_evq, k_ok_to_send_htm_notif, k_connection_handle,
                         l_link, l_subscribed, l_procedure>>
      PROVE  Agreed'
  BY <1>1 DEF Agreed, Subscribed, Connected, Sending, OnlySubscriptions, Reporting, IsStatus
<1>2. CASE AdvertisementHeard
  BY <1>1, <1>2 DEF AdvertisementHeard, Led!DeviceReported, keypadVars, keypadRest
<1>3. CASE NotificationArrives
  BY <1>1, <1>3 DEF NotificationArrives, Keypad!NotificationReceived, Keypad!appVars,
     Led!PeerNotifies
<1>4. CASE KeypadResets
  <2>1. /\ k_link' = NoHandle /\ UNCHANGED l_procedure
        /\ k_evq' = <<[id |-> "boot", conn |-> NoHandle, arg |-> "none"]>>
    BY <1>4 DEF KeypadResets, ledVars
  <2>2. OnlySubscriptions'
    BY <2>1 DEF OnlySubscriptions, IsStatus
  <2>3. QED
    BY <2>1, <2>2 DEF Agreed, Subscribed, Connected
<1>5. CASE LedResets
  BY <1>5 DEF LedResets, keypadVars, keypadRest, Agreed, Subscribed, Connected,
     OnlySubscriptions, IsStatus
<1>6. CASE UNCHANGED vars
  BY <1>1, <1>6 DEF vars, keypadVars, keypadRest, ledVars
<1>7. CASE \/ \E p \in Keys : KeypadKeys(Keypad!Edge(p))
           \/ KeypadKeys(Keypad!Interrupts)
           \/ KeypadKeys(Keypad!RaiseSignalEvent)
  BY <1>1, <1>7 DEF KeypadKeys, keypadRest, ledVars
<1>8. QED
  BY <1>2, <1>3, <1>4, <1>5, <1>6, <1>7, KeypadAgrees, LedAgrees, LinkAgrees, AnswerAgrees
     DEF Next, Alone

\* The LED board believes it is subscribed only when the keypad board will send, in
\* every order of losses, resets and key presses (keypad_server_state_machine(),
\* discovery_state_machine() and the handlers of both boards).
THEOREM SubscriptionIsShared == Spec => []SubscriptionAgrees
<1>1. Init => Alone /\ Agreed
  <2>1. Init => Agreed
    BY DEF Init, Keypad!Init, Led!Init, Agreed, OnlySubscriptions, Subscribed, Connected,
       IsStatus
  <2>2. QED
    BY <2>1, PairStarts, KeypadStarts, LedStarts DEF Alone
<1>2. Alone /\ Agreed /\ [Next]_vars => Alone' /\ Agreed'
  BY AloneStep, AgreedStep
<1>3. Alone /\ Agreed => SubscriptionAgrees
  <2> SUFFICES ASSUME Alone, Agreed, Connected, l_current_state = "stateWAIT",
                      l_undisturbed, k_evq = <<>>
               PROVE  k_ok_to_send_htm_notif /\ k_connection_handle = k_link
    BY DEF SubscriptionAgrees
  <2>1. l_subscribed
    BY DEF Alone, LP!Phased, LP!Phase, LP!Through, Connected
  <2>2. ~Reporting
    BY DEF Reporting
  <2>3. k_link = Handle
    BY DEF Alone, Connected, KP!TypeOK, KP!AnyHandle
  <2>4. QED
    BY <2>1, <2>2, <2>3 DEF Agreed, Subscribed, Sending
<1>4. QED
  BY <1>1, <1>2, <1>3, PTL DEF Spec

-----------------------------------------------------------------------------
(* The values in a queue.                                                  *)

\* Induction over the natural numbers, for the elements of a set.
LEMMA SetInduction ==
  ASSUME NEW T, 0 \in T, \A n \in Nat : n \in T => n + 1 \in T
  PROVE  \A n \in Nat : n \in T
<1> DEFINE R == OpToRel(<, Nat)
           U == Nat \ T
<1>1. IsWellFoundedOn(R, Nat)
  BY NatLessThanWellFounded
<1>2. \A m, n \in Nat : <<m, n>> \in R <=> m < n
  BY DEF OpToRel
<1> HIDE DEF R
<1>3. ASSUME U # {} PROVE FALSE
  <2>1. U \subseteq Nat
    OBVIOUS
  <2> HIDE DEF U
  <2>2. PICK x \in U : \A y \in U : ~(<<y, x>> \in R)
    BY <1>1, <1>3, <2>1, WFMin
  <2>3. x \in Nat /\ x # 0 /\ x \notin T
    BY <2>2 DEF U
  <2>4. x - 1 \in Nat /\ x - 1 < x /\ (x - 1) + 1 = x
    BY <2>3
  <2>5. x - 1 \notin U
    BY <1>2, <2>2, <2>3, <2>4
  <2>6. QED
    BY <2>3, <2>4, <2>5 DEF U
<1>4. QED
  BY <1>3

\* The values among the first n events of a queue, for each n up to m.
IsTold(f, q, m) ==
  f = [n \in 0..m |->
         IF n = 0 THEN <<>>
         ELSE IF IsValue(q[n]) THEN Append(f[n - 1], q[n].arg) ELSE f[n - 1]]

LEMMA ToldExists ==
  ASSUME NEW q, NEW m \in Nat
  PROVE  \E f : IsTold(f, q, m)
<1> DEFINE T == {n \in Nat : \E f : IsTold(f, q, n)}
<1>1. 0 \in T
  <2> DEFINE f == [n \in 0..0 |-> <<>>]
  <2>1. IsTold(f, q, 0)
    BY DEF IsTold
  <2>2. QED
    BY <2>1
<1>2. ASSUME NEW n \in Nat, n \in T
      PROVE  n + 1 \in T
  <2>1. PICK f : IsTold(f, q, n)
    BY <1>2
  <2> DEFINE g == [i \in 0..n + 1 |->
                     IF i <= n THEN f[i]
                     ELSE IF IsValue(q[i]) THEN Append(f[n], q[i].arg) ELSE f[n]]
  <2> DEFINE F(i) == IF i = 0 THEN <<>>
                     ELSE IF IsValue(q[i]) THEN Append(f[i - 1], q[i].arg) ELSE f[i - 1]
  <2>2. f = [i \in 0..n |-> F(i)]
    BY <2>1 DEF IsTold
  <2>3. \A i \in 0..n : f[i] = F(i)
    <3> HIDE DEF F
    <3>1. QED
      BY <2>2
  <2>4. \A i \in 0..n : g[i] = f[i]
    OBVIOUS
  <2>5. g[n + 1] = IF IsValue(q[n + 1]) THEN Append(f[n], q[n + 1].arg) ELSE f[n]
    OBVIOUS
  <2>6. g = [i \in 0..n + 1 |-> g[i]]
    OBVIOUS
  <2> HIDE DEF g
  <2>7. ASSUME NEW i \in 0..n + 1
        PROVE  g[i] = IF i = 0 THEN <<>>
                      ELSE IF IsValue(q[i]) THEN Append(g[i - 1], q[i].arg) ELSE g[i - 1]
    <3>1. CASE i = 0
      BY <2>3, <2>4, <3>1
    <3>2. CASE i \in 1..n
      <4>1. i \in 0..n /\ i - 1 \in 0..n /\ i # 0
        BY <3>2
      <4>2. g[i] = F(i) /\ g[i - 1] = f[i - 1]
        BY <2>3, <2>4, <4>1
      <4>3. QED
        BY <4>1, <4>2
    <3>3. CASE i = n + 1
      <4>1. i - 1 = n /\ i # 0 /\ n \in 0..n
        BY <3>3
      <4>2. QED
        BY <2>4, <2>5, <3>3, <4>1
    <3>4. QED
      BY <3>1, <3>2, <3>3
  <2>8. IsTold(g, q, n + 1)
    BY <2>6, <2>7 DEF IsTold
  <2>9. QED
    BY <2>8
<1> HIDE DEF T
<1>3. \A n \in Nat : n \in T
  BY <1>1, <1>2, SetInduction
<1>4. QED
  BY <1>3 DEF T

LEMMA ValuesAreTold ==
  ASSUME NEW q, Len(q) \in Nat
  PROVE  \E f : IsTold(f, q, Len(q)) /\ ValuesIn(q) = f[Len(q)]
<1>1. \E f : IsTold(f, q, Len(q))
  BY ToldExists
<1>2. QED
  BY <1>1 DEF ValuesIn, IsTold

\* What IsTold says at one place.
LEMMA ToldAt ==
  ASSUME NEW f, NEW q, NEW m \in Nat, IsTold(f, q, m)
  PROVE  /\ f[0] = <<>>
         /\ \A i \in 1..m : f[i] = IF IsValue(q[i]) THEN Append(f[i - 1], q[i].arg)
                                                    ELSE f[i - 1]
<1> DEFINE F(i) == IF i = 0 THEN <<>>
                   ELSE IF IsValue(q[i]) THEN Append(f[i - 1], q[i].arg) ELSE f[i - 1]
<1>1. f = [i \in 0..m |-> F(i)]
  BY DEF IsTold
<1>2. \A i \in 0..m : f[i] = F(i)
  <2> HIDE DEF F
  <2>1. QED
    BY <1>1
<1>3. 0 \in 0..m /\ \A i \in 1..m : i \in 0..m /\ i # 0
  OBVIOUS
<1>4. QED
  BY <1>2, <1>3

LEMMA ToldTypes ==
  ASSUME NEW f, NEW q, NEW m \in Nat, IsTold(f, q, m), NEW S,
         \A i \in 1..m : IsValue(q[i]) => q[i].arg \in S
  PROVE  \A i \in 0..m : f[i] \in Seq(S)
<1> DEFINE T == {i \in Nat : i <= m => f[i] \in Seq(S)}
<1>1. 0 \in T
  BY ToldAt, EmptySeq
<1>2. ASSUME NEW i \in Nat, i \in T PROVE i + 1 \in T
  <2> SUFFICES ASSUME i + 1 <= m PROVE f[i + 1] \in Seq(S)
    OBVIOUS
  <2>1. i + 1 \in 1..m /\ (i + 1) - 1 = i /\ f[i] \in Seq(S)
    BY <1>2
  <2>2. f[i + 1] = IF IsValue(q[i + 1]) THEN Append(f[i], q[i + 1].arg) ELSE f[i]
    <3>1. f[i + 1] = IF IsValue(q[i + 1]) THEN Append(f[(i + 1) - 1], q[i + 1].arg)
                                          ELSE f[(i + 1) - 1]
      BY <2>1, ToldAt
    <3>2. QED
      BY <2>1, <3>1
  <2>3. QED
    BY <2>1, <2>2, AppendProperties
<1> HIDE DEF T
<1>3. \A i \in Nat : i \in T
  BY <1>1, <1>2, SetInduction
<1>4. QED
  BY <1>3 DEF T

\* Queues that begin alike tell the same values there.
LEMMA ToldAlike ==
  ASSUME NEW f, NEW q, NEW m \in Nat, IsTold(f, q, m),
         NEW g, NEW p, NEW k \in Nat, IsTold(g, p, k), m <= k,
         \A i \in 1..m : q[i] = p[i]
  PROVE  \A i \in 0..m : f[i] = g[i]
<1> DEFINE T == {i \in Nat : i <= m => f[i] = g[i]}
<1>1. 0 \in T
  BY ToldAt
<1>2. ASSUME NEW i \in Nat, i \in T PROVE i + 1 \in T
  <2> SUFFICES ASSUME i + 1 <= m PROVE f[i + 1] = g[i + 1]
    OBVIOUS
  <2>1. i + 1 \in 1..m /\ i + 1 \in 1..k /\ (i + 1) - 1 = i /\ f[i] = g[i]
    BY <1>2
  <2>2. f[i + 1] = IF IsValue(q[i + 1]) THEN Append(f[(i + 1) - 1], q[i + 1].arg)
                                        ELSE f[(i + 1) - 1]
    BY <2>1, ToldAt
  <2>3. g[i + 1] = IF IsValue(p[i + 1]) THEN Append(g[(i + 1) - 1], p[i + 1].arg)
                                        ELSE g[(i + 1) - 1]
    BY <2>1, ToldAt
  <2>4. QED
    BY <2>1, <2>2, <2>3
<1> HIDE DEF T
<1>3. \A i \in Nat : i \in T
  BY <1>1, <1>2, SetInduction
<1>4. QED
  BY <1>3 DEF T

\* Putting one more at the end of the second part.
LEMMA AppendAfter ==
  ASSUME NEW S, NEW s \in Seq(S), NEW t \in Seq(S), NEW v \in S
  PROVE  s \o Append(t, v) = Append(s \o t, v)
<1> DEFINE one == <<v>>
<1>1. one \in Seq(S)
  OBVIOUS
<1>2. Append(t, v) = t \o one
  BY AppendIsConcat
<1>3. s \o t \in Seq(S)
  BY ConcatProperties
<1>4. Append(s \o t, v) = (s \o t) \o one
  BY <1>3, AppendIsConcat
<1> HIDE DEF one
<1>5. (s \o t) \o one = s \o (t \o one)
  BY <1>1, ConcatAssociative
<1>6. QED
  BY <1>2, <1>4, <1>5, Zenon

\* A queue one event shorter tells what is left.
LEMMA ToldLater ==
  ASSUME NEW q, NEW p, NEW m \in Nat, Len(q) = m + 1, Len(p) = m, NEW S,
         \A i \in 1..m : p[i] = q[i + 1],
         \A i \in 1..m + 1 : IsValue(q[i]) => q[i].arg \in S
  PROVE  ValuesIn(q) = (IF IsValue(q[1]) THEN <<q[1].arg>> ELSE <<>>) \o ValuesIn(p)
<1> DEFINE first == IF IsValue(q[1]) THEN <<q[1].arg>> ELSE <<>>
<1>1. PICK f : IsTold(f, q, m + 1) /\ ValuesIn(q) = f[m + 1]
  BY ValuesAreTold
<1>2. PICK g : IsTold(g, p, m) /\ ValuesIn(p) = g[m]
  BY ValuesAreTold
<1>3. first \in Seq(S) /\ f[1] = first
  <2>1. 1 \in 1..m + 1 /\ 1 - 1 = 0 /\ f[0] = <<>>
    BY <1>1, ToldAt
  <2>2. f[1] = IF IsValue(q[1]) THEN Append(f[1 - 1], q[1].arg) ELSE f[1 - 1]
    BY <1>1, <2>1, ToldAt
  <2>3. IsValue(q[1]) => q[1].arg \in S
    BY <2>1
  <2>4. CASE IsValue(q[1])
    <3>1. PICK v : v = q[1].arg
      OBVIOUS
    <3>2. f[1] = Append(<<>>, v)
      BY <2>1, <2>2, <2>4, <3>1
    <3>3. Append(<<>>, v) = <<v>> /\ <<v>> \in Seq(S)
      BY <2>3, <2>4, <3>1
    <3>4. first = <<v>>
      BY <2>4, <3>1
    <3>5. QED
      BY <3>2, <3>3, <3>4
  <2>5. CASE ~IsValue(q[1])
    BY <2>1, <2>2, <2>5, EmptySeq
  <2>6. QED
    BY <2>4, <2>5
<1> HIDE DEF first
<1>4. \A i \in 1..m + 1 :
        f[i] = IF IsValue(q[i]) THEN Append(f[i - 1], q[i].arg) ELSE f[i - 1]
  BY <1>1, ToldAt
<1>5. \A i \in 0..m : g[i] \in Seq(S)
  <2>1. \A i \in 1..m : IsValue(p[i]) => p[i].arg \in S
    OBVIOUS
  <2>2. QED
    BY <1>2, <2>1, ToldTypes
<1> DEFINE C(i) == first \o g[i]
           T == {i \in Nat : i <= m => f[i + 1] = C(i)}
<1>6. C(0) = first
  <2>1. g[0] = <<>>
    BY <1>2, ToldAt
  <2>2. QED
    BY <1>3, <2>1, ConcatEmptySeq
<1>7. \A i \in 0..m : \A v \in S : first \o Append(g[i], v) = Append(C(i), v)
  <2>1. \A s, t \in Seq(S) : \A v \in S : s \o Append(t, v) = Append(s \o t, v)
    BY AppendAfter
  <2>2. QED
    BY <1>3, <1>5, <2>1, Zenon
<1>8. ASSUME NEW i \in 1..m
      PROVE  C(i) = IF IsValue(q[i + 1]) THEN Append(C(i - 1), q[i + 1].arg) ELSE C(i - 1)
  <2>1. g[i] = IF IsValue(p[i]) THEN Append(g[i - 1], p[i].arg) ELSE g[i - 1]
    BY <1>2, ToldAt
  <2>2. p[i] = q[i + 1] /\ i - 1 \in 0..m
    OBVIOUS
  <2>3. IsValue(p[i]) => p[i].arg \in S
    OBVIOUS
  <2>4. CASE IsValue(p[i])
    <3>1. g[i] = Append(g[i - 1], p[i].arg)
      BY <2>1, <2>4
    <3>2. first \o Append(g[i - 1], p[i].arg) = Append(C(i - 1), p[i].arg)
      <4> HIDE DEF C
      <4>1. QED
        BY <1>7, <2>2, <2>3, <2>4
    <3>3. QED
      BY <2>2, <2>4, <3>1, <3>2
  <2>5. CASE ~IsValue(p[i])
    BY <2>1, <2>2, <2>5
  <2>6. QED
    BY <2>4, <2>5
<1> HIDE DEF C
<1>9. 0 \in T
  BY <1>3, <1>6
<1>10. ASSUME NEW i \in Nat, i \in T PROVE i + 1 \in T
  <2> SUFFICES ASSUME i + 1 <= m PROVE f[(i + 1) + 1] = C(i + 1)
    OBVIOUS
  <2>1. i + 1 \in 1..m /\ (i + 1) - 1 = i
    OBVIOUS
  <2>2. f[i + 1] = C(i)
    BY <1>10
  <2>3. (i + 1) + 1 \in 1..m + 1 /\ ((i + 1) + 1) - 1 = i + 1
    OBVIOUS
  <2>4. f[(i + 1) + 1] = IF IsValue(q[(i + 1) + 1])
                         THEN Append(f[((i + 1) + 1) - 1], q[(i + 1) + 1].arg)
                         ELSE f[((i + 1) + 1) - 1]
    BY <1>4, <2>3
  <2>5. C(i + 1) = IF IsValue(q[(i + 1) + 1])
                   THEN Append(C((i + 1) - 1), q[(i + 1) + 1].arg) ELSE C((i + 1) - 1)
    BY <1>8, <2>1
  <2>6. QED
    BY <2>1, <2>2, <2>3, <2>4, <2>5
<1> HIDE DEF T
<1>11. \A i \in Nat : i \in T
  BY <1>9, <1>10, SetInduction
<1>12. f[m + 1] = C(m)
  BY <1>11 DEF T
<1>13. QED
  BY <1>1, <1>2, <1>12, Zenon DEF C, first

\* The values are told by the queue's own events.
LEMMA ValuesType ==
  ASSUME NEW S, NEW q, Len(q) \in Nat,
         \A i \in 1..Len(q) : IsValue(q[i]) => q[i].arg \in S
  PROVE  ValuesIn(q) \in Seq(S)
<1>1. PICK f : IsTold(f, q, Len(q)) /\ ValuesIn(q) = f[Len(q)]
  BY ValuesAreTold
<1>2. \A i \in 0..Len(q) : f[i] \in Seq(S)
  BY <1>1, ToldTypes
<1>3. QED
  BY <1>1, <1>2

LEMMA NoValues ==
  ASSUME NEW q, Len(q) \in Nat, \A i \in 1..Len(q) : ~IsValue(q[i])
  PROVE  ValuesIn(q) = <<>>
<1>1. ValuesIn(q) \in Seq({})
  BY ValuesType
<1>2. QED
  BY <1>1, EmptySeq, HeadTailProperties

\* A queued value is the last to be told.
LEMMA ValuesQueued ==
  ASSUME NEW E, NEW q \in Seq(E), NEW e \in E
  PROVE  ValuesIn(Append(q, e)) = IF IsValue(e) THEN Append(ValuesIn(q), e.arg)
                                                ELSE ValuesIn(q)
<1> DEFINE p == Append(q, e)
           n == Len(q)
<1>1. /\ n \in Nat /\ Len(p) = n + 1 /\ p[n + 1] = e
      /\ \A i \in 1..n : q[i] = p[i]
  BY AppendProperties, LenProperties
<1> HIDE DEF p
<1>2. PICK f : IsTold(f, q, n) /\ ValuesIn(q) = f[n]
  BY <1>1, ValuesAreTold
<1>3. PICK g : IsTold(g, p, n + 1) /\ ValuesIn(p) = g[n + 1]
  BY <1>1, ValuesAreTold
<1> HIDE DEF n
<1>4. \A i \in 0..n : f[i] = g[i]
  BY <1>1, <1>2, <1>3, ToldAlike
<1>5. n + 1 \in 1..n + 1 /\ (n + 1) - 1 = n /\ n \in 0..n
  BY <1>1
<1>6. g[n + 1] = IF IsValue(p[n + 1]) THEN Append(g[(n + 1) - 1], p[n + 1].arg)
                                      ELSE g[(n + 1) - 1]
  BY <1>1, <1>3, <1>5, ToldAt
<1>7. ValuesIn(p) = IF IsValue(e) THEN Append(ValuesIn(q), e.arg) ELSE ValuesIn(q)
  BY <1>1, <1>2, <1>3, <1>4, <1>5, <1>6
<1>8. QED
  BY <1>7 DEF p

\* The oldest value is told first.
LEMMA ValuesTaken ==
  ASSUME NEW E, NEW q \in Seq(E), q # <<>>, NEW S,
         \A i \in 1..Len(q) : IsValue(q[i]) => q[i].arg \in S
  PROVE  IF IsValue(Head(q))
         THEN Head(q).arg \in S /\ ValuesIn(q) = <<Head(q).arg>> \o ValuesIn(Tail(q))
         ELSE ValuesIn(q) = ValuesIn(Tail(q))
<1> DEFINE p == Tail(q)
           n == Len(q) - 1
           v == Head(q).arg
<1>1. /\ n \in Nat /\ Len(q) = n + 1 /\ Len(p) = n /\ Head(q) = q[1]
      /\ \A i \in 1..n : p[i] = q[i + 1]
  BY HeadTailProperties, EmptySeq, LenProperties
<1> HIDE DEF p, n
<1>2. \A i \in 1..n + 1 : IsValue(q[i]) => q[i].arg \in S
  BY <1>1
<1>3. ValuesIn(q) = (IF IsValue(q[1]) THEN <<q[1].arg>> ELSE <<>>) \o ValuesIn(p)
  <2>1. n \in Nat /\ \A i \in 1..n : p[i] = q[i + 1]
    BY <1>1
  <2>2. Len(q) = n + 1 /\ Len(p) = n
    BY <1>1
  <2>3. QED
    BY <1>2, <2>1, <2>2, ToldLater
<1>4. CASE IsValue(Head(q))
  <2>1. v \in S
    BY <1>1, <1>2, <1>4
  <2>2. ValuesIn(q) = <<v>> \o ValuesIn(p)
    BY <1>1, <1>3, <1>4, Zenon
  <2>3. QED
    BY <1>4, <2>1, <2>2 DEF p, v
<1>5. CASE ~IsValue(Head(q))
  <2>1. \A i \in 1..n : IsValue(p[i]) => p[i].arg \in S
    BY <1>1, <1>2
  <2>2. ValuesIn(p) \in Seq(S)
    BY <1>1, <2>1, ValuesType
  <2>3. <<>> \o ValuesIn(p) = ValuesIn(p)
    BY <2>2, ConcatEmptySeq
  <2>4. ValuesIn(q) = ValuesIn(p)
    BY <1>1, <1>3, <1>5, <2>3, Zenon
  <2>5. QED
    BY <1>5, <2>4 DEF p
<1>6. QED
  BY <1>4, <1>5

\* Moving the oldest of what is on the air to the end of what waits changes nothing.
LEMMA MovedOver ==
  ASSUME NEW S, NEW s \in Seq(S), NEW t \in Seq(S), t # <<>>
  PROVE  Append(s, Head(t)) \o Tail(t) = s \o t
<1>1. PICK v : v = Head(t)
  OBVIOUS
<1>2. PICK u : u = Tail(t)
  OBVIOUS
<1>3. v \in S /\ u \in Seq(S) /\ t = <<v>> \o u /\ <<v>> \in Seq(S)
  <2>1. v \in S /\ u \in Seq(S) /\ Len(u) = Len(t) - 1
    BY <1>1, <1>2, HeadTailProperties
  <2>2. <<v>> \in Seq(S) /\ Len(<<v>>) = 1 /\ <<v>>[1] = v
    BY <2>1
  <2>3. /\ <<v>> \o u \in Seq(S) /\ Len(<<v>> \o u) = Len(t)
    BY <2>1, <2>2, ConcatProperties, LenProperties
  <2>4. \A i \in 1..Len(t) : (<<v>> \o u)[i] = t[i]
    BY <1>1, <1>2, <2>1, <2>2, ConcatProperties, HeadTailProperties, LenProperties
  <2>5. t = <<v>> \o u
    BY <2>3, <2>4, SeqEqual
  <2>6. QED
    BY <2>1, <2>2, <2>5
<1>4. Append(s, v) = s \o <<v>>
  BY <1>3, AppendIsConcat
<1>5. (s \o <<v>>) \o u = s \o (<<v>> \o u)
  BY <1>3, ConcatAssociative
<1>6. QED
  BY <1>1, <1>2, <1>3, <1>4, <1>5, Zenon

\* Taking the oldest of all is taking the oldest of what waits.
LEMMA TakenFirst ==
  ASSUME NEW S, NEW s \in Seq(S), NEW t \in Seq(S), NEW v \in S
  PROVE  (<<v>> \o s) \o t # <<>> /\ Tail((<<v>> \o s) \o t) = s \o t
<1>1. PICK one : one = <<v>>
  OBVIOUS
<1>2. PICK w : w = s \o t
  OBVIOUS
<1>3. PICK all : all = one \o w
  OBVIOUS
<1>4. one \in Seq(S) /\ Len(one) = 1 /\ w \in Seq(S)
  BY <1>1, <1>2, ConcatProperties
<1>5. (one \o s) \o t = one \o (s \o t)
  <2>1. one \in Seq(S)
    BY <1>4
  <2>2. \A a, b, c \in Seq(S) : (a \o b) \o c = a \o (b \o c)
    BY ConcatAssociative
  <2>3. QED
    BY <2>1, <2>2, Zenon
<1>6. (<<v>> \o s) \o t = all
  BY <1>1, <1>2, <1>3, <1>5, Zenon
<1>7. /\ all \in Seq(S) /\ Len(all) = Len(one) + Len(w)
      /\ \A i \in 1..Len(one) + Len(w) : all[i] = IF i <= Len(one) THEN one[i] ELSE w[i - Len(one)]
  BY <1>3, <1>4, ConcatProperties
<1>8. Len(w) \in Nat
  BY <1>4, LenProperties
<1>9. all # <<>>
  BY <1>4, <1>7, <1>8, EmptySeq
<1>10. /\ Tail(all) \in Seq(S) /\ Len(Tail(all)) = Len(w)
       /\ \A i \in 1..Len(w) : Tail(all)[i] = all[i + 1]
  BY <1>4, <1>7, <1>8, <1>9, HeadTailProperties
<1>11. Tail(all) = w
  <2>1. \A i \in 1..Len(w) : Tail(all)[i] = w[i]
    BY <1>4, <1>7, <1>8, <1>10
  <2>2. QED
    BY <1>4, <1>10, <2>1, SeqEqual
<1>12. QED
  BY <1>2, <1>6, <1>9, <1>11, Zenon

\* What waits is the beginning of all.
LEMMA KeptPart ==
  ASSUME NEW S, NEW s \in Seq(S), NEW t \in Seq(S)
  PROVE  /\ Len(s) \in 0..Len(s \o t)
         /\ SubSeq(s \o t, 1, Len(s)) = s
<1> DEFINE w == s \o t
           u == SubSeq(w, 1, Len(s))
<1>1. /\ w \in Seq(S) /\ Len(w) = Len(s) + Len(t)
      /\ \A i \in 1..Len(s) : w[i] = s[i]
      /\ Len(s) \in Nat /\ Len(t) \in Nat
  BY ConcatProperties, LenProperties
<1>2. \A i \in 1..Len(s) : w[i] \in S
  BY <1>1, ElementOfSeq
<1> HIDE DEF w
<1>3. /\ u \in Seq(S) /\ Len(u) = Len(s)
      /\ \A i \in 1..Len(s) : u[i] = s[i]
  <2>1. /\ u \in Seq(S)
        /\ Len(u) = IF 1 <= Len(s) THEN Len(s) - 1 + 1 ELSE 0
        /\ \A i \in 1..Len(s) - 1 + 1 : u[i] = w[1 + i - 1]
    BY <1>1, <1>2, SubSeqProperties
  <2>2. QED
    BY <1>1, <2>1
<1>4. u = s
  BY <1>3, SeqEqual
<1>5. QED
  BY <1>1, <1>4 DEF w
-----------------------------------------------------------------------------
(* The values on their way from the keys to the LED.                       *)

InAir == IF Connected THEN k_air ELSE <<>>

\* What waits and what is on the air are sequences of values.
LEMMA ToldTyped ==
  ASSUME Alone
  PROVE  /\ l_evq \in Seq(LP!Events)
         /\ \A i \in 1..Len(l_evq) : IsValue(l_evq[i]) => l_evq[i].arg \in 0..2
         /\ ValuesIn(l_evq) \in Seq(0..2)
         /\ k_air \in Seq(0..2) /\ InAir \in Seq(0..2)
<1>1. l_evq \in Seq(LP!Events) /\ k_air \in Seq(0..2)
  BY DEF Alone, LP!TypeOK, KP!TypeOK, KP!ButtonValues
<1>2. \A i \in 1..Len(l_evq) : IsValue(l_evq[i]) => l_evq[i].arg \in 0..2
  <2> SUFFICES ASSUME NEW i \in 1..Len(l_evq), IsValue(l_evq[i])
               PROVE  l_evq[i].arg \in 0..2
    OBVIOUS
  <2>1. l_evq[i] \in LP!Events
    BY <1>1, ElementOfSeq
  <2>2. QED
    BY <2>1 DEF LP!Events, LP!PlainIds, IsValue
<1>3. ValuesIn(l_evq) \in Seq(0..2)
  BY <1>1, <1>2, ValuesType, LenProperties
<1>4. QED
  BY <1>1, <1>2, <1>3, EmptySeq DEF InAir

\* Queueing on the LED board.
LEMMA LedQueues ==
  ASSUME Alone, NEW e, Led!Queue(e) \/ l_evq' = Append(l_evq, e), e \in LP!Events
  PROVE  ValuesIn(l_evq') = IF IsValue(e) THEN Append(ValuesIn(l_evq), e.arg)
                                          ELSE ValuesIn(l_evq)
<1>1. l_evq' = Append(l_evq, e)
  BY DEF Led!Queue
<1>2. l_evq \in Seq(LP!Events)
  BY ToldTyped
<1>3. QED
  BY <1>1, <1>2, ValuesQueued

LEMMA LedTakes ==
  ASSUME Alone, NEW id, Led!Take(id)
  PROVE  IF id = "value"
         THEN \E v \in 0..2 : ValuesIn(l_evq) = <<v>> \o ValuesIn(l_evq')
         ELSE ValuesIn(l_evq) = ValuesIn(l_evq')
<1>1. l_evq # <<>> /\ Head(l_evq).id = id /\ l_evq' = Tail(l_evq)
  BY DEF Led!Take
<1>2. IF IsValue(Head(l_evq))
      THEN /\ Head(l_evq).arg \in 0..2
           /\ ValuesIn(l_evq) = <<Head(l_evq).arg>> \o ValuesIn(Tail(l_evq))
      ELSE ValuesIn(l_evq) = ValuesIn(Tail(l_evq))
  BY <1>1, ToldTyped, ValuesTaken
<1>3. QED
  BY <1>1, <1>2, Zenon DEF IsValue

\* The same in terms of the abstract state.
LEMMA ToldIs ==
  /\ ToldValues = ValuesIn(l_evq) \o InAir
  /\ ToldValues' = ValuesIn(l_evq') \o InAir'
  BY DEF ToldValues, InAir

LEMMA Unnoticed ==
  ASSUME ValuesIn(l_evq') = ValuesIn(l_evq), UNCHANGED <<k_air, k_button>>,
         Connected' <=> Connected
  PROVE  UNCHANGED (M!vars)
<1>1. InAir' = InAir
  BY DEF InAir
<1>2. ToldValues' = ToldValues
  BY <1>1, ToldIs, Zenon
<1>3. Connected' = Connected
  BY DEF Connected
<1>4. QED
  BY <1>2, <1>3 DEF M!vars

\* A session ends: of what was told, that on the air is lost.
LEMMA SessionEnds ==
  ASSUME Alone, ~Connected', ValuesIn(l_evq') = ValuesIn(l_evq), k_button' \in {k_button, 0}
  PROVE  M!Lose
<1> DEFINE w == ValuesIn(l_evq)
<1>1. w \in Seq(0..2) /\ InAir \in Seq(0..2)
  BY ToldTyped
<1> HIDE DEF w
<1>2. w \o <<>> = w
  BY <1>1, ConcatEmptySeq
<1>3. InAir' = <<>>
  BY DEF InAir
<1>4. ToldValues = w \o InAir /\ ToldValues' = w
  BY <1>2, <1>3, ToldIs, Zenon DEF w
<1>5. Len(w) \in 0..Len(w \o InAir) /\ SubSeq(w \o InAir, 1, Len(w)) = w
  BY <1>1, KeptPart
<1>6. \E n \in 0..Len(ToldValues) : ToldValues' = SubSeq(ToldValues, 1, n)
  BY <1>4, <1>5, Zenon
<1>7. Connected' = FALSE
  BY DEF Connected
<1>8. QED
  BY <1>6, <1>7 DEF M!Lose

\* The keypad board's signal handler writes the attribute and may notify.
LEMMA SignalMirrored ==
  ASSUME Alone, KeypadHandlesSignal
  PROVE  [M!Next]_(M!vars)
<1>1. UNCHANGED <<k_link, ledVars>> /\ (Connected' <=> Connected)
  BY DEF KeypadHandlesSignal, Keypad!OnExternalSignal, ledVars, Connected
<1>2. l_evq' = l_evq
  BY <1>1 DEF ledVars
<1>3. CASE UNCHANGED <<k_air, k_button>>
  BY <1>1, <1>2, <1>3, Unnoticed
<1>4. CASE Keypad!button_state_to_gatt(Keypad!KeyValue)
  <2> DEFINE v == Keypad!KeyValue
             w == ValuesIn(l_evq)
  <2>1. v \in 0..2 /\ k_button' = v
    BY <1>4 DEF Keypad!KeyValue, Keypad!button_state_to_gatt
  <2>2. \/ k_air' = k_air
        \/ k_air' = Append(k_air, v)
    BY <1>4 DEF Keypad!button_state_to_gatt
  <2>3. w \in Seq(0..2) /\ k_air \in Seq(0..2)
    BY ToldTyped
  <2>4. ToldValues = w \o InAir /\ ToldValues' = w \o InAir'
    BY <1>2, ToldIs, Zenon
  <2> HIDE DEF v, w
  <2>5. CASE Connected
    <3>1. InAir = k_air /\ InAir' = k_air'
      BY <1>1, <2>5 DEF InAir
    <3>2. w \o Append(k_air, v) = Append(w \o k_air, v)
      BY <2>1, <2>3, AppendAfter
    <3>3. ToldValues' = ToldValues \/ ToldValues' = Append(ToldValues, v)
      <4>1. CASE k_air' = k_air
        BY <2>4, <3>1, <4>1, Zenon
      <4>2. CASE k_air' = Append(k_air, v)
        BY <2>4, <3>1, <3>2, <4>2, Zenon
      <4>3. QED
        BY <2>2, <4>1, <4>2
    <3>4. Connected' = Connected
      BY <1>1 DEF Connected
    <3>5. QED
      BY <2>1, <2>5, <3>3, <3>4 DEF M!Next, M!Write
  <2>6. CASE ~Connected
    <3>1. InAir' = InAir
      BY <1>1, <2>6 DEF InAir
    <3>2. ToldValues' = ToldValues
      BY <2>4, <3>1, Zenon
    <3>3. Connected' = Connected
      BY <1>1 DEF Connected
    <3>4. QED
      BY <2>1, <3>2, <3>3 DEF M!Next, M!Write
  <2>7. QED
    BY <2>5, <2>6
<1>5. QED
  BY <1>3, <1>4 DEF KeypadHandlesSignal, Keypad!OnExternalSignal

\* The LED board acts on a value; its other handlers touch none.
LEMMA HandledMirrored ==
  ASSUME Alone, LedHandlesEvent
  PROVE  [M!Next]_(M!vars)
<1>1. UNCHANGED <<k_air, k_button, k_link>> /\ (l_link' = "up" <=> l_link = "up")
  BY DEF LedHandlesEvent, keypadVars, keypadRest, Led!HandleEvent,
     Led!OnBoot, Led!OnOpened, Led!OnClosed, Led!OnScanReport, Led!OnProcedureCompleted,
     Led!OnFound, Led!OnCharacteristicValue, Led!OnConfirmBonding, Led!OnConfirmPasskey,
     Led!OnBonded, Led!OnBondingFailed
<1>2. Connected' <=> Connected
  BY <1>1 DEF Connected
<1>3. ASSUME NEW id, Led!Take(id), id # "value"
      PROVE  UNCHANGED (M!vars)
  <2>1. ValuesIn(l_evq) = ValuesIn(l_evq')
    BY <1>3, LedTakes
  <2>2. QED
    BY <1>1, <1>2, <2>1, Unnoticed
<1>4. CASE Led!OnCharacteristicValue
  <2>1. Led!Take("value")
    BY <1>4 DEF Led!OnCharacteristicValue
  <2>2. PICK v \in 0..2 : ValuesIn(l_evq) = <<v>> \o ValuesIn(l_evq')
    BY <2>1, LedTakes
  <2>3. InAir' = InAir
    BY <1>1, <1>2 DEF InAir
  <2> DEFINE w == ValuesIn(l_evq')
  <2>4. w \in Seq(0..2)
    <3>1. /\ l_evq' = Tail(l_evq) /\ l_evq # <<>>
      BY <2>1 DEF Led!Take
    <3>2. /\ Len(l_evq') \in Nat
          /\ Len(l_evq') = Len(l_evq) - 1
          /\ \A i \in 1..Len(l_evq') : l_evq'[i] = l_evq[i + 1]
      BY <3>1, ToldTyped, HeadTailProperties, LenProperties
    <3>3. \A i \in 1..Len(l_evq') : IsValue(l_evq'[i]) => l_evq'[i].arg \in 0..2
      BY <3>2, ToldTyped
    <3>4. QED
      BY <3>2, <3>3, ValuesType
  <2>5. ToldValues = (<<v>> \o w) \o InAir /\ ToldValues' = w \o InAir
    BY <2>2, <2>3, ToldIs, Zenon
  <2> HIDE DEF w
  <2>6. (<<v>> \o w) \o InAir # <<>> /\ Tail((<<v>> \o w) \o InAir) = w \o InAir
    BY <2>4, ToldTyped, TakenFirst
  <2>7. ToldValues # <<>> /\ ToldValues' = Tail(ToldValues)
    BY <2>5, <2>6, Zenon
  <2>8. Connected' = Connected
    BY <1>2 DEF Connected
  <2>9. QED
    BY <1>1, <2>7, <2>8 DEF M!Next, M!Act
<1>5. CASE \/ Led!OnBoot \/ Led!OnOpened \/ Led!OnClosed \/ Led!OnScanReport
           \/ Led!OnProcedureCompleted \/ Led!OnFound \/ Led!OnConfirmBonding
           \/ Led!OnConfirmPasskey \/ Led!OnBonded \/ Led!OnBondingFailed
  BY <1>3, <1>5 DEF Led!OnBoot, Led!OnOpened, Led!OnClosed, Led!OnScanReport,
     Led!OnProcedureCompleted, Led!OnFound, Led!OnConfirmBonding, Led!OnConfirmPasskey,
     Led!OnBonded, Led!OnBondingFailed
<1>6. QED
  BY <1>4, <1>5 DEF LedHandlesEvent, Led!HandleEvent

\* The LED board's stack queues an event that is no value.
LEMMA EventIsPlain ==
  ASSUME Alone, NEW id, NEW arg, Led!Event(id, arg) \in LP!Events, id # "value",
         Led!Queue(Led!Event(id, arg))
  PROVE  ValuesIn(l_evq') = ValuesIn(l_evq)
<1>1. ~IsValue(Led!Event(id, arg))
  BY DEF IsValue, Led!Event
<1>2. QED
  BY <1>1, LedQueues
\* A connection opens: nothing is left of the one before.
LEMMA OpeningMirrored ==
  ASSUME Alone, LinkOpens \/ LinkOpensUnheard
  PROVE  [M!Next]_(M!vars)
<1>1. Led!ConnectionOpens
  BY DEF LinkOpens, LinkOpensUnheard
<1>2. l_link = "opening" /\ l_link' = "up" /\ Led!Queue(Led!Event("opened", NoDevice))
  BY <1>1 DEF Led!ConnectionOpens
<1>3. Led!Event("opened", NoDevice) \in LP!Events
  BY DEF Led!Event, LP!Events, LP!PlainIds
<1>4. ValuesIn(l_evq') = ValuesIn(l_evq)
  BY <1>2, <1>3, EventIsPlain
<1>5. k_link = NoHandle /\ k_air = <<>>
  <2>1. k_advertising
    BY DEF LinkOpens, LinkOpensUnheard, Keypad!CentralConnects
  <2>2. QED
    BY <2>1 DEF Alone, KP!NoAir, KP!Life, KP!Asleep, KP!Findable, KP!Engaged
<1>6. CASE LinkOpensUnheard
  <2>1. UNCHANGED <<k_link, k_air, k_button>>
    BY <1>6 DEF LinkOpensUnheard, keypadVars, keypadRest
  <2>2. Connected' <=> Connected
    BY <1>5, <2>1 DEF Connected
  <2>3. QED
    BY <1>4, <2>1, <2>2, Unnoticed
<1>7. CASE LinkOpens
  <2>1. k_link' = Handle /\ UNCHANGED <<k_air, k_button>>
    BY <1>7 DEF LinkOpens, Keypad!CentralConnects, Keypad!appVars
  <2>2. InAir = <<>> /\ InAir' = <<>>
    BY <1>5, <2>1 DEF InAir
  <2>3. ValuesIn(l_evq) = <<>>
    <3>1. LP!AllIn({"scan_report"})
      BY <1>2 DEF Alone, LP!Session, LP!Asleep, LP!Free, LP!Held, LP!Parted
    <3>2. \A i \in 1..Len(l_evq) : ~IsValue(l_evq[i])
      BY <3>1 DEF LP!AllIn, IsValue
    <3>3. Len(l_evq) \in Nat
      BY ToldTyped, LenProperties
    <3>4. QED
      BY <3>2, <3>3, NoValues
  <2>4. <<>> \o <<>> = <<>>
    BY ConcatEmptySeq, EmptySeq
  <2>5. ToldValues = <<>> /\ ToldValues' = <<>>
    BY <1>4, <2>2, <2>3, <2>4, ToldIs, Zenon
  <2>6. Connected = FALSE /\ Connected' = TRUE
    BY <1>2, <1>5, <2>1, HandleAssumption DEF Connected
  <2>7. QED
    BY <2>1, <2>5, <2>6 DEF M!Next, M!Open
<1>8. QED
  BY <1>6, <1>7

\* A link is lost or a board starts over.
LEMMA EndingMirrored ==
  ASSUME Alone, KeypadLosesLink \/ LedLosesLink \/ KeypadResets \/ LedResets
  PROVE  [M!Next]_(M!vars)
<1>1. CASE KeypadLosesLink \/ KeypadResets
  <2>1. k_link' = NoHandle /\ l_evq' = l_evq /\ k_button' \in {k_button, 0}
    BY <1>1 DEF KeypadLosesLink, Keypad!LinkDrops, Keypad!appVars, KeypadResets, ledVars
  <2>2. ~Connected'
    BY <2>1 DEF Connected
  <2>3. QED
    BY <2>1, <2>2, SessionEnds DEF M!Next
<1>2. CASE LedLosesLink
  <2>1. /\ l_link' = "none" /\ k_button' = k_button
        /\ Led!Queue(Led!Event("closed", NoDevice))
    BY <1>2 DEF LedLosesLink, Led!LinkDrops, keypadVars, keypadRest
  <2>2. Led!Event("closed", NoDevice) \in LP!Events
    BY DEF Led!Event, LP!Events, LP!PlainIds
  <2>3. ValuesIn(l_evq') = ValuesIn(l_evq)
    BY <2>1, <2>2, EventIsPlain
  <2>4. ~Connected'
    BY <2>1 DEF Connected
  <2>5. QED
    BY <2>1, <2>3, <2>4, SessionEnds DEF M!Next
<1>3. CASE LedResets
  <2>1. /\ l_link' = "none" /\ k_button' = k_button
        /\ l_evq' = <<Led!Event("boot", NoDevice)>>
    BY <1>3 DEF LedResets, keypadVars, keypadRest
  <2>2. Len(l_evq') = 1 /\ \A i \in 1..1 : ~IsValue(l_evq'[i])
    BY <2>1 DEF IsValue, Led!Event
  <2>3. ValuesIn(l_evq') = <<>>
    BY <2>2, NoValues
  <2>4. Connected' = FALSE
    BY <2>1 DEF Connected
  <2>5. InAir' = <<>>
    BY <2>4 DEF InAir
  <2>6. <<>> \o <<>> = <<>>
    BY ConcatEmptySeq, EmptySeq
  <2>7. ToldValues' = <<>>
    BY <2>3, <2>5, <2>6, ToldIs, Zenon
  <2>8. Len(ToldValues) \in Nat
    <3>1. ValuesIn(l_evq) \o InAir \in Seq(0..2)
      BY ToldTyped, ConcatProperties
    <3>2. ToldValues \in Seq(0..2)
      BY <3>1, ToldIs, Zenon
    <3>3. QED
      BY <3>2, LenProperties
  <2>9. 0 \in 0..Len(ToldValues) /\ SubSeq(ToldValues, 1, 0) = <<>>
    BY <2>8, SubSeqEmpty
  <2>10. QED
    BY <2>1, <2>4, <2>7, <2>9 DEF M!Next, M!Lose
<1>4. QED
  BY <1>1, <1>2, <1>3

\* The answer to a read carries the attribute as it is; no other answer a value.
LEMMA AnswerMirrored ==
  ASSUME Alone, ProcedureAnswered
  PROVE  [M!Next]_(M!vars)
<1>1. /\ Connected /\ k_air = <<>> /\ l_link' = l_link
      /\ Led!PeerFinds \/ Led!PeerConfigures \/ Led!PeerReads \/ Led!PeerRefuses
      /\ l_procedure = "read" => l_evq' = Append(l_evq, Led!Event("value", k_button))
  BY DEF ProcedureAnswered, Led!PeerAnswers
<1>2. UNCHANGED <<k_link, k_air, k_button>>
  BY DEF ProcedureAnswered, Keypad!CentralConfigures, Keypad!appVars, keypadVars, keypadRest
<1>3. Connected' <=> Connected
  BY <1>1, <1>2 DEF Connected
<1>4. CASE l_procedure # "read"
  <2>1. ValuesIn(l_evq') = ValuesIn(l_evq)
    <3>1. CASE Led!PeerFinds
      <4>1. /\ Led!Queue(Led!Event("found", l_procedure))
            /\ Led!Event("found", l_procedure) \in LP!Events
        BY <3>1 DEF Led!PeerFinds, Led!Attributes, Led!Event, LP!Events, LP!Attributes
      <4>2. QED
        BY <4>1, EventIsPlain
    <3>2. CASE ~Led!PeerFinds
      BY <1>1, <1>4, <3>2 DEF Led!PeerConfigures, Led!PeerReads, Led!PeerRefuses
    <3>3. QED
      BY <3>1, <3>2
  <2>2. QED
    BY <1>2, <1>3, <2>1, Unnoticed
<1>5. CASE l_procedure = "read"
  <2> DEFINE w == ValuesIn(l_evq)
             e == Led!Event("value", k_button)
  <2>1. e \in LP!Events /\ IsValue(e) /\ e.arg = k_button
    BY DEF Alone, KP!TypeOK, KP!ButtonValues, Led!Event, LP!Events, IsValue
  <2>2. l_evq' = Append(l_evq, e)
    BY <1>1, <1>5
  <2> HIDE DEF e
  <2>3. ValuesIn(l_evq') = Append(w, k_button)
    BY <2>1, <2>2, LedQueues
  <2>4. InAir = <<>> /\ InAir' = <<>>
    BY <1>1, <1>2 DEF InAir
  <2>5. w \in Seq(0..2) /\ k_button \in 0..2
    BY ToldTyped DEF Alone, KP!TypeOK, KP!ButtonValues
  <2> HIDE DEF w
  <2>6. w \o <<>> = w /\ Append(w, k_button) \o <<>> = Append(w, k_button)
    BY <2>5, AppendProperties, ConcatEmptySeq
  <2>7. ToldValues = w /\ ToldValues' = Append(w, k_button)
    BY <2>3, <2>4, <2>6, ToldIs, Zenon DEF w
  <2>8. Connected' = Connected
    BY <1>3 DEF Connected
  <2>9. QED
    BY <1>1, <1>2, <2>7, <2>8 DEF M!Next, M!Answer
<1>6. QED
  BY <1>4, <1>5

\* A notification arrives: it goes from the air into the queue, unseen.
LEMMA ArrivalMirrored ==
  ASSUME Alone, NotificationArrives
  PROVE  UNCHANGED (M!vars)
<1>1. /\ Connected /\ k_air # <<>> /\ k_air' = Tail(k_air)
      /\ UNCHANGED <<k_link, k_button, l_link>>
      /\ l_evq' = Append(l_evq, Led!Event("value", Head(k_air)))
  BY DEF NotificationArrives, Keypad!NotificationReceived, Keypad!appVars, Led!PeerNotifies
<1>2. Connected' = Connected /\ Connected'
  BY <1>1 DEF Connected
<1>3. InAir = k_air /\ InAir' = Tail(k_air)
  BY <1>1, <1>2 DEF InAir
<1> DEFINE w == ValuesIn(l_evq)
           v == Head(k_air)
           e == Led!Event("value", v)
<1>4. w \in Seq(0..2) /\ k_air \in Seq(0..2) /\ v \in 0..2
  BY <1>1, ToldTyped, HeadTailProperties
<1>5. e \in LP!Events /\ IsValue(e) /\ e.arg = v
  BY <1>4 DEF Led!Event, LP!Events, IsValue
<1>6. l_evq' = Append(l_evq, e)
  BY <1>1
<1> HIDE DEF e
<1>7. ValuesIn(l_evq') = Append(w, v)
  BY <1>5, <1>6, LedQueues
<1> HIDE DEF w
<1>8. Append(w, Head(k_air)) \o Tail(k_air) = w \o k_air
  BY <1>1, <1>4, MovedOver
<1>9. ToldValues' = ToldValues
  BY <1>3, <1>7, <1>8, ToldIs, Zenon DEF w
<1>10. QED
  BY <1>1, <1>2, <1>9 DEF M!vars

LEMMA StepMirrored ==
  ASSUME Alone, [Next]_vars
  PROVE  [M!Next]_(M!vars)
<1>1. ASSUME UNCHANGED <<k_link, k_air, k_button, l_link, l_evq>>
      PROVE  UNCHANGED (M!vars)
  BY <1>1, Unnoticed DEF Connected
<1>2. CASE KeypadHandlesEvent
  BY <1>1, <1>2 DEF KeypadHandlesEvent, ledVars, Keypad!HandleEvent, Keypad!OnBoot,
     Keypad!OnOpened, Keypad!OnClosed, Keypad!OnCharacteristicStatus, Keypad!OnBonded,
     Keypad!OnConfirmBonding, Keypad!OnConfirmPasskey, Keypad!OnBondingFailed
<1>3. CASE \/ \E p \in Keys : KeypadKeys(Keypad!Edge(p))
           \/ KeypadKeys(Keypad!Interrupts)
           \/ KeypadKeys(Keypad!RaiseSignalEvent)
           \/ UNCHANGED vars
  BY <1>1, <1>3 DEF KeypadKeys, vars, keypadVars, keypadRest, ledVars
<1>4. CASE ProcedureEnds \/ AdvertisementHeard
  <2>1. UNCHANGED <<k_link, k_air, k_button, l_link>>
    BY <1>4 DEF ProcedureEnds, AdvertisementHeard, keypadVars, keypadRest,
       Led!ProcedureCompletes, Led!DeviceReported
  <2>2. \E id, arg : /\ id # "value" /\ Led!Event(id, arg) \in LP!Events
                     /\ Led!Queue(Led!Event(id, arg))
    <3>1. CASE AdvertisementHeard
      BY <3>1 DEF AdvertisementHeard, Led!DeviceReported, Led!Event, LP!Events
    <3>2. CASE ProcedureEnds
      <4>1. PICK r \in {l_answer, "failed"} :
              r # "none" /\ Led!Queue(Led!Event("completed", r))
        BY <3>2 DEF ProcedureEnds, Led!ProcedureCompletes
      <4>2. Led!Event("completed", r) \in LP!Events
        BY <4>1 DEF Alone, LP!TypeOK, LP!Results, Led!Event, LP!Events
      <4>3. QED
        BY <4>1, <4>2
    <3>3. QED
      BY <1>4, <3>1, <3>2
  <2>3. ValuesIn(l_evq') = ValuesIn(l_evq)
    BY <2>2, EventIsPlain
  <2>4. QED
    BY <2>1, <2>3, Unnoticed DEF Connected
<1>5. QED
  BY <1>2, <1>3, <1>4, SignalMirrored, HandledMirrored, OpeningMirrored, EndingMirrored,
     AnswerMirrored, ArrivalMirrored DEF Next

\* What the LED board handles are values the attribute had when they left the keypad
\* board, in order, none lost while the connection lasts and none kept for the next
\* one, whatever is pressed, lost or reset (button_state_to_gatt(), the answers of the
\* stack, gatt_characteristic_value).
THEOREM ValuesAreMirrored == Spec => ValuesMirrored
<1>1. Init => Alone /\ M!Init
  <2> SUFFICES ASSUME Init PROVE Alone /\ M!Init
    OBVIOUS
  <2>1. Alone
    BY PairStarts, KeypadStarts, LedStarts DEF Alone
  <2>2. k_button = 0 /\ k_link = NoHandle /\ l_evq = <<Led!Event("boot", NoDevice)>>
    BY DEF Init, Keypad!Init, Led!Init
  <2>3. Len(l_evq) = 1 /\ \A i \in 1..1 : ~IsValue(l_evq[i])
    BY <2>2 DEF IsValue, Led!Event
  <2>4. ValuesIn(l_evq) = <<>>
    BY <2>3, NoValues
  <2>5. Connected = FALSE
    BY <2>2 DEF Connected
  <2>6. InAir = <<>>
    BY <2>5 DEF InAir
  <2>7. <<>> \o <<>> = <<>>
    BY ConcatEmptySeq, EmptySeq
  <2>8. ToldValues = <<>>
    BY <2>4, <2>6, <2>7, ToldIs, Zenon
  <2>9. QED
    BY <2>1, <2>2, <2>5, <2>8 DEF M!Init
<1>2. Alone /\ [Next]_vars => Alone'
  BY AloneStep
<1>3. Alone /\ [Next]_vars => [M!Next]_(M!vars)
  BY StepMirrored
<1>4. QED
  BY <1>1, <1>2, <1>3, PTL DEF Spec, ValuesMirrored, M!Spec

=============================================================================
