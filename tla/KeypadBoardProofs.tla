--------------------------- MODULE KeypadBoardProofs ---------------------------
(***************************************************************************)
(* Proofs about the keypad board, for every set of handles, every bound,   *)
(* every set of buttons and every choice of pairing methods.               *)
(***************************************************************************)
EXTENDS KeypadBoard, SequenceTheorems, TLAPS

USE HandlesAssumption, BoundsAssumption

-----------------------------------------------------------------------------
(* The event queue.                                                        *)

\* Taking the oldest event leaves a queue of events and yields an event.
LEMMA TakeType ==
  ASSUME NEW id, TypeOK, Take(id)
  PROVE  /\ evq' \in Seq(Events)
         /\ Head(evq) \in Events
         /\ Head(evq).id = id
         /\ Head(evq).conn \in AnyHandle
         /\ Head(evq).arg \in StatusArgs \cup {"none"}
<1>1. evq \in Seq(Events) /\ evq # <<>>
  BY DEF TypeOK, Take
<1>2. Head(evq) \in Events /\ Tail(evq) \in Seq(Events)
  BY <1>1, HeadTailProperties
<1>3. QED
  BY <1>2 DEF Take, Events

\* Queueing an event leaves a queue of events.
LEMMA QueueType ==
  ASSUME TypeOK, NEW e \in Events, Queue(e)
  PROVE  evq' \in Seq(Events)
<1>1. evq \in Seq(Events)
  BY DEF TypeOK
<1>2. QED
  BY <1>1, AppendProperties DEF Queue

-----------------------------------------------------------------------------
(* Type correctness.                                                       *)

\* The steps of the buttons and the interrupts keep the types.
LEMMA KeyStepType ==
  ASSUME TypeOK,
         \/ \E p \in Buttons : Edge(p)
         \/ Interrupts
         \/ RaiseSignalEvent,
         UNCHANGED <<appVars, stackVars, histVars>>
  PROVE  TypeOK'
<1>1. KeyTypeOK'
  BY ButtonsAssumption DEF TypeOK, KeyTypeOK, Edge, Interrupts, GPIO_EVEN_IRQHandler,
     GPIO_ODD_IRQHandler, schedulerSetEvent_Keypad_EVEN, schedulerSetEvent_Keypad_ODD,
     ExternalSignal, RaiseSignalEvent, Signals
<1>2. QED
  BY <1>1 DEF TypeOK, appVars, stackVars, histVars

\* Sending, or not sending, a button value keeps the types.
LEMMA GattType ==
  ASSUME TypeOK, NEW value \in ButtonValues, button_state_to_gatt(value)
  PROVE  /\ button' \in ButtonValues
         /\ notif_in_flight' \in BOOLEAN
         /\ air' \in Seq(ButtonValues)
         /\ sent' \in Nat
<1>1. button' = value
  BY DEF button_state_to_gatt
<1>2. CASE /\ notif_in_flight' = TRUE
           /\ air' = Append(air, value)
           /\ sent' = sent + 1
  <2>1. air' \in Seq(ButtonValues)
    BY <1>2, AppendProperties DEF TypeOK
  <2>2. sent' \in Nat
    BY <1>2 DEF TypeOK
  <2>3. QED
    BY <1>1, <1>2, <2>1, <2>2
<1>3. CASE UNCHANGED <<notif_in_flight, air, sent>>
  BY <1>1, <1>3 DEF TypeOK
<1>4. QED
  BY <1>2, <1>3 DEF button_state_to_gatt

LEMMA ExternalSignalType ==
  ASSUME TypeOK, OnExternalSignal
  PROVE  TypeOK'
<1>1. KeyValue \in ButtonValues
  BY DEF KeyValue, ButtonValues
<1>2. /\ button' \in ButtonValues
      /\ notif_in_flight' \in BOOLEAN
      /\ air' \in Seq(ButtonValues)
      /\ sent' \in Nat
  <2>1. CASE ActsOnKeys
    BY <1>1, <2>1, GattType DEF OnExternalSignal
  <2>2. CASE ~ActsOnKeys
    BY <2>2 DEF OnExternalSignal, TypeOK
  <2>3. QED
    BY <2>1, <2>2
<1>3. lcd' \in [conn : ConnRows, prompt : BOOLEAN, key : KeyRows, notif : BOOLEAN]
  <2>1. KeyRow(KeyValue) \in KeyRows
    BY <1>1 DEF KeyRow, KeyRows, ButtonValues
  <2>2. QED
    BY <2>1 DEF OnExternalSignal, TypeOK
<1>4. currentState' \in States /\ pairing' \in PairingSteps
  BY DEF OnExternalSignal, keypad_server_state_machine, KeypadNext, States, TypeOK,
     PairingSteps
<1>5. KeyTypeOK'
  BY DEF OnExternalSignal, TypeOK, KeyTypeOK
<1>6. missed' \in BOOLEAN
  BY DEF OnExternalSignal, ActsOnKeys, IsKeySignal, TypeOK
<1>7. QED
  BY <1>2, <1>3, <1>4, <1>5, <1>6 DEF OnExternalSignal, TypeOK

\* Handling any queued event keeps the types.
LEMMA EventType ==
  ASSUME TypeOK, HandleEvent
  PROVE  TypeOK'
<1> USE DEF TypeOK, KeyTypeOK, keyVars, histVars
<1>1. CASE OnBoot
  BY <1>1, TakeType DEF OnBoot, advertiser_start, AdvertisingScreen, ConnRows, KeyRows
<1>2. CASE OnOpened
  BY <1>2, TakeType DEF OnOpened, ConnRows
<1>3. CASE OnClosed
  BY <1>3, TakeType DEF OnClosed, advertiser_start, AdvertisingScreen, ConnRows, KeyRows
<1>4. CASE OnCharacteristicStatus
  <2>1. /\ evq' \in Seq(Events)
        /\ Head(evq).conn \in AnyHandle
    BY <1>4, TakeType DEF OnCharacteristicStatus
  <2>2. connection_handle' \in AnyHandle
    BY <1>4, <2>1 DEF OnCharacteristicStatus
  <2>3. ok_to_send_htm_notif' \in BOOLEAN
    BY <1>4 DEF OnCharacteristicStatus
  <2>4. lcd' \in [conn : ConnRows, prompt : BOOLEAN, key : KeyRows, notif : BOOLEAN]
    BY <1>4 DEF OnCharacteristicStatus
  <2>5. notif_in_flight' \in BOOLEAN
    BY <1>4 DEF OnCharacteristicStatus
  <2>6. confirmed' \in Nat
    BY <1>4 DEF OnCharacteristicStatus
  <2>7. QED
    BY <1>4, <2>1, <2>2, <2>3, <2>4, <2>5, <2>6 DEF OnCharacteristicStatus
<1>5. CASE OnBonded
  BY <1>5, TakeType DEF OnBonded, ConnRows
<1>6. CASE OnConfirmBonding
  BY <1>6, TakeType DEF OnConfirmBonding, PairingSteps
<1>7. CASE OnConfirmPasskey
  BY <1>7, TakeType DEF OnConfirmPasskey
<1>8. CASE OnBondingFailed
  BY <1>8, TakeType DEF OnBondingFailed, ConnRows
<1>9. QED
  BY <1>1, <1>2, <1>3, <1>4, <1>5, <1>6, <1>7, <1>8 DEF HandleEvent

\* What the stack, the link and the central do keeps the types.
LEMMA StackType ==
  ASSUME TypeOK,
         \/ \E h \in Handles : CentralConnects(h)
         \/ LinkDrops
         \/ \E arg \in {"disable", "notification", "other"} : CentralConfigures(arg)
         \/ IndicationConfirmed
         \/ NotificationReceived
         \/ PairingRequested \/ PasskeyCompared \/ PairingCompletes \/ PairingFails
  PROVE  TypeOK'
<1> USE DEF keyVars, appVars, histVars
<1>1. ASSUME NEW h \in Handles, CentralConnects(h)
      PROVE  TypeOK'
  <2>1. [id |-> "opened", conn |-> h, arg |-> "none"] \in Events
    BY DEF Events, EventIds, AnyHandle, StatusArgs
  <2>2. evq' \in Seq(Events)
    BY <1>1, <2>1, QueueType DEF CentralConnects
  <2>3. QED
    BY <1>1, <2>2 DEF CentralConnects, TypeOK, KeyTypeOK, AnyHandle
<1>2. CASE LinkDrops
  <2>1. Event("closed") \in Events
    BY DEF Events, Event, EventIds, StatusArgs, TypeOK
  <2>2. evq' \in Seq(Events)
    BY <1>2, <2>1, QueueType DEF LinkDrops
  <2>3. QED
    BY <1>2, <2>2, EmptySeq DEF LinkDrops, TypeOK, KeyTypeOK, AnyHandle, PairingSteps
<1>3. ASSUME NEW arg \in {"disable", "notification", "other"}, CentralConfigures(arg)
      PROVE  TypeOK'
  <2>1. [id |-> "characteristic_status", conn |-> link, arg |-> arg] \in Events
    BY DEF Events, EventIds, StatusArgs, TypeOK
  <2>2. evq' \in Seq(Events)
    BY <1>3, <2>1, QueueType DEF CentralConfigures
  <2>3. QED
    BY <1>3, <2>2 DEF CentralConfigures, TypeOK, KeyTypeOK
<1>4. CASE IndicationConfirmed
  <2>1. [id |-> "characteristic_status", conn |-> link, arg |-> "confirmation"] \in Events
    BY DEF Events, EventIds, StatusArgs, TypeOK
  <2>2. evq' \in Seq(Events)
    BY <1>4, <2>1, QueueType DEF IndicationConfirmed
  <2>3. QED
    BY <1>4, <2>2 DEF IndicationConfirmed, TypeOK, KeyTypeOK
<1>5. CASE NotificationReceived
  <2>1. air' \in Seq(ButtonValues)
    BY <1>5, HeadTailProperties DEF NotificationReceived, TypeOK
  <2>2. QED
    BY <1>5, <2>1 DEF NotificationReceived, TypeOK, KeyTypeOK
<1>6. ASSUME NEW from, NEW to \in PairingSteps,
             NEW id \in {"confirm_bonding", "confirm_passkey", "bonded", "bonding_failed"},
             Pairs(from, to, id)
      PROVE  TypeOK'
  <2>1. Event(id) \in Events
    BY DEF Events, Event, EventIds, StatusArgs, TypeOK
  <2>2. evq' \in Seq(Events)
    BY <1>6, <2>1, QueueType DEF Pairs
  <2>3. QED
    BY <1>6, <2>2 DEF Pairs, TypeOK, KeyTypeOK
<1>7. CASE PairingRequested
  BY <1>6, <1>7 DEF PairingRequested, PairingSteps
<1>8. CASE PasskeyCompared
  BY <1>6, <1>8 DEF PasskeyCompared, PairingSteps
<1>9. CASE PairingCompletes
  BY <1>6, <1>9 DEF PairingCompletes, PairingSteps
<1>10. CASE PairingFails
  BY <1>6, <1>10 DEF PairingFails, PairingSteps
<1>11. QED
  BY <1>1, <1>2, <1>3, <1>4, <1>5, <1>7, <1>8, <1>9, <1>10

LEMMA InitType == Init => TypeOK
<1> SUFFICES ASSUME Init PROVE TypeOK
  OBVIOUS
<1>1. [id |-> "boot", conn |-> NoHandle, arg |-> "none"] \in Events
  BY DEF Events, EventIds, AnyHandle
<1>2. evq \in Seq(Events)
  BY <1>1 DEF Init
<1>3. air \in Seq(ButtonValues)
  BY EmptySeq DEF Init
<1>4. KeyTypeOK
  BY DEF Init, KeyInit, KeyTypeOK
<1>5. lcd \in [conn : ConnRows, prompt : BOOLEAN, key : KeyRows, notif : BOOLEAN]
  BY DEF Init, ConnRows, KeyRows
<1>6. /\ connection_open \in BOOLEAN /\ ok_to_send_htm_notif \in BOOLEAN
      /\ notif_in_flight \in BOOLEAN /\ bonding_flag \in BOOLEAN
      /\ passkey_flag \in BOOLEAN /\ advertising \in BOOLEAN
      /\ missed \in BOOLEAN
  BY DEF Init
<1>7. /\ connection_handle \in AnyHandle /\ handle_for_client \in AnyHandle
      /\ link \in AnyHandle
  BY DEF Init, AnyHandle
<1>8. /\ currentState \in States /\ pairing \in PairingSteps
      /\ cccd \in {"disable", "notification"}
  BY DEF Init, States, PairingSteps
<1>9. button \in ButtonValues /\ sent \in Nat /\ confirmed \in Nat
  BY DEF Init, ButtonValues
<1>10. QED
  BY <1>2, <1>3, <1>4, <1>5, <1>6, <1>7, <1>8, <1>9 DEF TypeOK

LEMMA StepType ==
  ASSUME TypeOK, [Next]_vars
  PROVE  TypeOK'
<1>1. CASE OnExternalSignal
  BY <1>1, ExternalSignalType
<1>2. CASE HandleEvent
  BY <1>2, EventType
<1>3. CASE Environment
  BY <1>3, KeyStepType, StackType DEF Environment
<1>4. CASE UNCHANGED vars
  BY <1>4 DEF vars, keyVars, appVars, stackVars, histVars, TypeOK, KeyTypeOK
<1>5. QED
  BY <1>1, <1>2, <1>3, <1>4 DEF Next

\* Every variable of the keypad board keeps its type, in every behaviour.
THEOREM TypeCorrect == Spec => []TypeOK
  BY InitType, StepType, PTL DEF Spec

-----------------------------------------------------------------------------
(* Pacing of the notifications.                                            *)

\* The inductive form: while none is believed to be in flight, every accepted
\* notification has been matched by a confirmation event.
Paced ==
  /\ NotificationsPaced
  /\ ~notif_in_flight => sent <= confirmed

\* Only the signal and the status handler touch what Paced is about.
LEMMA PacedStep ==
  ASSUME TypeOK, Paced, [Next]_vars
  PROVE  Paced'
<1> USE DEF Paced, NotificationsPaced
<1>1. sent \in Nat /\ confirmed \in Nat /\ notif_in_flight \in BOOLEAN
  BY DEF TypeOK
<1>2. CASE OnExternalSignal
  <2>1. confirmed' = confirmed
    BY <1>2 DEF OnExternalSignal
  <2>2. CASE button_state_to_gatt(KeyValue)
    BY <1>1, <2>1, <2>2 DEF button_state_to_gatt
  <2>3. CASE UNCHANGED <<button, notif_in_flight, air, sent>>
    BY <1>1, <2>1, <2>3
  <2>4. QED
    BY <1>2, <2>2, <2>3 DEF OnExternalSignal
<1>3. CASE OnCharacteristicStatus
  <2>1. sent' = sent
    BY <1>3 DEF OnCharacteristicStatus
  <2>2. CASE Head(evq).arg = "confirmation"
    <3>1. confirmed' = confirmed + 1
      BY <1>3, <2>2 DEF OnCharacteristicStatus
    <3>2. QED
      BY <1>1, <2>1, <3>1
  <2>3. CASE Head(evq).arg # "confirmation"
    <3>1. confirmed' = confirmed
      BY <1>3, <2>3 DEF OnCharacteristicStatus
    <3>2. notif_in_flight' = notif_in_flight
      BY <1>1, <1>3, <2>3 DEF OnCharacteristicStatus
    <3>3. QED
      BY <1>1, <2>1, <3>1, <3>2
  <2>4. QED
    BY <2>2, <2>3
<1>4. CASE OnBoot \/ OnOpened \/ OnClosed \/ OnBonded \/ OnConfirmBonding
             \/ OnConfirmPasskey \/ OnBondingFailed
  <2>1. UNCHANGED <<sent, confirmed, notif_in_flight>>
    BY <1>4 DEF OnBoot, OnOpened, OnClosed, OnBonded, OnConfirmBonding,
       OnConfirmPasskey, OnBondingFailed, histVars
  <2>2. QED
    BY <1>1, <2>1
<1>5. CASE Environment
  <2>1. UNCHANGED <<sent, confirmed, notif_in_flight>>
    BY <1>5 DEF Environment, CentralConnects, LinkDrops, CentralConfigures,
       IndicationConfirmed, NotificationReceived, PairingRequested, PasskeyCompared,
       PairingCompletes, PairingFails, Pairs, appVars, histVars
  <2>2. QED
    BY <1>1, <2>1
<1>6. CASE UNCHANGED vars
  BY <1>1, <1>6 DEF vars, appVars, histVars
<1>7. QED
  BY <1>2, <1>3, <1>4, <1>5, <1>6 DEF Next, HandleEvent

\* Every notification but the first waits for a confirmation event: the latch in
\* button_state_to_gatt() holds over any number of connections and button edges.
THEOREM NotificationsArePaced == Spec => []NotificationsPaced
<1>1. Init => Paced
  BY DEF Init, Paced, NotificationsPaced
<1>2. TypeOK /\ Paced /\ [Next]_vars => Paced'
  BY PacedStep
<1>3. Paced => NotificationsPaced
  BY DEF Paced
<1>4. QED
  BY <1>1, <1>2, <1>3, TypeCorrect, PTL DEF Spec

-----------------------------------------------------------------------------
(* The attribute and the keys.                                             *)

\* A step that leaves the keys, the attribute and the memory of the last signal
\* alone, and works off no edge, keeps the attribute right.
LEMMA KeysKept ==
  ASSUME AttributeFollowsKeys,
         UNCHANGED <<low, button, missed>>,
         SignalOutstanding => SignalOutstanding'
  PROVE  AttributeFollowsKeys'
BY DEF AttributeFollowsKeys, KeyValue

\* An edge is outstanding at once, and stays so until a handler has looked at
\* the pins; nothing but the signal handler can end that.
LEMMA KeysStep ==
  ASSUME AttributeFollowsKeys, [Next]_vars
  PROVE  AttributeFollowsKeys'
<1>1. CASE OnExternalSignal
  <2>1. CASE ActsOnKeys
    <3>1. button' = KeyValue
      BY <1>1, <2>1 DEF OnExternalSignal, button_state_to_gatt
    <3>2. low' = low
      BY <1>1 DEF OnExternalSignal
    <3>3. KeyValue' = KeyValue
      BY <3>2 DEF KeyValue
    <3>4. QED
      BY <3>1, <3>3 DEF AttributeFollowsKeys
  <2>2. CASE ~ActsOnKeys
    BY <1>1, <2>2 DEF OnExternalSignal, AttributeFollowsKeys
  <2>3. QED
    BY <2>1, <2>2
<1>2. CASE HandleEvent
  <2>1. UNCHANGED <<keyVars, button, missed>>
    BY <1>2 DEF HandleEvent, OnBoot, OnOpened, OnClosed, OnCharacteristicStatus,
       OnBonded, OnConfirmBonding, OnConfirmPasskey, OnBondingFailed, histVars
  <2>2. QED
    BY <2>1, KeysKept DEF keyVars, SignalOutstanding
<1>3. ASSUME NEW p \in Buttons, Edge(p)
      PROVE  AttributeFollowsKeys'
  BY <1>3 DEF Edge, AttributeFollowsKeys, SignalOutstanding
<1>4. CASE Interrupts /\ UNCHANGED <<appVars, stackVars, histVars>>
  BY <1>4, KeysKept DEF Interrupts, GPIO_EVEN_IRQHandler, GPIO_ODD_IRQHandler,
     schedulerSetEvent_Keypad_EVEN, schedulerSetEvent_Keypad_ODD, ExternalSignal,
     SignalOutstanding, appVars, histVars
<1>5. CASE RaiseSignalEvent /\ UNCHANGED <<appVars, stackVars, histVars>>
  BY <1>5, KeysKept DEF RaiseSignalEvent, SignalOutstanding, appVars, histVars
<1>6. CASE \/ \E h \in Handles : CentralConnects(h)
           \/ LinkDrops
           \/ \E arg \in {"disable", "notification", "other"} : CentralConfigures(arg)
           \/ IndicationConfirmed \/ NotificationReceived
           \/ PairingRequested \/ PasskeyCompared \/ PairingCompletes \/ PairingFails
  <2>1. UNCHANGED <<keyVars, button, missed>>
    BY <1>6 DEF CentralConnects, LinkDrops, CentralConfigures, IndicationConfirmed,
       NotificationReceived, PairingRequested, PasskeyCompared, PairingCompletes,
       PairingFails, Pairs, appVars, histVars
  <2>2. QED
    BY <2>1, KeysKept DEF keyVars, SignalOutstanding
<1>7. CASE UNCHANGED vars
  BY <1>7, KeysKept DEF vars, keyVars, appVars, histVars, SignalOutstanding
<1>8. QED
  BY <1>1, <1>2, <1>3, <1>4, <1>5, <1>6, <1>7 DEF Next, Environment

\* When every edge has been worked off and the last signal was acted on, the
\* attribute is what the keys are, however the edges, the interrupts and the
\* read of the pins in the signal handler interleave.
THEOREM AttributeIsRight == Spec => []AttributeFollowsKeys
<1>1. Init => AttributeFollowsKeys
  BY DEF Init, AttributeFollowsKeys
<1>2. QED
  BY <1>1, KeysStep, PTL DEF Spec

=============================================================================
