---------------------------- MODULE LedBoardProofs ----------------------------
(***************************************************************************)
(* Proofs about the LED board, for every set of devices, every bound,      *)
(* every set of buttons and pairing methods, and whether or not procedures *)
(* fail, the subscription is protected or links are lost slowly.           *)
(***************************************************************************)
EXTENDS LedBoard, SequenceTheorems, TLAPS

USE DevicesAssumption, MatchAssumption, ValuesAssumption, BoundsAssumption

-----------------------------------------------------------------------------
(* The event queue.                                                        *)

\* What an event is about, by its id.
LEMMA EventArgs ==
  ASSUME NEW e \in Events
  PROVE  /\ e.id = "scan_report" => e.arg \in Devices
         /\ e.id = "completed" => e.arg \in Results
         /\ e.id = "found" => e.arg \in Attributes
         /\ e.id = "value" => e.arg \in Values
  BY DEF Events, PlainIds

\* The events the stack and the peer raise.
LEMMA EventTypes ==
  /\ \A id \in PlainIds : Event(id, NoDevice) \in Events
  /\ \A d \in Devices : Event("scan_report", d) \in Events
  /\ \A r \in Results : Event("completed", r) \in Events
  /\ \A a \in Attributes : Event("found", a) \in Events
  /\ \A v \in Values : Event("value", v) \in Events
  BY DEF Events, Event

\* Taking the oldest event leaves a queue of events and moves each one place on.
LEMMA TakeShift ==
  ASSUME TypeOK, NEW id, Take(id)
  PROVE  /\ evq \in Seq(Events) /\ evq' \in Seq(Events)
         /\ Len(evq) \in Nat \ {0}
         /\ evq[1] = Head(evq) /\ evq[1].id = id /\ evq[1] \in Events
         /\ Len(evq') = Len(evq) - 1
         /\ \A i \in 1..Len(evq') : evq'[i] = evq[i + 1]
<1>1. evq \in Seq(Events) /\ evq # <<>> /\ evq' = Tail(evq) /\ Head(evq).id = id
  BY DEF TypeOK, Take
<1>2. QED
  BY <1>1, HeadTailProperties, EmptySeq, LenProperties

\* Queueing an event puts it last.
LEMMA QueueGrows ==
  ASSUME TypeOK, NEW e \in Events, Queue(e)
  PROVE  /\ evq' \in Seq(Events)
         /\ Len(evq) \in Nat
         /\ Len(evq') = Len(evq) + 1
         /\ \A i \in 1..Len(evq) : evq'[i] = evq[i]
         /\ evq'[Len(evq) + 1] = e
<1>1. evq \in Seq(Events) /\ evq' = Append(evq, e)
  BY DEF TypeOK, Queue
<1>2. QED
  BY <1>1, AppendProperties, LenProperties

-----------------------------------------------------------------------------
(* Type correctness.                                                       *)

\* The steps of the buttons and the interrupts keep the types.
LEMMA KeyStepType ==
  ASSUME TypeOK,
         \/ \E p \in Buttons : Edge(p)
         \/ GPIO_EVEN_IRQHandler
         \/ GPIO_ODD_IRQHandler
         \/ RaiseSignalEvent,
         UNCHANGED <<appVars, stackVars, undisturbed>>
  PROVE  TypeOK'
<1>1. KeyTypeOK'
  BY ButtonsAssumption DEF TypeOK, KeyTypeOK, Edge, GPIO_EVEN_IRQHandler,
     GPIO_ODD_IRQHandler, schedulerSetEvent_Keypad_EVEN, schedulerSetEvent_Keypad_ODD,
     ExternalSignal, RaiseSignalEvent, Signals
<1>2. QED
  BY <1>1 DEF TypeOK, appVars, stackVars

\* A command starts the procedure it names, or none.
LEMMA IssueType ==
  ASSUME TypeOK, NEW proc \in Procedures, NEW right, Issue(proc, right)
  PROVE  procedure' \in Procedures \cup {"none"}
  BY DEF Issue, TypeOK

\* The discovery steps keep the types.
LEMMA DiscoveryType ==
  ASSUME TypeOK
  PROVE  /\ DiscoveryOnCompleted => /\ current_state' \in States
                                    /\ button_notification_flag' \in BOOLEAN
                                    /\ procedure' \in Procedures \cup {"none"}
         /\ DiscoveryOnOpened => /\ current_state' \in States
                                 /\ connection_handle' \in BOOLEAN
                                 /\ procedure' \in Procedures \cup {"none"}
<1>1. ASSUME NEW s \in DOMAIN Discovery
      PROVE  Discovery[s].asks \in Procedures /\ Discovery[s].next \in States
  BY DEF Discovery, Procedures, Attributes, States, Waiting
<1>2. "stateWAIT" \in States /\ "stateDISCOVER_KEYPAD_SERVICES" \in States
      /\ "keypad_service" \in Procedures
  BY DEF States, Waiting, Procedures, Attributes
<1>3. ASSUME DiscoveryOnCompleted
      PROVE  /\ current_state' \in States
             /\ button_notification_flag' \in BOOLEAN
             /\ procedure' \in Procedures \cup {"none"}
  <2>1. CASE /\ current_state \in DOMAIN Discovery
             /\ Issue(Discovery[current_state].asks, connection_handle)
             /\ current_state' = Discovery[current_state].next
             /\ UNCHANGED button_notification_flag
    BY <1>1, <2>1, IssueType DEF TypeOK
  <2>2. CASE /\ button_notification_flag' = TRUE
             /\ current_state' = "stateWAIT"
             /\ UNCHANGED procedure
    BY <1>2, <2>2 DEF TypeOK
  <2>3. CASE UNCHANGED <<button_notification_flag, current_state, procedure>>
    BY <2>3 DEF TypeOK
  <2>4. QED
    BY <1>3, <2>1, <2>2, <2>3 DEF DiscoveryOnCompleted
<1>4. ASSUME DiscoveryOnOpened
      PROVE  /\ current_state' \in States
             /\ connection_handle' \in BOOLEAN
             /\ procedure' \in Procedures \cup {"none"}
  <2>1. CASE current_state = "stateOPEN"
    BY <1>2, <1>4, <2>1, IssueType DEF DiscoveryOnOpened, TypeOK
  <2>2. CASE current_state # "stateOPEN"
    BY <1>4, <2>2 DEF DiscoveryOnOpened, TypeOK
  <2>3. QED
    BY <2>1, <2>2
<1>5. QED
  BY <1>3, <1>4

\* The row and the LED pattern of a value are among those there are.
LEMMA ShownType ==
  ASSUME TypeOK, NEW nonzero
  PROVE  Shown(nonzero).key \in KeyRows /\ Shown(nonzero).led \in 0..2
<1>1. lcd.key \in KeyRows /\ led \in 0..2
  BY DEF TypeOK
<1>2. {"No Button", "Button ODD", "Button EVEN"} \subseteq KeyRows /\ {0, 1, 2} \subseteq 0..2
  BY DEF KeyRows
<1>3. CASE 0 \in nonzero
  BY <1>2, <1>3 DEF Shown
<1>4. CASE 0 \notin nonzero /\ 2 \in nonzero
  BY <1>2, <1>4 DEF Shown
<1>5. CASE 0 \notin nonzero /\ 2 \notin nonzero /\ 1 \in nonzero
  BY <1>2, <1>5 DEF Shown
<1>6. CASE 0 \notin nonzero /\ 2 \notin nonzero /\ 1 \notin nonzero
  BY <1>1, <1>6 DEF Shown
<1>7. QED
  BY <1>3, <1>4, <1>5, <1>6

\* Handling any queued event keeps the types.
LEMMA EventType ==
  ASSUME TypeOK, HandleEvent
  PROVE  TypeOK'
<1> DEFINE Rows == [conn : ConnRows, prompt : BOOLEAN, key : KeyRows]
<1>1. CASE OnBoot
  <2>1. evq' \in Seq(Events)
    BY <1>1, TakeShift DEF OnBoot
  <2>2. lcd' \in Rows
    BY <1>1 DEF OnBoot, ConnRows, KeyRows
  <2>3. KeyTypeOK' /\ connection_handle' \in BOOLEAN /\ scanning' \in BOOLEAN
    BY <1>1 DEF OnBoot, scanner_start, TypeOK, KeyTypeOK, keyVars
  <2>4. QED
    BY <1>1, <2>1, <2>2, <2>3 DEF OnBoot, TypeOK
<1>2. CASE OnOpened
  <2>1. evq' \in Seq(Events)
    BY <1>2, TakeShift DEF OnOpened
  <2>2. lcd' \in Rows
    BY <1>2 DEF OnOpened, ConnRows, TypeOK
  <2>3. /\ current_state' \in States /\ connection_handle' \in BOOLEAN
        /\ procedure' \in Procedures \cup {"none"}
    BY <1>2, DiscoveryType DEF OnOpened
  <2>4. QED
    BY <1>2, <2>1, <2>2, <2>3 DEF OnOpened, TypeOK, KeyTypeOK, keyVars
<1>3. CASE OnClosed
  <2>1. evq' \in Seq(Events)
    BY <1>3, TakeShift DEF OnClosed
  <2>2. lcd' \in Rows
    BY <1>3 DEF OnClosed, ClosedScreen, ConnRows, KeyRows, TypeOK
  <2>3. current_state' \in States
    BY <1>3 DEF OnClosed, DiscoveryOnClosed, States
  <2>4. QED
    BY <1>3, <2>1, <2>2, <2>3 DEF OnClosed, scanner_start, TypeOK, KeyTypeOK, keyVars
<1>4. CASE OnScanReport
  <2>1. evq' \in Seq(Events) /\ Head(evq).arg \in Devices
    BY <1>4, TakeShift, EventArgs DEF OnScanReport
  <2>2. MatchingBytes[Head(evq).arg] \in Nat
    BY <2>1
  <2>3. address_check' \in Nat
    <3>1. \/ address_check' = 0
          \/ address_check' = address_check + MatchingBytes[Head(evq).arg]
      BY <1>4 DEF OnScanReport
    <3>2. QED
      BY <2>2, <3>1 DEF TypeOK
  <2>4. /\ scanning' \in BOOLEAN
        /\ connection_handle' \in BOOLEAN
        /\ link' \in {"none", "opening", "up"}
        /\ peer' \in Devices \cup {NoDevice}
    BY <1>4, <2>1 DEF OnScanReport, TypeOK
  <2>5. QED
    BY <1>4, <2>1, <2>3, <2>4 DEF OnScanReport, TypeOK, KeyTypeOK, keyVars
<1>5. CASE OnProcedureCompleted
  <2>1. evq' \in Seq(Events) /\ Head(evq).arg \in Results
    BY <1>5, TakeShift, EventArgs DEF OnProcedureCompleted
  <2>2. /\ current_state' \in States
        /\ button_notification_flag' \in BOOLEAN
        /\ procedure' \in Procedures \cup {"none"}
    BY <1>5, DiscoveryType DEF OnProcedureCompleted
  <2>3. pairing' \in {"idle", "requested", "exchanging", "comparing", "answered", "bonded"}
    BY <1>5 DEF OnProcedureCompleted, TypeOK
  <2>4. undisturbed' \in BOOLEAN
    BY <1>5 DEF OnProcedureCompleted, TypeOK
  <2>5. QED
    BY <1>5, <2>1, <2>2, <2>3, <2>4 DEF OnProcedureCompleted, TypeOK, KeyTypeOK, keyVars
<1>6. CASE OnFound
  <2>1. evq' \in Seq(Events) /\ Head(evq).arg \in Attributes
    BY <1>6, TakeShift, EventArgs DEF OnFound
  <2>2. QED
    BY <1>6, <2>1 DEF OnFound, TypeOK, KeyTypeOK, keyVars
<1>7. CASE OnCharacteristicValue
  <2>1. evq' \in Seq(Events)
    BY <1>7, TakeShift DEF OnCharacteristicValue
  <2>2. procedure' \in Procedures \cup {"none"} /\ lcd' \in Rows /\ led' \in 0..2
    <3>1. CASE "keypad_char" \in saved
      <4>1. PICK nonzero : /\ lcd' = [lcd EXCEPT !.key = Shown(nonzero).key]
                           /\ led' = Shown(nonzero).led
        BY <1>7, <3>1 DEF OnCharacteristicValue
      <4>2. lcd' \in Rows /\ led' \in 0..2
        BY <4>1, ShownType DEF TypeOK
      <4>3. Issue("read", connection_handle) /\ "read" \in Procedures
        BY <1>7, <3>1 DEF OnCharacteristicValue, Procedures
      <4>4. QED
        BY <4>2, <4>3, IssueType
    <3>2. CASE "keypad_char" \notin saved
      BY <1>7, <3>2 DEF OnCharacteristicValue, TypeOK
    <3>3. QED
      BY <3>1, <3>2
  <2>3. QED
    BY <1>7, <2>1, <2>2 DEF OnCharacteristicValue, TypeOK, KeyTypeOK, keyVars
<1>8. CASE OnConfirmBonding
  <2>1. evq' \in Seq(Events)
    BY <1>8, TakeShift DEF OnConfirmBonding
  <2>2. KeyTypeOK' /\ passkey_flag' \in BOOLEAN
    BY <1>8 DEF OnConfirmBonding, TypeOK, KeyTypeOK, keyVars
  <2>3. lcd' \in Rows /\ led' \in 0..2 /\ saved' \subseteq Attributes
    BY <1>8 DEF OnConfirmBonding, TypeOK
  <2>4. QED
    BY <1>8, <2>1, <2>2, <2>3 DEF OnConfirmBonding, TypeOK
<1>9. CASE OnConfirmPasskey
  <2>1. evq' \in Seq(Events) /\ lcd' \in Rows
    BY <1>9, TakeShift DEF OnConfirmPasskey, TypeOK
  <2>2. QED
    BY <1>9, <2>1 DEF OnConfirmPasskey, TypeOK, KeyTypeOK, keyVars
<1>10. CASE OnBonded
  <2>1. evq' \in Seq(Events) /\ lcd' \in Rows
    BY <1>10, TakeShift DEF OnBonded, TypeOK, ConnRows
  <2>2. QED
    BY <1>10, <2>1 DEF OnBonded, TypeOK, KeyTypeOK, keyVars
<1>11. CASE OnBondingFailed
  <2>1. evq' \in Seq(Events) /\ lcd' \in Rows
    BY <1>11, TakeShift DEF OnBondingFailed, TypeOK, ConnRows
  <2>2. KeyTypeOK' /\ passkey_flag' \in BOOLEAN /\ bonding_flag' \in BOOLEAN
    BY <1>11 DEF OnBondingFailed, TypeOK, KeyTypeOK, keyVars
  <2>3. led' \in 0..2 /\ saved' \subseteq Attributes
    BY <1>11 DEF OnBondingFailed, TypeOK
  <2>4. QED
    BY <1>11, <2>1, <2>2, <2>3 DEF OnBondingFailed, TypeOK
<1>12. QED
  BY <1>1, <1>2, <1>3, <1>4, <1>5, <1>6, <1>7, <1>8, <1>9, <1>10, <1>11
     DEF HandleEvent

\* A button press keeps the types.
LEMMA ExternalSignalType ==
  ASSUME TypeOK, OnExternalSignal
  PROVE  TypeOK'
<1>1. procedure' \in Procedures \cup {"none"}
  <2>1. "subscribe" \in Procedures /\ "unsubscribe" \in Procedures
    BY DEF Procedures
  <2>2. QED
    BY <2>1, IssueType DEF OnExternalSignal
<1>2. pairing' \in {"idle", "requested", "exchanging", "comparing", "answered", "bonded"}
  BY DEF OnExternalSignal, TypeOK
<1>3. KeyTypeOK'
  BY DEF OnExternalSignal, TypeOK, KeyTypeOK
<1>4. /\ button_notification_flag' \in BOOLEAN /\ connection_handle' \in BOOLEAN
      /\ undisturbed' \in BOOLEAN
  BY DEF OnExternalSignal, TypeOK
<1>5. QED
  BY <1>1, <1>2, <1>3, <1>4 DEF OnExternalSignal, TypeOK

\* What the stack, the link and the peer do keeps the types.
LEMMA StackType ==
  ASSUME TypeOK,
         \/ \E d \in Devices : DeviceReported(d)
         \/ ConnectionOpens \/ LinkDrops \/ PeerAnswers \/ ProcedureCompletes
         \/ PeerNotifies \/ PeerRequestsBonding \/ PasskeyCompared
         \/ PairingCompletes \/ PairingFails
  PROVE  TypeOK'
<1> USE DEF keyVars, appVars
<1>1. ASSUME NEW d \in Devices, DeviceReported(d)
      PROVE  TypeOK'
  <2>1. evq' \in Seq(Events)
    BY <1>1, EventTypes, QueueGrows DEF DeviceReported
  <2>2. QED
    BY <1>1, <2>1 DEF DeviceReported, TypeOK, KeyTypeOK
<1>2. CASE ConnectionOpens
  <2>1. evq' \in Seq(Events)
    BY <1>2, EventTypes, QueueGrows DEF ConnectionOpens, PlainIds
  <2>2. QED
    BY <1>2, <2>1 DEF ConnectionOpens, TypeOK, KeyTypeOK
<1>3. CASE LinkDrops
  <2>1. evq' \in Seq(Events)
    BY <1>3, EventTypes, QueueGrows DEF LinkDrops, PlainIds
  <2>2. QED
    BY <1>3, <2>1 DEF LinkDrops, TypeOK, KeyTypeOK
<1>4. CASE PeerAnswers
  <2>1. /\ evq' \in Seq(Events)
        /\ answer' \in {"none", "ok", "unencrypted"}
        /\ subscribed' \in BOOLEAN
    <3>1. CASE PeerFinds
      BY <3>1, EventTypes, QueueGrows DEF PeerFinds, TypeOK
    <3>2. CASE PeerConfigures
      BY <3>2 DEF PeerConfigures, TypeOK
    <3>3. CASE PeerReads
      BY <3>3, EventTypes, QueueGrows DEF PeerReads, TypeOK
    <3>4. CASE PeerRefuses
      BY <3>4 DEF PeerRefuses, TypeOK
    <3>5. QED
      BY <1>4, <3>1, <3>2, <3>3, <3>4 DEF PeerAnswers
  <2>2. QED
    BY <1>4, <2>1 DEF PeerAnswers, TypeOK, KeyTypeOK
<1>5. CASE ProcedureCompletes
  <2>1. evq' \in Seq(Events)
    BY <1>5, EventTypes, QueueGrows DEF ProcedureCompletes, TypeOK, Results
  <2>2. QED
    BY <1>5, <2>1 DEF ProcedureCompletes, TypeOK, KeyTypeOK
<1>6. CASE PeerNotifies
  <2>1. evq' \in Seq(Events)
    BY <1>6, EventTypes, QueueGrows DEF PeerNotifies
  <2>2. QED
    BY <1>6, <2>1 DEF PeerNotifies, TypeOK, KeyTypeOK
<1>7. ASSUME NEW from, NEW id \in PlainIds, Pairs(from, pairing', id),
             NEW to \in {"idle", "requested", "exchanging", "comparing", "answered", "bonded"},
             pairing' = to
      PROVE  TypeOK'
  <2>1. evq' \in Seq(Events)
    BY <1>7, EventTypes, QueueGrows DEF Pairs
  <2>2. QED
    BY <1>7, <2>1 DEF Pairs, TypeOK, KeyTypeOK
<1>8. CASE PeerRequestsBonding \/ PasskeyCompared \/ PairingCompletes \/ PairingFails
  BY <1>7, <1>8 DEF PeerRequestsBonding, PasskeyCompared, PairingCompletes,
     PairingFails, Pairs, PlainIds
<1>9. QED
  BY <1>1, <1>2, <1>3, <1>4, <1>5, <1>6, <1>8

LEMMA InitType == Init => TypeOK
<1> SUFFICES ASSUME Init PROVE TypeOK
  OBVIOUS
<1>1. evq \in Seq(Events)
  BY EventTypes DEF Init, PlainIds
<1>2. KeyTypeOK
  BY DEF Init, KeyInit, KeyTypeOK
<1>3. lcd \in [conn : ConnRows, prompt : BOOLEAN, key : KeyRows]
  BY DEF Init, ConnRows, KeyRows
<1>4. /\ address_check \in Nat /\ led \in 0..2 /\ saved \subseteq Attributes
      /\ current_state \in States /\ procedure \in Procedures \cup {"none"}
      /\ peer \in Devices \cup {NoDevice} /\ link \in {"none", "opening", "up"}
  BY DEF Init, States
<1>5. QED
  BY <1>1, <1>2, <1>3, <1>4 DEF Init, TypeOK

LEMMA StepType ==
  ASSUME TypeOK, [Next]_vars
  PROVE  TypeOK'
<1>1. CASE Environment
  BY <1>1, KeyStepType, StackType DEF Environment, Buttoned, Interrupts
<1>2. CASE UNCHANGED vars
  BY <1>2 DEF vars, keyVars, appVars, stackVars, TypeOK, KeyTypeOK
<1>3. QED
  BY <1>1, <1>2, ExternalSignalType, EventType DEF Next

\* Every variable of the LED board keeps its type, in every behaviour.
THEOREM TypeCorrect == Spec => []TypeOK
  BY InitType, StepType, PTL DEF Spec

=============================================================================
