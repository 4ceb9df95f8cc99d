----------------------------- MODULE LedLinkProofs -----------------------------
(***************************************************************************)
(* The LED board's safety properties about the scanner, the discovery, the *)
(* connection and the screen, proved for every value of the constants.     *)
(* What makes them inductive is what the queue still holds: an event the   *)
(* application has not handled excuses what it does not know.              *)
(* The last two sections follow a session from its first report to its     *)
(* closed event, and the discovery through it.                             *)
(***************************************************************************)
EXTENDS LedBoardProofs

-----------------------------------------------------------------------------
(* The scanner.                                                            *)

\* Without a connection and without the scanner, an event that starts it waits.
Scanned == link = "none" /\ ~scanning => Queued("boot") \/ Queued("closed")

\* An event that is not the oldest still waits when the oldest has been taken.
LEMMA StaysQueued ==
  ASSUME TypeOK, NEW id, Take(id), NEW other, other # id, Queued(other)
  PROVE  Queued(other)'
<1>1. /\ Len(evq) \in Nat \ {0} /\ evq[1].id = id
      /\ Len(evq') = Len(evq) - 1
      /\ \A i \in 1..Len(evq') : evq'[i] = evq[i + 1]
  BY TakeShift
<1>2. PICK i \in 1..Len(evq) : evq[i].id = other
  BY DEF Queued
<1>3. i # 1
  BY <1>1, <1>2
<1>4. i - 1 \in 1..Len(evq') /\ evq'[i - 1] = evq[(i - 1) + 1]
  BY <1>1, <1>3
<1>5. QED
  BY <1>2, <1>4 DEF Queued

\* An event waits after it is queued, and so do those that waited.
LEMMA GetsQueued ==
  ASSUME TypeOK, NEW e \in Events, Queue(e)
  PROVE  /\ Queued(e.id)'
         /\ \A id : Queued(id) => Queued(id)'
<1>1. /\ Len(evq) \in Nat
      /\ Len(evq') = Len(evq) + 1
      /\ \A i \in 1..Len(evq) : evq'[i] = evq[i]
      /\ evq'[Len(evq) + 1] = e
  BY QueueGrows
<1>2. Len(evq) + 1 \in 1..Len(evq')
  BY <1>1
<1>3. \A i \in 1..Len(evq) : i \in 1..Len(evq')
  BY <1>1
<1>4. QED
  BY <1>1, <1>2, <1>3 DEF Queued

\* What the stack does to the queue: it leaves it alone or queues one event.
LEMMA StackQueues ==
  ASSUME TypeOK, Environment
  PROVE  \/ UNCHANGED evq
         \/ \E e \in Events : Queue(e)
<1>1. ASSUME NEW d \in Devices, DeviceReported(d)
      PROVE  \E e \in Events : Queue(e)
  BY <1>1, EventTypes DEF DeviceReported
<1>2. CASE ConnectionOpens \/ LinkDrops
  BY <1>2, EventTypes DEF ConnectionOpens, LinkDrops, PlainIds
<1>3. CASE PeerAnswers
  BY <1>3, EventTypes DEF PeerAnswers, PeerFinds, PeerConfigures, PeerReads, PeerRefuses
<1>4. CASE ProcedureCompletes
  BY <1>4, EventTypes DEF ProcedureCompletes, TypeOK, Results
<1>5. CASE PeerNotifies
  BY <1>5, EventTypes DEF PeerNotifies
<1>6. CASE PeerRequestsBonding \/ PasskeyCompared \/ PairingCompletes \/ PairingFails
  BY <1>6, EventTypes DEF PeerRequestsBonding, PasskeyCompared, PairingCompletes,
     PairingFails, Pairs, PlainIds
<1>7. QED
  BY <1>1, <1>2, <1>3, <1>4, <1>5, <1>6 DEF Environment, Buttoned, Interrupts, stackVars

\* An event that waits is not lost to the stack.
LEMMA StackKeepsQueued ==
  ASSUME TypeOK, Environment, NEW id, Queued(id)
  PROVE  Queued(id)'
<1>1. CASE UNCHANGED evq
  BY <1>1 DEF Queued
<1>2. ASSUME NEW e \in Events, Queue(e)
      PROVE  Queued(id)'
  BY <1>2, GetsQueued
<1>3. QED
  BY <1>1, <1>2, StackQueues

\* What the stack does to the link: it opens a connection, or loses one and
\* queues the closed event, or leaves it alone.
LEMMA StackLink ==
  ASSUME TypeOK, Environment
  PROVE  /\ scanning' = scanning
         /\ \/ link' = link
            \/ link = "opening" /\ link' = "up"
            \/ link = "up" /\ link' = "none" /\ procedure' = "none" /\ Queued("closed")'
<1>1. CASE LinkDrops
  <2>1. Event("closed", NoDevice) \in Events /\ Event("closed", NoDevice).id = "closed"
    BY EventTypes DEF PlainIds, Event
  <2>2. Queued("closed")'
    BY <1>1, <2>1, GetsQueued DEF LinkDrops
  <2>3. QED
    BY <1>1, <2>2 DEF LinkDrops
<1>2. CASE ~LinkDrops
  BY <1>2 DEF Environment, Buttoned, Interrupts, stackVars, DeviceReported, ConnectionOpens,
     PeerAnswers, ProcedureCompletes, PeerNotifies, PeerRequestsBonding,
     PasskeyCompared, PairingCompletes, PairingFails, Pairs
<1>3. QED
  BY <1>1, <1>2

LEMMA ScannedStep ==
  ASSUME TypeOK, Scanned, [Next]_vars
  PROVE  Scanned'
<1>1. CASE OnBoot \/ OnClosed
  BY <1>1 DEF OnBoot, OnClosed, scanner_start, Scanned
<1>2. CASE OnScanReport
  <2>1. CASE UNCHANGED <<scanning, link>>
    BY <1>2, <2>1, StaysQueued DEF OnScanReport, Scanned
  <2>2. CASE link' = IF link = "none" THEN "opening" ELSE link
    <3>1. link' # "none"
      BY <2>2
    <3>2. QED
      BY <3>1 DEF Scanned
  <2>3. QED
    BY <1>2, <2>1, <2>2 DEF OnScanReport
<1>3. ASSUME NEW id \in {"opened", "completed", "found", "value", "confirm_bonding",
                         "confirm_passkey", "bonded", "bonding_failed"},
             Take(id), UNCHANGED <<scanning, link>>
      PROVE  Scanned'
  BY <1>3, StaysQueued DEF Scanned
<1>4. CASE \/ OnOpened \/ OnProcedureCompleted \/ OnFound \/ OnCharacteristicValue
           \/ OnConfirmBonding \/ OnConfirmPasskey \/ OnBonded \/ OnBondingFailed
  BY <1>3, <1>4 DEF OnOpened, OnProcedureCompleted, OnFound, OnCharacteristicValue,
     OnConfirmBonding, OnConfirmPasskey, OnBonded, OnBondingFailed
<1>5. CASE Environment
  BY <1>5, StackLink, StackKeepsQueued DEF Scanned
<1>6. CASE OnExternalSignal \/ UNCHANGED vars
  BY <1>6 DEF OnExternalSignal, vars, stackVars, Scanned, Queued
<1>7. QED
  BY <1>1, <1>2, <1>4, <1>5, <1>6 DEF Next, HandleEvent

\* With nothing waiting and no connection the scanner runs, however many links
\* were lost and whatever was reported in between (OnClosed, OnScanReport).
THEOREM IdleScans == Spec => []IdleBoardScans
<1>1. Init => Scanned
  <2> SUFFICES ASSUME Init PROVE Queued("boot")
    BY DEF Scanned
  <2>1. Len(evq) = 1 /\ evq[1].id = "boot"
    BY DEF Init, Event
  <2>2. QED
    BY <2>1 DEF Queued
<1>2. TypeOK /\ Scanned /\ [Next]_vars => Scanned'
  BY ScannedStep
<1>3. TypeOK /\ Scanned => IdleBoardScans
  BY EmptySeq DEF Scanned, Queued, IdleBoardScans
<1>4. QED
  BY <1>1, <1>2, <1>3, TypeCorrect, PTL DEF Spec

-----------------------------------------------------------------------------
(* The discovery.                                                          *)

\* Every queued event of one id has one of another behind it.
After(id, ids) ==
  \A i \in 1..Len(evq) :
    evq[i].id = id => \E j \in (i + 1)..Len(evq) : evq[j].id \in ids

\* A machine that runs without a link is going to see the end of its connection.
Attached == current_state # "stateOPEN" /\ link # "up" => Queued("closed")
OpenedFollowed == link # "up" => After("opened", {"closed"})

\* What was found is followed by the end of the procedure that found it.
FoundFollowed == procedure = "none" => After("found", {"completed", "closed"})

\* With all attribute handles and the connection's own it does not stall.
HandledMoves == current_state \in Waiting /\ saved = Attributes /\ connection_handle
                  => WakeupComes

\* The strengthening of the property.
Moving == Attached /\ OpenedFollowed /\ FoundFollowed /\ HandledMoves

LEMMA TakeAfter ==
  ASSUME TypeOK, NEW taken, Take(taken), NEW id, NEW ids, After(id, ids)
  PROVE  After(id, ids)'
<1>1. /\ Len(evq) \in Nat \ {0} /\ evq[1].id = taken
      /\ Len(evq') = Len(evq) - 1
      /\ \A i \in 1..Len(evq') : evq'[i] = evq[i + 1]
  BY TakeShift
<1>2. SUFFICES ASSUME NEW i \in 1..Len(evq'), evq'[i].id = id
               PROVE  \E j \in (i + 1)..Len(evq') : evq'[j].id \in ids
  BY DEF After
<1>3. i + 1 \in 1..Len(evq) /\ evq[i + 1].id = id
  BY <1>1, <1>2
<1>4. PICK j \in (i + 2)..Len(evq) : evq[j].id \in ids
  BY <1>3 DEF After
<1>5. j - 1 \in (i + 1)..Len(evq') /\ j - 1 \in 1..Len(evq')
  BY <1>1, <1>4
<1>6. evq'[j - 1] = evq[j]
  BY <1>1, <1>4, <1>5
<1>7. QED
  BY <1>4, <1>5, <1>6

LEMMA QueueAfter ==
  ASSUME TypeOK, NEW e \in Events, Queue(e), NEW id, NEW ids,
         \/ e.id # id /\ e.id \in ids
         \/ e.id # id /\ After(id, ids)
  PROVE  After(id, ids)'
<1>1. /\ Len(evq) \in Nat
      /\ Len(evq') = Len(evq) + 1
      /\ \A i \in 1..Len(evq) : evq'[i] = evq[i]
      /\ evq'[Len(evq) + 1] = e
  BY QueueGrows
<1>2. SUFFICES ASSUME NEW i \in 1..Len(evq'), evq'[i].id = id
               PROVE  \E j \in (i + 1)..Len(evq') : evq'[j].id \in ids
  BY DEF After
<1>3. i \in 1..Len(evq) /\ evq[i].id = id
  BY <1>1, <1>2
<1>4. CASE e.id \in ids
  <2>1. Len(evq) + 1 \in (i + 1)..Len(evq')
    BY <1>1, <1>3
  <2>2. QED
    BY <1>1, <1>4, <2>1
<1>5. CASE After(id, ids)
  <2>1. PICK j \in (i + 1)..Len(evq) : evq[j].id \in ids
    BY <1>3, <1>5 DEF After
  <2>2. j \in (i + 1)..Len(evq') /\ j \in 1..Len(evq)
    BY <1>1, <1>3, <2>1
  <2>3. QED
    BY <1>1, <2>1, <2>2
<1>6. QED
  BY <1>4, <1>5

\* What is behind the oldest event waits when it has been taken.
LEMMA BehindHead ==
  ASSUME TypeOK, NEW id, Take(id), NEW ids, After(id, ids)
  PROVE  \E other \in ids : Queued(other)'
<1>1. /\ Len(evq) \in Nat \ {0} /\ evq[1].id = id
      /\ Len(evq') = Len(evq) - 1
      /\ \A i \in 1..Len(evq') : evq'[i] = evq[i + 1]
  BY TakeShift
<1>2. PICK j \in 2..Len(evq) : evq[j].id \in ids
  BY <1>1 DEF After
<1>3. j - 1 \in 1..Len(evq') /\ evq'[j - 1] = evq[(j - 1) + 1]
  BY <1>1, <1>2
<1>4. evq'[j - 1].id = evq[j].id
  BY <1>2, <1>3
<1>5. QED
  BY <1>2, <1>3, <1>4 DEF Queued

\* Taking an event that neither opens nor ends a connection.
LEMMA TakeMoving ==
  ASSUME TypeOK, Moving, NEW id, Take(id), id \notin {"opened", "closed"},
         current_state = "stateOPEN" => current_state' = "stateOPEN",
         link' = "up" <=> link = "up",
         procedure # "none" => procedure' # "none",
         current_state' \in Waiting /\ saved' = Attributes /\ connection_handle'
           => WakeupComes'
  PROVE  Moving'
<1>1. Attached'
  BY StaysQueued DEF Moving, Attached
<1>2. OpenedFollowed' /\ FoundFollowed'
  BY TakeAfter DEF Moving, OpenedFollowed, FoundFollowed
<1>3. QED
  BY <1>1, <1>2 DEF Moving, HandledMoves

\* A command never stops a procedure, and one that is not taken although the
\* handles are known finds a procedure running or no link.
LEMMA IssueMoves ==
  ASSUME NEW proc \in Procedures, NEW right, Issue(proc, right)
  PROVE  /\ procedure # "none" => procedure' # "none"
         /\ procedure' = "none" /\ Needs(proc) \subseteq saved => link # "up" \/ ~right
<1>1. proc # "none"
  BY DEF Procedures, Attributes
<1>2. QED
  BY <1>1 DEF Issue, StackIdle

LEMMA NeedsAttributes ==
  ASSUME NEW proc
  PROVE  Needs(proc) \subseteq Attributes
<1>1. CASE proc = "keypad_char"
  BY <1>1 DEF Needs, Attributes
<1>2. CASE proc = "LED_char"
  BY <1>2 DEF Needs, Attributes
<1>3. CASE proc \in {"subscribe", "unsubscribe", "read"}
  BY <1>3 DEF Needs, Attributes
<1>4. CASE proc \notin {"keypad_char", "LED_char", "subscribe", "unsubscribe", "read"}
  BY <1>4 DEF Needs
<1>5. QED
  BY <1>1, <1>2, <1>3, <1>4

\* The wake-up a state of the machine had is still there after an event that
\* leaves machine and link alone.
LEMMA WakeupStays ==
  ASSUME TypeOK, Moving, NEW id, Take(id), id \notin {"completed", "closed"},
         current_state \in Waiting, saved = Attributes, connection_handle,
         procedure # "none" => procedure' # "none"
  PROVE  WakeupComes'
<1>1. WakeupComes
  BY DEF Moving, HandledMoves
<1>2. QED
  BY <1>1, StaysQueued DEF WakeupComes

LEMMA OpenedMoving ==
  ASSUME TypeOK, Moving, OnOpened
  PROVE  Moving'
<1>1. Take("opened") /\ UNCHANGED <<link, saved>> /\ DiscoveryOnOpened
  BY DEF OnOpened
<1>2. link # "up" => Queued("closed")'
  BY <1>1, BehindHead DEF Moving, OpenedFollowed
<1>3. procedure # "none" => procedure' # "none"
  <2>1. "keypad_service" \in Procedures
    BY DEF Procedures, Attributes
  <2>2. QED
    BY <1>1, <2>1, IssueMoves DEF DiscoveryOnOpened
<1>4. OpenedFollowed' /\ FoundFollowed' /\ Attached'
  BY <1>1, <1>2, <1>3, TakeAfter DEF Moving, OpenedFollowed, FoundFollowed, Attached
<1>5. ASSUME current_state' \in Waiting, saved' = Attributes, connection_handle'
      PROVE  WakeupComes'
  <2>1. CASE current_state = "stateOPEN"
    <3>1. current_state' # "stateOPEN"
      BY <1>5 DEF Waiting
    <3>2. procedure' # procedure
      BY <1>1, <2>1, <3>1 DEF DiscoveryOnOpened
    <3>3. procedure' # "none"
      BY <1>3, <3>2
    <3>4. QED
      BY <3>3 DEF WakeupComes
  <2>2. CASE current_state # "stateOPEN"
    BY <1>1, <1>3, <1>5, <2>2, WakeupStays DEF DiscoveryOnOpened
  <2>3. QED
    BY <2>1, <2>2
<1>6. QED
  BY <1>4, <1>5 DEF Moving, HandledMoves

LEMMA CompletedMoving ==
  ASSUME TypeOK, Moving, OnProcedureCompleted
  PROVE  Moving'
<1>1. /\ Take("completed") /\ UNCHANGED <<link, saved, connection_handle>>
      /\ DiscoveryOnCompleted
  BY DEF OnProcedureCompleted
<1>2. CASE /\ current_state \in DOMAIN Discovery
           /\ Issue(Discovery[current_state].asks, connection_handle)
           /\ current_state' = Discovery[current_state].next
  <2>1. Discovery[current_state].asks \in Procedures /\ current_state # "stateOPEN"
    BY <1>2 DEF Discovery, Procedures, Attributes
  <2>2. procedure # "none" => procedure' # "none"
    BY <1>2, <2>1, IssueMoves
  <2>3. ASSUME saved' = Attributes, connection_handle'
        PROVE  WakeupComes'
    <3>1. procedure' = "none" => link # "up"
      BY <1>1, <1>2, <2>1, <2>3, IssueMoves, NeedsAttributes
    <3>2. link # "up" => Queued("closed")
      BY <2>1 DEF Moving, Attached
    <3>3. QED
      BY <1>1, <3>1, <3>2, StaysQueued DEF WakeupComes
  <2>4. QED
    BY <1>1, <2>1, <2>2, <2>3, TakeMoving
<1>3. CASE current_state = "stateKEYPADNOTIF" /\ current_state' = "stateWAIT"
           /\ UNCHANGED procedure
  <2>1. current_state # "stateOPEN" /\ current_state' \notin Waiting
    BY <1>3 DEF Waiting
  <2>2. QED
    BY <1>1, <1>3, <2>1, TakeMoving
<1>4. CASE current_state \in {"stateOPEN", "stateWAIT"}
           /\ UNCHANGED <<current_state, procedure>>
  <2>1. current_state' \notin Waiting
    BY <1>4 DEF Waiting
  <2>2. QED
    BY <1>1, <1>4, <2>1, TakeMoving
<1>5. QED
  BY <1>1, <1>2, <1>3, <1>4 DEF DiscoveryOnCompleted

\* The other events: what they store or ask for leaves the wake-up there.
LEMMA OtherMoving ==
  ASSUME TypeOK, Moving,
         \/ OnBoot \/ OnScanReport \/ OnFound \/ OnCharacteristicValue
         \/ OnConfirmBonding \/ OnConfirmPasskey \/ OnBonded \/ OnBondingFailed
  PROVE  Moving'
<1>1. ASSUME NEW id \in {"boot", "scan_report", "value", "confirm_bonding",
                         "confirm_passkey", "bonded", "bonding_failed"},
             Take(id), UNCHANGED <<current_state, saved, connection_handle>>,
             link' = "up" <=> link = "up",
             procedure # "none" => procedure' # "none"
      PROVE  Moving'
  BY <1>1, TakeMoving, WakeupStays
<1>2. CASE OnFound
  <2>1. Take("found") /\ UNCHANGED <<current_state, link, procedure>>
    BY <1>2 DEF OnFound
  <2>2. WakeupComes'
    <3>1. CASE procedure # "none"
      BY <2>1, <3>1 DEF WakeupComes
    <3>2. CASE procedure = "none"
      <4>1. \E other \in {"completed", "closed"} : Queued(other)'
        BY <2>1, <3>2, BehindHead DEF Moving, FoundFollowed
      <4>2. QED
        BY <4>1 DEF WakeupComes
    <3>3. QED
      BY <3>1, <3>2
  <2>3. QED
    BY <2>1, <2>2, TakeMoving
<1>3. CASE OnCharacteristicValue
  <2>1. "read" \in Procedures
    BY DEF Procedures
  <2>2. procedure # "none" => procedure' # "none"
    BY <1>3, <2>1, IssueMoves DEF OnCharacteristicValue
  <2>3. QED
    BY <1>1, <1>3, <2>2 DEF OnCharacteristicValue
<1>4. CASE OnScanReport
  <2>1. /\ Take("scan_report") /\ UNCHANGED <<current_state, saved, procedure>>
        /\ link' = "up" <=> link = "up"
        /\ connection_handle' => connection_handle \/ link = "none"
    <3>1. link = "none" \/ connection_handle' \in {connection_handle, FALSE}
      BY <1>4 DEF OnScanReport
    <3>2. link' = "up" <=> link = "up"
      BY <1>4 DEF OnScanReport
    <3>3. connection_handle' => connection_handle \/ link = "none"
      BY <3>1
    <3>4. QED
      BY <1>4, <3>2, <3>3 DEF OnScanReport
  <2>2. ASSUME current_state \in Waiting, saved = Attributes, connection_handle'
        PROVE  WakeupComes'
    <3>1. CASE connection_handle
      BY <2>1, <2>2, <3>1, WakeupStays
    <3>2. CASE link = "none"
      BY <2>1, <2>2, <3>2, StaysQueued DEF Moving, Attached, Waiting, WakeupComes
    <3>3. QED
      BY <2>1, <2>2, <3>1, <3>2
  <2>3. QED
    BY <2>1, <2>2, TakeMoving
<1>5. CASE OnBoot \/ OnConfirmBonding \/ OnConfirmPasskey \/ OnBonded \/ OnBondingFailed
  BY <1>1, <1>5 DEF OnBoot, OnConfirmBonding, OnConfirmPasskey, OnBonded, OnBondingFailed
<1>6. QED
  BY <1>2, <1>3, <1>4, <1>5

LEMMA ClosedMoving ==
  ASSUME TypeOK, Moving, OnClosed
  PROVE  Moving'
<1>1. Take("closed") /\ UNCHANGED <<link, procedure>> /\ current_state' = "stateOPEN"
  BY DEF OnClosed, DiscoveryOnClosed
<1>2. current_state' \notin Waiting
  BY <1>1 DEF Waiting
<1>3. OpenedFollowed' /\ FoundFollowed'
  BY <1>1, TakeAfter DEF Moving, OpenedFollowed, FoundFollowed
<1>4. QED
  BY <1>1, <1>2, <1>3 DEF Moving, Attached, HandledMoves

\* A press asks for a procedure or finds one running.
LEMMA PressMoving ==
  ASSUME TypeOK, Moving, OnExternalSignal
  PROVE  Moving'
<1>1. "subscribe" \in Procedures /\ "unsubscribe" \in Procedures
  BY DEF Procedures
<1>2. procedure # "none" => procedure' # "none"
  BY <1>1, IssueMoves DEF OnExternalSignal
<1>3. QED
  BY <1>2 DEF OnExternalSignal, Moving, Attached, OpenedFollowed, FoundFollowed,
     HandledMoves, WakeupComes, After, Queued

\* The stack and the peer.
LEMMA StackMoving ==
  ASSUME TypeOK, Moving, Environment
  PROVE  Moving'
<1>1. UNCHANGED <<current_state, saved, connection_handle>>
  BY DEF Environment, Buttoned, Interrupts, appVars, DeviceReported, ConnectionOpens, LinkDrops,
     PeerAnswers, ProcedureCompletes, PeerNotifies, PeerRequestsBonding,
     PasskeyCompared, PairingCompletes, PairingFails, Pairs
<1>2. Attached'
  BY <1>1, StackLink, StackKeepsQueued DEF Moving, Attached
<1>3. CASE LinkDrops
  <2>1. Event("closed", NoDevice) \in Events /\ Event("closed", NoDevice).id = "closed"
    BY EventTypes DEF PlainIds, Event
  <2>2. OpenedFollowed' /\ FoundFollowed'
    BY <1>3, <2>1, QueueAfter DEF LinkDrops, OpenedFollowed, FoundFollowed
  <2>3. Queued("closed")'
    BY <1>3, <2>1, GetsQueued DEF LinkDrops
  <2>4. QED
    BY <1>2, <2>2, <2>3 DEF Moving, HandledMoves, WakeupComes
<1>4. CASE ProcedureCompletes
  <2>1. PICK r \in Results : Queue(Event("completed", r))
    BY <1>4 DEF ProcedureCompletes, TypeOK, Results
  <2>2. Event("completed", r) \in Events /\ Event("completed", r).id = "completed"
    BY EventTypes DEF Event
  <2>3. OpenedFollowed' /\ FoundFollowed'
    BY <1>4, <2>1, <2>2, QueueAfter
       DEF ProcedureCompletes, Moving, OpenedFollowed, FoundFollowed
  <2>4. Queued("completed")'
    BY <2>1, <2>2, GetsQueued
  <2>5. QED
    BY <1>2, <2>3, <2>4 DEF Moving, HandledMoves, WakeupComes
<1>5. ASSUME UNCHANGED procedure, link' # "up" => link # "up",
             \/ UNCHANGED evq
             \/ \E e \in Events : /\ Queue(e)
                                  /\ e.id = "opened" => link' = "up"
                                  /\ e.id = "found" => procedure # "none"
      PROVE  Moving'
  <2>1. OpenedFollowed' /\ FoundFollowed'
    <3>1. CASE UNCHANGED evq
      BY <1>5, <3>1 DEF Moving, OpenedFollowed, FoundFollowed, After
    <3>2. ASSUME NEW e \in Events, Queue(e), e.id = "opened" => link' = "up",
                 e.id = "found" => procedure # "none"
          PROVE  OpenedFollowed' /\ FoundFollowed'
      BY <1>5, <3>2, QueueAfter DEF Moving, OpenedFollowed, FoundFollowed
    <3>3. QED
      BY <1>5, <3>1, <3>2
  <2>2. HandledMoves'
    BY <1>1, <1>5, StackKeepsQueued
       DEF Moving, HandledMoves, WakeupComes
  <2>3. QED
    BY <1>2, <2>1, <2>2 DEF Moving
<1>6. ASSUME NEW d \in Devices, DeviceReported(d)
      PROVE  Moving'
  BY <1>5, <1>6, EventTypes DEF DeviceReported, Event
<1>7. CASE ConnectionOpens
  BY <1>5, <1>7, EventTypes DEF ConnectionOpens, Event, PlainIds
<1>8. CASE PeerAnswers
  BY <1>5, <1>8, EventTypes DEF PeerAnswers, PeerFinds, PeerConfigures, PeerReads,
     PeerRefuses, Event
<1>9. CASE PeerNotifies
  BY <1>5, <1>9, EventTypes DEF PeerNotifies, Event
<1>10. CASE PeerRequestsBonding \/ PasskeyCompared \/ PairingCompletes \/ PairingFails
  BY <1>5, <1>10, EventTypes DEF PeerRequestsBonding, PasskeyCompared,
     PairingCompletes, PairingFails, Pairs, Event, PlainIds
<1>11. CASE UNCHANGED <<appVars, stackVars, undisturbed>>
  BY <1>5, <1>11 DEF stackVars
<1>12. QED
  BY <1>3, <1>4, <1>6, <1>7, <1>8, <1>9, <1>10, <1>11 DEF Environment, Buttoned, Interrupts

LEMMA MovingInvariant == Spec => []Moving
<1>1. Init => Moving
  <2> SUFFICES ASSUME Init PROVE Moving
    OBVIOUS
  <2>1. Len(evq) = 1 /\ evq[1].id = "boot" /\ current_state = "stateOPEN"
    BY DEF Init, Event
  <2>2. current_state \notin Waiting
    BY <2>1 DEF Waiting
  <2>3. QED
    BY <2>1, <2>2 DEF Moving, Attached, OpenedFollowed, FoundFollowed, After,
       HandledMoves
<1>2. TypeOK /\ Moving /\ [Next]_vars => Moving'
  <2> SUFFICES ASSUME TypeOK, Moving, [Next]_vars PROVE Moving'
    OBVIOUS
  <2>1. CASE UNCHANGED vars
    BY <2>1 DEF vars, appVars, stackVars, Moving, Attached, OpenedFollowed, FoundFollowed,
       After, HandledMoves, WakeupComes, Queued
  <2>2. QED
    BY <2>1, OpenedMoving, ClosedMoving, CompletedMoving, OtherMoving, PressMoving,
       StackMoving DEF Next, HandleEvent
<1>3. QED
  BY <1>1, <1>2, TypeCorrect, PTL DEF Spec

-----------------------------------------------------------------------------
(* The device.                                                             *)

\* No device in range shares one, two or three bytes with the address: the
\* bytes of several reports then never add up to six.
ApartAssumed == \A d \in Devices : MatchingBytes[d] \notin 1..3

\* The count is 0 or already too high for a report to fill up to six.
Counted == /\ address_check = 0 \/ (address_check >= 4 /\ address_check # 6)
           /\ ConnectsToServer

LEMMA CountedStep ==
  ASSUME ApartAssumed, TypeOK, Counted, [Next]_vars
  PROVE  Counted'
<1>1. CASE UNCHANGED <<address_check, link, peer>>
  BY <1>1 DEF Counted, ConnectsToServer
<1>2. CASE OnScanReport
  <2> DEFINE bytes == MatchingBytes[Head(evq).arg]
  <2>1. Head(evq).arg \in Devices
    BY <1>2, TakeShift, EventArgs DEF OnScanReport
  <2>2. bytes \in 0..6 /\ bytes \notin 1..3
    <3>1. PICK d \in Devices : d = Head(evq).arg
      BY <2>1
    <3>2. MatchingBytes[d] \in 0..6 /\ MatchingBytes[d] \notin 1..3
      BY MatchAssumption DEF ApartAssumed
    <3>3. QED
      BY <3>1, <3>2
  <2>3. CASE address_check + bytes = 6
    <3>1. /\ address_check' = 0
          /\ link' = IF link = "none" THEN "opening" ELSE link
          /\ peer' = IF link = "none" THEN Head(evq).arg ELSE peer
      BY <1>2, <2>3 DEF OnScanReport, AllBytesMatch
    <3>2. bytes = 6
      BY <2>2, <2>3 DEF Counted, TypeOK
    <3>3. ConnectsToServer'
      BY <3>1, <3>2 DEF Counted, ConnectsToServer
    <3>4. QED
      BY <3>1, <3>3 DEF Counted
  <2>4. CASE address_check + bytes # 6
    <3>1. address_check' = address_check + bytes /\ UNCHANGED <<link, peer>>
      BY <1>2, <2>4 DEF OnScanReport, AllBytesMatch
    <3>2. address_check' = 0 \/ (address_check' >= 4 /\ address_check' # 6)
      BY <2>2, <2>4, <3>1 DEF Counted, TypeOK
    <3>3. QED
      BY <3>1, <3>2 DEF Counted, ConnectsToServer
  <2>5. QED
    BY <2>3, <2>4
<1>3. CASE ConnectionOpens \/ LinkDrops
  BY <1>3 DEF ConnectionOpens, LinkDrops, appVars, Counted, ConnectsToServer
<1>4. CASE OnExternalSignal \/ UNCHANGED vars
  BY <1>1, <1>4 DEF OnExternalSignal, vars, appVars, stackVars
<1>5. CASE \/ OnBoot \/ OnOpened \/ OnClosed \/ OnProcedureCompleted \/ OnFound
           \/ OnCharacteristicValue \/ OnConfirmBonding \/ OnConfirmPasskey
           \/ OnBonded \/ OnBondingFailed
  BY <1>1, <1>5 DEF OnBoot, OnOpened, OnClosed, OnProcedureCompleted, OnFound,
     OnCharacteristicValue, OnConfirmBonding, OnConfirmPasskey, OnBonded, OnBondingFailed
<1>6. CASE Environment /\ ~ConnectionOpens /\ ~LinkDrops
  BY <1>1, <1>6 DEF Environment, Buttoned, Interrupts, appVars, stackVars, DeviceReported,
     PeerAnswers, ProcedureCompletes, PeerNotifies, PeerRequestsBonding,
     PasskeyCompared, PairingCompletes, PairingFails, Pairs
<1>7. QED
  BY <1>2, <1>3, <1>4, <1>5, <1>6 DEF Next, HandleEvent

\* With no device in range that shares one to three bytes, the board connects to
\* the keypad board and to no other, whatever it has counted (OnScanReport).
LEMMA ConnectsApart == ApartAssumed => (Spec => []ConnectsToServer)
<1> SUFFICES ASSUME ApartAssumed PROVE Spec => []ConnectsToServer
  OBVIOUS
<1>1. Init => Counted
  BY DEF Init, Counted, ConnectsToServer
<1>2. TypeOK /\ Counted /\ [Next]_vars => Counted'
  BY CountedStep
<1>3. Counted => ConnectsToServer
  BY DEF Counted
<1>4. QED
  BY <1>1, <1>2, <1>3, TypeCorrect, PTL DEF Spec

-----------------------------------------------------------------------------
(* The screen.                                                             *)

OnConnection == {"closed", "value", "found", "completed", "confirm_bonding",
                 "confirm_passkey", "bonded", "bonding_failed"}

\* Whether the application believes it is connected once it has handled an event.
Opens(id, open) == id = "opened" \/ (id # "closed" /\ open)

\* open[i] is what it believes once it has handled the first i events: each event
\* comes when it has to, and when all are handled the belief is right.
Believes(open) ==
  /\ open \in [0..Len(evq) -> BOOLEAN]
  /\ open[0] = connection_open
  /\ open[Len(evq)] = (link = "up")
  /\ \A i \in 1..Len(evq) :
       /\ open[i] = Opens(evq[i].id, open[i - 1])
       /\ evq[i].id \in OnConnection => open[i - 1]
       /\ evq[i].id \in {"boot", "opened"} => ~open[i - 1]

Ordered == (\E open : Believes(open)) /\ (procedure # "none" => link = "up")

\* The oldest event comes when it has to.
LEMMA TakeBelief ==
  ASSUME TypeOK, Ordered, NEW id, Take(id)
  PROVE  /\ id \in OnConnection => connection_open
         /\ id \in {"boot", "opened"} => ~connection_open
<1>1. Len(evq) \in Nat \ {0} /\ evq[1].id = id
  BY TakeShift
<1>2. PICK open : Believes(open)
  BY DEF Ordered
<1>3. 1 \in 1..Len(evq) /\ open[1 - 1] = connection_open
  BY <1>1, <1>2 DEF Believes
<1>4. QED
  BY <1>1, <1>2, <1>3 DEF Believes

LEMMA TakeOrdered ==
  ASSUME TypeOK, Ordered, NEW id, Take(id),
         connection_open' = Opens(id, connection_open),
         link' = "up" <=> link = "up",
         procedure' # "none" => link' = "up"
  PROVE  Ordered'
<1>1. /\ Len(evq) \in Nat \ {0} /\ evq[1].id = id
      /\ Len(evq') = Len(evq) - 1
      /\ \A i \in 1..Len(evq') : evq'[i] = evq[i + 1]
  BY TakeShift
<1>2. PICK open : Believes(open)
  BY DEF Ordered
<1>left. PICK left : left = [i \in 0..Len(evq') |-> open[i + 1]]
  OBVIOUS
<1>3. \A i \in 0..Len(evq') : i + 1 \in 0..Len(evq) /\ left[i] = open[i + 1]
  BY <1>1, <1>left
<1>4. left \in [0..Len(evq') -> BOOLEAN]
  BY <1>2, <1>3, <1>left DEF Believes
<1>5. left[0] = connection_open'
  <2>1. 1 \in 1..Len(evq) /\ open[1 - 1] = connection_open /\ 0 \in 0..Len(evq')
    BY <1>1, <1>2 DEF Believes
  <2>2. open[1] = Opens(id, connection_open)
    BY <1>1, <1>2, <2>1 DEF Believes
  <2>3. left[0] = open[1]
    BY <1>3, <2>1
  <2>4. QED
    BY <2>2, <2>3
<1>6. left[Len(evq')] = (link' = "up")
  BY <1>1, <1>2, <1>3 DEF Believes
<1>7. ASSUME NEW i \in 1..Len(evq')
      PROVE  /\ left[i] = Opens(evq'[i].id, left[i - 1])
             /\ evq'[i].id \in OnConnection => left[i - 1]
             /\ evq'[i].id \in {"boot", "opened"} => ~left[i - 1]
  <2>1. /\ i + 1 \in 1..Len(evq) /\ evq'[i] = evq[i + 1]
        /\ left[i] = open[i + 1] /\ left[i - 1] = open[(i + 1) - 1]
    BY <1>1, <1>3, <1>7
  <2>2. QED
    BY <1>2, <2>1 DEF Believes
<1>8. Believes(left)'
  BY <1>4, <1>5, <1>6, <1>7 DEF Believes
<1>9. QED
  BY <1>8 DEF Ordered

LEMMA QueueOrdered ==
  ASSUME TypeOK, Ordered, NEW e \in Events, Queue(e),
         UNCHANGED connection_open,
         procedure' # "none" => link' = "up",
         (link' = "up") = Opens(e.id, link = "up"),
         e.id \in OnConnection => link = "up",
         e.id = "opened" => link # "up",
         e.id # "boot"
  PROVE  Ordered'
<1>1. /\ Len(evq) \in Nat
      /\ Len(evq') = Len(evq) + 1
      /\ \A i \in 1..Len(evq) : evq'[i] = evq[i]
      /\ evq'[Len(evq) + 1] = e
  BY QueueGrows
<1>2. PICK open : Believes(open)
  BY DEF Ordered
<1>more. PICK more : more = [i \in 0..Len(evq') |-> IF i <= Len(evq) THEN open[i] ELSE link' = "up"]
  OBVIOUS
<1>3. /\ \A i \in 0..Len(evq) : more[i] = open[i]
      /\ more[Len(evq')] = (link' = "up")
  BY <1>1, <1>more
<1>4. more \in [0..Len(evq') -> BOOLEAN]
  <2>1. ASSUME NEW i \in 0..Len(evq')
        PROVE  more[i] \in BOOLEAN
    <3>1. CASE i <= Len(evq)
      <4>1. i \in 0..Len(evq) /\ more[i] = open[i]
        BY <1>1, <1>3, <3>1
      <4>2. QED
        BY <1>2, <4>1 DEF Believes
    <3>2. CASE i = Len(evq')
      BY <1>3, <3>2
    <3>3. QED
      BY <1>1, <3>1, <3>2
  <2>2. QED
    BY <1>more, <2>1
<1>5. more[0] = connection_open'
  BY <1>1, <1>2, <1>3 DEF Believes
<1>6. ASSUME NEW i \in 1..Len(evq')
      PROVE  /\ more[i] = Opens(evq'[i].id, more[i - 1])
             /\ evq'[i].id \in OnConnection => more[i - 1]
             /\ evq'[i].id \in {"boot", "opened"} => ~more[i - 1]
  <2>1. CASE i \in 1..Len(evq)
    <3>1. evq'[i] = evq[i] /\ more[i] = open[i] /\ more[i - 1] = open[i - 1]
      BY <1>1, <1>3, <2>1
    <3>2. QED
      BY <1>2, <2>1, <3>1 DEF Believes
  <2>2. CASE i = Len(evq) + 1
    <3>1. evq'[i] = e /\ more[i - 1] = open[Len(evq)] /\ more[i] = (link' = "up")
      BY <1>1, <1>3, <2>2
    <3>2. open[Len(evq)] = (link = "up")
      BY <1>2 DEF Believes
    <3>3. QED
      BY <3>1, <3>2
  <2>3. QED
    BY <1>1, <1>6, <2>1, <2>2
<1>7. Believes(more)'
  BY <1>3, <1>4, <1>5, <1>6 DEF Believes
<1>8. QED
  BY <1>7 DEF Ordered

LEMMA HandledOrdered ==
  ASSUME TypeOK, Ordered, HandleEvent
  PROVE  Ordered'
<1>1. ASSUME NEW proc, NEW right, Issue(proc, right), UNCHANGED link
      PROVE  procedure' # "none" => link' = "up"
  BY <1>1 DEF Issue, StackIdle, Ordered
<1>2. CASE OnOpened
  <2>1. procedure' # "none" => link' = "up"
    BY <1>1, <1>2 DEF OnOpened, DiscoveryOnOpened, Ordered
  <2>2. QED
    BY <1>2, <2>1, TakeOrdered DEF OnOpened, Opens
<1>3. CASE OnClosed
  BY <1>3, TakeOrdered DEF OnClosed, Opens, Ordered
<1>4. ASSUME NEW id \in {"boot", "scan_report", "completed", "found", "value",
                         "confirm_bonding", "confirm_passkey", "bonded", "bonding_failed"},
             Take(id), UNCHANGED connection_open,
             link' = "up" <=> link = "up",
             procedure' # "none" => link' = "up"
      PROVE  Ordered'
  <2>1. connection_open \in BOOLEAN
    BY DEF TypeOK
  <2>2. connection_open' = Opens(id, connection_open)
    BY <1>4, <2>1 DEF Opens
  <2>3. QED
    BY <1>4, <2>2, TakeOrdered
<1>5. CASE OnScanReport
  <2>1. (link' = "up" <=> link = "up") /\ UNCHANGED <<connection_open, procedure>>
    BY <1>5 DEF OnScanReport
  <2>2. QED
    BY <1>4, <1>5, <2>1 DEF OnScanReport, Ordered
<1>6. CASE OnProcedureCompleted
  <2>1. procedure' # "none" => link' = "up"
    BY <1>1, <1>6 DEF OnProcedureCompleted, DiscoveryOnCompleted, Ordered
  <2>2. QED
    BY <1>4, <1>6, <2>1 DEF OnProcedureCompleted
<1>7. CASE OnCharacteristicValue
  <2>1. procedure' # "none" => link' = "up"
    BY <1>1, <1>7 DEF OnCharacteristicValue, Ordered
  <2>2. QED
    BY <1>4, <1>7, <2>1 DEF OnCharacteristicValue
<1>8. CASE OnBoot \/ OnFound \/ OnConfirmBonding \/ OnConfirmPasskey \/ OnBonded
             \/ OnBondingFailed
  BY <1>4, <1>8 DEF OnBoot, OnFound, OnConfirmBonding, OnConfirmPasskey, OnBonded,
     OnBondingFailed, Ordered
<1>9. QED
  BY <1>2, <1>3, <1>5, <1>6, <1>7, <1>8 DEF HandleEvent

LEMMA StackOrdered ==
  ASSUME TypeOK, Ordered, Environment
  PROVE  Ordered'
<1>1. CASE ConnectionOpens
  <2> DEFINE e == Event("opened", NoDevice)
  <2>1. e \in Events /\ e.id = "opened"
    BY EventTypes DEF PlainIds, Event
  <2>2. (link' = "up") = TRUE /\ Opens(e.id, link = "up") = TRUE
    BY <1>1, <2>1 DEF ConnectionOpens, Opens
  <2>3. QED
    BY <1>1, <2>1, <2>2, QueueOrdered DEF ConnectionOpens, OnConnection, appVars
<1>2. CASE LinkDrops
  <2> DEFINE e == Event("closed", NoDevice)
  <2>1. e \in Events /\ e.id = "closed"
    BY EventTypes DEF PlainIds, Event
  <2>2. (link' = "up") = FALSE /\ Opens(e.id, link = "up") = FALSE
    BY <1>2, <2>1 DEF LinkDrops, Opens
  <2>3. QED
    BY <1>2, <2>1, <2>2, QueueOrdered DEF LinkDrops, OnConnection, appVars
<1>3. ASSUME NEW e \in Events, Queue(e), e.id \notin {"boot", "opened", "closed"},
             e.id \in OnConnection => link = "up",
             UNCHANGED <<connection_open, link>>,
             procedure' = procedure \/ procedure' = "none"
      PROVE  Ordered'
  BY <1>3, QueueOrdered DEF Opens, Ordered
<1>4. ASSUME UNCHANGED <<connection_open, link, procedure, evq>>
      PROVE  Ordered'
  BY <1>4 DEF Ordered, Believes
<1>5. ASSUME NEW d \in Devices, DeviceReported(d)
      PROVE  Ordered'
  BY <1>3, <1>5, EventTypes DEF DeviceReported, Event, OnConnection, appVars
<1>6. CASE PeerAnswers
  <2>1. UNCHANGED <<connection_open, link, procedure>> /\ link = "up"
    BY <1>6 DEF PeerAnswers, appVars
  <2>2. CASE UNCHANGED evq
    BY <1>4, <2>1, <2>2
  <2>3. ASSUME NEW a \in Attributes, Queue(Event("found", a))
        PROVE  Ordered'
    BY <1>3, <2>1, <2>3, EventTypes DEF Event
  <2>4. ASSUME NEW v \in Values, Queue(Event("value", v))
        PROVE  Ordered'
    BY <1>3, <2>1, <2>4, EventTypes DEF Event
  <2>5. QED
    BY <1>6, <2>2, <2>3, <2>4
       DEF PeerAnswers, PeerFinds, PeerConfigures, PeerReads, PeerRefuses
<1>7. CASE ProcedureCompletes
  <2>1. PICK r \in Results : Queue(Event("completed", r))
    BY <1>7 DEF ProcedureCompletes, TypeOK, Results
  <2>2. QED
    BY <1>3, <1>7, <2>1, EventTypes DEF ProcedureCompletes, Event, appVars, Ordered
<1>8. CASE PeerNotifies
  BY <1>3, <1>8, EventTypes DEF PeerNotifies, Event, appVars
<1>9. CASE PeerRequestsBonding \/ PasskeyCompared \/ PairingCompletes \/ PairingFails
  BY <1>3, <1>9, EventTypes DEF PeerRequestsBonding, PasskeyCompared,
     PairingCompletes, PairingFails, Pairs, Event, PlainIds, appVars
<1>10. CASE UNCHANGED <<appVars, stackVars, undisturbed>>
  BY <1>4, <1>10 DEF appVars, stackVars
<1>11. QED
  BY <1>1, <1>2, <1>5, <1>6, <1>7, <1>8, <1>9, <1>10 DEF Environment, Buttoned, Interrupts

LEMMA ScreenStep ==
  ASSUME TypeOK, Ordered, ScreenAgrees, [Next]_vars
  PROVE  ScreenAgrees'
<1> DEFINE Live == {"Connected", "Bonded", "Failed"}
<1>1. CASE UNCHANGED <<lcd, connection_open, bonding_flag>>
  BY <1>1 DEF ScreenAgrees
<1>2. CASE OnBoot
  <2>1. ~connection_open
    BY <1>2, TakeBelief DEF OnBoot
  <2>2. QED
    BY <1>2, <2>1 DEF OnBoot, ScreenAgrees
<1>3. CASE OnOpened
  <2>1. ~connection_open
    BY <1>3, TakeBelief DEF OnOpened
  <2>2. ~bonding_flag
    BY <2>1 DEF ScreenAgrees
  <2>3. lcd'.conn = "Connected" /\ lcd'.key = lcd.key
    BY <1>3 DEF OnOpened, TypeOK
  <2>4. QED
    BY <1>3, <2>2, <2>3 DEF OnOpened, ScreenAgrees
<1>4. CASE OnClosed
  <2>1. lcd'.conn = "Discovering" /\ lcd'.key = "blank"
    BY <1>4 DEF OnClosed, ClosedScreen, TypeOK
  <2>2. QED
    BY <1>4, <2>1 DEF OnClosed, ScreenAgrees
<1>5. CASE OnCharacteristicValue
  <2>1. connection_open
    BY <1>5, TakeBelief DEF OnCharacteristicValue, OnConnection
  <2>2. lcd'.conn = lcd.conn
    BY <1>5 DEF OnCharacteristicValue, TypeOK
  <2>3. QED
    BY <1>5, <2>1, <2>2 DEF OnCharacteristicValue, ScreenAgrees
<1>6. CASE OnConfirmPasskey
  <2>1. lcd'.conn = lcd.conn /\ lcd'.key = lcd.key
    BY <1>6 DEF OnConfirmPasskey, TypeOK
  <2>2. QED
    BY <1>6, <2>1 DEF OnConfirmPasskey, ScreenAgrees
<1>7. CASE OnBonded
  <2>1. connection_open
    BY <1>7, TakeBelief DEF OnBonded, OnConnection
  <2>2. lcd'.conn = "Bonded" /\ lcd'.key = lcd.key
    BY <1>7 DEF OnBonded, TypeOK
  <2>3. QED
    BY <1>7, <2>1, <2>2 DEF OnBonded, ScreenAgrees
<1>8. CASE OnBondingFailed
  <2>1. connection_open
    BY <1>8, TakeBelief DEF OnBondingFailed, OnConnection
  <2>2. lcd'.conn = "Failed" /\ lcd'.key = lcd.key
    BY <1>8 DEF OnBondingFailed, TypeOK
  <2>3. QED
    BY <1>8, <2>1, <2>2 DEF OnBondingFailed, ScreenAgrees
<1>9. CASE OnScanReport \/ OnProcedureCompleted \/ OnFound \/ OnConfirmBonding
  BY <1>1, <1>9 DEF OnScanReport, OnProcedureCompleted, OnFound, OnConfirmBonding
<1>10. CASE OnExternalSignal \/ UNCHANGED vars
  BY <1>1, <1>10 DEF OnExternalSignal, vars, appVars
<1>11. CASE Environment
  BY <1>1, <1>11 DEF Environment, Buttoned, Interrupts, appVars, DeviceReported, ConnectionOpens,
     LinkDrops, PeerAnswers, ProcedureCompletes, PeerNotifies, PeerRequestsBonding,
     PasskeyCompared, PairingCompletes, PairingFails, Pairs
<1>12. QED
  BY <1>2, <1>3, <1>4, <1>5, <1>6, <1>7, <1>8, <1>9, <1>10, <1>11 DEF Next, HandleEvent

\* The LCD of the LED board says what the flags say, and no key is shown without
\* a connection, however many connections are queued up (OnOpened, OnClosed).
THEOREM ScreenIsRight == Spec => []ScreenAgrees
<1>1. Init => Ordered /\ ScreenAgrees
  <2> SUFFICES ASSUME Init PROVE Ordered /\ ScreenAgrees
    OBVIOUS
  <2>1. Len(evq) = 1 /\ evq[1].id = "boot"
    BY DEF Init, Event
  <2>2. PICK open : open = [i \in 0..1 |-> FALSE]
    OBVIOUS
  <2>3. open \in [0..1 -> BOOLEAN] /\ open[0] = FALSE /\ open[1] = FALSE
    BY <2>2
  <2>4. connection_open = FALSE /\ (link = "up") = FALSE
    BY DEF Init
  <2>5. \A i \in 1..Len(evq) : i = 1 /\ i - 1 = 0
    BY <2>1
  <2>6. Believes(open)
    BY <2>1, <2>3, <2>4, <2>5 DEF Believes, Opens, OnConnection
  <2>7. QED
    BY <2>6 DEF Init, Ordered, ScreenAgrees
<1>2. TypeOK /\ Ordered /\ ScreenAgrees /\ [Next]_vars => Ordered' /\ ScreenAgrees'
  <2> SUFFICES ASSUME TypeOK, Ordered, ScreenAgrees, [Next]_vars
               PROVE  Ordered' /\ ScreenAgrees'
    OBVIOUS
  <2>1. CASE OnExternalSignal
    <3>1. procedure' # "none" => link' = "up"
      BY <2>1 DEF OnExternalSignal, Issue, StackIdle, Ordered
    <3>2. QED
      BY <2>1, <3>1, ScreenStep DEF OnExternalSignal, Ordered, Believes
  <2>2. CASE UNCHANGED vars
    BY <2>2, ScreenStep DEF vars, appVars, stackVars, Ordered, Believes
  <2>3. QED
    BY <2>1, <2>2, ScreenStep, HandledOrdered, StackOrdered DEF Next
<1>3. QED
  BY <1>1, <1>2, TypeCorrect, PTL DEF Spec

-----------------------------------------------------------------------------
(* The session: what the queue may hold while the board sleeps, searches,  *)
(* is connected or has lost the connection.                                *)

AllIn(ids)  == \A i \in 1..Len(evq) : evq[i].id \in ids
NoneIn(ids) == \A i \in 1..Len(evq) : evq[i].id \notin ids

\* The closed event is the last one, and the only one of a session's ends.
EndsClosed ==
  /\ Len(evq) > 0 /\ evq[Len(evq)].id = "closed"
  /\ \A i \in 1..Len(evq) - 1 : evq[i].id \notin {"boot", "closed", "scan_report"}

Asleep == /\ link = "none" /\ ~scanning /\ current_state = "stateOPEN"
          /\ Len(evq) = 1 /\ AllIn({"boot"})
Free   == /\ link # "up" /\ current_state = "stateOPEN"
          /\ link = "opening" => ~scanning
          /\ AllIn({"scan_report"})
Held   == link = "up" /\ ~scanning /\ NoneIn({"boot", "closed"})
Parted == link = "none" /\ ~scanning /\ EndsClosed

Session == /\ Asleep \/ Free \/ Held \/ Parted
           /\ link # "up" => procedure = "none" /\ ~subscribed
           /\ procedure = "none" => answer = "none"

LEMMA TakeIn ==
  ASSUME TypeOK, NEW id, Take(id), NEW ids
  PROVE  /\ AllIn(ids) => id \in ids /\ AllIn(ids)'
         /\ NoneIn(ids) => id \notin ids /\ NoneIn(ids)'
<1>1. /\ Len(evq) \in Nat \ {0} /\ evq[1].id = id
      /\ Len(evq') = Len(evq) - 1
      /\ \A i \in 1..Len(evq') : evq'[i] = evq[i + 1]
  BY TakeShift
<1>2. 1 \in 1..Len(evq)
  BY <1>1
<1>3. \A i \in 1..Len(evq') : i + 1 \in 1..Len(evq)
  BY <1>1
<1>4. QED
  BY <1>1, <1>2, <1>3 DEF AllIn, NoneIn

LEMMA QueueIn ==
  ASSUME TypeOK, NEW e \in Events, Queue(e), NEW ids
  PROVE  /\ AllIn(ids) /\ e.id \in ids => AllIn(ids)'
         /\ NoneIn(ids) /\ e.id \notin ids => NoneIn(ids)'
<1>1. /\ Len(evq) \in Nat
      /\ Len(evq') = Len(evq) + 1
      /\ \A i \in 1..Len(evq) : evq'[i] = evq[i]
      /\ evq'[Len(evq) + 1] = e
  BY QueueGrows
<1>2. \A i \in 1..Len(evq') : i \in 1..Len(evq) \/ i = Len(evq) + 1
  BY <1>1
<1>3. QED
  BY <1>1, <1>2 DEF AllIn, NoneIn

\* What the oldest event can be, and what its taking leaves.
LEMMA TakeSession ==
  ASSUME TypeOK, NEW id, Take(id)
  PROVE  /\ Asleep => id = "boot" /\ AllIn({"scan_report"})'
         /\ Free => id = "scan_report" /\ AllIn({"scan_report"})'
         /\ Held => id \notin {"boot", "closed"} /\ NoneIn({"boot", "closed"})'
         /\ Parted /\ id = "closed" => AllIn({"scan_report"})'
         /\ Parted /\ id # "closed" => id \notin {"boot", "scan_report"} /\ EndsClosed'
<1>1. /\ Len(evq) \in Nat \ {0} /\ evq[1].id = id
      /\ Len(evq') = Len(evq) - 1
      /\ \A i \in 1..Len(evq') : evq'[i] = evq[i + 1]
  BY TakeShift
<1>2. Asleep => id = "boot" /\ AllIn({"scan_report"})'
  BY <1>1, TakeIn DEF Asleep, AllIn
<1>3. /\ Free => id = "scan_report" /\ AllIn({"scan_report"})'
      /\ Held => id \notin {"boot", "closed"} /\ NoneIn({"boot", "closed"})'
  BY TakeIn DEF Free, Held
<1>4. ASSUME Parted, id = "closed"
      PROVE  AllIn({"scan_report"})'
  <2>1. 1 \notin 1..Len(evq) - 1
    BY <1>1, <1>4 DEF Parted, EndsClosed
  <2>2. Len(evq') = 0
    BY <1>1, <2>1
  <2>3. QED
    BY <2>2 DEF AllIn
<1>5. ASSUME Parted, id # "closed"
      PROVE  id \notin {"boot", "scan_report"} /\ EndsClosed'
  <2>1. Len(evq) > 1
    BY <1>1, <1>5 DEF Parted, EndsClosed
  <2>2. 1 \in 1..Len(evq) - 1
    BY <1>1, <2>1
  <2>3. id \notin {"boot", "scan_report"}
    BY <1>1, <1>5, <2>2 DEF Parted, EndsClosed
  <2>4. Len(evq') > 0 /\ evq'[Len(evq')] = evq[Len(evq)]
    BY <1>1, <2>1
  <2>5. \A i \in 1..Len(evq') - 1 : evq'[i] = evq[i + 1] /\ i + 1 \in 1..Len(evq) - 1
    BY <1>1
  <2>6. QED
    BY <1>5, <2>3, <2>4, <2>5 DEF Parted, EndsClosed
<1>6. QED
  BY <1>2, <1>3, <1>4, <1>5

\* A command is not taken without a connection, and stops nothing.
LEMMA IssueSession ==
  ASSUME NEW proc \in Procedures, NEW right, Issue(proc, right)
  PROVE  /\ procedure' \in {procedure, proc}
         /\ link # "up" => UNCHANGED procedure
         /\ procedure # "none" => UNCHANGED procedure
         /\ procedure' = "none" => procedure = "none"
<1>1. proc # "none"
  BY DEF Procedures, Attributes
<1>2. QED
  BY <1>1 DEF Issue, StackIdle

LEMMA HandledSession ==
  ASSUME TypeOK, Session, HandleEvent
  PROVE  Session'
<1>1. ASSUME NEW id, Take(id), id \notin {"boot", "closed", "scan_report"},
             UNCHANGED <<link, scanning, subscribed, answer>>,
             link # "up" => UNCHANGED procedure,
             procedure' = "none" => procedure = "none"
      PROVE  Session'
  BY <1>1, TakeSession DEF Session, Held, Parted
<1>2. CASE OnBoot
  <2>1. Asleep
    BY <1>2, TakeSession DEF OnBoot, Session
  <2>2. QED
    BY <1>2, <2>1, TakeSession DEF OnBoot, Session, Asleep, Free
<1>3. CASE OnClosed
  <2>1. Parted
    BY <1>3, TakeSession DEF OnClosed, Session
  <2>2. AllIn({"scan_report"})'
    BY <1>3, <2>1, TakeSession DEF OnClosed
  <2>3. Free'
    BY <1>3, <2>1, <2>2 DEF OnClosed, DiscoveryOnClosed, Parted, Free
  <2>4. QED
    BY <1>3, <2>3 DEF OnClosed, Session
<1>4. CASE OnScanReport
  <2>1. /\ UNCHANGED <<current_state, procedure, subscribed, answer>>
        /\ \/ UNCHANGED <<scanning, link>>
           \/ ~scanning' /\ link' = IF link = "none" THEN "opening" ELSE link
    BY <1>4 DEF OnScanReport
  <2>2. CASE Free
    <3>1. AllIn({"scan_report"})'
      BY <1>4, <2>2, TakeSession DEF OnScanReport
    <3>2. Free'
      BY <2>1, <2>2, <3>1 DEF Free
    <3>3. QED
      BY <2>1, <2>2, <3>2 DEF Session, Free
  <2>3. CASE Held
    <3>1. NoneIn({"boot", "closed"})'
      BY <1>4, <2>3, TakeSession DEF OnScanReport
    <3>2. Held'
      BY <2>1, <2>3, <3>1 DEF Held
    <3>3. QED
      BY <2>1, <3>2 DEF Session, Held
  <2>4. QED
    BY <1>4, <2>2, <2>3, TakeSession DEF OnScanReport, Session
<1>5. CASE OnOpened
  <2>1. "keypad_service" \in Procedures
    BY DEF Procedures, Attributes
  <2>2. (link # "up" => UNCHANGED procedure) /\ (procedure' = "none" => procedure = "none")
    BY <1>5, <2>1, IssueSession DEF OnOpened, DiscoveryOnOpened
  <2>3. QED
    BY <1>1, <1>5, <2>2 DEF OnOpened
<1>6. CASE OnProcedureCompleted
  <2>1. \A s \in DOMAIN Discovery : Discovery[s].asks \in Procedures
    BY DEF Discovery, Procedures, Attributes
  <2>2. (link # "up" => UNCHANGED procedure) /\ (procedure' = "none" => procedure = "none")
    BY <1>6, <2>1, IssueSession DEF OnProcedureCompleted, DiscoveryOnCompleted
  <2>3. QED
    BY <1>1, <1>6, <2>2 DEF OnProcedureCompleted
<1>7. CASE OnCharacteristicValue
  <2>1. "read" \in Procedures
    BY DEF Procedures
  <2>2. (link # "up" => UNCHANGED procedure) /\ (procedure' = "none" => procedure = "none")
    BY <1>7, <2>1, IssueSession DEF OnCharacteristicValue
  <2>3. QED
    BY <1>1, <1>7, <2>2 DEF OnCharacteristicValue
<1>8. CASE OnFound \/ OnConfirmBonding \/ OnConfirmPasskey \/ OnBonded \/ OnBondingFailed
  BY <1>1, <1>8 DEF OnFound, OnConfirmBonding, OnConfirmPasskey, OnBonded, OnBondingFailed
<1>9. QED
  BY <1>2, <1>3, <1>4, <1>5, <1>6, <1>7, <1>8 DEF HandleEvent

LEMMA StackSession ==
  ASSUME SlowLoss, TypeOK, Session, Environment
  PROVE  Session'
<1>1. CASE ConnectionOpens
  <2> DEFINE e == Event("opened", NoDevice)
  <2>1. e \in Events /\ e.id = "opened"
    BY EventTypes DEF PlainIds, Event
  <2>2. Free
    BY <1>1 DEF ConnectionOpens, Session, Asleep, Held, Parted
  <2>3. NoneIn({"boot", "closed"})
    BY <2>2 DEF Free, AllIn, NoneIn
  <2>4. NoneIn({"boot", "closed"})'
    BY <1>1, <2>1, <2>3, QueueIn DEF ConnectionOpens
  <2>5. Held'
    BY <1>1, <2>2, <2>4 DEF ConnectionOpens, Held, Free
  <2>6. QED
    BY <1>1, <2>5 DEF ConnectionOpens, Session
<1>2. CASE LinkDrops
  <2> DEFINE e == Event("closed", NoDevice)
  <2>1. e \in Events /\ e.id = "closed" /\ Queue(e)
    BY <1>2, EventTypes DEF LinkDrops, PlainIds, Event
  <2>2. Held
    BY <1>2 DEF LinkDrops, Session, Asleep, Free, Parted
  <2>3. \A i \in 1..Len(evq) : evq[i].id \notin {"boot", "closed", "scan_report"}
    BY <1>2, <2>2 DEF LinkDrops, Queued, Held, NoneIn
  <2>4. /\ Len(evq) \in Nat
        /\ Len(evq') = Len(evq) + 1
        /\ \A i \in 1..Len(evq) : evq'[i] = evq[i]
        /\ evq'[Len(evq) + 1] = e
    BY <2>1, QueueGrows
  <2>5. EndsClosed'
    BY <2>1, <2>3, <2>4 DEF EndsClosed
  <2>6. QED
    BY <1>2, <2>2, <2>5 DEF LinkDrops, Session, Parted, Held
<1>3. ASSUME NEW d \in Devices, DeviceReported(d)
      PROVE  Session'
  <2> DEFINE e == Event("scan_report", d)
  <2>1. e \in Events /\ e.id = "scan_report" /\ Queue(e)
    BY <1>3, EventTypes DEF DeviceReported, Event
  <2>2. Free
    BY <1>3 DEF DeviceReported, Session, Asleep, Held, Parted
  <2>3. AllIn({"scan_report"})'
    BY <2>1, <2>2, QueueIn DEF Free
  <2>4. Free'
    BY <1>3, <2>2, <2>3 DEF DeviceReported, appVars, Free
  <2>5. QED
    BY <1>3, <2>4 DEF DeviceReported, Session
<1>4. ASSUME UNCHANGED <<link, scanning>>, link = "up",
             procedure' = "none" => answer' = "none",
             \/ UNCHANGED evq
             \/ \E e \in Events : Queue(e) /\ e.id \notin {"boot", "closed"}
      PROVE  Session'
  <2>1. Held
    BY <1>4 DEF Session, Asleep, Free, Parted
  <2>2. NoneIn({"boot", "closed"})'
    <3>1. CASE UNCHANGED evq
      BY <2>1, <3>1 DEF Held, NoneIn
    <3>2. QED
      BY <1>4, <2>1, <3>1, QueueIn DEF Held
  <2>3. QED
    BY <1>4, <2>1, <2>2 DEF Session, Held
<1>5. CASE PeerAnswers
  BY <1>4, <1>5, EventTypes DEF PeerAnswers, PeerFinds, PeerConfigures, PeerReads,
     PeerRefuses, Event
<1>6. CASE ProcedureCompletes
  <2>1. PICK r \in Results : Queue(Event("completed", r))
    BY <1>6 DEF ProcedureCompletes, TypeOK, Results
  <2>2. QED
    BY <1>4, <1>6, <2>1, EventTypes DEF ProcedureCompletes, Session, Event
<1>7. CASE PeerNotifies
  BY <1>4, <1>7, EventTypes DEF PeerNotifies, Event, Session
<1>8. CASE PeerRequestsBonding \/ PasskeyCompared \/ PairingCompletes \/ PairingFails
  BY <1>4, <1>8, EventTypes DEF PeerRequestsBonding, PasskeyCompared,
     PairingCompletes, PairingFails, Pairs, Event, PlainIds, Session
<1>9. CASE UNCHANGED <<appVars, stackVars, undisturbed>>
  BY <1>9 DEF appVars, stackVars, Session, Asleep, Free, Held, Parted, AllIn, NoneIn,
     EndsClosed
<1>10. QED
  BY <1>1, <1>2, <1>3, <1>5, <1>6, <1>7, <1>8, <1>9 DEF Environment, Buttoned, Interrupts

LEMMA SessionStep ==
  ASSUME SlowLoss, TypeOK, Session, [Next]_vars
  PROVE  Session'
<1>1. CASE OnExternalSignal
  <2>1. "subscribe" \in Procedures /\ "unsubscribe" \in Procedures
    BY DEF Procedures
  <2>2. (link # "up" => UNCHANGED procedure) /\ (procedure' = "none" => procedure = "none")
    BY <1>1, <2>1, IssueSession DEF OnExternalSignal
  <2>3. QED
    BY <1>1, <2>2 DEF OnExternalSignal, Session, Asleep, Free, Held, Parted, AllIn,
       NoneIn, EndsClosed
<1>2. CASE UNCHANGED vars
  BY <1>2 DEF vars, appVars, stackVars, Session, Asleep, Free, Held, Parted, AllIn,
     NoneIn, EndsClosed
<1>3. QED
  BY <1>1, <1>2, HandledSession, StackSession DEF Next

LEMMA SessionInit == Init => Session
  BY DEF Init, Event, Session, Asleep, AllIn

\* The machine has not heard yet of the connection that is up: its opened event is
\* queued once, behind the scan reports.
Unheard == /\ current_state = "stateOPEN"
           /\ \E i \in 1..Len(evq) :
                /\ evq[i].id = "opened"
                /\ \A j \in 1..Len(evq) :
                     j # i /\ evq[j].id \in {"opened", "scan_report"}
                       => j < i /\ evq[j].id = "scan_report"

\* Or it knows the handle, and no report waits that could take it away.
Heard == connection_handle /\ NoneIn({"opened", "scan_report"})

Announced == link = "up" => Unheard \/ Heard

\* Taking an event that is not the opened one leaves the machine as well informed.
LEMMA TakeAnnounced ==
  ASSUME TypeOK, Unheard \/ Heard, NEW id, Take(id), id # "opened",
         current_state = "stateOPEN" => UNCHANGED current_state,
         id # "scan_report" => UNCHANGED connection_handle
  PROVE  (Unheard \/ Heard)'
<1>1. /\ Len(evq) \in Nat \ {0} /\ evq[1].id = id
      /\ Len(evq') = Len(evq) - 1
      /\ \A i \in 1..Len(evq') : evq'[i] = evq[i + 1]
  BY TakeShift
<1>2. CASE Unheard
  <2>1. PICK i \in 1..Len(evq) :
          /\ evq[i].id = "opened"
          /\ \A j \in 1..Len(evq) :
               j # i /\ evq[j].id \in {"opened", "scan_report"}
                 => j < i /\ evq[j].id = "scan_report"
    BY <1>2 DEF Unheard
  <2>2. i # 1
    BY <1>1, <2>1
  <2>3. i - 1 \in 1..Len(evq') /\ evq'[i - 1] = evq[i]
    <3>1. i - 1 \in 1..Len(evq') /\ (i - 1) + 1 = i
      BY <1>1, <2>2
    <3>2. QED
      BY <1>1, <3>1
  <2>4. ASSUME NEW j \in 1..Len(evq'), j # i - 1, evq'[j].id \in {"opened", "scan_report"}
        PROVE  j < i - 1 /\ evq'[j].id = "scan_report"
    <3>1. j + 1 \in 1..Len(evq) /\ evq[j + 1] = evq'[j] /\ j + 1 # i
      BY <1>1, <2>4
    <3>2. j + 1 < i /\ evq[j + 1].id = "scan_report"
      BY <2>1, <2>4, <3>1
    <3>3. QED
      BY <3>1, <3>2
  <2>5. Unheard'
    BY <1>2, <2>1, <2>3, <2>4 DEF Unheard
  <2>6. QED
    BY <2>5
<1>3. CASE Heard
  <2>1. id # "scan_report" /\ NoneIn({"opened", "scan_report"})'
    BY <1>3, TakeIn DEF Heard
  <2>2. QED
    BY <1>3, <2>1 DEF Heard
<1>4. QED
  BY <1>2, <1>3

\* So does an event the stack queues while the connection is up.
LEMMA QueueAnnounced ==
  ASSUME TypeOK, Unheard \/ Heard, NEW e \in Events, Queue(e),
         e.id \notin {"opened", "scan_report"},
         UNCHANGED <<current_state, connection_handle>>
  PROVE  (Unheard \/ Heard)'
<1>1. /\ Len(evq) \in Nat
      /\ Len(evq') = Len(evq) + 1
      /\ \A i \in 1..Len(evq) : evq'[i] = evq[i]
      /\ evq'[Len(evq) + 1] = e
  BY QueueGrows
<1>2. CASE Unheard
  <2>1. PICK i \in 1..Len(evq) :
          /\ evq[i].id = "opened"
          /\ \A j \in 1..Len(evq) :
               j # i /\ evq[j].id \in {"opened", "scan_report"}
                 => j < i /\ evq[j].id = "scan_report"
    BY <1>2 DEF Unheard
  <2>2. i \in 1..Len(evq') /\ evq'[i] = evq[i]
    BY <1>1
  <2>3. ASSUME NEW j \in 1..Len(evq'), j # i, evq'[j].id \in {"opened", "scan_report"}
        PROVE  j < i /\ evq'[j].id = "scan_report"
    <3>1. j \in 1..Len(evq) /\ evq'[j] = evq[j]
      BY <1>1, <2>3
    <3>2. QED
      BY <2>1, <2>3, <3>1
  <2>4. QED
    BY <1>2, <2>1, <2>2, <2>3 DEF Unheard
<1>3. CASE Heard
  BY <1>3, QueueIn DEF Heard
<1>4. QED
  BY <1>2, <1>3

\* The machine hears of the connection.
LEMMA OpenedAnnounced ==
  ASSUME TypeOK, Unheard \/ Heard, OnOpened
  PROVE  Heard'
<1>1. Take("opened") /\ DiscoveryOnOpened
  BY DEF OnOpened
<1>2. /\ Len(evq) \in Nat \ {0} /\ evq[1].id = "opened"
      /\ Len(evq') = Len(evq) - 1
      /\ \A i \in 1..Len(evq') : evq'[i] = evq[i + 1]
  BY <1>1, TakeShift
<1>3. ~Heard
  BY <1>1, TakeIn DEF Heard
<1>4. PICK i \in 1..Len(evq) :
        /\ evq[i].id = "opened"
        /\ \A j \in 1..Len(evq) :
             j # i /\ evq[j].id \in {"opened", "scan_report"}
               => j < i /\ evq[j].id = "scan_report"
  BY <1>3 DEF Unheard
<1>5. i = 1
  <2>1. 1 \in 1..Len(evq)
    BY <1>2
  <2>2. QED
    BY <1>2, <1>4, <2>1
<1>6. NoneIn({"opened", "scan_report"})'
  <2>1. ASSUME NEW j \in 1..Len(evq'), evq'[j].id \in {"opened", "scan_report"}
        PROVE  FALSE
    <3>1. j + 1 \in 1..Len(evq) /\ evq[j + 1] = evq'[j] /\ j + 1 # 1
      BY <1>2
    <3>2. j + 1 < 1
      BY <1>4, <1>5, <2>1, <3>1
    <3>3. QED
      BY <3>2
  <2>2. QED
    BY <2>1 DEF NoneIn
<1>7. connection_handle'
  BY <1>1, <1>3 DEF Unheard, DiscoveryOnOpened
<1>8. QED
  BY <1>6, <1>7 DEF Heard

LEMMA AnnouncedStep ==
  ASSUME TypeOK, Session, Announced, [Next]_vars
  PROVE  Announced'
<1> SUFFICES ASSUME link' = "up" PROVE (Unheard \/ Heard)'
  BY DEF Announced
<1>1. CASE ConnectionOpens
  <2> DEFINE e == Event("opened", NoDevice)
  <2>1. e \in Events /\ e.id = "opened" /\ Queue(e)
    BY <1>1, EventTypes DEF ConnectionOpens, PlainIds, Event
  <2>2. Free
    BY <1>1 DEF ConnectionOpens, Session, Asleep, Held, Parted
  <2>3. /\ Len(evq) \in Nat
        /\ Len(evq') = Len(evq) + 1
        /\ \A i \in 1..Len(evq) : evq'[i] = evq[i]
        /\ evq'[Len(evq) + 1] = e
    BY <2>1, QueueGrows
  <2>4. current_state' = "stateOPEN" /\ Len(evq') \in 1..Len(evq')
    BY <1>1, <2>2, <2>3 DEF ConnectionOpens, Free, appVars
  <2>5. \A j \in 1..Len(evq') : j # Len(evq') => j < Len(evq') /\ evq'[j].id = "scan_report"
    BY <2>2, <2>3 DEF Free, AllIn
  <2>6. QED
    BY <2>1, <2>3, <2>4, <2>5 DEF Unheard
<1>2. CASE ~ConnectionOpens
  <2>1. link = "up"
    <3>1. CASE Environment
      BY <1>2, <3>1 DEF Environment, Buttoned, Interrupts, stackVars, DeviceReported,
         LinkDrops, PeerAnswers, ProcedureCompletes, PeerNotifies, PeerRequestsBonding,
         PasskeyCompared, PairingCompletes, PairingFails, Pairs
    <3>2. CASE HandleEvent
      BY <3>2 DEF HandleEvent, OnBoot, OnOpened, OnClosed, OnScanReport, OnFound,
         OnProcedureCompleted, OnCharacteristicValue, OnConfirmBonding,
         OnConfirmPasskey, OnBonded, OnBondingFailed
    <3>3. CASE OnExternalSignal \/ UNCHANGED vars
      BY <3>3 DEF OnExternalSignal, vars, stackVars
    <3>4. QED
      BY <3>1, <3>2, <3>3 DEF Next
  <2>2. (Unheard \/ Heard) /\ Held
    BY <2>1 DEF Announced, Session, Asleep, Free, Parted
  <2>3. ASSUME UNCHANGED <<current_state, connection_handle, evq>>
        PROVE  (Unheard \/ Heard)'
    BY <2>2, <2>3 DEF Unheard, Heard, NoneIn
  <2>4. ASSUME UNCHANGED <<current_state, connection_handle>>, NEW e \in Events, Queue(e),
               e.id \notin {"opened", "scan_report"}
        PROVE  (Unheard \/ Heard)'
    BY <2>2, <2>4, QueueAnnounced
  <2>5. ~scanning
    BY <2>2 DEF Held
  <2>6. CASE Environment
    <3>1. UNCHANGED <<current_state, connection_handle>>
      BY <2>6, <1>2 DEF Environment, Buttoned, Interrupts, appVars, DeviceReported, LinkDrops,
         PeerAnswers, ProcedureCompletes, PeerNotifies, PeerRequestsBonding,
         PasskeyCompared, PairingCompletes, PairingFails, Pairs
    <3>2. ~LinkDrops /\ \A d \in Devices : ~DeviceReported(d)
      BY <2>5 DEF LinkDrops, DeviceReported
    <3>3. CASE PeerAnswers
      BY <2>3, <2>4, <3>1, <3>3, EventTypes DEF PeerAnswers, PeerFinds, PeerConfigures,
         PeerReads, PeerRefuses, Event
    <3>4. CASE ProcedureCompletes
      <4>1. PICK res \in Results : Queue(Event("completed", res))
        BY <3>4 DEF ProcedureCompletes, TypeOK, Results
      <4>2. QED
        BY <2>4, <3>1, <4>1, EventTypes DEF Event
    <3>5. CASE PeerNotifies
      BY <2>4, <3>1, <3>5, EventTypes DEF PeerNotifies, Event
    <3>6. CASE PeerRequestsBonding \/ PasskeyCompared \/ PairingCompletes \/ PairingFails
      BY <2>4, <3>1, <3>6, EventTypes DEF PeerRequestsBonding, PasskeyCompared,
         PairingCompletes, PairingFails, Pairs, Event, PlainIds
    <3>7. CASE UNCHANGED <<appVars, stackVars, undisturbed>>
      BY <2>3, <3>7 DEF appVars, stackVars
    <3>8. QED
      BY <1>2, <2>6, <3>2, <3>3, <3>4, <3>5, <3>6, <3>7 DEF Environment, Buttoned, Interrupts
  <2>7. CASE HandleEvent
    <3>1. ~OnBoot /\ ~OnClosed
      BY <2>2, TakeSession DEF OnBoot, OnClosed
    <3>2. CASE OnScanReport
      BY <2>2, <3>2, TakeAnnounced DEF OnScanReport
    <3>3. CASE OnProcedureCompleted
      <4>1. current_state = "stateOPEN" => UNCHANGED current_state
        BY <3>3 DEF OnProcedureCompleted, DiscoveryOnCompleted, Discovery
      <4>2. QED
        BY <2>2, <3>3, <4>1, TakeAnnounced DEF OnProcedureCompleted
    <3>4. CASE \/ OnFound \/ OnCharacteristicValue \/ OnConfirmBonding
               \/ OnConfirmPasskey \/ OnBonded \/ OnBondingFailed
      BY <2>2, <3>4, TakeAnnounced DEF OnFound, OnCharacteristicValue, OnConfirmBonding,
         OnConfirmPasskey, OnBonded, OnBondingFailed
    <3>5. QED
      BY <2>2, <2>7, <3>1, <3>2, <3>3, <3>4, OpenedAnnounced DEF HandleEvent
  <2>8. CASE OnExternalSignal \/ UNCHANGED vars
    BY <2>3, <2>8 DEF OnExternalSignal, vars, appVars, stackVars
  <2>9. QED
    BY <2>6, <2>7, <2>8 DEF Next
<1>3. QED
  BY <1>1, <1>2

LEMMA AnnouncedInit == Init => Announced
  BY DEF Init, Announced

\* Every step of the board takes it from one phase of a session to the next.
LEMMA SessionInvariant == SlowLoss => (Spec => [](Session /\ Announced))
<1> SUFFICES ASSUME SlowLoss PROVE Spec => [](Session /\ Announced)
  OBVIOUS
<1>1. TypeOK /\ Session /\ [Next]_vars => Session'
  BY SessionStep
<1>2. TypeOK /\ Session /\ Announced /\ [Next]_vars => Announced'
  BY AnnouncedStep
<1>3. QED
  BY <1>1, <1>2, SessionInit, AnnouncedInit, TypeCorrect, PTL DEF Spec

\* When links are lost slower than scan reports are handled, the discovery only ever
\* waits for nothing when an attribute handle is missing, whatever the user and the
\* peer do: its states advance on a refused command, but the handle the commands go
\* to is the connection's (discovery_state_machine(), ble.c of the scan report).
THEOREM StallsOnlyWithoutHandles ==
  SlowLoss => (Spec => []DiscoveryStallsOnlyWithoutHandles)
<1> SUFFICES ASSUME SlowLoss PROVE Spec => []DiscoveryStallsOnlyWithoutHandles
  OBVIOUS
<1>1. Moving /\ Announced => DiscoveryStallsOnlyWithoutHandles
  <2> SUFFICES ASSUME Moving, Announced, current_state \in Waiting, saved = Attributes
               PROVE  WakeupComes
    BY DEF DiscoveryStallsOnlyWithoutHandles
  <2>1. current_state # "stateOPEN"
    BY DEF Waiting
  <2>2. CASE link = "up"
    BY <2>1, <2>2 DEF Announced, Unheard, Heard, Moving, HandledMoves
  <2>3. CASE link # "up"
    BY <2>1, <2>3 DEF Moving, Attached, WakeupComes
  <2>4. QED
    BY <2>2, <2>3
<1>2. QED
  BY <1>1, MovingInvariant, SessionInvariant, PTL

-----------------------------------------------------------------------------
(* The discovery of an undisturbed session, state by state.                *)

Searching == DOMAIN Discovery

\* The attribute each state waits for, and those it has been through.
Asked == [stateDISCOVER_KEYPAD_SERVICES        |-> "keypad_service",
          stateDISCOVER_LED_SERVICES           |-> "LED_service",
          stateDISCOVER_KEYPAD_CHARACTERISTICS |-> "keypad_char",
          stateDISCOVER_LED_CHARACTERISTICS    |-> "LED_char"]
Known == [stateDISCOVER_KEYPAD_SERVICES        |-> {},
          stateDISCOVER_LED_SERVICES           |-> {"keypad_service"},
          stateDISCOVER_KEYPAD_CHARACTERISTICS |-> {"keypad_service", "LED_service"},
          stateDISCOVER_LED_CHARACTERISTICS    |->
            {"keypad_service", "LED_service", "keypad_char"}]

\* The handle is stored, or will be once n events have been handled.
Stored(a, n) == a \in saved \/ \E j \in 1..n : evq[j] = Event("found", a)

\* No procedure completes before its attribute is found, and one at a time.
Completing(s) ==
  \A i \in 1..Len(evq) : evq[i].id = "completed" =>
    /\ procedure = "none"
    /\ \A j \in 1..Len(evq) : evq[j].id = "completed" => j = i
    /\ evq[i].arg = "ok" => Stored(Asked[s], i - 1)

Fresh == /\ procedure = "none" /\ ~subscribed
         /\ NoneIn({"completed", "found", "value"})

Finding(s) ==
  /\ Known[s] \subseteq saved
  /\ procedure \in {"none", Asked[s]} /\ ~subscribed
  /\ NoneIn({"value"})
  /\ answer # "none" => answer = "ok" /\ Stored(Asked[s], Len(evq))
  /\ Completing(s)

\* Without the subscription nothing comes that only a subscriber gets.
Unsubscribed ==
  \A i \in 1..Len(evq) : evq[i].id # "value" /\ evq[i] # Event("completed", "ok")

Subscribing ==
  /\ saved = Attributes
  /\ procedure \in {"none", "subscribe", "read"}
  /\ procedure = "subscribe" => NoneIn({"completed"}) /\ (answer = "ok" => subscribed)
  /\ procedure = "read" => subscribed
  /\ link = "up" /\ ~subscribed => Unsubscribed

Through ==
  /\ saved = Attributes /\ button_notification_flag
  /\ procedure \in {"none", "read"}
  /\ link = "up" => subscribed

\* While it waits on a connection that is up, a procedure runs or has completed.
Moved == current_state \in Waiting /\ link = "up"
           => procedure # "none" \/ Queued("completed")

Phase ==
  /\ current_state = "stateOPEN" => Fresh
  /\ current_state \in Searching => Finding(current_state)
  /\ current_state = "stateKEYPADNOTIF" => Subscribing
  /\ current_state = "stateWAIT" => Through
  /\ Moved

\* What is proved of every session that nothing disturbed.
Phased == undisturbed => Phase

LEMMA SearchingStates ==
  /\ Searching = {"stateDISCOVER_KEYPAD_SERVICES", "stateDISCOVER_LED_SERVICES",
                  "stateDISCOVER_KEYPAD_CHARACTERISTICS",
                  "stateDISCOVER_LED_CHARACTERISTICS"}
  /\ Searching \subseteq Waiting
  /\ \A s \in Searching : s \notin {"stateOPEN", "stateKEYPADNOTIF", "stateWAIT"}
  /\ \A s \in Searching : Asked[s] \in Attributes
  BY DEF Searching, Discovery, Waiting, Asked, Attributes

LEMMA TakeStored ==
  ASSUME TypeOK, NEW id, Take(id), NEW a, NEW n \in 0..Len(evq), Stored(a, n),
         saved' = saved \cup (IF id = "found" THEN {Head(evq).arg} ELSE {})
  PROVE  n = 0 \/ Stored(a, n - 1)'
<1>1. /\ Len(evq) \in Nat \ {0} /\ evq[1].id = id /\ evq[1] = Head(evq)
      /\ Len(evq') = Len(evq) - 1
      /\ \A i \in 1..Len(evq') : evq'[i] = evq[i + 1]
  BY TakeShift
<1>2. SUFFICES ASSUME n # 0, a \notin saved
               PROVE  Stored(a, n - 1)'
  BY DEF Stored
<1>3. PICK j \in 1..n : evq[j] = Event("found", a)
  BY <1>2 DEF Stored
<1>4. CASE j = 1
  BY <1>1, <1>3, <1>4 DEF Event, Stored
<1>5. CASE j # 1
  <2>1. j - 1 \in 1..(n - 1) /\ j - 1 \in 1..Len(evq')
    BY <1>1, <1>5
  <2>2. evq'[j - 1] = evq[j]
    BY <1>1, <2>1
  <2>3. QED
    BY <1>3, <2>1, <2>2 DEF Stored, Event
<1>6. QED
  BY <1>4, <1>5

LEMMA QueueStored ==
  ASSUME TypeOK, NEW e \in Events, Queue(e), NEW a, NEW n \in 0..Len(evq),
         Stored(a, n), UNCHANGED saved
  PROVE  Stored(a, n)' /\ Stored(a, Len(evq))'
<1>1. /\ Len(evq) \in Nat
      /\ Len(evq') = Len(evq) + 1
      /\ \A i \in 1..Len(evq) : evq'[i] = evq[i]
  BY QueueGrows
<1>2. CASE a \in saved
  BY <1>2 DEF Stored
<1>3. CASE a \notin saved
  <2>1. PICK j \in 1..n : evq[j] = Event("found", a)
    BY <1>3 DEF Stored
  <2>2. j \in 1..Len(evq') /\ evq'[j] = evq[j]
    BY <1>1, <2>1
  <2>3. QED
    BY <2>1, <2>2 DEF Stored, Event
<1>4. QED
  BY <1>2, <1>3

\* An event that is not a completion leaves the search where it is.
LEMMA TakeFinding ==
  ASSUME TypeOK, NEW s \in Searching, Finding(s), NEW id, Take(id), id # "completed",
         saved' = saved \cup (IF id = "found" THEN {Head(evq).arg} ELSE {}),
         UNCHANGED <<procedure, answer, subscribed>>
  PROVE  Finding(s)'
<1>1. /\ Len(evq) \in Nat \ {0} /\ evq[1].id = id
      /\ Len(evq') = Len(evq) - 1
      /\ \A i \in 1..Len(evq') : evq'[i] = evq[i + 1]
  BY TakeShift
<1>2. NoneIn({"value"})'
  BY TakeIn DEF Finding
<1>3. answer' # "none" => answer' = "ok" /\ Stored(Asked[s], Len(evq))'
  <2> SUFFICES ASSUME answer # "none"
               PROVE  answer' = "ok" /\ Stored(Asked[s], Len(evq))'
    OBVIOUS
  <2>1. answer = "ok" /\ Stored(Asked[s], Len(evq))
    BY DEF Finding
  <2>2. PICK n \in 0..Len(evq) : n = Len(evq) /\ n # 0
    BY <1>1
  <2>3. Stored(Asked[s], n - 1)' /\ Len(evq') = n - 1
    BY <1>1, <2>1, <2>2, TakeStored
  <2>4. QED
    BY <1>1, <2>1, <2>3 DEF Stored
<1>4. Completing(s)'
  <2>1. SUFFICES ASSUME NEW i \in 1..Len(evq'), evq'[i].id = "completed"
                 PROVE  /\ procedure' = "none"
                        /\ \A j \in 1..Len(evq') : evq'[j].id = "completed" => j = i
                        /\ evq'[i].arg = "ok" => Stored(Asked[s], i - 1)'
    BY DEF Completing, Stored
  <2>2. i + 1 \in 1..Len(evq) /\ evq[i + 1] = evq'[i]
    BY <1>1
  <2>3. /\ procedure = "none"
        /\ \A j \in 1..Len(evq) : evq[j].id = "completed" => j = i + 1
        /\ evq[i + 1].arg = "ok" => Stored(Asked[s], (i + 1) - 1)
    BY <2>1, <2>2 DEF Finding, Completing
  <2>4. ASSUME NEW j \in 1..Len(evq'), evq'[j].id = "completed"
        PROVE  j = i
    <3>1. j + 1 \in 1..Len(evq) /\ evq[j + 1] = evq'[j]
      BY <1>1
    <3>2. j + 1 = i + 1
      BY <2>3, <2>4, <3>1
    <3>3. QED
      BY <3>2
  <2>5. ASSUME evq'[i].arg = "ok"
        PROVE  Stored(Asked[s], i - 1)'
    <3>1. Stored(Asked[s], i)
      BY <2>2, <2>3, <2>5
    <3>2. i \in 0..Len(evq) /\ i # 0
      BY <1>1
    <3>3. QED
      BY <3>1, <3>2, TakeStored DEF Stored
  <2>6. QED
    BY <2>3, <2>4, <2>5
<1>5. QED
  BY <1>2, <1>3, <1>4 DEF Finding

\* So does an event the stack queues, when it is not a completion or a value.
LEMMA QueueFinding ==
  ASSUME TypeOK, NEW s \in Searching, Finding(s),
         NEW e \in Events, Queue(e), e.id \notin {"completed", "value"},
         UNCHANGED <<saved, subscribed>>,
         procedure' \in {"none", procedure},
         \/ answer' \in {"none", answer}
         \/ answer' = "ok" /\ e = Event("found", Asked[s])
  PROVE  Finding(s)'
<1>1. /\ Len(evq) \in Nat
      /\ Len(evq') = Len(evq) + 1
      /\ \A i \in 1..Len(evq) : evq'[i] = evq[i]
      /\ evq'[Len(evq) + 1] = e
  BY QueueGrows
<1>2. NoneIn({"value"})'
  BY QueueIn DEF Finding
<1>3. answer' # "none" => answer' = "ok" /\ Stored(Asked[s], Len(evq))'
  <2>1. CASE answer' = "ok" /\ e = Event("found", Asked[s])
    <3>1. Len(evq') \in 1..Len(evq') /\ evq'[Len(evq')] = Event("found", Asked[s])
      BY <1>1, <2>1
    <3>2. QED
      BY <2>1, <3>1 DEF Stored, Event
  <2>2. CASE answer' = answer /\ answer # "none"
    <3>1. answer = "ok" /\ Stored(Asked[s], Len(evq)) /\ Len(evq) \in 0..Len(evq)
      BY <1>1, <2>2 DEF Finding
    <3>2. Stored(Asked[s], Len(evq))'
      BY <3>1, QueueStored DEF Stored
    <3>3. QED
      BY <2>2, <3>1, <3>2
  <2>3. QED
    BY <2>1, <2>2
<1>4. Completing(s)'
  <2>1. SUFFICES ASSUME NEW i \in 1..Len(evq'), evq'[i].id = "completed"
                 PROVE  /\ procedure' = "none"
                        /\ \A j \in 1..Len(evq') : evq'[j].id = "completed" => j = i
                        /\ evq'[i].arg = "ok" => Stored(Asked[s], i - 1)'
    BY DEF Completing, Stored
  <2>2. \A j \in 1..Len(evq') :
          evq'[j].id = "completed" => j \in 1..Len(evq) /\ evq[j].id = "completed"
    BY <1>1
  <2>3. /\ procedure = "none"
        /\ \A j \in 1..Len(evq) : evq[j].id = "completed" => j = i
        /\ evq[i].arg = "ok" => Stored(Asked[s], i - 1)
    BY <2>1, <2>2 DEF Finding, Completing
  <2>4. ASSUME evq'[i].arg = "ok"
        PROVE  Stored(Asked[s], i - 1)'
    <3>1. Stored(Asked[s], i - 1) /\ i - 1 \in 0..Len(evq)
      BY <1>1, <2>1, <2>2, <2>3, <2>4
    <3>2. QED
      BY <3>1, QueueStored DEF Stored
  <2>5. QED
    BY <2>2, <2>3, <2>4
<1>5. QED
  BY <1>2, <1>3, <1>4 DEF Finding

\* A procedure of the search completes: what it was for has been found if it is ok.
LEMMA CompleteFinding ==
  ASSUME TypeOK, NEW s \in Searching, Finding(s), procedure # "none",
         NEW r \in Results, Queue(Event("completed", r)),
         r = "ok" => answer # "none",
         UNCHANGED <<saved, subscribed>>, procedure' = "none", answer' = "none"
  PROVE  Finding(s)'
<1> DEFINE e == Event("completed", r)
<1>0. e \in Events /\ e.id = "completed" /\ e.arg = r
  BY EventTypes DEF Event
<1>1. /\ Len(evq) \in Nat
      /\ Len(evq') = Len(evq) + 1
      /\ \A i \in 1..Len(evq) : evq'[i] = evq[i]
      /\ evq'[Len(evq) + 1] = e
  BY <1>0, QueueGrows
<1>2. NoneIn({"value"})'
  BY <1>0, QueueIn DEF Finding
<1>3. \A i \in 1..Len(evq) : evq[i].id # "completed"
  BY DEF Finding, Completing
<1>4. Completing(s)'
  <2>1. SUFFICES ASSUME NEW i \in 1..Len(evq'), evq'[i].id = "completed"
                 PROVE  /\ procedure' = "none"
                        /\ \A j \in 1..Len(evq') : evq'[j].id = "completed" => j = i
                        /\ evq'[i].arg = "ok" => Stored(Asked[s], i - 1)'
    BY DEF Completing, Stored
  <2>2. \A j \in 1..Len(evq') : evq'[j].id = "completed" => j = Len(evq) + 1
    BY <1>1, <1>3
  <2>3. i = Len(evq) + 1 /\ evq'[i] = e
    BY <1>1, <2>1, <2>2
  <2>4. ASSUME evq'[i].arg = "ok"
        PROVE  Stored(Asked[s], i - 1)'
    <3>1. Stored(Asked[s], i - 1) /\ i - 1 = Len(evq)
      BY <1>0, <1>1, <2>3, <2>4 DEF Finding
    <3>2. i - 1 \in 0..Len(evq)
      BY <1>1, <3>1
    <3>3. QED
      BY <1>0, <3>1, <3>2, QueueStored DEF Stored
  <2>5. QED
    BY <2>2, <2>3, <2>4
<1>5. QED
  BY <1>2, <1>4 DEF Finding

LEMMA TakeUnsubscribed ==
  ASSUME TypeOK, NEW id, Take(id), Unsubscribed
  PROVE  Unsubscribed' /\ id # "value" /\ (id = "completed" => Head(evq).arg # "ok")
<1>1. /\ Len(evq) \in Nat \ {0} /\ evq[1].id = id /\ evq[1] = Head(evq) /\ evq[1] \in Events
      /\ Len(evq') = Len(evq) - 1
      /\ \A i \in 1..Len(evq') : evq'[i] = evq[i + 1]
  BY TakeShift
<1>2. 1 \in 1..Len(evq) /\ \A i \in 1..Len(evq') : i + 1 \in 1..Len(evq)
  BY <1>1
<1>3. evq[1] = Event(evq[1].id, evq[1].arg)
  BY <1>1 DEF Events, Event
<1>4. Unsubscribed'
  BY <1>1, <1>2 DEF Unsubscribed, Event
<1>5. id # "value" /\ (id = "completed" => Head(evq).arg # "ok")
  BY <1>1, <1>2, <1>3 DEF Unsubscribed
<1>6. QED
  BY <1>4, <1>5

LEMMA QueueUnsubscribed ==
  ASSUME TypeOK, NEW e \in Events, Queue(e), Unsubscribed,
         e.id # "value", e # Event("completed", "ok")
  PROVE  Unsubscribed'
<1>1. /\ Len(evq) \in Nat
      /\ Len(evq') = Len(evq) + 1
      /\ \A i \in 1..Len(evq) : evq'[i] = evq[i]
      /\ evq'[Len(evq) + 1] = e
  BY QueueGrows
<1>2. \A i \in 1..Len(evq') : i \in 1..Len(evq) \/ i = Len(evq) + 1
  BY <1>1
<1>3. QED
  BY <1>1, <1>2 DEF Unsubscribed, Event

\* A completion the board waits for, or waits with, is not lost to another event.
LEMMA TakeMoved ==
  ASSUME TypeOK, Moved, NEW id, Take(id), id # "completed",
         current_state' \in Waiting => current_state' = current_state,
         link' = "up" => link = "up",
         procedure # "none" => procedure' # "none"
  PROVE  Moved'
  BY StaysQueued DEF Moved

\* Events that neither the discovery nor the subscription is about.
LEMMA TakePhase ==
  ASSUME TypeOK, Phase, NEW id, Take(id), id \notin {"completed", "found", "value"},
         UNCHANGED <<current_state, procedure, answer, subscribed, saved>>,
         current_state = "stateWAIT" => UNCHANGED button_notification_flag,
         link' = "up" => link = "up"
  PROVE  Phase'
<1>1. Moved'
  BY TakeMoved DEF Phase
<1>2. current_state = "stateOPEN" => Fresh'
  BY TakeIn DEF Phase, Fresh
<1>3. current_state \in Searching => Finding(current_state)'
  <2> SUFFICES ASSUME current_state \in Searching
               PROVE  Finding(current_state)'
    OBVIOUS
  <2>1. PICK s \in Searching : s = current_state
    OBVIOUS
  <2>2. saved' = saved \cup (IF id = "found" THEN {Head(evq).arg} ELSE {})
    OBVIOUS
  <2>3. Finding(s)
    BY <2>1 DEF Phase
  <2>4. Finding(s)'
    BY <2>2, <2>3, TakeFinding
  <2>5. QED
    BY <2>1, <2>4 DEF Finding, Completing
<1>4. current_state = "stateKEYPADNOTIF" => Subscribing'
  BY TakeIn, TakeUnsubscribed DEF Phase, Subscribing
<1>5. current_state = "stateWAIT" => Through'
  BY DEF Phase, Through
<1>6. QED
  BY <1>1, <1>2, <1>3, <1>4, <1>5 DEF Phase

\* The machine looks at the opened event only in stateOPEN.
LEMMA OpenedPhase ==
  ASSUME TypeOK, Session, Phase, OnOpened
  PROVE  Phase'
<1>1. CASE procedure' = procedure
  <2>1. current_state' = current_state
    BY <1>1 DEF OnOpened, DiscoveryOnOpened
  <2>2. QED
    BY <1>1, <2>1, TakePhase DEF OnOpened
<1>2. CASE procedure' # procedure
  <2> DEFINE s == "stateDISCOVER_KEYPAD_SERVICES"
  <2>1. /\ current_state = "stateOPEN" /\ current_state' = s
        /\ procedure' = "keypad_service"
        /\ Take("opened") /\ UNCHANGED <<saved, answer, subscribed, link>>
    BY <1>2 DEF OnOpened, DiscoveryOnOpened, Issue
  <2>2. Fresh /\ answer = "none"
    BY <2>1 DEF Phase, Fresh, Session
  <2>3. NoneIn({"completed", "found", "value"})'
    BY <2>1, <2>2, TakeIn DEF Fresh
  <2>4. Finding(s)'
    BY <2>1, <2>2, <2>3 DEF Finding, Completing, Known, Asked, NoneIn, Fresh
  <2>5. Finding(current_state)'
    BY <2>1, <2>4 DEF Finding, Completing
  <2>6. current_state' \notin {"stateOPEN", "stateKEYPADNOTIF", "stateWAIT"}
    BY <2>1
  <2>7. QED
    BY <2>1, <2>5, <2>6 DEF Phase, Moved
<1>3. QED
  BY <1>1, <1>2

\* Storing a handle.
LEMMA FoundPhase ==
  ASSUME TypeOK, Phase, OnFound
  PROVE  Phase'
<1>1. /\ Take("found") /\ saved' = saved \cup {Head(evq).arg}
      /\ UNCHANGED <<current_state, procedure, answer, subscribed, link,
                     button_notification_flag>>
  BY DEF OnFound
<1>2. Moved'
  BY <1>1, TakeMoved DEF Phase
<1>3. current_state # "stateOPEN"
  BY <1>1, TakeIn DEF Phase, Fresh
<1>4. ASSUME current_state \in Searching
      PROVE  Finding(current_state)'
  <2>1. PICK s \in Searching : s = current_state
    BY <1>4
  <2>2. Finding(s)'
    BY <1>1, <2>1, TakeFinding DEF Phase
  <2>3. QED
    BY <1>1, <2>1, <2>2 DEF Finding, Completing
<1>5. saved = Attributes => saved' = Attributes
  <2>1. Head(evq).arg \in Attributes
    BY <1>1, TakeShift, EventArgs
  <2>2. QED
    BY <1>1, <2>1
<1>6. current_state = "stateKEYPADNOTIF" => Subscribing'
  BY <1>1, <1>5, TakeIn, TakeUnsubscribed DEF Phase, Subscribing
<1>7. current_state = "stateWAIT" => Through'
  BY <1>1, <1>5 DEF Phase, Through
<1>8. QED
  BY <1>1, <1>2, <1>3, <1>4, <1>6, <1>7 DEF Phase

\* A value makes the board read, which disturbs neither the subscription nor what follows.
LEMMA ValuePhase ==
  ASSUME TypeOK, Phase, OnCharacteristicValue
  PROVE  Phase'
<1>1. /\ Take("value")
      /\ UNCHANGED <<current_state, answer, saved, subscribed, link,
                     button_notification_flag>>
      /\ Issue("read", connection_handle) \/ UNCHANGED procedure
  BY DEF OnCharacteristicValue
<1>2. /\ procedure' \in {procedure, "read"}
      /\ procedure # "none" => procedure' = procedure
      /\ procedure' # procedure => link = "up"
  BY <1>1 DEF Issue, StackIdle
<1>3. Moved'
  BY <1>1, <1>2, TakeMoved DEF Phase
<1>4. current_state # "stateOPEN"
  BY <1>1, TakeIn DEF Phase, Fresh
<1>5. current_state \notin Searching
  BY <1>1, TakeIn DEF Phase, Finding
<1>6. ASSUME current_state = "stateKEYPADNOTIF"
      PROVE  Subscribing'
  <2>1. Subscribing
    BY <1>6 DEF Phase
  <2>2. link = "up" => subscribed
    BY <1>1, <2>1, TakeUnsubscribed DEF Subscribing
  <2>3. procedure' = "subscribe" => procedure = "subscribe"
    BY <1>2
  <2>4. QED
    BY <1>1, <1>2, <2>1, <2>2, <2>3, TakeIn DEF Subscribing
<1>7. current_state = "stateWAIT" => Through'
  BY <1>1, <1>2 DEF Phase, Through
<1>8. QED
  BY <1>1, <1>3, <1>4, <1>5, <1>6, <1>7 DEF Phase

\* A procedure has completed without an error: its handle is stored and the
\* machine asks for the next one, subscribes, or is through.
LEMMA CompletedPhase ==
  ASSUME TypeOK, Session, Announced, Phase, OnProcedureCompleted, Head(evq).arg = "ok"
  PROVE  Phase'
<1>1. /\ Take("completed") /\ DiscoveryOnCompleted
      /\ UNCHANGED <<answer, saved, subscribed, link>>
  BY DEF OnProcedureCompleted
<1>2. /\ Len(evq) \in Nat \ {0} /\ evq[1].id = "completed" /\ evq[1].arg = "ok"
      /\ Len(evq') = Len(evq) - 1
      /\ \A i \in 1..Len(evq') : evq'[i] = evq[i + 1]
  BY <1>1, TakeShift
<1>3. current_state # "stateOPEN"
  BY <1>1, TakeIn DEF Phase, Fresh
<1>4. CASE current_state \in Searching
  <2>1. PICK s \in Searching : s = current_state
    BY <1>4
  <2>2. Finding(s) /\ 1 \in 1..Len(evq)
    BY <1>2, <2>1 DEF Phase
  <2>3. /\ procedure = "none"
        /\ \A j \in 1..Len(evq) : evq[j].id = "completed" => j = 1
        /\ Stored(Asked[s], 1 - 1)
    BY <1>2, <2>2 DEF Finding, Completing
  <2>4. Known[s] \cup {Asked[s]} \subseteq saved /\ answer = "none"
    BY <2>2, <2>3 DEF Stored, Finding, Session
  <2>5. NoneIn({"completed", "value"})'
    <3>1. NoneIn({"completed"})'
      <4>1. \A i \in 1..Len(evq') : i + 1 \in 1..Len(evq) /\ i + 1 # 1
        BY <1>2
      <4>2. QED
        BY <1>2, <2>3, <4>1 DEF NoneIn
    <3>2. NoneIn({"value"})'
      BY <1>1, <2>2, TakeIn DEF Finding
    <3>3. QED
      BY <3>1, <3>2 DEF NoneIn
  <2>6. /\ current_state' = Discovery[s].next
        /\ Issue(Discovery[s].asks, connection_handle)
    BY <1>1, <2>1, SearchingStates DEF DiscoveryOnCompleted, Searching
  <2>7. /\ procedure' \in {"none", Discovery[s].asks}
        /\ procedure' = "none" /\ Needs(Discovery[s].asks) \subseteq saved
             => link # "up" \/ ~connection_handle
    <3>1. Discovery[s].asks \in Procedures
      BY DEF Searching, Discovery, Procedures, Attributes
    <3>2. QED
      BY <2>3, <2>6, <3>1, IssueMoves, IssueSession
  <2>8. Needs(Discovery[s].asks) \subseteq saved
    <3>1. CASE s = "stateDISCOVER_KEYPAD_SERVICES"
      BY <3>1 DEF Discovery, Needs
    <3>2. CASE s = "stateDISCOVER_LED_SERVICES"
      BY <2>4, <3>2 DEF Discovery, Needs, Known
    <3>3. CASE s = "stateDISCOVER_KEYPAD_CHARACTERISTICS"
      BY <2>4, <3>3 DEF Discovery, Needs, Known, Asked
    <3>4. CASE s = "stateDISCOVER_LED_CHARACTERISTICS"
      BY <2>4, <3>4 DEF Discovery, Needs, Known, Asked
    <3>5. QED
      BY <3>1, <3>2, <3>3, <3>4, SearchingStates
  <2>9. Moved'
    <3>1. link = "up" => connection_handle
      BY <1>3 DEF Announced, Unheard, Heard
    <3>2. QED
      BY <1>1, <2>7, <2>8, <3>1 DEF Moved
  <2>10. CASE s = "stateDISCOVER_LED_CHARACTERISTICS"
    <3>1. current_state' = "stateKEYPADNOTIF" /\ procedure' \in {"none", "subscribe"}
      BY <2>6, <2>7, <2>10 DEF Discovery
    <3>2. saved = Attributes
      BY <2>4, <2>10 DEF Known, Asked, Attributes, TypeOK
    <3>3. Subscribing'
      BY <1>1, <2>4, <2>5, <3>1, <3>2 DEF Subscribing, Unsubscribed, NoneIn, Event
    <3>4. current_state' \notin Searching /\ current_state' \notin {"stateOPEN", "stateWAIT"}
      BY <3>1, SearchingStates
    <3>5. QED
      BY <2>9, <3>3, <3>4 DEF Phase
  <2>11. CASE s # "stateDISCOVER_LED_CHARACTERISTICS"
    <3>1. PICK n \in Searching :
            /\ n = Discovery[s].next /\ Asked[n] = Discovery[s].asks
            /\ Known[n] = Known[s] \cup {Asked[s]}
      <4>1. CASE s = "stateDISCOVER_KEYPAD_SERVICES"
        BY <4>1 DEF Searching, Discovery, Asked, Known
      <4>2. CASE s = "stateDISCOVER_LED_SERVICES"
        BY <4>2 DEF Searching, Discovery, Asked, Known
      <4>3. CASE s = "stateDISCOVER_KEYPAD_CHARACTERISTICS"
        BY <4>3 DEF Searching, Discovery, Asked, Known
      <4>4. QED
        BY <2>11, <4>1, <4>2, <4>3, SearchingStates
    <3>2. current_state' = n
      BY <2>6, <3>1
    <3>3. Finding(n)'
      BY <1>1, <2>2, <2>4, <2>5, <2>7, <3>1 DEF Finding, Completing, NoneIn
    <3>4. Finding(current_state)'
      BY <3>2, <3>3 DEF Finding, Completing
    <3>5. QED
      BY <2>9, <3>2, <3>4, SearchingStates DEF Phase
  <2>12. QED
    BY <2>10, <2>11
<1>5. CASE current_state = "stateKEYPADNOTIF"
  <2>1. Subscribing
    BY <1>5 DEF Phase
  <2>2. /\ button_notification_flag' = TRUE /\ current_state' = "stateWAIT"
        /\ UNCHANGED procedure
    BY <1>1, <1>5 DEF DiscoveryOnCompleted, Discovery
  <2>3. procedure # "subscribe"
    BY <1>1, <2>1, TakeIn DEF Subscribing
  <2>4. link = "up" => subscribed
    BY <1>1, <2>1, TakeUnsubscribed DEF Subscribing
  <2>5. Through'
    BY <1>1, <2>1, <2>2, <2>3, <2>4 DEF Subscribing, Through
  <2>6. QED
    BY <2>2, <2>5, SearchingStates DEF Phase, Moved, Waiting
<1>6. CASE current_state = "stateWAIT"
  <2>1. UNCHANGED <<current_state, procedure, button_notification_flag>>
    BY <1>1, <1>6 DEF DiscoveryOnCompleted, Discovery
  <2>2. Through'
    BY <1>1, <1>6, <2>1 DEF Phase, Through
  <2>3. QED
    BY <1>6, <2>1, <2>2, SearchingStates DEF Phase, Moved, Waiting
<1>7. QED
  BY <1>3, <1>4, <1>5, <1>6, SearchingStates DEF TypeOK, States, Waiting

\* An event the stack queues that is about neither the discovery nor the subscription.
LEMMA QueuePhase ==
  ASSUME TypeOK, Phase, NEW e \in Events, Queue(e),
         e.id \notin {"completed", "found", "value"},
         UNCHANGED <<current_state, procedure, answer, subscribed, saved,
                     button_notification_flag>>,
         link' = "up" => link = "up"
  PROVE  Phase'
<1>1. Moved'
  BY GetsQueued DEF Phase, Moved
<1>2. current_state = "stateOPEN" => Fresh'
  BY QueueIn DEF Phase, Fresh
<1>3. current_state \in Searching => Finding(current_state)'
  <2> SUFFICES ASSUME current_state \in Searching
               PROVE  Finding(current_state)'
    OBVIOUS
  <2>1. PICK s \in Searching : s = current_state
    OBVIOUS
  <2>2. Finding(s)'
    BY <2>1, QueueFinding DEF Phase
  <2>3. QED
    BY <2>1, <2>2 DEF Finding, Completing
<1>4. current_state = "stateKEYPADNOTIF" => Subscribing'
  BY QueueIn, QueueUnsubscribed DEF Phase, Subscribing, Event
<1>5. current_state = "stateWAIT" => Through'
  BY DEF Phase, Through
<1>6. QED
  BY <1>1, <1>2, <1>3, <1>4, <1>5 DEF Phase

\* A connection begins with nothing asked for and nothing heard.
LEMMA ConnectedPhase ==
  ASSUME TypeOK, Session, ConnectionOpens
  PROVE  Phase'
<1> DEFINE e == Event("opened", NoDevice)
<1>1. e \in Events /\ e.id = "opened"
  BY EventTypes DEF PlainIds, Event
<1>2. Free /\ procedure = "none" /\ ~subscribed
  BY DEF ConnectionOpens, Session, Asleep, Held, Parted
<1>3. NoneIn({"completed", "found", "value"})
  BY <1>2 DEF Free, AllIn, NoneIn
<1>4. NoneIn({"completed", "found", "value"})'
  BY <1>1, <1>3, QueueIn DEF ConnectionOpens
<1>5. current_state' = "stateOPEN"
  BY <1>2 DEF ConnectionOpens, appVars, Free
<1>6. QED
  BY <1>2, <1>4, <1>5, SearchingStates DEF ConnectionOpens, Phase, Fresh, Moved, Waiting

\* The end of a connection takes its procedure and its subscription along.
LEMMA DroppedPhase ==
  ASSUME TypeOK, Phase, LinkDrops
  PROVE  Phase'
<1> DEFINE e == Event("closed", NoDevice)
<1>1. e \in Events /\ e.id = "closed" /\ Queue(e)
  BY EventTypes DEF LinkDrops, PlainIds, Event
<1>2. /\ UNCHANGED <<current_state, saved, button_notification_flag>>
      /\ procedure' = "none" /\ answer' = "none" /\ subscribed' = FALSE /\ link' = "none"
  BY DEF LinkDrops, appVars
<1>3. current_state = "stateOPEN" => Fresh'
  BY <1>1, <1>2, QueueIn DEF Phase, Fresh
<1>4. ASSUME current_state \in Searching
      PROVE  Finding(current_state)'
  <2>1. PICK s \in Searching : s = current_state
    BY <1>4
  <2>2. Finding(s) /\ subscribed' = subscribed
    BY <1>2, <2>1 DEF Phase, Finding, TypeOK
  <2>3. Finding(s)'
    BY <1>1, <1>2, <2>2, QueueFinding
  <2>4. QED
    BY <1>2, <2>1, <2>3 DEF Finding, Completing
<1>5. current_state = "stateKEYPADNOTIF" => Subscribing'
  BY <1>2 DEF Phase, Subscribing
<1>6. current_state = "stateWAIT" => Through'
  BY <1>2 DEF Phase, Through
<1>7. QED
  BY <1>2, <1>3, <1>4, <1>5, <1>6 DEF Phase, Moved

\* The keypad board answers the procedure its state asked for.
LEMMA AnsweredPhase ==
  ASSUME TypeOK, Phase, PeerAnswers
  PROVE  Phase'
<1>1. /\ UNCHANGED <<current_state, saved, button_notification_flag, procedure, link>>
      /\ procedure # "none" /\ answer = "none" /\ link = "up"
      /\ PeerFinds \/ PeerConfigures \/ PeerReads \/ PeerRefuses
  BY DEF PeerAnswers, appVars
<1>2. Moved'
  BY <1>1 DEF Moved
<1>3. current_state # "stateOPEN"
  BY <1>1 DEF Phase, Fresh
<1>4. ASSUME current_state \in Searching
      PROVE  Finding(current_state)'
  <2>1. PICK s \in Searching : s = current_state
    BY <1>4
  <2>2. Finding(s) /\ procedure = Asked[s] /\ procedure \in Attributes
    BY <1>1, <2>1, SearchingStates DEF Phase, Finding
  <2>3. /\ answer' = "ok" /\ Queue(Event("found", Asked[s])) /\ UNCHANGED subscribed
    BY <1>1, <2>2 DEF PeerFinds, PeerConfigures, PeerReads, PeerRefuses, Attributes
  <2>4. Event("found", Asked[s]) \in Events /\ Event("found", Asked[s]).id = "found"
    BY <2>2, EventTypes DEF Event
  <2>5. Finding(s)'
    BY <1>1, <2>2, <2>3, <2>4, QueueFinding
  <2>6. QED
    BY <1>1, <2>1, <2>5 DEF Finding, Completing
<1>5. ASSUME current_state = "stateKEYPADNOTIF"
      PROVE  Subscribing'
  <2>1. Subscribing /\ procedure \in {"subscribe", "read"}
    BY <1>1, <1>5 DEF Phase, Subscribing
  <2>2. CASE procedure = "subscribe"
    <3>1. UNCHANGED evq /\ (answer' = "ok" => subscribed') /\ (subscribed => subscribed')
      <4>1. PeerConfigures \/ PeerRefuses
        BY <1>1, <2>2 DEF PeerFinds, PeerReads, Attributes
      <4>2. CASE PeerConfigures
        BY <2>2, <4>2 DEF PeerConfigures
      <4>3. CASE PeerRefuses
        BY <4>3 DEF PeerRefuses
      <4>4. QED
        BY <4>1, <4>2, <4>3
    <3>2. QED
      BY <1>1, <2>1, <2>2, <3>1 DEF Subscribing, NoneIn, Unsubscribed
  <2>3. CASE procedure = "read"
    <3>1. subscribed' = subscribed /\ subscribed
      BY <1>1, <2>1, <2>3
         DEF PeerFinds, PeerConfigures, PeerReads, PeerRefuses, Attributes, Subscribing
    <3>2. QED
      BY <1>1, <2>1, <2>3, <3>1 DEF Subscribing
  <2>4. QED
    BY <2>1, <2>2, <2>3
<1>6. ASSUME current_state = "stateWAIT"
      PROVE  Through'
  <2>1. Through /\ procedure = "read"
    BY <1>1, <1>6 DEF Phase, Through
  <2>2. subscribed' = subscribed
    BY <1>1, <2>1 DEF PeerFinds, PeerConfigures, PeerReads, PeerRefuses, Attributes
  <2>3. QED
    BY <1>1, <2>1, <2>2 DEF Through
<1>7. QED
  BY <1>1, <1>2, <1>3, <1>4, <1>5, <1>6 DEF Phase

\* A procedure ends: without an error only if it was answered.
LEMMA EndedPhase ==
  ASSUME TypeOK, Session, Phase, ProcedureCompletes
  PROVE  Phase'
<1>1. PICK r \in Results : /\ Queue(Event("completed", r))
                           /\ r = "failed" \/ (r = answer /\ answer # "none")
  BY DEF ProcedureCompletes, TypeOK, Results
<1> DEFINE e == Event("completed", r)
<1>2. e \in Events /\ e.id = "completed" /\ e.arg = r
  BY EventTypes DEF Event
<1>3. /\ UNCHANGED <<current_state, saved, button_notification_flag, subscribed, link>>
      /\ procedure # "none" /\ procedure' = "none" /\ answer' = "none"
  BY DEF ProcedureCompletes, appVars
<1>4. Moved'
  BY <1>1, <1>2, GetsQueued DEF Moved
<1>5. current_state # "stateOPEN"
  BY <1>3 DEF Phase, Fresh
<1>6. ASSUME current_state \in Searching
      PROVE  Finding(current_state)'
  <2>1. PICK s \in Searching : s = current_state
    BY <1>6
  <2>2. Finding(s)
    BY <2>1 DEF Phase
  <2>3. Finding(s)'
    BY <1>1, <1>3, <2>2, CompleteFinding
  <2>4. QED
    BY <1>3, <2>1, <2>3 DEF Finding, Completing
<1>7. ASSUME current_state = "stateKEYPADNOTIF"
      PROVE  Subscribing'
  <2>1. Subscribing /\ procedure \in {"subscribe", "read"}
    BY <1>3, <1>7 DEF Phase, Subscribing
  <2>2. ASSUME ~subscribed, link = "up"
        PROVE  Unsubscribed'
    <3>1. r # "ok"
      BY <1>1, <2>1, <2>2 DEF Subscribing
    <3>2. e # Event("completed", "ok")
      BY <3>1 DEF Event
    <3>3. QED
      BY <1>1, <1>2, <2>1, <2>2, <3>2, QueueUnsubscribed DEF Subscribing
  <2>3. QED
    BY <1>3, <2>1, <2>2 DEF Subscribing
<1>8. current_state = "stateWAIT" => Through'
  BY <1>3 DEF Phase, Through
<1>9. QED
  BY <1>3, <1>4, <1>5, <1>6, <1>7, <1>8 DEF Phase

\* A subscriber is notified.
LEMMA NotifiedPhase ==
  ASSUME TypeOK, Phase, PeerNotifies
  PROVE  Phase'
<1>1. PICK v \in Values : Queue(Event("value", v))
  BY DEF PeerNotifies
<1> DEFINE e == Event("value", v)
<1>2. e \in Events /\ e.id = "value"
  BY EventTypes DEF Event
<1>3. /\ UNCHANGED <<current_state, saved, button_notification_flag, procedure, answer,
                     subscribed, link>>
      /\ subscribed
  BY DEF PeerNotifies, appVars
<1>4. Moved'
  BY <1>1, <1>2, <1>3, GetsQueued DEF Phase, Moved
<1>5. current_state # "stateOPEN" /\ current_state \notin Searching
  BY <1>3 DEF Phase, Fresh, Finding
<1>6. current_state = "stateKEYPADNOTIF" => Subscribing'
  BY <1>1, <1>2, <1>3, QueueIn DEF Phase, Subscribing
<1>7. current_state = "stateWAIT" => Through'
  BY <1>3 DEF Phase, Through
<1>8. QED
  BY <1>3, <1>4, <1>5, <1>6, <1>7 DEF Phase

LEMMA PhasedStep ==
  ASSUME TypeOK, Session, Announced, Phased, [Next]_vars
  PROVE  Phased'
<1> SUFFICES ASSUME undisturbed' PROVE Phase'
  BY DEF Phased
<1>1. CASE ConnectionOpens
  BY <1>1, ConnectedPhase
<1>2. CASE ~ConnectionOpens
  <2>1. /\ undisturbed
        /\ ~OnClosed /\ ~OnExternalSignal
        /\ OnProcedureCompleted => Head(evq).arg = "ok"
    <3>1. CASE HandleEvent
      BY <3>1 DEF HandleEvent, OnBoot, OnOpened, OnClosed, OnScanReport, OnFound,
         OnProcedureCompleted, OnCharacteristicValue, OnConfirmBonding,
         OnConfirmPasskey, OnBonded, OnBondingFailed, OnExternalSignal, TypeOK, Take
    <3>2. CASE Environment
      <4>1. undisturbed
        BY <1>2, <3>2 DEF Environment, Buttoned, Interrupts, DeviceReported, LinkDrops,
           PeerAnswers, ProcedureCompletes, PeerNotifies, PeerRequestsBonding,
           PasskeyCompared, PairingCompletes, PairingFails, Pairs
      <4>2. ~OnClosed /\ ~OnExternalSignal
        BY DEF OnClosed, OnExternalSignal
      <4>3. OnProcedureCompleted => Head(evq).arg = "ok"
        BY DEF OnProcedureCompleted
      <4>4. QED
        BY <4>1, <4>2, <4>3
    <3>3. CASE OnExternalSignal \/ UNCHANGED vars
      BY <3>3 DEF OnExternalSignal, vars, OnClosed, OnProcedureCompleted
    <3>4. QED
      BY <3>1, <3>2, <3>3 DEF Next
  <2>2. Phase
    BY <2>1 DEF Phased
  <2>3. CASE UNCHANGED <<appVars, stackVars>>
    BY <2>2, <2>3 DEF appVars, stackVars, Phase, Fresh, Finding, Completing, Stored,
       Subscribing, Unsubscribed, Through, Moved, NoneIn, Queued
  <2>4. CASE \/ OnBoot \/ OnScanReport \/ OnConfirmBonding \/ OnConfirmPasskey
             \/ OnBonded \/ OnBondingFailed
    <3>1. CASE OnBoot
      <4>1. current_state = "stateOPEN"
        BY <3>1, TakeSession DEF OnBoot, Session, Asleep
      <4>2. QED
        BY <2>2, <3>1, <4>1, TakePhase DEF OnBoot
    <3>2. CASE OnScanReport
      <4>1. link' = "up" => link = "up"
        BY <3>2 DEF OnScanReport
      <4>2. QED
        BY <2>2, <3>2, <4>1, TakePhase DEF OnScanReport
    <3>3. CASE OnConfirmBonding \/ OnConfirmPasskey \/ OnBonded \/ OnBondingFailed
      BY <2>2, <3>3, TakePhase DEF OnConfirmBonding, OnConfirmPasskey, OnBonded,
         OnBondingFailed
    <3>4. QED
      BY <2>4, <3>1, <3>2, <3>3
  <2>5. ASSUME NEW d \in Devices, DeviceReported(d)
        PROVE  Phase'
    BY <2>2, <2>5, EventTypes, QueuePhase DEF DeviceReported, Event, appVars
  <2>6. CASE PeerRequestsBonding \/ PasskeyCompared \/ PairingCompletes \/ PairingFails
    BY <2>2, <2>6, EventTypes, QueuePhase DEF PeerRequestsBonding, PasskeyCompared,
       PairingCompletes, PairingFails, Pairs, Event, PlainIds, appVars
  <2>7. QED
    BY <1>2, <2>1, <2>2, <2>3, <2>4, <2>5, <2>6, OpenedPhase, FoundPhase, ValuePhase,
       CompletedPhase, DroppedPhase, AnsweredPhase, EndedPhase, NotifiedPhase
       DEF Next, HandleEvent, Environment, Buttoned, Interrupts, vars
<1>3. QED
  BY <1>1, <1>2

LEMMA PhasedInit == Init => Phased
  BY DEF Init, Phased

LEMMA PhasedInvariant == SlowLoss => (Spec => [](Session /\ Phased))
<1> SUFFICES ASSUME SlowLoss PROVE Spec => [](Session /\ Phased)
  OBVIOUS
<1>1. TypeOK /\ Session /\ Announced /\ Phased /\ [Next]_vars => Phased'
  BY PhasedStep
<1>2. QED
  BY <1>1, PhasedInit, TypeCorrect, SessionInvariant, PTL DEF Spec

\* When links are lost slower than scan reports are handled, stateWAIT without a
\* press or an error means all four handles stored and the peer subscribed to.
THEOREM WaitIsReady == SlowLoss => (Spec => []WaitMeansReady)
<1>1. Phased => WaitMeansReady
  BY DEF Phased, Phase, Through, WaitMeansReady
<1>2. QED
  BY <1>1, PhasedInvariant, PTL

\* On a session that nothing disturbed the discovery always waits for something.
THEOREM UndisturbedWakes == SlowLoss => (Spec => [](undisturbed => DiscoveryHasWakeup))
<1>1. Moving /\ Phased => (undisturbed => DiscoveryHasWakeup)
  <2> SUFFICES ASSUME Moving, Phase, current_state \in Waiting
               PROVE  WakeupComes
    BY DEF Phased, DiscoveryHasWakeup
  <2>1. CASE link = "up"
    BY <2>1 DEF Phase, Moved, WakeupComes
  <2>2. CASE link # "up"
    BY <2>2 DEF Moving, Attached, Waiting, WakeupComes
  <2>3. QED
    BY <2>1, <2>2
<1>2. QED
  BY <1>1, PhasedInvariant, MovingInvariant, PTL

\* Nobody presses, no procedure breaks, links are lost slowly and no device in
\* range is taken for the keypad board.
CalmAssumed == SlowLoss /\ ~Failures /\ Buttons = {} /\ ApartAssumed

\* The connection the machine is about to hear of is the one that is up.
Opening ==
  \A i \in 1..Len(evq) : evq[i].id = "opened" =>
    /\ current_state = "stateOPEN" /\ undisturbed
    /\ \A j \in 1..Len(evq) : evq[j].id = "opened" => j = i

\* Every procedure of the search ends without an error.
AllOk == current_state \in Searching =>
           \A i \in 1..Len(evq) : evq[i].id = "completed" => evq[i].arg = "ok"

\* A session without a press or a failure is never disturbed while it is searched.
Calm == /\ signal = {} /\ pending = {} /\ intf = {}
        /\ Opening /\ AllOk
        /\ current_state \in Waiting => undisturbed

LEMMA TakeOpening ==
  ASSUME TypeOK, Opening, NEW id, Take(id),
         id # "opened" => UNCHANGED <<current_state, undisturbed>>
  PROVE  Opening'
<1>1. /\ Len(evq) \in Nat \ {0} /\ evq[1].id = id
      /\ Len(evq') = Len(evq) - 1
      /\ \A i \in 1..Len(evq') : evq'[i] = evq[i + 1]
  BY TakeShift
<1>2. SUFFICES ASSUME NEW i \in 1..Len(evq'), evq'[i].id = "opened"
               PROVE  /\ current_state' = "stateOPEN" /\ undisturbed'
                      /\ \A j \in 1..Len(evq') : evq'[j].id = "opened" => j = i
  BY DEF Opening
<1>3. i + 1 \in 1..Len(evq) /\ evq[i + 1].id = "opened"
  BY <1>1, <1>2
<1>4. /\ current_state = "stateOPEN" /\ undisturbed
      /\ \A j \in 1..Len(evq) : evq[j].id = "opened" => j = i + 1
  BY <1>3 DEF Opening
<1>5. id # "opened"
  <2>1. 1 \in 1..Len(evq) /\ 1 # i + 1
    BY <1>1
  <2>2. QED
    BY <1>1, <1>4, <2>1
<1>6. ASSUME NEW j \in 1..Len(evq'), evq'[j].id = "opened"
      PROVE  j = i
  <2>1. j + 1 \in 1..Len(evq) /\ evq[j + 1] = evq'[j]
    BY <1>1
  <2>2. j + 1 = i + 1
    BY <1>4, <1>6, <2>1
  <2>3. QED
    BY <2>2
<1>7. QED
  BY <1>4, <1>5, <1>6

\* The opened event comes when no other waits.
LEMMA QueueOpening ==
  ASSUME TypeOK, NEW e \in Events, Queue(e), UNCHANGED current_state,
         \/ e.id # "opened" /\ Opening /\ UNCHANGED undisturbed
         \/ NoneIn({"opened"}) /\ current_state = "stateOPEN" /\ undisturbed'
  PROVE  Opening'
<1>1. /\ Len(evq) \in Nat
      /\ Len(evq') = Len(evq) + 1
      /\ \A i \in 1..Len(evq) : evq'[i] = evq[i]
      /\ evq'[Len(evq) + 1] = e
  BY QueueGrows
<1>2. \A i \in 1..Len(evq') : i \in 1..Len(evq) \/ i = Len(evq) + 1
  BY <1>1
<1>3. CASE e.id # "opened" /\ Opening /\ UNCHANGED undisturbed
  BY <1>1, <1>2, <1>3 DEF Opening
<1>4. CASE NoneIn({"opened"}) /\ current_state = "stateOPEN" /\ undisturbed'
  BY <1>1, <1>2, <1>4 DEF Opening, NoneIn
<1>5. QED
  BY <1>3, <1>4

LEMMA TakeAllOk ==
  ASSUME TypeOK, AllOk, NEW id, Take(id),
         current_state' \in Searching => current_state' = current_state
  PROVE  AllOk'
<1>1. /\ Len(evq) \in Nat \ {0}
      /\ Len(evq') = Len(evq) - 1
      /\ \A i \in 1..Len(evq') : evq'[i] = evq[i + 1]
  BY TakeShift
<1>2. \A i \in 1..Len(evq') : i + 1 \in 1..Len(evq)
  BY <1>1
<1>3. Searching' = Searching
  BY DEF Searching, Discovery
<1>4. QED
  BY <1>1, <1>2, <1>3 DEF AllOk

LEMMA QueueAllOk ==
  ASSUME TypeOK, AllOk, NEW e \in Events, Queue(e), UNCHANGED current_state,
         current_state \in Searching /\ e.id = "completed" => e.arg = "ok"
  PROVE  AllOk'
<1>1. /\ Len(evq) \in Nat
      /\ Len(evq') = Len(evq) + 1
      /\ \A i \in 1..Len(evq) : evq'[i] = evq[i]
      /\ evq'[Len(evq) + 1] = e
  BY QueueGrows
<1>2. \A i \in 1..Len(evq') : i \in 1..Len(evq) \/ i = Len(evq) + 1
  BY <1>1
<1>3. QED
  BY <1>1, <1>2 DEF AllOk, Searching, Discovery

LEMMA HandledCalm ==
  ASSUME TypeOK, Session, Phased, Calm, HandleEvent
  PROVE  Calm'
<1>1. signal' = {} /\ pending' = {} /\ intf' = {}
  BY DEF Calm, HandleEvent, keyVars, OnBoot, OnOpened, OnClosed, OnScanReport, OnFound,
     OnProcedureCompleted, OnCharacteristicValue, OnConfirmBonding, OnConfirmPasskey,
     OnBonded, OnBondingFailed
<1>2. ASSUME NEW id, Take(id), UNCHANGED <<current_state, undisturbed>>
      PROVE  Calm'
  BY <1>1, <1>2, TakeOpening, TakeAllOk DEF Calm
<1>3. CASE OnOpened
  <2>1. 1 \in 1..Len(evq) /\ evq[1].id = "opened"
    BY <1>3, TakeShift DEF OnOpened
  <2>2. current_state = "stateOPEN" /\ undisturbed
    BY <2>1 DEF Calm, Opening
  <2>3. NoneIn({"completed", "found", "value"})'
    BY <1>3, <2>2, TakeIn DEF Phased, Phase, Fresh, OnOpened
  <2>4. Opening'
    BY <1>3, TakeOpening DEF Calm, OnOpened
  <2>5. AllOk'
    BY <2>3 DEF AllOk, NoneIn
  <2>6. undisturbed'
    BY <1>3, <2>2 DEF OnOpened
  <2>7. QED
    BY <1>1, <2>4, <2>5, <2>6 DEF Calm
<1>4. CASE OnClosed
  <2>1. Parted
    BY <1>4, TakeSession DEF OnClosed, Session
  <2>2. AllIn({"scan_report"})'
    BY <1>4, <2>1, TakeSession DEF OnClosed
  <2>3. Opening'
    BY <2>2 DEF AllIn, Opening
  <2>4. current_state' = "stateOPEN"
    BY <1>4 DEF OnClosed, DiscoveryOnClosed
  <2>5. QED
    BY <1>1, <2>3, <2>4, SearchingStates DEF Calm, AllOk, Waiting, Searching, Discovery
<1>5. CASE OnProcedureCompleted
  <2>0. /\ Take("completed") /\ DiscoveryOnCompleted
        /\ undisturbed' = (undisturbed /\ Head(evq).arg = "ok")
    BY <1>5 DEF OnProcedureCompleted
  <2>1. /\ Len(evq) \in Nat \ {0} /\ evq[1] = Head(evq) /\ evq[1].id = "completed"
        /\ Len(evq') = Len(evq) - 1
        /\ \A i \in 1..Len(evq') : evq'[i] = evq[i + 1]
    BY <2>0, TakeShift
  <2>2. 1 \in 1..Len(evq)
    BY <2>1
  <2>3. NoneIn({"opened"})
    <3>1. current_state = "stateOPEN" => ~undisturbed
      BY <2>1, <2>2 DEF Phased, Phase, Fresh, NoneIn
    <3>2. QED
      BY <3>1 DEF Calm, Opening, NoneIn
  <2>4. Opening'
    <3>1. NoneIn({"opened"})'
      BY <2>0, <2>3, TakeIn
    <3>2. QED
      BY <3>1 DEF NoneIn, Opening
  <2>5. CASE current_state \in Searching
    <3>1. undisturbed /\ Head(evq).arg = "ok"
      BY <2>1, <2>2, <2>5, SearchingStates DEF Calm, AllOk
    <3>2. undisturbed'
      BY <2>0, <3>1
    <3>3. PICK s \in Searching : s = current_state
      BY <2>5
    <3>4. Finding(s)
      BY <3>1, <3>3 DEF Phased, Phase
    <3>5. \A j \in 1..Len(evq) : evq[j].id = "completed" => j = 1
      BY <2>1, <2>2, <3>4 DEF Finding, Completing
    <3>6. \A i \in 1..Len(evq') : i + 1 \in 1..Len(evq) /\ i + 1 # 1
      BY <2>1
    <3>7. AllOk'
      BY <2>1, <3>5, <3>6 DEF AllOk
    <3>8. QED
      BY <1>1, <2>4, <3>2, <3>7 DEF Calm
  <2>6. CASE current_state \notin Searching
    <3>1. current_state' \notin Searching /\ current_state' \notin Waiting
      BY <2>0, <2>6, SearchingStates DEF DiscoveryOnCompleted, Searching, Waiting
    <3>2. QED
      BY <1>1, <2>4, <3>1 DEF Calm, AllOk, Searching, Discovery
  <2>7. QED
    BY <2>5, <2>6
<1>6. CASE \/ OnBoot \/ OnScanReport \/ OnFound \/ OnCharacteristicValue
           \/ OnConfirmBonding \/ OnConfirmPasskey \/ OnBonded \/ OnBondingFailed
  BY <1>2, <1>6 DEF OnBoot, OnScanReport, OnFound, OnCharacteristicValue,
     OnConfirmBonding, OnConfirmPasskey, OnBonded, OnBondingFailed
<1>7. QED
  BY <1>3, <1>4, <1>5, <1>6 DEF HandleEvent

\* On a calm board the keypad board answers every procedure of the search.
LEMMA SearchAnswered ==
  ASSUME ~Failures, TypeOK, Session, Phased, Calm, ConnectsToServer,
         ProcedureCompletes, current_state \in Searching,
         NEW r \in Results, Queue(Event("completed", r))
  PROVE  r = "ok"
<1>1. Finding(current_state) /\ procedure # "none" /\ link = "up"
  BY SearchingStates DEF Calm, Phased, Phase, ProcedureCompletes, Session
<1>2. PICK s \in Searching : s = current_state
  OBVIOUS
<1>3. procedure = Asked[s] /\ Known[s] \subseteq saved /\ (answer # "none" => answer = "ok")
  BY <1>1, <1>2 DEF Finding
<1>4. Needs(Asked[s]) \subseteq Known[s]
  <2>1. CASE s = "stateDISCOVER_KEYPAD_SERVICES"
    BY <2>1 DEF Asked, Known, Needs
  <2>2. CASE s = "stateDISCOVER_LED_SERVICES"
    BY <2>2 DEF Asked, Known, Needs
  <2>3. CASE s = "stateDISCOVER_KEYPAD_CHARACTERISTICS"
    BY <2>3 DEF Asked, Known, Needs
  <2>4. CASE s = "stateDISCOVER_LED_CHARACTERISTICS"
    BY <2>4 DEF Asked, Known, Needs
  <2>5. QED
    BY <2>1, <2>2, <2>3, <2>4, SearchingStates
<1>5. Answerable
  BY <1>1, <1>3, <1>4 DEF Answerable, ConnectsToServer
<1>6. Queue(Event("completed", answer)) /\ answer = "ok"
  BY <1>3, <1>5 DEF ProcedureCompletes
<1>7. "ok" \in Results
  BY DEF Results
<1>8. Event("completed", r) = Event("completed", "ok")
  <2>1. Event("completed", r) \in Events /\ Event("completed", "ok") \in Events
    BY <1>7, EventTypes
  <2>2. evq'[Len(evq) + 1] = Event("completed", r)
    BY <2>1, QueueGrows
  <2>3. evq'[Len(evq) + 1] = Event("completed", "ok")
    BY <1>6, <2>1, QueueGrows
  <2>4. QED
    BY <2>2, <2>3
<1>9. QED
  BY <1>8 DEF Event

LEMMA CalmStep ==
  ASSUME CalmAssumed, TypeOK, Session, Phased, Calm, ConnectsToServer, [Next]_vars
  PROVE  Calm'
<1>1. ASSUME UNCHANGED <<current_state, undisturbed, evq, signal, pending, intf>>
      PROVE  Calm'
  BY <1>1 DEF Calm, Opening, AllOk, Searching, Discovery
<1>2. ASSUME UNCHANGED <<current_state, undisturbed, signal, pending, intf>>,
             NEW e \in Events, Queue(e), e.id # "opened",
             current_state \in Searching /\ e.id = "completed" => e.arg = "ok"
      PROVE  Calm'
  BY <1>2, QueueOpening, QueueAllOk DEF Calm
<1>3. CASE OnExternalSignal
  BY <1>3 DEF OnExternalSignal, Calm
<1>4. CASE Buttoned(Interrupts) \/ Buttoned(RaiseSignalEvent)
  BY <1>4 DEF Buttoned, Interrupts, GPIO_EVEN_IRQHandler, GPIO_ODD_IRQHandler,
     RaiseSignalEvent, Calm
<1>5. CASE ConnectionOpens
  <2> DEFINE e == Event("opened", NoDevice)
  <2>1. e \in Events /\ e.id = "opened" /\ Queue(e)
    BY <1>5, EventTypes DEF ConnectionOpens, PlainIds, Event
  <2>2. Free
    BY <1>5 DEF ConnectionOpens, Session, Asleep, Held, Parted
  <2>3. NoneIn({"opened"}) /\ current_state = "stateOPEN"
    BY <2>2 DEF Free, AllIn, NoneIn
  <2>4. /\ UNCHANGED <<current_state, signal, pending, intf>> /\ undisturbed'
    BY <1>5 DEF ConnectionOpens, keyVars, appVars
  <2>5. Opening' /\ AllOk'
    BY <2>1, <2>3, <2>4, QueueOpening, QueueAllOk DEF Calm
  <2>6. QED
    BY <2>4, <2>5 DEF Calm
<1>6. CASE ProcedureCompletes
  <2>1. PICK r \in Results : Queue(Event("completed", r))
    BY <1>6 DEF ProcedureCompletes, TypeOK, Results
  <2>2. current_state \in Searching => r = "ok"
    BY <1>6, <2>1, SearchAnswered DEF CalmAssumed
  <2>3. Event("completed", r) \in Events /\ Event("completed", r).id = "completed"
        /\ Event("completed", r).arg = r
    BY EventTypes DEF Event
  <2>4. QED
    BY <1>2, <1>6, <2>1, <2>2, <2>3 DEF ProcedureCompletes, keyVars, appVars
<1>7. ASSUME NEW d \in Devices, DeviceReported(d)
      PROVE  Calm'
  BY <1>2, <1>7, EventTypes DEF DeviceReported, Event, keyVars, appVars
<1>8. CASE LinkDrops
  BY <1>2, <1>8, EventTypes DEF LinkDrops, Event, PlainIds, keyVars, appVars
<1>9. CASE PeerAnswers
  <2>1. UNCHANGED <<current_state, undisturbed, signal, pending, intf>>
    BY <1>9 DEF PeerAnswers, keyVars, appVars
  <2>2. QED
    BY <1>1, <1>2, <1>9, <2>1, EventTypes DEF PeerAnswers, PeerFinds, PeerConfigures,
       PeerReads, PeerRefuses, Event
<1>10. CASE PeerNotifies
  BY <1>2, <1>10, EventTypes DEF PeerNotifies, Event, keyVars, appVars
<1>11. CASE PeerRequestsBonding \/ PasskeyCompared \/ PairingCompletes \/ PairingFails
  BY <1>2, <1>11, EventTypes DEF PeerRequestsBonding, PasskeyCompared,
     PairingCompletes, PairingFails, Pairs, Event, PlainIds, keyVars, appVars
<1>12. CASE UNCHANGED vars
  BY <1>1, <1>12 DEF vars, keyVars, appVars, stackVars
<1>13. QED
  BY <1>3, <1>4, <1>5, <1>6, <1>7, <1>8, <1>9, <1>10, <1>11, <1>12, HandledCalm
     DEF Next, Environment, CalmAssumed

\* On a calm board, however often the link is lost and whatever the order of the
\* events, the discovery never waits for nothing (discovery_state_machine()).
THEOREM DiscoveryWakes == CalmAssumed => (Spec => []DiscoveryHasWakeup)
<1> SUFFICES ASSUME CalmAssumed PROVE Spec => []DiscoveryHasWakeup
  OBVIOUS
<1>0. SlowLoss /\ ApartAssumed
  BY DEF CalmAssumed
<1>1. Init => Calm
  <2> SUFFICES ASSUME Init PROVE Calm
    OBVIOUS
  <2>1. Len(evq) = 1 /\ evq[1].id = "boot" /\ current_state = "stateOPEN"
    BY DEF Init, Event
  <2>2. \A i \in 1..Len(evq) : evq[i].id = "boot"
    BY <2>1
  <2>3. QED
    BY <2>1, <2>2 DEF Init, KeyInit, Calm, Opening, AllOk, Waiting, Searching, Discovery
<1>2. TypeOK /\ Session /\ Phased /\ ConnectsToServer /\ Calm /\ [Next]_vars => Calm'
  BY CalmStep
<1>3. Calm /\ (undisturbed => DiscoveryHasWakeup) => DiscoveryHasWakeup
  BY DEF Calm, DiscoveryHasWakeup
<1>4. Spec => [](Session /\ Phased) /\ [](undisturbed => DiscoveryHasWakeup)
              /\ []ConnectsToServer
  BY <1>0, PhasedInvariant, UndisturbedWakes, ConnectsApart
<1>5. QED
  BY <1>1, <1>2, <1>3, <1>4, TypeCorrect, PTL DEF Spec

=============================================================================
