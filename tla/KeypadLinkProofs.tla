--------------------------- MODULE KeypadLinkProofs ---------------------------
(***************************************************************************)
(* Proofs about the keypad board's connection and pairing, for a queue of  *)
(* any length: a drained board agrees with the stack, and the screen with  *)
(* the flags. The invariants say what the events still waiting will make   *)
(* of what the application believes.                                       *)
(***************************************************************************)
EXTENDS KeypadBoardProofs

-----------------------------------------------------------------------------
(* The invariant.                                                          *)

\* Before the boot event has been handled.
Asleep ==
  /\ evq = <<Event("boot")>>
  /\ link = NoHandle
  /\ ~advertising
  /\ ~connection_open

\* Advertising, with nothing left to handle.
Findable ==
  /\ evq = <<>>
  /\ link = NoHandle
  /\ advertising
  /\ ~connection_open

\* What the ids in the queue q say while a connection is in hand.
InOrder(q, open, up) ==
  \A i \in 1..Len(q) :
    /\ q[i].id # "boot"
    /\ q[i].id = "opened" <=> i = 1 /\ ~open
    /\ q[i].id = "closed" <=> i = Len(q) /\ ~up

\* From the connection on until its closed event has been handled: an opened
\* event comes first, a closed event last, and either waits exactly as long as
\* the application and the stack disagree.
Engaged ==
  /\ ~advertising
  /\ InOrder(evq, connection_open, link # NoHandle)
  /\ evq = <<>> => connection_open /\ link # NoHandle
  /\ link # NoHandle => IF connection_open THEN handle_for_client = link
                                           ELSE evq[1].conn = link

Life == Asleep \/ Findable \/ Engaged

-----------------------------------------------------------------------------
(* The queue.                                                              *)

\* The queue after its oldest event was taken.
LEMMA TakeShift ==
  ASSUME TypeOK, NEW id, Take(id)
  PROVE  /\ evq # <<>>
         /\ Len(evq) \in Nat \ {0}
         /\ evq[1].id = id
         /\ Head(evq) = evq[1]
         /\ evq' = Tail(evq)
         /\ Len(evq') = Len(evq) - 1
         /\ \A i \in 1..Len(evq') : evq'[i] = evq[i + 1]
<1>1. evq \in Seq(Events) /\ evq # <<>> /\ evq' = Tail(evq) /\ Head(evq).id = id
  BY DEF TypeOK, Take
<1>2. QED
  BY <1>1, HeadTailProperties, EmptySeq, LenProperties

\* The queue after an event was put into it.
LEMMA QueueGrows ==
  ASSUME TypeOK, NEW e, e \in Events, Queue(e)
  PROVE  /\ Len(evq) \in Nat
         /\ Len(evq') = Len(evq) + 1
         /\ evq' # <<>>
         /\ \A i \in 1..Len(evq) : evq'[i] = evq[i]
         /\ evq'[Len(evq) + 1] = e
<1>1. evq \in Seq(Events) /\ evq' = Append(evq, e)
  BY DEF TypeOK, Queue
<1>2. QED
  BY <1>1, AppendProperties, LenProperties

-----------------------------------------------------------------------------
(* The steps.                                                              *)

\* Handling an event about anything but the connection itself.
LEMMA PlainLife ==
  ASSUME TypeOK, Life,
         NEW id \in EventIds \ {"boot", "opened", "closed"}, Take(id),
         UNCHANGED <<connection_open, handle_for_client, advertising, link>>
  PROVE  Life' /\ connection_open
<1>1. /\ evq # <<>> /\ evq[1].id = id
      /\ Len(evq) \in Nat \ {0}
      /\ Len(evq') = Len(evq) - 1
      /\ \A i \in 1..Len(evq') : evq'[i] = evq[i + 1]
  BY TakeShift
<1>2. id \notin {"boot", "opened", "closed"}
  OBVIOUS
<1>3. ~Asleep
  BY <1>1, <1>2 DEF Asleep, Event
<1>4. Engaged
  BY <1>1, <1>3 DEF Life, Findable
<1>5. connection_open
  BY <1>1, <1>2, <1>4 DEF Engaged, InOrder, TypeOK
<1>6. link = NoHandle => Len(evq) # 1
  BY <1>1, <1>2, <1>4 DEF Engaged, InOrder
<1>7. InOrder(evq', connection_open', link' # NoHandle)
  BY <1>1, <1>4, <1>5 DEF Engaged, InOrder
<1>8. evq' = <<>> => link # NoHandle
  BY <1>1, <1>6
<1>9. Engaged'
  BY <1>4, <1>5, <1>7, <1>8 DEF Engaged
<1>10. QED
  BY <1>5, <1>9 DEF Life

LEMMA BootLife ==
  ASSUME TypeOK, Life, OnBoot
  PROVE  Life'
<1>1. Take("boot")
  BY DEF OnBoot
<1>2. /\ evq # <<>> /\ evq[1].id = "boot"
      /\ Len(evq) \in Nat \ {0}
      /\ evq' = Tail(evq)
  BY <1>1, TakeShift
<1>3. Asleep
  BY <1>2 DEF Life, Findable, Engaged, InOrder
<1>4. evq' = <<>>
  BY <1>2, <1>3 DEF Asleep
<1>5. Findable'
  BY <1>3, <1>4 DEF OnBoot, advertiser_start, Asleep, Findable
<1>6. QED
  BY <1>5 DEF Life

LEMMA OpenedLife ==
  ASSUME TypeOK, Life, OnOpened
  PROVE  Life' /\ ~connection_open
<1>1. Take("opened")
  BY DEF OnOpened
<1>2. /\ evq # <<>> /\ evq[1].id = "opened" /\ Head(evq) = evq[1]
      /\ Len(evq) \in Nat \ {0}
      /\ Len(evq') = Len(evq) - 1
      /\ \A i \in 1..Len(evq') : evq'[i] = evq[i + 1]
  BY <1>1, TakeShift
<1>3. Engaged
  BY <1>2 DEF Life, Asleep, Findable, Event
<1>4. ~connection_open
  BY <1>2, <1>3 DEF Engaged, InOrder
<1>5. link = NoHandle => Len(evq) # 1
  BY <1>2, <1>3 DEF Engaged, InOrder
<1>6. /\ connection_open' = TRUE /\ advertising' = FALSE /\ link' = link
      /\ handle_for_client' = evq[1].conn
  BY <1>2 DEF OnOpened
<1>7. InOrder(evq', connection_open', link' # NoHandle)
  <2> SUFFICES ASSUME NEW i \in 1..Len(evq')
               PROVE  /\ evq'[i].id # "boot"
                      /\ evq'[i].id # "opened"
                      /\ evq'[i].id = "closed" <=> i = Len(evq') /\ link = NoHandle
    BY <1>6 DEF InOrder
  <2>1. evq'[i] = evq[i + 1] /\ i + 1 \in 1..Len(evq) /\ i + 1 # 1
    BY <1>2
  <2>2. /\ evq[i + 1].id # "boot"
        /\ evq[i + 1].id = "opened" <=> i + 1 = 1 /\ ~connection_open
        /\ evq[i + 1].id = "closed" <=> i + 1 = Len(evq) /\ link = NoHandle
    BY <1>3, <2>1 DEF Engaged, InOrder
  <2>3. QED
    BY <1>2, <2>1, <2>2
<1>8. evq' = <<>> => link # NoHandle
  BY <1>2, <1>5
<1>9. Engaged'
  BY <1>3, <1>4, <1>6, <1>7, <1>8 DEF Engaged
<1>10. QED
  BY <1>4, <1>9 DEF Life

LEMMA ClosedLife ==
  ASSUME TypeOK, Life, OnClosed
  PROVE  Life'
<1>1. Take("closed")
  BY DEF OnClosed
<1>2. /\ evq # <<>> /\ evq[1].id = "closed"
      /\ evq \in Seq(Events)
      /\ Len(evq) \in Nat \ {0}
      /\ evq' = Tail(evq)
      /\ Len(evq') = Len(evq) - 1
  BY <1>1, TakeShift DEF TypeOK
<1>3. Engaged
  BY <1>2 DEF Life, Asleep, Findable, Event
<1>4. link = NoHandle /\ Len(evq) = 1
  <2>1. 1 \in 1..Len(evq)
    BY <1>2
  <2>2. evq[1].id = "closed" <=> 1 = Len(evq) /\ link = NoHandle
    BY <1>3, <2>1 DEF Engaged, InOrder
  <2>3. QED
    BY <1>2, <2>2
<1>5. evq' = <<>>
  BY <1>2, <1>4, HeadTailProperties, EmptySeq
<1>6. Findable'
  BY <1>4, <1>5 DEF OnClosed, advertiser_start, Findable
<1>7. QED
  BY <1>6 DEF Life

\* A central connects only to a board that has nothing left to handle.
LEMMA ConnectLife ==
  ASSUME TypeOK, Life, NEW h \in Handles, CentralConnects(h)
  PROVE  Life'
<1> DEFINE e == [id |-> "opened", conn |-> h, arg |-> "none"]
<1>1. e \in Events
  BY DEF Events, EventIds, AnyHandle
<1>2. Queue(e) /\ advertising
  BY DEF CentralConnects
<1>3. Findable
  BY <1>2 DEF Life, Asleep, Engaged
<1>4. Len(evq) = 0
  BY <1>3, EmptySeq DEF Findable
<1>5. Len(evq') = 1 /\ evq'[1] = e /\ evq' # <<>>
  BY <1>1, <1>2, <1>4, QueueGrows
<1>6. link' = h /\ advertising' = FALSE /\ connection_open' = connection_open
  BY DEF CentralConnects, appVars
<1>7. InOrder(evq', connection_open', link' # NoHandle)
  <2>1. \A i \in 1..Len(evq') : i = 1 /\ i # Len(evq') + 1
    BY <1>5
  <2>2. link' # NoHandle /\ ~connection_open'
    BY <1>3, <1>6, HandlesAssumption DEF Findable
  <2>3. evq'[1].id = "opened"
    BY <1>5
  <2>4. QED
    BY <2>1, <2>2, <2>3 DEF InOrder
<1>8. link' # NoHandle => evq'[1].conn = link'
  BY <1>5, <1>6
<1>9. Engaged'
  BY <1>3, <1>5, <1>6, <1>7, <1>8 DEF Findable, Engaged
<1>10. QED
  BY <1>9 DEF Life

\* Queueing an event on a live connection: a closed event if it has just gone.
LEMMA QueueLife ==
  ASSUME TypeOK, Life, link # NoHandle,
         NEW e \in Events, Queue(e),
         e.id \notin {"boot", "opened"},
         IF e.id = "closed" THEN link' = NoHandle ELSE link' = link,
         UNCHANGED <<connection_open, handle_for_client, advertising>>
  PROVE  Life'
<1>1. Engaged
  BY DEF Life, Asleep, Findable
<1>2. /\ Len(evq) \in Nat
      /\ Len(evq') = Len(evq) + 1
      /\ evq' # <<>>
      /\ \A i \in 1..Len(evq) : evq'[i] = evq[i]
      /\ evq'[Len(evq) + 1] = e
  BY QueueGrows
<1>3. evq = <<>> => connection_open
  BY <1>1 DEF Engaged
<1>4. Len(evq) = 0 => connection_open
  BY <1>3, EmptySeq DEF TypeOK
<1>5. InOrder(evq', connection_open', link' # NoHandle)
  BY <1>1, <1>2, <1>4 DEF Engaged, InOrder
<1>6. ~connection_open => evq'[1] = evq[1]
  BY <1>2, <1>4
<1>7. Engaged'
  BY <1>1, <1>2, <1>5, <1>6 DEF Engaged
<1>8. QED
  BY <1>7 DEF Life

LEMMA EnvironmentLife ==
  ASSUME TypeOK, Life, Environment
  PROVE  Life'
<1>1. ASSUME NEW h \in Handles, CentralConnects(h)
      PROVE  Life'
  BY <1>1, ConnectLife
<1>2. CASE LinkDrops
  <2>1. Event("closed") \in Events
    BY DEF Events, Event, EventIds, TypeOK
  <2>2. QED
    BY <1>2, <2>1, QueueLife DEF LinkDrops, Event, appVars
<1>3. ASSUME NEW arg \in {"disable", "notification", "other", "confirmation"},
             NEW e, e = [id |-> "characteristic_status", conn |-> link, arg |-> arg],
             Queue(e), link # NoHandle,
             UNCHANGED <<appVars, link, advertising>>
      PROVE  Life'
  <2>1. e \in Events
    BY <1>3 DEF Events, EventIds, StatusArgs, TypeOK
  <2>2. QED
    BY <1>3, <2>1, QueueLife DEF appVars
<1>4. ASSUME NEW arg \in {"disable", "notification", "other"}, CentralConfigures(arg)
      PROVE  Life'
  BY <1>3, <1>4 DEF CentralConfigures
<1>5. CASE IndicationConfirmed
  BY <1>3, <1>5 DEF IndicationConfirmed
<1>6. ASSUME NEW from, NEW to,
             NEW id \in {"confirm_bonding", "confirm_passkey", "bonded", "bonding_failed"},
             Pairs(from, to, id)
      PROVE  Life'
  <2>1. Event(id) \in Events
    BY DEF Events, Event, EventIds, TypeOK
  <2>2. QED
    BY <1>6, <2>1, QueueLife DEF Pairs, Event, appVars
<1>7. CASE PairingRequested \/ PasskeyCompared \/ PairingCompletes \/ PairingFails
  BY <1>6, <1>7 DEF PairingRequested, PasskeyCompared, PairingCompletes, PairingFails
<1>8. ASSUME UNCHANGED <<connection_open, handle_for_client, advertising, link, evq>>
      PROVE  Life'
  BY <1>8 DEF Life, Asleep, Findable, Engaged, InOrder, Event
<1>9. CASE NotificationReceived
  BY <1>8, <1>9 DEF NotificationReceived, appVars
<1>10. CASE UNCHANGED <<appVars, stackVars, histVars>>
  BY <1>8, <1>10 DEF appVars, stackVars
<1>11. QED
  BY <1>1, <1>2, <1>4, <1>5, <1>7, <1>9, <1>10 DEF Environment

\* Every step keeps the invariant.
LEMMA LifeStep ==
  ASSUME TypeOK, Life, [Next]_vars
  PROVE  Life'
<1>1. ASSUME UNCHANGED <<connection_open, handle_for_client, advertising, link, evq>>
      PROVE  Life'
  BY <1>1 DEF Life, Asleep, Findable, Engaged, InOrder, Event
<1>2. CASE OnExternalSignal
  BY <1>1, <1>2 DEF OnExternalSignal
<1>3. CASE OnCharacteristicStatus \/ OnBonded \/ OnConfirmBonding
             \/ OnConfirmPasskey \/ OnBondingFailed
  BY <1>3, PlainLife DEF OnCharacteristicStatus, OnBonded, OnConfirmBonding,
     OnConfirmPasskey, OnBondingFailed, EventIds
<1>4. CASE HandleEvent
  BY <1>3, <1>4, BootLife, OpenedLife, ClosedLife DEF HandleEvent
<1>5. CASE Environment
  BY <1>5, EnvironmentLife
<1>6. CASE UNCHANGED vars
  BY <1>1, <1>6 DEF vars, appVars, stackVars
<1>7. QED
  BY <1>2, <1>4, <1>5, <1>6 DEF Next

\* Nothing is on the air without a link.
NoAir == link = NoHandle => air = <<>>

LEMMA LifeInit == Init => Life /\ NoAir
  BY DEF Init, Life, Asleep, Event, NoAir

LEMMA NoAirStep ==
  ASSUME NoAir, [Next]_vars
  PROVE  NoAir'
<1>1. CASE OnExternalSignal
  BY <1>1 DEF OnExternalSignal, button_state_to_gatt, StackSends, NoAir
<1>2. CASE HandleEvent
  BY <1>2 DEF HandleEvent, OnBoot, OnOpened, OnClosed, OnCharacteristicStatus, OnBonded,
     OnConfirmBonding, OnConfirmPasskey, OnBondingFailed, NoAir
<1>3. CASE \E h \in Handles : CentralConnects(h)
  BY <1>3, HandlesAssumption DEF CentralConnects, NoAir
<1>4. CASE LinkDrops \/ NotificationReceived
  BY <1>4 DEF LinkDrops, NotificationReceived, NoAir
<1>5. CASE UNCHANGED <<link, air>>
  BY <1>5 DEF NoAir
<1>6. QED
  BY <1>1, <1>2, <1>3, <1>4, <1>5 DEF Next, Environment, vars, stackVars, Pairs,
     CentralConfigures, IndicationConfirmed, PairingRequested, PasskeyCompared,
     PairingCompletes, PairingFails

\* Once no event waits, the application's view of the connection, the handle
\* and the advertiser is the stack's, for any number of events that waited and
\* any number of connections (OnOpened, OnClosed).
THEOREM DrainedBoardAgrees == Spec => []DrainedBoardAgreesWithStack
<1>1. Init => Life
  BY LifeInit
<1>2. TypeOK /\ Life /\ [Next]_vars => Life'
  BY LifeStep
<1>3. TypeOK /\ Life => DrainedBoardAgreesWithStack
  BY DEF TypeOK, Life, Asleep, Findable, Engaged, DrainedBoardAgreesWithStack
<1>4. QED
  BY <1>1, <1>2, <1>3, TypeCorrect, PTL DEF Spec

-----------------------------------------------------------------------------
(* The life cycle.                                                         *)

\* The boot event waits exactly while the board is asleep.
LEMMA AwakeMeans ==
  ASSUME TypeOK, Life
  PROVE  BootHandled <=> ~Asleep
<1>1. ASSUME Asleep PROVE ~BootHandled
  BY <1>1 DEF Asleep, BootHandled, Event
<1>2. ASSUME Findable PROVE BootHandled /\ ~Asleep
  BY <1>2 DEF Findable, Asleep, BootHandled
<1>3. ASSUME Engaged PROVE BootHandled /\ ~Asleep
  <2>1. CASE evq = <<>>
    BY <2>1 DEF BootHandled, Asleep
  <2>2. CASE evq # <<>>
    <3>1. 1 \in 1..Len(evq)
      BY <2>2, LenProperties, EmptySeq DEF TypeOK
    <3>2. evq[1].id # "boot"
      BY <1>3, <3>1 DEF Engaged, InOrder
    <3>3. QED
      BY <3>2 DEF BootHandled, Asleep, Event
  <2>3. QED
    BY <2>1, <2>2
<1>4. QED
  BY <1>1, <1>2, <1>3 DEF Life

\* Events queued on a live connection do not put the board to sleep.
LEMMA QueueAwake ==
  ASSUME TypeOK, Life, link # NoHandle,
         NEW e \in Events, Queue(e), e.id # "boot"
  PROVE  BootHandled /\ BootHandled'
<1>1. BootHandled
  BY AwakeMeans DEF Asleep
<1>2. /\ Len(evq) \in Nat
      /\ \A i \in 1..Len(evq) : evq'[i] = evq[i]
      /\ evq'[Len(evq) + 1] = e
  BY QueueGrows
<1>3. CASE evq = <<>>
  BY <1>1, <1>2, <1>3, EmptySeq DEF BootHandled
<1>4. CASE evq # <<>>
  <2>1. 1 \in 1..Len(evq)
    BY <1>2, <1>4, LenProperties, EmptySeq DEF TypeOK
  <2>2. QED
    BY <1>1, <1>2, <1>4, <2>1 DEF BootHandled
<1>5. QED
  BY <1>1, <1>3, <1>4

\* An event about anything but the start and the connection leaves the board awake.
LEMMA TakeAwake ==
  ASSUME TypeOK, Engaged, NEW id, Take(id)
  PROVE  BootHandled /\ BootHandled'
<1>1. BootHandled
  BY AwakeMeans DEF Life, Engaged, Asleep, InOrder, Event
<1>2. /\ evq # <<>> /\ evq' = Tail(evq)
      /\ Len(evq) \in Nat \ {0}
      /\ Len(evq') = Len(evq) - 1
      /\ \A i \in 1..Len(evq') : evq'[i] = evq[i + 1]
  BY TakeShift
<1>3. CASE evq' # <<>>
  <2>1. Len(evq') # 0
    BY <1>2, <1>3, EmptySeq, HeadTailProperties DEF TypeOK
  <2>2. evq'[1] = evq[2] /\ 2 \in 1..Len(evq)
    BY <1>2, <2>1
  <2>3. evq[2].id # "boot"
    BY <2>2 DEF Engaged, InOrder
  <2>4. QED
    BY <1>1, <2>2, <2>3 DEF BootHandled
<1>4. QED
  BY <1>1, <1>3 DEF BootHandled

\* What Peripheral does not see of a board that stays awake.
LEMMA Unseen ==
  ASSUME BootHandled, BootHandled', UNCHANGED <<connection_open, advertising, link>>
  PROVE  UNCHANGED P!vars
<1>1. BootHandled = TRUE /\ BootHandled' = TRUE
  BY DEF BootHandled
<1>2. QED
  BY <1>1 DEF P!vars

\* Handling an event: the start, the opening and the end of a connection are steps
\* of Peripheral, every other event is none.
LEMMA HandledLifeCycle ==
  ASSUME TypeOK, Life, HandleEvent
  PROVE  [P!Next]_P!vars
<1>1. CASE OnBoot
  <2>1. Take("boot")
    BY <1>1 DEF OnBoot
  <2>2. evq # <<>> /\ evq[1].id = "boot" /\ Len(evq) \in Nat \ {0} /\ evq' = Tail(evq)
    BY <2>1, TakeShift
  <2>3. Asleep
    BY <2>2 DEF Life, Findable, Engaged, InOrder
  <2>4. ~BootHandled /\ evq' = <<>>
    BY <2>2, <2>3 DEF Asleep, BootHandled
  <2>5. P!Wake
    BY <1>1, <2>3, <2>4 DEF P!Wake, OnBoot, advertiser_start, Asleep, BootHandled
  <2>6. QED
    BY <2>5 DEF P!Next
<1>2. ASSUME NEW id \in EventIds \ {"boot"}, Take(id)
      PROVE  Engaged /\ BootHandled /\ BootHandled'
  <2>1. evq # <<>> /\ evq[1].id = id
    BY <1>2, TakeShift
  <2>2. Engaged
    BY <2>1 DEF Life, Asleep, Findable, Event
  <2>3. QED
    BY <1>2, <2>2, TakeAwake
<1>3. CASE OnOpened
  <2>1. Take("opened")
    BY <1>3 DEF OnOpened
  <2>2. Engaged /\ BootHandled /\ BootHandled'
    BY <1>2, <2>1 DEF EventIds
  <2>3. ~connection_open
    BY <1>3, OpenedLife
  <2>4. P!TakeNote
    BY <1>3, <2>2, <2>3 DEF P!TakeNote, OnOpened, Engaged, TypeOK, BootHandled
  <2>5. QED
    BY <2>4 DEF P!Next
<1>4. CASE OnClosed
  <2>1. Take("closed")
    BY <1>4 DEF OnClosed
  <2>2. Engaged /\ BootHandled /\ BootHandled'
    BY <1>2, <2>1 DEF EventIds
  <2>3. evq[1].id = "closed" /\ Len(evq) \in Nat \ {0}
    BY <2>1, TakeShift
  <2>4. 1 \in 1..Len(evq)
    BY <2>3
  <2>5. link = NoHandle /\ connection_open
    BY <2>2, <2>3, <2>4, ClosedLife, <1>4 DEF Engaged, InOrder
  <2>6. P!TakeNoteOfEnd
    BY <1>4, <2>2, <2>5 DEF P!TakeNoteOfEnd, OnClosed, advertiser_start
  <2>7. QED
    BY <2>6 DEF P!Next
<1>5. ASSUME NEW id \in EventIds \ {"boot", "opened", "closed"}, Take(id),
             UNCHANGED <<connection_open, advertising, link>>
      PROVE  UNCHANGED P!vars
  BY <1>2, <1>5, Unseen
<1>6. CASE OnCharacteristicStatus \/ OnBonded \/ OnConfirmBonding
             \/ OnConfirmPasskey \/ OnBondingFailed
  BY <1>5, <1>6 DEF OnCharacteristicStatus, OnBonded, OnConfirmBonding,
     OnConfirmPasskey, OnBondingFailed, EventIds
<1>7. QED
  BY <1>1, <1>3, <1>4, <1>6 DEF HandleEvent

\* Steps of the stack and the central.
LEMMA EnvironmentLifeCycle ==
  ASSUME TypeOK, Life, Environment
  PROVE  [P!Next]_P!vars
<1>1. ASSUME NEW h \in Handles, CentralConnects(h)
      PROVE  P!Next
  <2> DEFINE e == [id |-> "opened", conn |-> h, arg |-> "none"]
  <2>1. Queue(e) /\ advertising /\ e \in Events
    BY <1>1 DEF CentralConnects, Events, EventIds, AnyHandle
  <2>2. Findable
    BY <2>1 DEF Life, Asleep, Engaged
  <2>3. evq' # <<>> /\ evq'[1] = e
    BY <2>1, <2>2, QueueGrows, EmptySeq DEF Findable
  <2>4. BootHandled /\ BootHandled'
    BY <2>2, <2>3 DEF Findable, BootHandled
  <2>5. P!Connect
    BY <1>1, <2>2, <2>4, HandlesAssumption
       DEF P!Connect, CentralConnects, Findable, appVars
  <2>6. QED
    BY <2>5 DEF P!Next
<1>2. CASE LinkDrops
  <2>1. Event("closed") \in Events /\ link # NoHandle /\ Queue(Event("closed"))
    BY <1>2 DEF LinkDrops, Events, Event, EventIds, TypeOK
  <2>2. BootHandled /\ BootHandled'
    BY <2>1, QueueAwake DEF Event
  <2>3. P!End
    BY <1>2, <2>2 DEF P!End, LinkDrops, appVars
  <2>4. QED
    BY <2>3 DEF P!Next
<1>3. ASSUME NEW e \in Events, e.id # "boot", Queue(e), link # NoHandle,
             UNCHANGED <<appVars, link, advertising>>
      PROVE  UNCHANGED P!vars
  BY <1>3, QueueAwake, Unseen DEF appVars
<1>4. ASSUME NEW arg \in {"disable", "notification", "other"}, CentralConfigures(arg)
      PROVE  UNCHANGED P!vars
  <2> DEFINE e == [id |-> "characteristic_status", conn |-> link, arg |-> arg]
  <2>1. e \in Events /\ e.id # "boot"
    BY DEF Events, EventIds, StatusArgs, TypeOK
  <2>2. QED
    BY <1>3, <1>4, <2>1 DEF CentralConfigures
<1>5. CASE IndicationConfirmed
  <2> DEFINE e == [id |-> "characteristic_status", conn |-> link, arg |-> "confirmation"]
  <2>1. e \in Events /\ e.id # "boot"
    BY DEF Events, EventIds, StatusArgs, TypeOK
  <2>2. QED
    BY <1>3, <1>5, <2>1 DEF IndicationConfirmed
<1>6. ASSUME NEW from, NEW to,
             NEW id \in {"confirm_bonding", "confirm_passkey", "bonded", "bonding_failed"},
             Pairs(from, to, id)
      PROVE  UNCHANGED P!vars
  <2>1. Event(id) \in Events /\ Event(id).id # "boot"
    BY DEF Events, Event, EventIds, TypeOK
  <2>2. QED
    BY <1>3, <1>6, <2>1 DEF Pairs
<1>7. CASE PairingRequested \/ PasskeyCompared \/ PairingCompletes \/ PairingFails
  BY <1>6, <1>7 DEF PairingRequested, PasskeyCompared, PairingCompletes, PairingFails
<1>8. ASSUME UNCHANGED <<connection_open, advertising, link, evq>>
      PROVE  UNCHANGED P!vars
  BY <1>8 DEF P!vars, BootHandled
<1>9. CASE NotificationReceived
  BY <1>8, <1>9 DEF NotificationReceived, appVars
<1>10. CASE UNCHANGED <<appVars, stackVars, histVars>>
  BY <1>8, <1>10 DEF appVars, stackVars
<1>11. QED
  BY <1>1, <1>2, <1>4, <1>5, <1>7, <1>9, <1>10 DEF Environment

\* The keypad board implements Peripheral, whatever the length of its queue and
\* the number of handles: OnOpened and OnClosed alternate, each belongs to a
\* connection that was really made, or has really ended, and nobody can connect
\* in between.
THEOREM LifeCycleImplemented == Spec => LifeCycle
<1>1. Init => Life /\ P!Init
  <2>1. Init => Asleep
    BY DEF Init, Asleep, Event
  <2>2. Init => ~BootHandled
    BY DEF Init, BootHandled
  <2>3. QED
    BY <2>1, <2>2 DEF Init, Life, P!Init
<1>2. TypeOK /\ Life /\ [Next]_vars => Life'
  BY LifeStep
<1>3. TypeOK /\ Life /\ [Next]_vars => [P!Next]_P!vars
  <2> SUFFICES ASSUME TypeOK, Life, [Next]_vars
               PROVE  [P!Next]_P!vars
    OBVIOUS
  <2>1. ASSUME UNCHANGED <<connection_open, advertising, link, evq>>
        PROVE  UNCHANGED P!vars
    BY <2>1 DEF P!vars, BootHandled
  <2>2. CASE OnExternalSignal
    BY <2>1, <2>2 DEF OnExternalSignal
  <2>3. CASE UNCHANGED vars
    BY <2>1, <2>3 DEF vars, appVars, stackVars
  <2>4. QED
    BY <2>2, <2>3, HandledLifeCycle, EnvironmentLifeCycle DEF Next
<1>4. QED
  BY <1>1, <1>2, <1>3, TypeCorrect, PTL DEF Spec, LifeCycle, P!Spec

-----------------------------------------------------------------------------
(* The prompt for the passkey.                                             *)

\* The events whose handling takes the prompt off the screen.
Clears == {"boot", "bonded", "bonding_failed", "closed"}

\* With the prompt shown as p, the first n events of q leave it on the screen.
Standing(p, q, n) ==
  \/ p /\ \A j \in 1..n : q[j].id \notin Clears
  \/ \E k \in 1..n : /\ q[k].id = "confirm_passkey"
                     /\ \A j \in (k + 1)..n : q[j].id \notin Clears

\* No prompt will stand when a bonding request is handled, nor after the last
\* event unless a comparison is under way.
PromptOrder ==
  /\ \A i \in 1..Len(evq) :
       evq[i].id = "confirm_bonding" => ~Standing(lcd.prompt, evq, i - 1)
  /\ pairing \notin {"comparing", "answered"} => ~Standing(lcd.prompt, evq, Len(evq))

\* Handling an event: a prompt that stands later stood before, one event on.
LEMMA PromptTaken ==
  ASSUME TypeOK, PromptOrder, NEW id, Take(id),
         lcd.prompt' => id = "confirm_passkey" \/ (lcd.prompt /\ id \notin Clears),
         pairing' \notin {"comparing", "answered"}
           => pairing \notin {"comparing", "answered"}
  PROVE  PromptOrder'
<1>1. /\ evq[1].id = id
      /\ Len(evq) \in Nat \ {0}
      /\ Len(evq') = Len(evq) - 1
      /\ \A i \in 1..Len(evq') : evq'[i] = evq[i + 1]
  BY TakeShift
<1>2. ASSUME NEW n \in 0..Len(evq'), Standing(lcd.prompt', evq', n)
      PROVE  Standing(lcd.prompt, evq, n + 1)
  <2>1. CASE lcd.prompt' /\ \A j \in 1..n : evq'[j].id \notin Clears
    <3>1. \A j \in 2..(n + 1) : evq[j].id \notin Clears
      <4>1. \A j \in 2..(n + 1) : j - 1 \in 1..n /\ evq'[j - 1] = evq[j]
        BY <1>1
      <4>2. QED
        BY <2>1, <4>1
    <3>2. CASE id = "confirm_passkey"
      <4>1. 1 \in 1..(n + 1) /\ evq[1].id = "confirm_passkey"
        BY <1>1, <3>2
      <4>2. QED
        BY <3>1, <4>1 DEF Standing
    <3>3. CASE lcd.prompt /\ id \notin Clears
      <4>1. \A j \in 1..(n + 1) : j = 1 \/ j \in 2..(n + 1)
        OBVIOUS
      <4>2. QED
        BY <1>1, <3>1, <3>3, <4>1 DEF Standing
    <3>4. QED
      BY <2>1, <3>2, <3>3
  <2>2. CASE \E k \in 1..n : /\ evq'[k].id = "confirm_passkey"
                            /\ \A j \in (k + 1)..n : evq'[j].id \notin Clears
    <3>1. PICK k \in 1..n : /\ evq'[k].id = "confirm_passkey"
                            /\ \A j \in (k + 1)..n : evq'[j].id \notin Clears
      BY <2>2
    <3>2. k + 1 \in 1..(n + 1) /\ evq[k + 1].id = "confirm_passkey"
      BY <1>1, <3>1
    <3>3. \A j \in (k + 1 + 1)..(n + 1) : evq[j].id \notin Clears
      <4>1. \A j \in (k + 1 + 1)..(n + 1) : j - 1 \in (k + 1)..n /\ evq'[j - 1] = evq[j]
        BY <1>1
      <4>2. QED
        BY <3>1, <4>1
    <3>4. QED
      BY <3>2, <3>3 DEF Standing
  <2>3. QED
    BY <1>2, <2>1, <2>2 DEF Standing
<1>3. ASSUME NEW i \in 1..Len(evq'), evq'[i].id = "confirm_bonding"
      PROVE  ~Standing(lcd.prompt', evq', i - 1)
  <2>1. i + 1 \in 1..Len(evq) /\ evq[i + 1].id = "confirm_bonding"
    BY <1>1, <1>3
  <2>2. ~Standing(lcd.prompt, evq, (i + 1) - 1)
    BY <2>1 DEF PromptOrder
  <2>3. i - 1 \in 0..Len(evq') /\ (i - 1) + 1 = (i + 1) - 1
    BY <1>1
  <2>4. QED
    BY <1>2, <2>2, <2>3
<1>4. ASSUME pairing' \notin {"comparing", "answered"}
      PROVE  ~Standing(lcd.prompt', evq', Len(evq'))
  <2>1. ~Standing(lcd.prompt, evq, Len(evq))
    BY <1>4 DEF PromptOrder
  <2>2. Len(evq') \in 0..Len(evq') /\ Len(evq') + 1 = Len(evq)
    BY <1>1
  <2>3. QED
    BY <1>2, <2>1, <2>2
<1>5. QED
  BY <1>3, <1>4 DEF PromptOrder

\* Queueing an event: only one that prompts can make a prompt stand, and it is
\* queued when a comparison starts.
LEMMA PromptQueued ==
  ASSUME TypeOK, PromptOrder, NEW e \in Events, Queue(e),
         lcd.prompt' = lcd.prompt,
         \/ e.id \in Clears
         \/ e.id = "confirm_passkey" /\ pairing' = "comparing"
         \/ e.id = "confirm_bonding" /\ pairing \notin {"comparing", "answered"}
         \/ e.id \in {"opened", "characteristic_status"} /\ pairing' = pairing
  PROVE  PromptOrder'
<1> DEFINE n == Len(evq)
<1>1. /\ n \in Nat
      /\ Len(evq') = n + 1
      /\ \A i \in 1..n : evq'[i] = evq[i]
      /\ evq'[n + 1] = e
  BY QueueGrows
<1> HIDE DEF n
<1>2. ASSUME NEW m \in 0..n, Standing(lcd.prompt', evq', m)
      PROVE  Standing(lcd.prompt, evq, m)
  <2>1. \A j \in 1..m : evq'[j] = evq[j]
    BY <1>1
  <2>2. \A k \in 1..m : \A j \in (k + 1)..m : j \in 1..m
    BY <1>1
  <2>3. QED
    BY <1>2, <2>1, <2>2 DEF Standing
<1>3. ASSUME e.id # "confirm_passkey", Standing(lcd.prompt', evq', n + 1)
      PROVE  e.id \notin Clears /\ Standing(lcd.prompt, evq, n)
  <2>1. CASE lcd.prompt' /\ \A j \in 1..(n + 1) : evq'[j].id \notin Clears
    <3>1. n + 1 \in 1..(n + 1) /\ \A j \in 1..n : j \in 1..(n + 1)
      BY <1>1
    <3>2. QED
      BY <1>1, <2>1, <3>1 DEF Standing
  <2>2. CASE \E k \in 1..(n + 1) : /\ evq'[k].id = "confirm_passkey"
                                  /\ \A j \in (k + 1)..(n + 1) : evq'[j].id \notin Clears
    <3>1. PICK k \in 1..(n + 1) : /\ evq'[k].id = "confirm_passkey"
                                  /\ \A j \in (k + 1)..(n + 1) : evq'[j].id \notin Clears
      BY <2>2
    <3>2. k \in 1..n
      BY <1>1, <1>3, <3>1
    <3>3. n + 1 \in (k + 1)..(n + 1)
          /\ \A j \in (k + 1)..n : j \in (k + 1)..(n + 1) /\ j \in 1..n
      BY <1>1, <3>2
    <3>4. QED
      BY <1>1, <3>1, <3>2, <3>3 DEF Standing
  <2>3. QED
    BY <1>3, <2>1, <2>2 DEF Standing
<1>4. ASSUME NEW i \in 1..Len(evq'), evq'[i].id = "confirm_bonding"
      PROVE  ~Standing(lcd.prompt', evq', i - 1)
  <2>1. CASE i \in 1..n
    <3>1. ~Standing(lcd.prompt, evq, i - 1)
      BY <1>1, <1>4, <2>1 DEF PromptOrder, n
    <3>2. i - 1 \in 0..n
      BY <1>1, <2>1
    <3>3. QED
      BY <1>2, <3>1, <3>2
  <2>2. CASE i = n + 1
    <3>1. pairing \notin {"comparing", "answered"}
      BY <1>1, <1>4, <2>2 DEF Clears
    <3>2. ~Standing(lcd.prompt, evq, n)
      BY <3>1 DEF PromptOrder, n
    <3>3. n \in 0..n /\ i - 1 = n
      BY <1>1, <2>2
    <3>4. QED
      BY <1>2, <3>2, <3>3
  <2>3. QED
    BY <1>1, <2>1, <2>2
<1>5. ASSUME pairing' \notin {"comparing", "answered"}
      PROVE  ~Standing(lcd.prompt', evq', Len(evq'))
  <2>1. e.id # "confirm_passkey"
    BY <1>5 DEF Clears
  <2>2. CASE e.id \in Clears
    BY <1>1, <1>3, <2>1, <2>2
  <2>3. CASE e.id \notin Clears
    <3>1. pairing \notin {"comparing", "answered"}
      BY <1>5, <2>1, <2>3
    <3>2. ~Standing(lcd.prompt, evq, n)
      BY <3>1 DEF PromptOrder, n
    <3>3. QED
      BY <1>1, <1>3, <2>1, <3>2
  <2>4. QED
    BY <2>2, <2>3
<1>6. QED
  BY <1>4, <1>5 DEF PromptOrder

\* Every step keeps the order of the prompts.
LEMMA PromptStep ==
  ASSUME TypeOK, PromptOrder, [Next]_vars
  PROVE  PromptOrder'
<1>1. lcd \in [conn : ConnRows, prompt : BOOLEAN, key : KeyRows, notif : BOOLEAN]
  BY DEF TypeOK
<1>2. ASSUME lcd.prompt' = lcd.prompt, UNCHANGED evq,
             pairing' \notin {"comparing", "answered"}
               => pairing \notin {"comparing", "answered"}
      PROVE  PromptOrder'
  BY <1>2 DEF PromptOrder
<1>3. CASE OnExternalSignal
  <2>1. lcd.prompt' = lcd.prompt
    BY <1>1, <1>3 DEF OnExternalSignal
  <2>2. pairing' = pairing \/ (pairing = "comparing" /\ pairing' = "answered")
    BY <1>3 DEF OnExternalSignal
  <2>3. evq' = evq
    BY <1>3 DEF OnExternalSignal
  <2>4. QED
    BY <1>2, <2>1, <2>2, <2>3
<1>4. CASE OnBoot
  BY <1>4, PromptTaken DEF OnBoot, AdvertisingScreen
<1>5. CASE OnOpened
  <2>1. lcd.prompt' = lcd.prompt
    BY <1>1, <1>5 DEF OnOpened
  <2>2. QED
    BY <1>5, <2>1, PromptTaken DEF OnOpened, Clears
<1>6. CASE OnClosed
  BY <1>6, PromptTaken DEF OnClosed, AdvertisingScreen
<1>7. CASE OnCharacteristicStatus
  <2>1. lcd.prompt' = lcd.prompt
    BY <1>1, <1>7 DEF OnCharacteristicStatus
  <2>2. QED
    BY <1>7, <2>1, PromptTaken DEF OnCharacteristicStatus, Clears
<1>8. CASE OnBonded
  <2>1. lcd.prompt' = FALSE
    BY <1>1, <1>8 DEF OnBonded
  <2>2. QED
    BY <1>8, <2>1, PromptTaken DEF OnBonded
<1>9. CASE OnConfirmBonding
  <2>1. lcd.prompt' = lcd.prompt
    BY <1>9 DEF OnConfirmBonding
  <2>2. pairing' = pairing \/ (pairing = "requested" /\ pairing' = "exchanging")
    BY <1>9 DEF OnConfirmBonding
  <2>3. QED
    BY <1>9, <2>1, <2>2, PromptTaken DEF OnConfirmBonding, Clears
<1>10. CASE OnConfirmPasskey
  BY <1>10, PromptTaken DEF OnConfirmPasskey
<1>11. CASE OnBondingFailed
  <2>1. lcd.prompt' = FALSE
    BY <1>1, <1>11 DEF OnBondingFailed
  <2>2. QED
    BY <1>11, <2>1, PromptTaken DEF OnBondingFailed
<1>12. CASE HandleEvent
  BY <1>4, <1>5, <1>6, <1>7, <1>8, <1>9, <1>10, <1>11, <1>12 DEF HandleEvent
<1>13. ASSUME NEW h \in Handles, CentralConnects(h)
       PROVE  PromptOrder'
  <2>1. [id |-> "opened", conn |-> h, arg |-> "none"] \in Events
    BY DEF Events, EventIds, AnyHandle
  <2>2. QED
    BY <1>13, <2>1, PromptQueued DEF CentralConnects, appVars
<1>14. CASE LinkDrops
  <2>1. Event("closed") \in Events
    BY DEF Events, Event, EventIds, TypeOK
  <2>2. QED
    BY <1>14, <2>1, PromptQueued DEF LinkDrops, Event, Clears, appVars
<1>15. ASSUME NEW arg \in {"disable", "notification", "other"}, CentralConfigures(arg)
       PROVE  PromptOrder'
  <2>1. [id |-> "characteristic_status", conn |-> link, arg |-> arg] \in Events
    BY DEF Events, EventIds, StatusArgs, TypeOK
  <2>2. QED
    BY <1>15, <2>1, PromptQueued DEF CentralConfigures, appVars
<1>16. CASE IndicationConfirmed
  <2>1. [id |-> "characteristic_status", conn |-> link, arg |-> "confirmation"] \in Events
    BY DEF Events, EventIds, StatusArgs, TypeOK
  <2>2. QED
    BY <1>16, <2>1, PromptQueued DEF IndicationConfirmed, appVars
<1>17. ASSUME NEW from, NEW to,
              NEW id \in {"confirm_bonding", "confirm_passkey", "bonded", "bonding_failed"},
              Pairs(from, to, id),
              \/ id \in Clears
              \/ id = "confirm_passkey" /\ to = "comparing"
              \/ id = "confirm_bonding" /\ from = {"idle"}
       PROVE  PromptOrder'
  <2>1. Event(id) \in Events /\ Event(id).id = id
    BY DEF Events, Event, EventIds, TypeOK
  <2>2. Queue(Event(id)) /\ lcd' = lcd /\ pairing \in from /\ pairing' = to
    BY <1>17 DEF Pairs, appVars
  <2>3. QED
    BY <1>17, <2>1, <2>2, PromptQueued
<1>18. CASE PairingRequested \/ PasskeyCompared \/ PairingCompletes \/ PairingFails
  BY <1>17, <1>18 DEF PairingRequested, PasskeyCompared, PairingCompletes,
     PairingFails, Clears
<1>19. CASE NotificationReceived \/ UNCHANGED <<appVars, stackVars, histVars>>
  BY <1>2, <1>19 DEF NotificationReceived, appVars, stackVars
<1>20. CASE Environment
  BY <1>13, <1>14, <1>15, <1>16, <1>18, <1>19, <1>20 DEF Environment
<1>21. CASE UNCHANGED vars
  BY <1>2, <1>21 DEF vars, appVars, stackVars
<1>22. QED
  BY <1>3, <1>12, <1>20, <1>21 DEF Next

-----------------------------------------------------------------------------
(* The screen and the flags.                                               *)

\* The rows follow the flags in every step. Where a handler leaves a row alone
\* that its flag belongs to, the invariants say it has nothing to change.
LEMMA ScreenStep ==
  ASSUME TypeOK, Life, PromptOrder, ScreenAgrees, [Next]_vars
  PROVE  ScreenAgrees'
<1>1. lcd \in [conn : ConnRows, prompt : BOOLEAN, key : KeyRows, notif : BOOLEAN]
  BY DEF TypeOK
<1>2. ASSUME lcd'.conn = lcd.conn, lcd'.prompt = lcd.prompt,
             UNCHANGED <<connection_open, bonding_flag, passkey_flag>>
      PROVE  ScreenAgrees'
  BY <1>2 DEF ScreenAgrees
<1>3. CASE OnExternalSignal
  BY <1>1, <1>2, <1>3 DEF OnExternalSignal
<1>4. CASE OnBoot
  <2>1. ~connection_open
    <3>1. evq # <<>> /\ evq[1].id = "boot" /\ Len(evq) \in Nat \ {0}
      BY <1>4, TakeShift DEF OnBoot
    <3>2. QED
      BY <3>1 DEF Life, Asleep, Findable, Engaged, InOrder
  <2>2. QED
    BY <1>4, <2>1 DEF OnBoot, AdvertisingScreen, ScreenAgrees
<1>5. CASE OnOpened
  <2>1. ~connection_open
    BY <1>5, OpenedLife
  <2>2. ~bonding_flag /\ ~lcd.prompt
    BY <1>1, <2>1 DEF ScreenAgrees
  <2>3. lcd'.conn = "Connected" /\ lcd'.prompt = lcd.prompt
    BY <1>1, <1>5 DEF OnOpened
  <2>4. connection_open' = TRUE /\ bonding_flag' = bonding_flag
    BY <1>5 DEF OnOpened
  <2>5. QED
    BY <2>2, <2>3, <2>4 DEF ScreenAgrees
<1>6. CASE OnClosed
  BY <1>6 DEF OnClosed, AdvertisingScreen, ScreenAgrees
<1>7. CASE OnCharacteristicStatus
  BY <1>1, <1>2, <1>7 DEF OnCharacteristicStatus
<1>8. CASE OnBonded \/ OnConfirmPasskey \/ OnBondingFailed
  <2>1. connection_open
    BY <1>8, PlainLife DEF OnBonded, OnConfirmPasskey, OnBondingFailed, EventIds
  <2>2. CASE OnBonded
    <3>1. lcd'.conn = "Bonded" /\ lcd'.prompt = FALSE
      BY <1>1, <2>2 DEF OnBonded
    <3>2. connection_open' = connection_open /\ bonding_flag' = TRUE
      BY <2>2 DEF OnBonded
    <3>3. QED
      BY <2>1, <3>1, <3>2 DEF ScreenAgrees
  <2>3. CASE OnConfirmPasskey
    <3>1. lcd'.conn = lcd.conn
      BY <1>1, <2>3 DEF OnConfirmPasskey
    <3>2. /\ UNCHANGED <<connection_open, bonding_flag>>
          /\ passkey_flag' = TRUE
      BY <2>3 DEF OnConfirmPasskey
    <3>3. QED
      BY <2>1, <3>1, <3>2 DEF ScreenAgrees
  <2>4. CASE OnBondingFailed
    <3>1. lcd'.conn = "Failed" /\ lcd'.prompt = FALSE
      BY <1>1, <2>4 DEF OnBondingFailed
    <3>2. connection_open' = connection_open /\ bonding_flag' = FALSE
      BY <2>4 DEF OnBondingFailed
    <3>3. QED
      BY <2>1, <3>1, <3>2 DEF ScreenAgrees
  <2>5. QED
    BY <1>8, <2>2, <2>3, <2>4
<1>9. CASE OnConfirmBonding
  <2>1. evq[1].id = "confirm_bonding" /\ 1 \in 1..Len(evq)
    BY <1>9, TakeShift DEF OnConfirmBonding
  <2>2. ~Standing(lcd.prompt, evq, 1 - 1)
    BY <2>1 DEF PromptOrder
  <2>3. ~lcd.prompt
    BY <2>2 DEF Standing
  <2>4. UNCHANGED <<lcd, connection_open, bonding_flag>>
    BY <1>9 DEF OnConfirmBonding
  <2>5. QED
    BY <2>3, <2>4 DEF ScreenAgrees
<1>10. CASE HandleEvent
  BY <1>4, <1>5, <1>6, <1>7, <1>8, <1>9, <1>10 DEF HandleEvent
<1>11. CASE Environment
  <2>1. UNCHANGED appVars
    BY <1>11 DEF Environment, CentralConnects, LinkDrops, CentralConfigures,
       IndicationConfirmed, NotificationReceived, PairingRequested, PasskeyCompared,
       PairingCompletes, PairingFails, Pairs
  <2>2. QED
    BY <1>2, <2>1 DEF appVars
<1>12. CASE UNCHANGED vars
  BY <1>2, <1>12 DEF vars, appVars
<1>13. QED
  BY <1>3, <1>10, <1>11, <1>12 DEF Next

\* The LCD shows a connection, a bond and a passkey to confirm exactly when the
\* flags say so, in whatever order pairings start, fail and are cut off.
THEOREM ScreenIsRight == Spec => []ScreenAgrees
<1>1. Init => Life /\ PromptOrder /\ ScreenAgrees
  <2> SUFFICES ASSUME Init PROVE Life /\ PromptOrder /\ ScreenAgrees
    OBVIOUS
  <2>1. Life
    BY DEF Init, Life, Asleep, Event
  <2>2. /\ Len(evq) = 1 /\ evq[1].id = "boot"
        /\ lcd.prompt = FALSE
    BY DEF Init
  <2>3. PromptOrder
    BY <2>2 DEF PromptOrder, Standing
  <2>4. ScreenAgrees
    BY DEF Init, ScreenAgrees
  <2>5. QED
    BY <2>1, <2>3, <2>4
<1>2. TypeOK /\ Life /\ PromptOrder /\ ScreenAgrees /\ [Next]_vars
        => Life' /\ PromptOrder' /\ ScreenAgrees'
  BY LifeStep, PromptStep, ScreenStep
<1>3. QED
  BY <1>1, <1>2, TypeCorrect, PTL DEF Spec

=============================================================================
