------------------------- MODULE DoorContactProofs -------------------------
(***************************************************************************)
(* Proofs about DoorContact: its invariants, with and without BUTTON_GATE, *)
(* and that it implements ContactSpec.                                     *)
(***************************************************************************)
EXTENDS DoorContact, TLAPS

USE DEF Statuses, STATUS_ALARM, STATUS_NO_ALARM

\* idleSensor and sensorStateChangeDebounce keep the types of what they set.
LEMMA IdleSensorType ==
  ASSUME TypeOK, idleSensor
  PROVE  /\ debounceEvent' \in BOOLEAN
         /\ lastStatus' \in Statuses
         /\ newStatus' \in Statuses
<1>1. debounceEvent' \in BOOLEAN
  BY Zenon DEF TypeOK, idleSensor
<1>. QED
  BY <1>1 DEF TypeOK, idleSensor

LEMMA StateChangeType ==
  ASSUME TypeOK, NEW s \in Statuses, sensorStateChangeDebounce(s)
  PROVE  /\ debounceEvent' \in BOOLEAN
         /\ lastStatus' \in Statuses
         /\ newStatus' \in Statuses
<1>1. CASE idleSensor
  BY <1>1, IdleSensorType
<1>2. CASE StopDebounce
  <2>1. debounceEvent' \in BOOLEAN
    BY <1>2, Zenon DEF StopDebounce
  <2>. QED
    BY <1>2, <2>1 DEF TypeOK, StopDebounce
<1>3. CASE StartDebounce(s)
  <2>1. debounceEvent' \in BOOLEAN
    BY <1>3, Zenon DEF StartDebounce
  <2>. QED
    BY <1>3, <2>1 DEF TypeOK, StartDebounce
<1>. QED
  BY <1>1, <1>2, <1>3 DEF sensorStateChangeDebounce

\* Every variable keeps its type, in particular the statuses that the events
\* carry to the zone status attribute.
THEOREM TypeCorrect == Spec => []TypeOK
<1>1. Init => TypeOK
  BY DEF Init, TypeOK, Turns
<1>2. TypeOK /\ [Next]_vars => TypeOK'
  <2> SUFFICES ASSUME TypeOK, [Next]_vars PROVE TypeOK'
    OBVIOUS
  <2> USE DEF TypeOK, Turns
  <2>1. CASE ContactMoves
    BY <2>1 DEF ContactMoves, eventVars, statusVars, historyVars
  <2>2. CASE ButtonIsrClears
    <3>1. irq' \in BOOLEAN /\ isr' \in BOOLEAN
      BY <2>2, Zenon DEF ButtonIsrClears
    <3>. QED
      BY <2>2, <3>1 DEF ButtonIsrClears, eventVars, statusVars, historyVars
  <2>3. CASE ButtonIsrReads
    <3>1. /\ isr' \in BOOLEAN /\ pressEvent' \in BOOLEAN
          /\ releaseEvent' \in BOOLEAN /\ moved' \in BOOLEAN
          /\ overrun' \in BOOLEAN
      BY <2>3, Zenon DEF ButtonIsrReads
    <3>. QED
      BY <2>3, <3>1 DEF ButtonIsrReads, statusVars
  <2>4. CASE CheckForSleep
    BY <2>4 DEF CheckForSleep, pinVars, eventVars, statusVars, historyVars
  <2>5. CASE PowerDown
    BY <2>5 DEF PowerDown, pinVars, eventVars, statusVars, historyVars
  <2>6. CASE WakeUp
    BY <2>6 DEF WakeUp, pinVars, eventVars, statusVars, historyVars
  <2>7. CASE Button0Events
    <3>1. buttonActive' \in BOOLEAN
      BY <2>7, Zenon DEF Button0Events
    <3>2. /\ debounceEvent' \in BOOLEAN
          /\ lastStatus' \in Statuses
          /\ newStatus' \in Statuses
      BY <2>7, IdleSensorType DEF Button0Events, statusVars
    <3>. QED
      BY <2>7, <3>1, <3>2 DEF Button0Events, pinVars, eventVars, statusVars,
                              historyVars
  <2>8. CASE Button1PressedEventHandler
    <3>1. pressEvent' \in BOOLEAN
      BY <2>8, Zenon DEF Button1PressedEventHandler
    <3>2. /\ debounceEvent' \in BOOLEAN
          /\ lastStatus' \in Statuses
          /\ newStatus' \in Statuses
      BY <2>8, StateChangeType DEF Button1PressedEventHandler
    <3>. QED
      BY <2>8, <3>1, <3>2 DEF Button1PressedEventHandler, pinVars, historyVars
  <2>9. CASE Button1ReleasedEventHandler
    <3>1. releaseEvent' \in BOOLEAN
      BY <2>9, Zenon DEF Button1ReleasedEventHandler
    <3>2. /\ debounceEvent' \in BOOLEAN
          /\ lastStatus' \in Statuses
          /\ newStatus' \in Statuses
      BY <2>9, StateChangeType DEF Button1ReleasedEventHandler
    <3>. QED
      BY <2>9, <3>1, <3>2 DEF Button1ReleasedEventHandler, pinVars, historyVars
  <2>10. CASE DebounceEventHandler
    <3>1. debounceEvent' \in BOOLEAN
      BY <2>10, Zenon DEF DebounceEventHandler
    <3>. QED
      BY <2>10, <3>1 DEF DebounceEventHandler, pinVars, eventVars, historyVars
  <2>11. CASE DebounceNotDue
    BY <2>11 DEF DebounceNotDue, pinVars, eventVars, statusVars, historyVars
  <2>12. CASE UNCHANGED vars
    BY <2>12 DEF vars, pinVars, eventVars, statusVars, historyVars
  <2>. QED
    BY <2>1, <2>2, <2>3, <2>4, <2>5, <2>6, <2>7, <2>8, <2>9, <2>10, <2>11,
       <2>12 DEF Next, Isr, Loop
<1>. QED
  BY <1>1, <1>2, PTL DEF Spec

-----------------------------------------------------------------------------
(* The invariants.  SeenUnlessInterrupted and LastMoveUnderWay are what     *)
(* makes QuietContactReported inductive: wherever the last move of the      *)
(* contact is on its way, it is the only one there.                         *)

SeenUnlessInterrupted == ~irq /\ ~isr => buttonState = pin

LastMoveUnderWay ==
  ~ButtonGate /\ moved /\ ~overrun =>
    /\ pressEvent => ~releaseEvent /\ buttonState = STATUS_ALARM
    /\ releaseEvent => buttonState = STATUS_NO_ALARM
    /\ ~pressEvent /\ ~releaseEvent
         => buttonState = IF debounceEvent THEN newStatus ELSE lastStatus

StatusInv == DebouncesAChange /\ LastStatusReported /\ GateHolds

\* What a step can do to the debounce and to the statuses.
LEMMA StatusStep ==
  ASSUME [Next]_vars
  PROVE  \/ UNCHANGED <<statusVars, buttonActive>>
         \/ idleSensor /\ UNCHANGED zoneStatus
         \/ UNCHANGED statusVars /\ buttonActive' = FALSE
         \/ /\ \E s \in Statuses : sensorStateChangeDebounce(s)
            /\ UNCHANGED <<zoneStatus, buttonActive>>
         \/ DebounceEventHandler
<1> USE DEF statusVars
<1>1. CASE Isr \/ ContactMoves
  BY <1>1 DEF Isr, ButtonIsrClears, ButtonIsrReads, ContactMoves
<1>2. CASE CheckForSleep \/ PowerDown \/ WakeUp \/ DebounceNotDue
  BY <1>2 DEF CheckForSleep, PowerDown, WakeUp, DebounceNotDue
<1>3. CASE Button0Events
  BY <1>3 DEF Button0Events
<1>4. CASE Button1PressedEventHandler
  BY <1>4 DEF Button1PressedEventHandler
<1>5. CASE Button1ReleasedEventHandler
  BY <1>5 DEF Button1ReleasedEventHandler
<1>6. CASE DebounceEventHandler
  BY <1>6
<1>7. CASE UNCHANGED vars
  BY <1>7 DEF vars
<1>. QED
  BY <1>1, <1>2, <1>3, <1>4, <1>5, <1>6, <1>7 DEF Next, Loop

LEMMA StatusInvStep ==
  ASSUME TypeOK, StatusInv, [Next]_vars
  PROVE  StatusInv'
<1> USE DEF StatusInv, DebouncesAChange, LastStatusReported, GateHolds,
            isButtonActive, statusVars
<1>1. CASE UNCHANGED <<statusVars, buttonActive>>
  BY <1>1
<1>2. CASE idleSensor /\ UNCHANGED zoneStatus
  BY <1>2 DEF idleSensor
<1>3. CASE UNCHANGED statusVars /\ buttonActive' = FALSE
  BY <1>3
<1>4. ASSUME NEW s \in Statuses, sensorStateChangeDebounce(s),
             UNCHANGED <<zoneStatus, buttonActive>>
      PROVE  StatusInv'
  BY <1>4 DEF sensorStateChangeDebounce, idleSensor, StartDebounce, StopDebounce
<1>5. CASE DebounceEventHandler
  BY <1>5 DEF DebounceEventHandler
<1>. QED
  BY <1>1, <1>2, <1>3, <1>4, <1>5, StatusStep

LEMMA StatusInvHolds == Spec => [](TypeOK /\ StatusInv)
<1>1. Init => StatusInv
  BY DEF Init, StatusInv, DebouncesAChange, LastStatusReported, GateHolds,
         isButtonActive
<1>. QED
  BY <1>1, TypeCorrect, StatusInvStep, PTL DEF Spec

\* A debounce under way is one of a change, with BUTTON_GATE or without.
THEOREM DebounceCorrect == Spec => []DebouncesAChange
BY StatusInvHolds, PTL DEF StatusInv

\* Without BUTTON_GATE, lastStatus and the zone status attribute agree.
THEOREM LastStatusCorrect == Spec => []LastStatusReported
BY StatusInvHolds, PTL DEF StatusInv

\* With BUTTON_GATE, nothing is debounced while BUTTON0 is down.
THEOREM GateCorrect == Spec => []GateHolds
BY StatusInvHolds, PTL DEF StatusInv

LEMMA SeenStep ==
  ASSUME TypeOK, SeenUnlessInterrupted, [Next]_vars
  PROVE  SeenUnlessInterrupted'
<1> USE DEF SeenUnlessInterrupted
<1>1. CASE UNCHANGED pinVars
  BY <1>1 DEF pinVars
<1>2. CASE ContactMoves
  BY <1>2 DEF ContactMoves
<1>3. CASE ButtonIsrClears
  BY <1>3 DEF ButtonIsrClears
<1>4. CASE ButtonIsrReads
  BY <1>4 DEF ButtonIsrReads
<1>5. CASE Loop \/ UNCHANGED vars
  BY <1>1, <1>5 DEF Loop, CheckForSleep, PowerDown, WakeUp, Button0Events,
     Button1PressedEventHandler, Button1ReleasedEventHandler,
     DebounceEventHandler, DebounceNotDue, vars
<1>. QED
  BY <1>2, <1>3, <1>4, <1>5 DEF Next, Isr

LEMMA LastMoveStep ==
  ASSUME TypeOK, LastMoveUnderWay, [Next]_vars
  PROVE  LastMoveUnderWay'
<1> SUFFICES ASSUME ~ButtonGate, moved', ~overrun' PROVE LastMoveUnderWay'
  BY DEF LastMoveUnderWay
<1> USE DEF LastMoveUnderWay, TypeOK
<1>1. CASE UNCHANGED <<buttonState, eventVars, debounceEvent, lastStatus,
                       newStatus, historyVars>>
  BY <1>1 DEF eventVars, historyVars
<1>2. CASE ButtonIsrReads
  <2>1. pressEvent' <=> (pressEvent \/ STATUS_ALARM \in Told)
    BY <1>2 DEF ButtonIsrReads
  <2>2. releaseEvent' <=> (releaseEvent \/ STATUS_NO_ALARM \in Told)
    BY <1>2 DEF ButtonIsrReads
  <2>3. ~(pressEvent' /\ releaseEvent')
    BY <1>2 DEF ButtonIsrReads
  <2>4. Told = {pin} /\ buttonState' = pin
    BY <1>2, <2>1, <2>2, <2>3 DEF ButtonIsrReads, Told
  <2>. QED
    BY <2>1, <2>2, <2>3, <2>4
<1>3. CASE Button1PressedEventHandler
  BY <1>3 DEF Button1PressedEventHandler, sensorStateChangeDebounce,
     isButtonActive, StartDebounce, StopDebounce, pinVars, historyVars
<1>4. CASE Button1ReleasedEventHandler
  BY <1>4 DEF Button1ReleasedEventHandler, sensorStateChangeDebounce,
     isButtonActive, StartDebounce, StopDebounce, pinVars, historyVars
<1>5. CASE DebounceEventHandler
  BY <1>5 DEF DebounceEventHandler, pinVars, eventVars, historyVars
<1>6. CASE Button0Events
  BY <1>1, <1>6 DEF Button0Events, idleSensor, pinVars, statusVars
<1>7. CASE ContactMoves \/ ButtonIsrClears \/ UNCHANGED vars
  BY <1>1, <1>7 DEF ContactMoves, ButtonIsrClears, vars, pinVars, statusVars
<1>8. CASE CheckForSleep \/ PowerDown \/ WakeUp \/ DebounceNotDue
  BY <1>1, <1>8 DEF CheckForSleep, PowerDown, WakeUp, DebounceNotDue,
     pinVars, statusVars
<1>. QED
  BY <1>2, <1>3, <1>4, <1>5, <1>6, <1>7, <1>8 DEF Next, Isr, Loop

\* A settled pipeline that no interrupt overran reports the contact as it is,
\* however moves, interrupts, handlers and sleep interleaved before.
THEOREM QuietContactCorrect == Spec => []QuietContactReported
<1>1. Init => SeenUnlessInterrupted /\ LastMoveUnderWay
  BY DEF Init, SeenUnlessInterrupted, LastMoveUnderWay
<1>2. SeenUnlessInterrupted /\ LastMoveUnderWay /\ StatusInv
        => QuietContactReported
  BY DEF SeenUnlessInterrupted, LastMoveUnderWay, StatusInv,
         LastStatusReported, QuietContactReported, Settled
<1>. QED
  BY <1>1, <1>2, SeenStep, LastMoveStep, StatusInvHolds, PTL DEF Spec

-----------------------------------------------------------------------------
(* The refinement *)

\* No step but a move of the contact adds a status that may be reported.
LEMMA PendingShrinks ==
  ASSUME TypeOK, [Next]_vars, ~ContactMoves
  PROVE  PendingStatuses' \subseteq PendingStatuses
<1> USE DEF PendingStatuses, ToBeTold, Told, TypeOK
<1>1. CASE UNCHANGED <<pinVars, eventVars, statusVars>>
  BY <1>1 DEF pinVars, eventVars, statusVars
<1>2. CASE ButtonIsrClears
  BY <1>2 DEF ButtonIsrClears, eventVars, statusVars
<1>3. CASE ButtonIsrReads
  <2>1. pressEvent' <=> (pressEvent \/ STATUS_ALARM \in Told)
    BY <1>3 DEF ButtonIsrReads
  <2>2. releaseEvent' <=> (releaseEvent \/ STATUS_NO_ALARM \in Told)
    BY <1>3 DEF ButtonIsrReads
  <2>3. ~isr' /\ isr /\ buttonState' = pin /\ pin' = pin /\ irq' = irq
        /\ UNCHANGED statusVars
    BY <1>3 DEF ButtonIsrReads
  <2>. QED
    BY <2>1, <2>2, <2>3 DEF statusVars
<1>4. CASE Button1PressedEventHandler
  BY <1>4 DEF Button1PressedEventHandler, sensorStateChangeDebounce,
     isButtonActive, idleSensor, StartDebounce, StopDebounce, pinVars
<1>5. CASE Button1ReleasedEventHandler
  BY <1>5 DEF Button1ReleasedEventHandler, sensorStateChangeDebounce,
     isButtonActive, idleSensor, StartDebounce, StopDebounce, pinVars
<1>6. CASE DebounceEventHandler
  BY <1>6 DEF DebounceEventHandler, pinVars, eventVars
<1>7. CASE Button0Events
  <2>1. /\ UNCHANGED <<pinVars, eventVars, newStatus>>
        /\ debounceEvent' => debounceEvent
    BY <1>7 DEF Button0Events, idleSensor, statusVars
  <2>. QED
    BY <2>1 DEF pinVars, eventVars
<1>8. CASE CheckForSleep \/ PowerDown \/ WakeUp \/ DebounceNotDue
  BY <1>1, <1>8 DEF CheckForSleep, PowerDown, WakeUp, DebounceNotDue
<1>9. CASE UNCHANGED vars
  BY <1>1, <1>9 DEF vars
<1>. QED
  BY <1>2, <1>3, <1>4, <1>5, <1>6, <1>7, <1>8, <1>9 DEF Next, Isr, Loop

LEMMA MoveRefines ==
  ASSUME TypeOK, SeenUnlessInterrupted, ContactMoves
  PROVE  Contact!Move
<1> USE DEF ContactMoves, TypeOK, PendingStatuses, ToBeTold, Told,
            eventVars, statusVars, SeenUnlessInterrupted
<1>1. pin' = 1 - pin /\ UNCHANGED zoneStatus
  OBVIOUS
<1>2. pin' \in PendingStatuses'
  OBVIOUS
<1>3. PendingStatuses' \subseteq PendingStatuses \union {pin'}
  OBVIOUS
<1>. QED
  BY <1>1, <1>2, <1>3 DEF Contact!Move

\* With BUTTON_GATE and without, the handlers do what ContactSpec allows: the
\* zone status becomes a status that the contact took and that was not dropped.
\* (With the gate a status may be reported again, which changes nothing here.)
THEOREM ContactRefinement == Spec => ImplementsContactSpec
<1>1. Init => Contact!Init
  BY DEF Init, Contact!Init, PendingStatuses, ToBeTold, Contact!Statuses
<1>2. ASSUME TypeOK, StatusInv, SeenUnlessInterrupted, [Next]_vars
      PROVE  [Contact!Next]_(Contact!vars)
  <2>1. CASE ContactMoves
    BY <1>2, <2>1, MoveRefines DEF Contact!Next
  <2>2. CASE DebounceEventHandler
    <3>1. PendingStatuses' \subseteq PendingStatuses
      BY <1>2, <2>2, PendingShrinks DEF DebounceEventHandler, ContactMoves,
         AtTurn, pinVars, TypeOK
    <3>2. zoneStatus' = newStatus /\ newStatus \in PendingStatuses
          /\ UNCHANGED pin
      BY <2>2 DEF DebounceEventHandler, PendingStatuses, pinVars
    <3>3. zoneStatus' = zoneStatus \/ zoneStatus' = 1 - zoneStatus
      BY <1>2, <3>2 DEF TypeOK, Statuses, STATUS_NO_ALARM, STATUS_ALARM
    <3>. QED
      BY <3>1, <3>2, <3>3 DEF Contact!Next, Contact!Report, Contact!Forget
  <2>3. CASE ~ContactMoves /\ ~DebounceEventHandler
    <3>1. PendingStatuses' \subseteq PendingStatuses
      BY <1>2, <2>3, PendingShrinks
    <3>2. UNCHANGED zoneStatus
      BY <1>2, <2>3, StatusStep DEF statusVars
    <3>3. UNCHANGED pin
      BY <1>2, <2>3 DEF Next, Isr, Loop, ButtonIsrClears, ButtonIsrReads,
         CheckForSleep, PowerDown, WakeUp, Button0Events,
         Button1PressedEventHandler, Button1ReleasedEventHandler,
         DebounceNotDue, pinVars, vars
    <3>. QED
      BY <3>1, <3>2, <3>3 DEF Contact!Next, Contact!Forget
  <2>. QED
    BY <2>1, <2>2, <2>3
<1>3. Init => SeenUnlessInterrupted
  BY DEF Init, SeenUnlessInterrupted
<1>. QED
  BY <1>1, <1>2, <1>3, SeenStep, StatusInvHolds, PTL
  DEF Spec, ImplementsContactSpec, Contact!Spec
=============================================================================
