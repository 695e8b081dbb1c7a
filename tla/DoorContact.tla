---------------------------- MODULE DoorContact ----------------------------
(***************************************************************************)
(* From the magnetic contact (BUTTON1) to the zone status: the edge        *)
(* interrupt, the two events that it activates, their handlers in the main *)
(* loop, the debounce event, and the deep sleep that the interrupt has to  *)
(* end.  A state of the button is written as the status that it stands for *)
(* (SENSOR_POLARITY is 0: pressed is STATUS_ALARM).                        *)
(*                                                                         *)
(* An interrupt may run between any two steps of the main loop.  A handler *)
(* is one step: it clears its event first, and what follows does not touch *)
(* the variables of the interrupt, so that an interrupt in the middle of a *)
(* handler is one that follows it.                                         *)
(***************************************************************************)
EXTENDS Integers

CONSTANT ButtonGate   \* EMBER_AF_PLUGIN_SENSOR_IFACE_BUTTON_GATE # 0

ASSUME GateAssumption == ButtonGate \in BOOLEAN

STATUS_NO_ALARM == 0
STATUS_ALARM == 1
Statuses == {STATUS_NO_ALARM, STATUS_ALARM}

VARIABLES
  pin,            \* the level of the pin, BUTTON1_IN
  irq,            \* the interrupt flag of the pin, INT_GPIOFLAG
  isr,            \* BUTTON1_ISR cleared the flag and has not read the pin
  buttonState,    \* button1State
  pressEvent,     \* buttonEvent1 is active
  releaseEvent,   \* buttonEvent1Released is active
  debounceEvent,  \* debounceEventControl is armed
  lastStatus, newStatus,
  buttonActive,   \* button0PressedState is SHORT or LONG
  zoneStatus,     \* the zone status attribute
  turn,           \* where the main loop is
  moved,          \* history: an interrupt saw the contact since the boot
  overrun         \* history: the last interrupt left both events active

pinVars == <<pin, irq, isr, buttonState>>
eventVars == <<pressEvent, releaseEvent>>
statusVars == <<debounceEvent, lastStatus, newStatus, zoneStatus>>
historyVars == <<moved, overrun>>
vars == <<pinVars, eventVars, statusVars, buttonActive, turn, historyVars>>

\* The stops of one pass of the loop: the sleep check, its two ways into
\* deep sleep, and the events in the order of emAfEvents.
Turns == {"check", "goingDown", "asleep",
          "button0", "pressed", "released", "debounce"}

Init ==
  /\ pin \in Statuses
  /\ buttonState = pin
  /\ irq = FALSE /\ isr = FALSE
  /\ pressEvent = FALSE /\ releaseEvent = FALSE /\ debounceEvent = FALSE
  /\ lastStatus = STATUS_NO_ALARM
  /\ newStatus = STATUS_NO_ALARM
  /\ zoneStatus = STATUS_NO_ALARM
  /\ buttonActive = FALSE
  /\ turn = "check"
  /\ moved = FALSE /\ overrun = FALSE

-----------------------------------------------------------------------------
(* The contact and its interrupt *)

\* The contact opens or closes; the interrupt is set to both edges.
ContactMoves ==
  /\ pin' = 1 - pin
  /\ irq' = TRUE
  /\ UNCHANGED <<isr, buttonState, eventVars, statusVars, buttonActive, turn,
                 historyVars>>

\* BUTTON1_ISR, "clear int before read".  Interrupts are off in the ATOMIC
\* block around the sleep.
ButtonIsrClears ==
  /\ irq /\ ~isr
  /\ turn # "asleep"
  /\ irq' = FALSE
  /\ isr' = TRUE
  /\ UNCHANGED <<pin, buttonState, eventVars, statusVars, buttonActive, turn,
                 historyVars>>

\* Mutant of Told: every edge is taken for a double transition.
ToldBoth == {pin, 1 - pin}

\* What BUTTON1_ISR tells the application, through halButtonIsr and
\* buttonPress: the new state, or both of them after a double transition.
Told == IF buttonState # pin THEN {pin} ELSE Statuses

ButtonIsrReads ==
  /\ isr
  /\ isr' = FALSE
  /\ buttonState' = pin
  /\ pressEvent' = (pressEvent \/ STATUS_ALARM \in Told)
  /\ releaseEvent' = (releaseEvent \/ STATUS_NO_ALARM \in Told)
  /\ moved' = TRUE
  /\ overrun' = (pressEvent' /\ releaseEvent')
  /\ UNCHANGED <<pin, irq, statusVars, buttonActive, turn>>

-----------------------------------------------------------------------------
(* sensor-iface.c *)

\* Nothing but the interrupt runs between the two halves of BUTTON1_ISR.
AtTurn(t) == turn = t /\ ~isr

\* Mutant of idleSensor: a debounce that is under way goes on.
idleSensorKeepsDebounce ==
  /\ lastStatus' = IF ButtonGate THEN STATUS_NO_ALARM ELSE lastStatus
  /\ UNCHANGED <<debounceEvent, newStatus>>

idleSensor ==
  /\ debounceEvent' = (debounceEvent /\ ~ButtonGate)
  /\ lastStatus' = IF ButtonGate THEN STATUS_NO_ALARM ELSE lastStatus
  /\ UNCHANGED newStatus

isButtonActive == ButtonGate /\ buttonActive

\* Mutant of StartDebounce: the bit of the second alarm is set.
SecondAlarm(s) ==
  /\ newStatus' = 2 * s
  /\ debounceEvent' = TRUE
  /\ UNCHANGED lastStatus

\* Mutant of StartDebounce: the status counts as the last one at once.
LastStatusTooEarly(s) ==
  /\ newStatus' = s
  /\ debounceEvent' = TRUE
  /\ lastStatus' = s

\* A status that is not the last one waits for the debounce time, in place
\* of the one that was waiting.
StartDebounce(s) ==
  /\ newStatus' = s
  /\ debounceEvent' = TRUE
  /\ UNCHANGED lastStatus

\* Mutant of StopDebounce: the debounce goes on.
DebounceNotStopped == UNCHANGED <<debounceEvent, lastStatus, newStatus>>

\* "we went back to last status before debounce.  don't send the message."
StopDebounce ==
  /\ debounceEvent' = FALSE
  /\ UNCHANGED <<lastStatus, newStatus>>

sensorStateChangeDebounce(s) ==
  \/ isButtonActive /\ idleSensor
  \/ ~isButtonActive /\ s = lastStatus /\ StopDebounce
  \/ ~isButtonActive /\ s # lastStatus /\ StartDebounce(s)

\* BUTTON0 only matters here by what it does to the sensor.
Button0Events ==
  /\ AtTurn("button0")
  /\ turn' = "pressed"
  /\ \/ UNCHANGED <<statusVars, buttonActive>>
     \/ /\ idleSensor                    \* Button0PressedEventHandler
        /\ buttonActive' = TRUE
        /\ UNCHANGED zoneStatus
     \/ /\ buttonActive' = FALSE         \* Button0ReleasedEventHandler
        /\ UNCHANGED statusVars
  /\ UNCHANGED <<pinVars, eventVars, historyVars>>

Button1PressedEventHandler ==
  /\ AtTurn("pressed")
  /\ turn' = "released"
  /\ pressEvent' = FALSE
  /\ IF pressEvent THEN sensorStateChangeDebounce(STATUS_ALARM)
     ELSE UNCHANGED <<debounceEvent, lastStatus, newStatus>>
  /\ UNCHANGED <<pinVars, releaseEvent, zoneStatus, buttonActive, historyVars>>

Button1ReleasedEventHandler ==
  /\ AtTurn("released")
  /\ turn' = "debounce"
  /\ releaseEvent' = FALSE
  /\ IF releaseEvent THEN sensorStateChangeDebounce(STATUS_NO_ALARM)
     ELSE UNCHANGED <<debounceEvent, lastStatus, newStatus>>
  /\ UNCHANGED <<pinVars, pressEvent, zoneStatus, buttonActive, historyVars>>

\* Mutant of DebounceEventHandler: the last status is not remembered.
DebounceForgetsLast ==
  /\ AtTurn("debounce")
  /\ debounceEvent
  /\ turn' = "check"
  /\ debounceEvent' = FALSE
  /\ zoneStatus' = newStatus
  /\ UNCHANGED <<pinVars, eventVars, lastStatus, newStatus, buttonActive,
                 historyVars>>

\* The debounce time is over: the status is reported.
DebounceEventHandler ==
  /\ AtTurn("debounce")
  /\ debounceEvent
  /\ turn' = "check"
  /\ debounceEvent' = FALSE
  /\ lastStatus' = newStatus
  /\ zoneStatus' = newStatus
  /\ UNCHANGED <<pinVars, eventVars, newStatus, buttonActive, historyVars>>

\* Nothing to debounce, or the time is not over yet.
DebounceNotDue ==
  /\ AtTurn("debounce")
  /\ turn' = "check"
  /\ UNCHANGED <<pinVars, eventVars, statusVars, buttonActive, historyVars>>

-----------------------------------------------------------------------------
(* idle-sleep-soc.c *)

\* emberAfMsToNextEventExtended is not 0.
OkToSleep == ~pressEvent /\ ~releaseEvent

\* emberAfCheckForSleepCallback: the device sleeps or something else (another
\* event, the stack, a sleep control) keeps it awake.
CheckForSleep ==
  /\ AtTurn("check")
  /\ turn' \in {"button0"} \union (IF OkToSleep THEN {"goingDown"} ELSE {})
  /\ UNCHANGED <<pinVars, eventVars, statusVars, buttonActive, historyVars>>

\* fullSleep: interrupts are on until the ATOMIC block.
PowerDown ==
  /\ AtTurn("goingDown")
  /\ turn' = "asleep"
  /\ UNCHANGED <<pinVars, eventVars, statusVars, buttonActive, historyVars>>

\* The pin wakes the chip, also by an interrupt that was pending when it
\* went to sleep; so does the timer of the next event.
WakeUp ==
  /\ turn = "asleep"
  /\ turn' = "button0"
  /\ UNCHANGED <<pinVars, eventVars, statusVars, buttonActive, historyVars>>

Isr == ButtonIsrClears \/ ButtonIsrReads

Loop ==
  \/ CheckForSleep \/ PowerDown \/ WakeUp
  \/ Button0Events \/ Button1PressedEventHandler \/ Button1ReleasedEventHandler
  \/ DebounceEventHandler \/ DebounceNotDue

Next == ContactMoves \/ Isr \/ Loop

Spec == Init /\ [][Next]_vars

\* The loop goes on and the debounce time passes; an interrupt that is
\* pending is served as soon as it is not masked, which the ATOMIC block of
\* the sleep does again and again: strong fairness.
Fairness ==
  /\ SF_vars(ButtonIsrClears)
  /\ WF_vars(ButtonIsrReads)
  /\ WF_vars(Loop)
  /\ SF_vars(DebounceEventHandler)

FairSpec == Spec /\ Fairness
-----------------------------------------------------------------------------
(* Properties *)

TypeOK ==
  /\ pin \in Statuses
  /\ irq \in BOOLEAN
  /\ isr \in BOOLEAN
  /\ buttonState \in Statuses
  /\ pressEvent \in BOOLEAN
  /\ releaseEvent \in BOOLEAN
  /\ debounceEvent \in BOOLEAN
  /\ lastStatus \in Statuses
  /\ newStatus \in Statuses
  /\ buttonActive \in BOOLEAN
  /\ zoneStatus \in Statuses
  /\ turn \in Turns
  /\ moved \in BOOLEAN
  /\ overrun \in BOOLEAN

\* No interrupt, event or debounce is under way.
Settled ==
  /\ ~irq /\ ~isr
  /\ ~pressEvent /\ ~releaseEvent /\ ~debounceEvent

\* Once every interrupt and event is served, the zone status is the one of
\* the contact, provided that the last interrupt left one event active.
\* (sensor-iface.c, the two events, the debounce and lastStatus together.)
QuietContactReported ==
  Settled /\ moved /\ ~overrun /\ ~ButtonGate => zoneStatus = pin

\* A debounce that is under way is one of a change: the status that it will
\* report is not the one that was reported last (sensorStateChangeDebounce).
DebouncesAChange ==
  debounceEvent => newStatus # lastStatus

\* Unless gated, lastStatus is what the zone status attribute says.
LastStatusReported == ~ButtonGate => lastStatus = zoneStatus

\* With BUTTON_GATE, no sensor status is about to be reported while BUTTON0
\* is down ("don't assert sensor if the button is being pressed").
GateHolds == isButtonActive => ~debounceEvent

\* A contact that comes to rest without an overrun is reported for good.
RestingContactReported ==
  \A s \in Statuses :
    <>[](pin = s /\ moved /\ ~overrun) => <>[](zoneStatus = s)

\* The same without the proviso: sensor-iface.c, "we went back to last
\* status before debounce.  don't send the message."
ContactReported == Settled /\ moved => zoneStatus = pin

\* idle-sleep, plugin.properties: deep sleep "when there are no other tasks
\* to perform".
NoTaskWhileAsleep == turn = "asleep" => ~pressEvent /\ ~releaseEvent

-----------------------------------------------------------------------------
(* DoorContact implements ContactSpec. *)

\* The statuses that the interrupt is going to tell.
ToBeTold ==
  IF isr /\ irq THEN Statuses
  ELSE IF isr \/ irq THEN Told
  ELSE {}

PendingStatuses ==
  ToBeTold
    \union (IF pressEvent THEN {STATUS_ALARM} ELSE {})
    \union (IF releaseEvent THEN {STATUS_NO_ALARM} ELSE {})
    \union (IF debounceEvent THEN {newStatus} ELSE {})

Contact == INSTANCE ContactSpec WITH
  contact <- pin, pending <- PendingStatuses, reported <- zoneStatus

\* Reports are alternate statuses of the contact and nothing else.
ImplementsContactSpec == Contact!Spec
=============================================================================
