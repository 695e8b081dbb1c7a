---------------------------- MODULE SleepyDevice ----------------------------
(***************************************************************************)
(* A sleepy end device between its polls: the main loop with the tick that *)
(* schedules the poll event and then lets the device sleep, the polls and  *)
(* their completion, the messages that the device waits for, and the move  *)
(* to another parent when the polls stay unanswered.                       *)
(*                                                                         *)
(* A pass of the loop is the stack (its callbacks), the tick, in which     *)
(* time passes, and the events.  A sleep runs the stack once more before   *)
(* the events.                                                             *)
(***************************************************************************)
EXTENDS EndDevicePolling

CONSTANTS
  Messages,   \* messages that may be under way at a time
  Budget      \* bound: messages sent, and polls that fetch an unasked one

ASSUME BudgetAssumption == Budget \in Nat

VARIABLES
  turn,         \* where the main loop is
  pollPending,  \* a data poll was submitted and is not complete
  msg,          \* what each message is waiting for
  budget,       \* what is left of the bound
  missed,       \* history: polls missed since this parent last answered one,
                \* or Unheard
  age           \* history: time since a ZCL message was sent that is still
                \* under way, up to TooOld

netVars == <<stackVars, moveVars>>
historyVars == <<missed, age>>
vars == <<netVars, taskVars, pollVars, turn, pollPending, msg, budget,
          historyVars>>

Kinds == {"zcl", "zdo"}

\* A message in flight has no delivery report yet; one that is awaited was
\* delivered, and its answer may come.
Stages == {<<"none">>} \union {"flight", "awaited"} \X Kinds
Free(m) == msg[m][1] = "none"
IsZcl(m) == ~Free(m) /\ msg[m][2] = "zcl"
InFlight(m) == msg[m][1] = "flight"

emberOkToLongPoll == \A m \in Messages : ~InFlight(m)

\* This parent has answered no poll yet.
Unheard == -1

\* The end of the time in which an answer is waited for.
TooOld == WakeTimeout + 1

Init ==
  /\ nwk = "JOINED" /\ rejoin = "no" /\ macScan = FALSE
  /\ moveEvent = FALSE /\ moveAttempts = 0
  /\ tasks = {} /\ sinceTask = 0
  /\ pollInterval = 0 /\ pollTimer = Off /\ numPollsFailing = 0
  /\ turn = "stack"
  /\ pollPending = FALSE
  /\ msg = [m \in Messages |-> <<"none">>]
  /\ budget = Budget
  /\ missed = Unheard /\ age = TooOld

-----------------------------------------------------------------------------
(* The stack: delivery reports, answers, polls, rejoins *)

StackRuns == turn \in {"stack", "woken"}

\* emAfMessageSentHandler, as far as the tasks go.
emAfMessageSentHandler(kind, status) ==
  LET zdo == status = "SUCCESS" /\ kind = "zdo"
  IN /\ tasks' = (IF zdo THEN tasks \union {"zdo"} ELSE tasks) \ {"ack"}
     /\ sinceTask' = IF zdo THEN 0 ELSE sinceTask

MessageSent(m, status) ==
  /\ StackRuns
  /\ InFlight(m)
  /\ emAfMessageSentHandler(msg[m][2], status)
  /\ msg' = [msg EXCEPT ![m] = IF status = "SUCCESS" THEN <<"awaited", @[2]>>
                               ELSE <<"none">>]
  /\ UNCHANGED <<netVars, pollVars, turn, pollPending, budget, historyVars>>

\* The end of emAfProcessZdo: "if it is a zdo response we can remove the zdo
\* waiting task", unless the response is NETWORK_ADDRESS_RESPONSE, which is
\* CLUSTER_ID_RESPONSE_MINIMUM itself.  Nothing removes the task of a ZCL
\* response.
TasksAnswered(kind, cluster) ==
  IF kind = "zdo" /\ cluster = "above minimum" THEN {"zdo"} ELSE {}

\* An answer, also one that overtakes the delivery report or comes twice.
IncomingAnswer(m, cluster) ==
  /\ StackRuns
  /\ ~Free(m)
  /\ emberAfRemoveFromCurrentAppTasks(TasksAnswered(msg[m][2], cluster))
  /\ msg' = [msg EXCEPT ![m] = IF InFlight(m) THEN @ ELSE <<"none">>]
  /\ UNCHANGED <<netVars, pollVars, turn, pollPending, budget, historyVars>>

\* Whoever waited for the answer gives up.
AnswerGivenUp(m) ==
  /\ ~Free(m) /\ ~InFlight(m)
  /\ msg' = [msg EXCEPT ![m] = <<"none">>]
  /\ UNCHANGED <<netVars, taskVars, pollVars, turn, pollPending, budget,
                 historyVars>>

PollStatuses == {"SUCCESS", "NO_DATA", "DELIVERY_FAILED", "NO_ACK"}
Answered(status) == status \in {"SUCCESS", "NO_DATA"}

\* emberPollCompleteHandler.  What a poll fetches belongs to a message of the
\* device or comes unasked.
PollComplete(status) ==
  /\ StackRuns
  /\ pollPending
  /\ pollPending' = FALSE
  /\ IF status = "SUCCESS" /\ \A m \in Messages : Free(m)
     THEN budget > 0 /\ budget' = budget - 1
     ELSE UNCHANGED budget
  /\ emAfPollCompleteHandler(status)
  /\ missed' = IF Answered(status) THEN 0
               ELSE IF status = "NO_ACK" /\ missed \in 0 .. MaxMissedPolls - 1
               THEN missed + 1 ELSE missed
  /\ UNCHANGED <<stackVars, pollInterval, pollTimer, turn, msg, age>>

\* The rejoin begins: NETWORK_DOWN.
RejoinBegins ==
  /\ StackRuns
  /\ rejoin = "start"
  /\ rejoin' = "scan" /\ nwk' = "NO_PARENT"
  /\ StackStatusTold("NETWORK_DOWN", nwk', TRUE)
  /\ UNCHANGED <<macScan, taskVars, pollVars, turn, pollPending, msg, budget,
                 historyVars>>

\* NETWORK_UP, with the parent of before or another one.
RejoinSucceeds ==
  /\ StackRuns
  /\ rejoin = "scan"
  /\ rejoin' = "no" /\ nwk' = "JOINED"
  /\ StackStatusTold("NETWORK_UP", nwk', FALSE)
  /\ missed' = Unheard
  /\ UNCHANGED <<macScan, taskVars, pollVars, turn, pollPending, msg, budget,
                 age>>

\* MOVE_FAILED.
RejoinFails ==
  /\ StackRuns
  /\ rejoin = "scan"
  /\ rejoin' = "no" /\ nwk' = "NO_PARENT"
  /\ StackStatusTold("MOVE_FAILED", nwk', FALSE)
  /\ UNCHANGED <<macScan, taskVars, pollVars, turn, pollPending, msg,
                 budget, historyVars>>

-----------------------------------------------------------------------------
(* The tick *)

\* platformTick: the poll event is scheduled, then the device may sleep, or
\* time passes while it is awake.  It does not sleep without a network.
Tick(d) ==
  /\ turn = "stack"
  /\ emberAfSchedulePollEvent(emberOkToLongPoll, d)
  /\ sinceTask' = IF tasks' \intersect WakeBitmask = {} THEN 0
                  ELSE (sinceTask + d) % TickModulus
  /\ age' = IF age + d > TooOld \/ \A m \in Messages : ~IsZcl(m)
            THEN TooOld ELSE age + d
  /\ turn' = IF nwk = "JOINED" /\ d > 0 THEN "woken" ELSE "events"
  /\ UNCHANGED <<netVars, numPollsFailing, pollPending, msg, budget,
                 missed>>

WokenDone ==
  /\ turn = "woken"
  /\ turn' = "events"
  /\ UNCHANGED <<netVars, taskVars, pollVars, pollPending, msg, budget,
                 historyVars>>

-----------------------------------------------------------------------------
(* The events *)

\* The poll event: the stack takes the poll, or refuses it, or finds that
\* the last successful one was too long ago and starts a rejoin.
PollingNetworkEventHandler ==
  /\ turn = "events"
  /\ pollTimer = 0
  /\ pollTimer' = Off
  /\ \/ /\ nwk = "JOINED"
        /\ pollPending' = TRUE
        /\ UNCHANGED stackVars
     \/ /\ nwk = "JOINED"
        /\ emberFindAndRejoinNetwork(TRUE)
        /\ UNCHANGED pollPending
     \/ UNCHANGED <<stackVars, pollPending>>
  /\ UNCHANGED <<moveVars, taskVars, pollInterval, numPollsFailing, turn,
                 msg, budget, historyVars>>

MoveEvent ==
  /\ turn = "events"
  /\ \E ok \in BOOLEAN : MoveNetworkEventHandler(ok)
  /\ UNCHANGED <<taskVars, pollVars, turn, pollPending, msg, budget,
                 historyVars>>

\* The application or a plugin sends a message that the stack takes.  Only
\* a ZCL message goes through send() of af-main-common.c.
Send(m, kind) ==
  /\ turn = "events"
  /\ nwk = "JOINED"
  /\ Free(m)
  /\ budget > 0 /\ budget' = budget - 1
  /\ msg' = [msg EXCEPT ![m] = <<"flight", kind>>]
  /\ IF kind = "zcl" THEN emberAfAddToCurrentAppTasks({"ack", "zcl"})
     ELSE UNCHANGED taskVars
  /\ age' = IF kind = "zcl" THEN 0 ELSE age
  /\ UNCHANGED <<netVars, pollVars, turn, pollPending, missed>>

EventsDone ==
  /\ turn = "events"
  /\ pollTimer # 0
  /\ turn' = "stack"
  /\ UNCHANGED <<netVars, taskVars, pollVars, pollPending, msg, budget,
                 historyVars>>

-----------------------------------------------------------------------------
DeliveryStatuses == {"SUCCESS", "DELIVERY_FAILED"}
Clusters == {"minimum", "above minimum"}

Next ==
  \/ \E m \in Messages : \/ \E s \in DeliveryStatuses : MessageSent(m, s)
                         \/ \E c \in Clusters : IncomingAnswer(m, c)
                         \/ AnswerGivenUp(m)
                         \/ \E k \in Kinds : Send(m, k)
  \/ \E s \in PollStatuses : PollComplete(s)
  \/ RejoinBegins \/ RejoinSucceeds \/ RejoinFails
  \/ \E d \in 0 .. LongPoll : Tick(d)
  \/ WokenDone
  \/ PollingNetworkEventHandler \/ MoveEvent
  \/ EventsDone

Spec == Init /\ [][Next]_vars

\* The loop goes round and time passes; the stack ends what it has begun;
\* with a network some polls get through the air; the delay of the move event
\* runs out.  []<><<P => A>>_vars: what is pending all the time is served.
Fairness ==
  /\ WF_vars(WokenDone)
  /\ WF_vars(EventsDone)
  /\ WF_vars(PollingNetworkEventHandler)
  /\ []<><<\E d \in 1 .. LongPoll : Tick(d)>>_vars
  /\ []<><<nwk = "JOINED" => \E s \in PollStatuses \ {"DELIVERY_FAILED"} :
                               PollComplete(s)>>_vars
  /\ \A m \in Messages :
       []<><<InFlight(m) => \E s \in DeliveryStatuses : MessageSent(m, s)>>_vars
  /\ []<><<moveEvent => MoveEvent>>_vars
  /\ []<><<rejoin # "no" => RejoinBegins \/ RejoinSucceeds \/ RejoinFails>>_vars

FairSpec == Spec /\ Fairness
-----------------------------------------------------------------------------
(* Properties *)

TypeOK ==
  /\ StackTypeOK /\ MoveTypeOK /\ PollTypeOK
  /\ turn \in {"stack", "woken", "events"}
  /\ pollPending \in BOOLEAN
  /\ msg \in [Messages -> Stages]
  /\ budget \in 0 .. Budget
  /\ missed \in {Unheard} \union 0 .. MaxMissedPolls
  /\ age \in 0 .. TooOld

\* A delivery report is outstanding, or a ZCL answer has been for less than
\* the wake timeout.
Expecting ==
  \E m \in Messages :
    \/ InFlight(m)
    \/ msg[m] = <<"awaited", "zcl">> /\ age <= WakeTimeout

\* A device that expects something from its parent never sleeps past a short
\* poll interval, whatever other messages, reports and timeouts did to its
\* tasks.  (SchedulePollEvent and GetCurrentPollInterval, af-main-common.c
\* 692.)
SleepsShort ==
  [][ turn = "stack" /\ turn' # "stack" /\ nwk = "JOINED" /\ Expecting
      => pollTimer' \in 0 .. ShortPoll ]_vars

\* Once its messages are done with, a device that stays with its parent
\* returns to its long polls: no task is left behind.
ReturnsToLongPolls ==
  <>[](nwk = "JOINED" /\ \A m \in Messages : Free(m))
    => <>[](pollInterval = LongPoll)

\* numPollsFailing counts the polls that this parent missed in a row, once
\* it has answered one (polling-common.c).
CountsThisParent ==
  missed \in 0 .. MaxMissedPolls - 1 => numPollsFailing = missed

\* A parent that has answered is left only after MAX_MISSED_POLLS polls in a
\* row that it did not acknowledge (polling-common.c 15).
LeavesForCause ==
  [][ nwk = "JOINED" /\ ~moveEvent /\ moveEvent' /\ missed # Unheard
      => missed' = MaxMissedPolls ]_vars

\* A device does not stay with a parent that answers no poll any more: the
\* counter reaches the limit although it wraps, and the move follows.
\* (emAfPollCompleteHandler, EndDeviceSupportStackStatus.)
SilentParentLeft ==
  \/ []<>(nwk # "JOINED")
  \/ []<><<\E s \in PollStatuses : Answered(s) /\ PollComplete(s)>>_vars
=============================================================================
