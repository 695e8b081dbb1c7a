-------------------------- MODULE EndDevicePolling --------------------------
(***************************************************************************)
(* The polling half of the end-device-support plugin: the tasks that make  *)
(* the device poll fast, the wake timeout that ends some of them, the poll *)
(* event, and the counter of polls that the parent left unanswered.  Time  *)
(* is counted in units; the code reads it from a 16-bit tick, so that what *)
(* it sees of a time span is the span modulo TickModulus.                  *)
(***************************************************************************)
EXTENDS EndDeviceMove, Integers

CONSTANTS
  ShortPoll,       \* EMBER_AF_PLUGIN_END_DEVICE_SUPPORT_SHORT_POLL_INTERVAL
  LongPoll,        \* ..._LONG_POLL_INTERVAL
  WakeTimeout,     \* ..._WAKE_TIMEOUT
  TickModulus,     \* 2^16 ms
  MaxMissedPolls,  \* ..._MAX_MISSED_POLLS
  CounterModulus   \* 2^8, the width of numPollsFailing

ASSUME PollAssumption ==
  /\ ShortPoll \in Nat \ {0}
  /\ LongPoll \in Nat /\ LongPoll > ShortPoll
  /\ WakeTimeout \in Nat
  /\ TickModulus \in Nat /\ TickModulus > WakeTimeout + ShortPoll
  /\ CounterModulus \in Nat
  /\ MaxMissedPolls \in 1 .. CounterModulus - 1

VARIABLES
  tasks,            \* State.currentAppTasks
  sinceTask,        \* time since lastAppTaskScheduleTime, in 16 bits
  pollInterval,     \* EmAfPollingState.pollIntervalMs
  pollTimer,        \* time until the poll event, or Off
  numPollsFailing   \* EmAfPollingState.numPollsFailing, an int8u

taskVars == <<tasks, sinceTask>>
pollVars == <<pollInterval, pollTimer, numPollsFailing>>

\* WAITING_FOR_DATA_ACK, LAST_POLL_GOT_DATA, WAITING_FOR_ZDO_RESPONSE and
\* WAITING_FOR_ZCL_RESPONSE.
Tasks == {"ack", "data", "zdo", "zcl"}

\* WAKE_TIMEOUT_BITMASK of the product, 24.
WakeBitmask == {"zdo", "zcl"}

Off == -1

-----------------------------------------------------------------------------
(* end-device-support.c *)

emberAfAddToCurrentAppTasks(add) ==
  /\ tasks' = tasks \union add
  /\ sinceTask' = IF add \intersect WakeBitmask # {} THEN 0 ELSE sinceTask

emberAfRemoveFromCurrentAppTasks(remove) ==
  /\ tasks' = tasks \ remove
  /\ UNCHANGED sinceTask

\* The tasks left when the poll interval is asked for.
TasksLeft ==
  IF sinceTask > WakeTimeout THEN tasks \ WakeBitmask ELSE tasks

\* Mutant of PollIntervalFor: the stack is not asked whether it waits for an
\* acknowledgement.
IgnoresPendingAcks(left, okToLongPoll) ==
  IF left # {} THEN ShortPoll ELSE LongPoll

PollIntervalFor(left, okToLongPoll) ==
  IF ~okToLongPoll \/ left # {} THEN ShortPoll ELSE LongPoll

-----------------------------------------------------------------------------
(* polling-soc.c *)

\* emberAfSchedulePollEventCallback at a time when the stack says whether it
\* is okToLongPoll, followed by the passing of d units.
emberAfSchedulePollEvent(okToLongPoll, d) ==
  IF nwk = "JOINED"
  THEN /\ tasks' = TasksLeft
       /\ pollInterval' = PollIntervalFor(TasksLeft, okToLongPoll)
       /\ LET timer == IF pollInterval' # pollInterval \/ pollTimer = Off
                       THEN pollInterval' ELSE pollTimer
          IN /\ d <= timer
             /\ pollTimer' = timer - d
  ELSE /\ pollTimer' = Off
       /\ UNCHANGED <<tasks, pollInterval>>

-----------------------------------------------------------------------------
(* polling-common.c *)

\* Mutants of MissedPolls: the acknowledged poll in between is forgotten; a
\* poll that the air did not let through is counted; the counter does not
\* wrap.
MissedPollsKept(status) ==
  IF status = "NO_ACK" THEN (numPollsFailing + 1) % CounterModulus
  ELSE numPollsFailing

FailedPollsCounted(status) ==
  IF status \in {"SUCCESS", "NO_DATA"} THEN 0
  ELSE (numPollsFailing + 1) % CounterModulus

MissedPollsUnbounded(status) ==
  CASE status \in {"SUCCESS", "NO_DATA"} -> 0
    [] status = "NO_ACK" -> numPollsFailing + 1
    [] OTHER -> numPollsFailing

\* numPollsFailing after a poll.
MissedPolls(status) ==
  CASE status \in {"SUCCESS", "NO_DATA"} -> 0
    [] status = "NO_ACK" -> (numPollsFailing + 1) % CounterModulus
    [] OTHER -> numPollsFailing

\* Mutants of emAfPollCompleteHandler: the task of a poll that got data is
\* not removed by one that gets none; the move is not started.
DataTaskKept(status) ==
  /\ numPollsFailing' = MissedPolls(status)
  /\ IF status = "SUCCESS"
     THEN emberAfAddToCurrentAppTasks({"data"})
     ELSE UNCHANGED taskVars
  /\ IF status = "NO_ACK" /\ MaxMissedPolls <= numPollsFailing'
     THEN emberAfStartMoveCallback
     ELSE UNCHANGED moveVars

NeverMoves(status) ==
  /\ numPollsFailing' = MissedPolls(status)
  /\ IF status = "SUCCESS"
     THEN emberAfAddToCurrentAppTasks({"data"})
     ELSE emberAfRemoveFromCurrentAppTasks({"data"})
  /\ UNCHANGED moveVars

\* The product performs no key establishment, during which a poll that was
\* not acknowledged would not count.
emAfPollCompleteHandler(status) ==
  /\ numPollsFailing' = MissedPolls(status)
  /\ IF status = "SUCCESS"
     THEN emberAfAddToCurrentAppTasks({"data"})
     ELSE emberAfRemoveFromCurrentAppTasks({"data"})
  /\ IF status = "NO_ACK" /\ MaxMissedPolls <= numPollsFailing'
     THEN emberAfStartMoveCallback
     ELSE UNCHANGED moveVars

PollTypeOK ==
  /\ tasks \in SUBSET Tasks
  /\ sinceTask \in 0 .. TickModulus - 1
  /\ pollInterval \in {0, ShortPoll, LongPoll}
  /\ pollTimer \in {Off} \union 0 .. LongPoll
  /\ numPollsFailing \in 0 .. CounterModulus - 1
=============================================================================
