------------------------- MODULE SleepyDeviceProofs -------------------------
(***************************************************************************)
(* Theorems about SleepyDevice, for any set of messages, any poll intervals*)
(* and any limits.  SpanInv strengthens the type invariant for             *)
(* SleepsShort: what the code knows of the last ZCL message (a task, and a *)
(* 16-bit time) never lags behind the true time since it was sent.         *)
(***************************************************************************)
EXTENDS SleepyDevice, TLAPS

\* The arithmetic of the 16-bit tick and of the 8-bit counter.
LEMMA Modulo ==
  ASSUME NEW a \in Nat, NEW b \in Nat \ {0}
  PROVE  /\ a % b \in 0 .. b - 1
         /\ a % b <= a
         /\ a < b => a % b = a
  OBVIOUS

-----------------------------------------------------------------------------
(* Types *)

\* The counter of missed polls stays a byte.
LEMMA MissedPollsType ==
  ASSUME numPollsFailing \in 0 .. CounterModulus - 1, NEW s
  PROVE  MissedPolls(s) \in 0 .. CounterModulus - 1
<1>1. CounterModulus \in Nat \ {0}
  BY PollAssumption
<1>2. (numPollsFailing + 1) % CounterModulus \in 0 .. CounterModulus - 1
  BY <1>1, Modulo
<1> QED
  BY <1>1, <1>2 DEF MissedPolls

\* Adding and removing tasks leaves a set of tasks and a 16-bit time.
LEMMA TasksType ==
  ASSUME PollTypeOK, NEW t \in SUBSET Tasks
  PROVE  emberAfAddToCurrentAppTasks(t) \/ emberAfRemoveFromCurrentAppTasks(t)
           => (tasks' \in SUBSET Tasks) /\ (sinceTask' \in 0 .. TickModulus - 1)
<1>1. /\ tasks \in SUBSET Tasks
      /\ sinceTask \in 0 .. TickModulus - 1
      /\ 0 \in 0 .. TickModulus - 1
  BY PollAssumption DEF PollTypeOK
<1> QED
  BY <1>1 DEF emberAfAddToCurrentAppTasks, emberAfRemoveFromCurrentAppTasks

\* Starting and stopping a move keeps the types of the move.
LEMMA MoveTypes ==
  ASSUME MoveTypeOK
  PROVE  /\ emberAfStartMoveCallback => MoveTypeOK'
         /\ emberAfStopMoveCallback => MoveTypeOK'
         /\ UNCHANGED moveVars => MoveTypeOK'
         /\ \A s, n, r : StackStatusTold(s, n, r) => MoveTypeOK'
         /\ \A ok \in BOOLEAN : MoveNetworkEventHandler(ok) => MoveTypeOK'
<1>1. emberAfStopMoveCallback => MoveTypeOK'
  <2>1. emberAfStopMoveCallback => (moveEvent \in BOOLEAN)'
    BY Zenon DEF emberAfStopMoveCallback
  <2> QED
    BY <2>1 DEF emberAfStopMoveCallback, MoveTypeOK
<1>2. \A n \in 0 .. 255 : emAfScheduleMoveEvent(n) => MoveTypeOK'
  BY <1>1 DEF emAfScheduleMoveEvent, MoveTypeOK
<1>3. emberAfStartMoveCallback => MoveTypeOK'
  BY <1>2 DEF emberAfStartMoveCallback, MoveTypeOK, moveVars
<1>4. UNCHANGED moveVars => MoveTypeOK'
  BY DEF moveVars, MoveTypeOK
<1>5. \A s, n, r : StackStatusTold(s, n, r) => MoveTypeOK'
  BY <1>1, <1>3, <1>4 DEF StackStatusTold
<1>6. (moveAttempts + 1) % 256 \in 0 .. 255
  BY DEF MoveTypeOK
<1>7. \A ok \in BOOLEAN : MoveNetworkEventHandler(ok) => MoveTypeOK'
  BY <1>2, <1>6 DEF MoveNetworkEventHandler, MoveTypeOK
<1> QED
  BY <1>1, <1>3, <1>4, <1>5, <1>7

\* Asking for a rejoin keeps the types of the stack.
LEMMA RejoinType ==
  ASSUME StackTypeOK, NEW ok, emberFindAndRejoinNetwork(ok)
  PROVE  StackTypeOK'
  BY DEF emberFindAndRejoinNetwork, StackTypeOK, RejoinStates

\* The tick schedules the poll event within the long poll interval.
LEMMA ScheduleType ==
  ASSUME PollTypeOK, NEW ok, NEW d \in 0 .. LongPoll,
         emberAfSchedulePollEvent(ok, d)
  PROVE  /\ tasks' \in SUBSET Tasks
         /\ pollInterval' \in {0, ShortPoll, LongPoll}
         /\ pollTimer' \in {Off} \union 0 .. LongPoll
  BY PollAssumption DEF emberAfSchedulePollEvent, PollTypeOK, PollIntervalFor,
     TasksLeft, Off

USE PollAssumption, BudgetAssumption

\* The initial values have their types.
LEMMA InitType == Init => TypeOK
<1> SUFFICES ASSUME Init
             PROVE  TypeOK
  OBVIOUS
<1>1. /\ macScan \in BOOLEAN /\ moveEvent \in BOOLEAN
      /\ pollPending \in BOOLEAN
  BY Zenon DEF Init
<1>2. /\ PollTypeOK
      /\ msg \in [Messages -> Stages]
      /\ missed \in {Unheard} \union 0 .. MaxMissedPolls
      /\ age \in 0 .. TooOld
  BY DEF Init, PollTypeOK, Stages, TooOld, Unheard
<1> QED
  BY <1>1, <1>2 DEF Init, TypeOK, StackTypeOK, MoveTypeOK, NetworkStates,
     RejoinStates

\* Every step keeps the types.
LEMMA NextType == TypeOK /\ [Next]_vars => TypeOK'
<1> SUFFICES ASSUME TypeOK, [Next]_vars
             PROVE  TypeOK'
  OBVIOUS
<1> USE DEF TypeOK, netVars, taskVars, pollVars, historyVars, stackVars,
            moveVars
<1>1. ASSUME NEW x \in Messages, NEW s \in DeliveryStatuses, MessageSent(x, s)
      PROVE  TypeOK'
  <2>1. PollTypeOK'
    BY <1>1 DEF MessageSent, emAfMessageSentHandler, PollTypeOK, Tasks
  <2>2. msg' \in [Messages -> Stages]
    BY <1>1 DEF MessageSent, InFlight, Stages
  <2> QED
    BY <1>1, <2>1, <2>2 DEF MessageSent, StackTypeOK, MoveTypeOK
<1>2. ASSUME NEW x \in Messages, NEW c \in Clusters, IncomingAnswer(x, c)
      PROVE  TypeOK'
  <2>1. PollTypeOK'
    BY <1>2 DEF IncomingAnswer, emberAfRemoveFromCurrentAppTasks, PollTypeOK
  <2>2. msg' \in [Messages -> Stages]
    BY <1>2 DEF IncomingAnswer, Stages
  <2> QED
    BY <1>2, <2>1, <2>2 DEF IncomingAnswer, StackTypeOK, MoveTypeOK
<1>3. ASSUME NEW x \in Messages, AnswerGivenUp(x)
      PROVE  TypeOK'
  BY <1>3 DEF AnswerGivenUp, StackTypeOK, MoveTypeOK, PollTypeOK, Stages
<1>4. ASSUME NEW x \in Messages, NEW k \in Kinds, Send(x, k)
      PROVE  TypeOK'
  <2>1. PollTypeOK'
    <3>1. /\ tasks' \in SUBSET Tasks
          /\ sinceTask' \in 0 .. TickModulus - 1
      <4>1. {"ack", "zcl"} \in SUBSET Tasks
        BY DEF Tasks
      <4>2. \/ emberAfAddToCurrentAppTasks({"ack", "zcl"})
            \/ UNCHANGED taskVars
        BY <1>4, Zenon DEF Send
      <4> QED
        BY <4>1, <4>2, TasksType DEF PollTypeOK
    <3> QED
      BY <1>4, <3>1 DEF Send, PollTypeOK
  <2>2. /\ msg' \in [Messages -> Stages]
        /\ budget' \in 0 .. Budget
        /\ age' \in 0 .. TooOld
    BY <1>4 DEF Send, Stages, TooOld
  <2> QED
    BY <1>4, <2>1, <2>2 DEF Send, StackTypeOK, MoveTypeOK
<1>5. ASSUME NEW s \in PollStatuses, PollComplete(s)
      PROVE  TypeOK'
  <2>1. PollTypeOK'
    <3>1. numPollsFailing' \in 0 .. CounterModulus - 1
      BY <1>5, MissedPollsType
         DEF PollComplete, emAfPollCompleteHandler, PollTypeOK
    <3>2. /\ tasks' \in SUBSET Tasks
          /\ sinceTask' \in 0 .. TickModulus - 1
      <4>1. {"data"} \in SUBSET Tasks
        BY DEF Tasks
      <4>2. \/ emberAfAddToCurrentAppTasks({"data"})
            \/ emberAfRemoveFromCurrentAppTasks({"data"})
        BY <1>5, Zenon DEF PollComplete, emAfPollCompleteHandler
      <4> QED
        BY <4>1, <4>2, TasksType
    <3> QED
      BY <1>5, <3>1, <3>2 DEF PollComplete, PollTypeOK
  <2>2. MoveTypeOK'
    BY <1>5, MoveTypes DEF PollComplete, emAfPollCompleteHandler
  <2>3. /\ missed' \in {Unheard} \union 0 .. MaxMissedPolls
        /\ budget' \in 0 .. Budget
    BY <1>5 DEF PollComplete, Unheard
  <2> QED
    BY <1>5, <2>1, <2>2, <2>3 DEF PollComplete, StackTypeOK
<1>6. CASE RejoinBegins
  <2>1. MoveTypeOK'
    BY <1>6, MoveTypes DEF RejoinBegins
  <2> QED
    BY <1>6, <2>1 DEF RejoinBegins, StackTypeOK, PollTypeOK, NetworkStates,
       RejoinStates
<1>7. CASE RejoinSucceeds
  <2>1. MoveTypeOK'
    BY <1>7, MoveTypes DEF RejoinSucceeds
  <2> QED
    BY <1>7, <2>1 DEF RejoinSucceeds, StackTypeOK, PollTypeOK, NetworkStates,
       RejoinStates, Unheard
<1>8. CASE RejoinFails
  <2>1. MoveTypeOK'
    BY <1>8, MoveTypes DEF RejoinFails
  <2> QED
    BY <1>8, <2>1 DEF RejoinFails, StackTypeOK, PollTypeOK, NetworkStates,
       RejoinStates
<1>9. ASSUME NEW d \in 0 .. LongPoll, Tick(d)
      PROVE  TypeOK'
  <2>1. sinceTask' \in 0 .. TickModulus - 1
    <3>1. (sinceTask + d) % TickModulus \in 0 .. TickModulus - 1
      BY Modulo DEF PollTypeOK
    <3> QED
      BY <1>9, <3>1 DEF Tick
  <2>2. PollTypeOK'
    BY <1>9, <2>1, ScheduleType DEF Tick, PollTypeOK
  <2>3. age' \in 0 .. TooOld
    BY <1>9 DEF Tick, TooOld
  <2> QED
    BY <1>9, <2>2, <2>3 DEF Tick, StackTypeOK, MoveTypeOK
<1>10. CASE WokenDone
  BY <1>10 DEF WokenDone, StackTypeOK, MoveTypeOK, PollTypeOK
<1>11. CASE PollingNetworkEventHandler
  <2>1. StackTypeOK'
    BY <1>11, RejoinType DEF PollingNetworkEventHandler, StackTypeOK
  <2>2. PollTypeOK'
    BY <1>11 DEF PollingNetworkEventHandler, PollTypeOK
  <2> QED
    BY <1>11, <2>1, <2>2 DEF PollingNetworkEventHandler, MoveTypeOK
<1>12. CASE MoveEvent
  <2>1. PICK ok \in BOOLEAN : MoveNetworkEventHandler(ok)
    BY <1>12 DEF MoveEvent
  <2>2. StackTypeOK'
    BY <2>1, RejoinType DEF MoveNetworkEventHandler
  <2>3. MoveTypeOK'
    BY <2>1, MoveTypes
  <2> QED
    BY <1>12, <2>2, <2>3 DEF MoveEvent, PollTypeOK
<1>13. CASE EventsDone
  BY <1>13 DEF EventsDone, StackTypeOK, MoveTypeOK, PollTypeOK
<1>14. CASE UNCHANGED vars
  BY <1>14 DEF vars, StackTypeOK, MoveTypeOK, PollTypeOK
<1> QED
  BY <1>1, <1>2, <1>3, <1>4, <1>5, <1>6, <1>7, <1>8, <1>9, <1>10, <1>11,
     <1>12, <1>13, <1>14 DEF Next

\* Every variable keeps its type: the counters wrap where the code's do.
THEOREM TypeCorrect == Spec => []TypeOK
  BY InitType, NextType, PTL DEF Spec

-----------------------------------------------------------------------------
(* The counter of missed polls *)

\* What a poll does to the counter while it still agrees with the polls that
\* were missed.
LEMMA CountStep ==
  ASSUME TypeOK, CountsThisParent, NEW s \in PollStatuses, PollComplete(s)
  PROVE  /\ CountsThisParent'
         /\ /\ missed # Unheard /\ s = "NO_ACK"
            /\ MaxMissedPolls <= numPollsFailing'
            => missed' = MaxMissedPolls
<1>1. /\ missed \in {Unheard} \union 0 .. MaxMissedPolls
      /\ numPollsFailing \in 0 .. CounterModulus - 1
  BY DEF TypeOK, PollTypeOK
<1>2. /\ numPollsFailing' = MissedPolls(s)
      /\ missed' = IF Answered(s) THEN 0
                   ELSE IF s = "NO_ACK" /\ missed \in 0 .. MaxMissedPolls - 1
                   THEN missed + 1 ELSE missed
  BY DEF PollComplete, emAfPollCompleteHandler
<1>3. CASE Answered(s)
  BY <1>2, <1>3 DEF Answered, MissedPolls, CountsThisParent
<1>4. CASE s = "DELIVERY_FAILED"
  BY <1>2, <1>4 DEF Answered, MissedPolls, CountsThisParent
<1>5. CASE s = "NO_ACK"
  <2>1. numPollsFailing' = (numPollsFailing + 1) % CounterModulus
    BY <1>2, <1>5 DEF MissedPolls
  <2>2. CASE missed \in 0 .. MaxMissedPolls - 1
    <3>1. numPollsFailing = missed /\ missed' = missed + 1
      BY <1>2, <1>5, <2>2 DEF Answered, CountsThisParent
    <3>2. numPollsFailing' = missed + 1
      <4>1. missed + 1 \in Nat /\ missed + 1 < CounterModulus
        BY <2>2
      <4>2. (missed + 1) % CounterModulus = missed + 1
        BY <4>1, Modulo
      <4> QED
        BY <2>1, <3>1, <4>2
    <3> QED
      BY <1>5, <2>2, <3>1, <3>2 DEF CountsThisParent
  <2>3. CASE missed \notin 0 .. MaxMissedPolls - 1
    BY <1>1, <1>2, <1>5, <2>3 DEF Answered, CountsThisParent
  <2> QED
    BY <2>2, <2>3
<1> QED
  BY <1>3, <1>4, <1>5 DEF PollStatuses, Answered

\* No other step than the completion of a poll counts.
LEMMA CountElsewhere ==
  ASSUME [Next]_vars, ~RejoinSucceeds,
         ~ \E s \in PollStatuses : PollComplete(s)
  PROVE  UNCHANGED <<missed, numPollsFailing>>
  BY DEF Next, vars, netVars, taskVars, pollVars, historyVars, MessageSent,
     IncomingAnswer, AnswerGivenUp, Send, RejoinBegins, RejoinFails, Tick,
     WokenDone, PollingNetworkEventHandler, MoveEvent, EventsDone

\* Every step keeps the counter in agreement with the polls missed.
LEMMA CountNext ==
  ASSUME TypeOK, CountsThisParent, [Next]_vars
  PROVE  CountsThisParent'
<1>1. CASE RejoinSucceeds
  BY <1>1 DEF RejoinSucceeds, CountsThisParent, Unheard
<1>2. CASE \E s \in PollStatuses : PollComplete(s)
  BY <1>2, CountStep
<1>3. CASE ~RejoinSucceeds /\ ~ \E s \in PollStatuses : PollComplete(s)
  BY <1>3, CountElsewhere DEF CountsThisParent
<1> QED
  BY <1>1, <1>2, <1>3

\* The counter of the code is the number of polls missed in a row by a parent
\* that has answered one, up to the limit.
THEOREM CountCorrect == Spec => []CountsThisParent
<1>1. Init => CountsThisParent
  BY DEF Init, CountsThisParent, Unheard
<1>2. TypeOK /\ CountsThisParent /\ [Next]_vars => CountsThisParent'
  BY CountNext
<1> QED
  BY <1>1, <1>2, TypeCorrect, PTL DEF Spec

\* The stack scans for a parent only when it has none.
RejoinInv == rejoin = "scan" => nwk = "NO_PARENT"

LEMMA RejoinOffNetwork == Spec => []RejoinInv
<1>1. Init => RejoinInv
  BY DEF Init, RejoinInv
<1>2. ASSUME RejoinInv, [Next]_vars
      PROVE  RejoinInv'
  <2> USE DEF RejoinInv, netVars, stackVars
  <2>1. CASE RejoinBegins
    BY <2>1 DEF RejoinBegins
  <2>2. CASE RejoinSucceeds
    BY <2>2 DEF RejoinSucceeds
  <2>3. CASE RejoinFails
    BY <2>3 DEF RejoinFails
  <2>4. CASE PollingNetworkEventHandler
    BY <1>2, <2>4 DEF PollingNetworkEventHandler, emberFindAndRejoinNetwork
  <2>5. CASE MoveEvent
    BY <1>2, <2>5 DEF MoveEvent, MoveNetworkEventHandler,
       emberFindAndRejoinNetwork
  <2>6. CASE UNCHANGED stackVars
    BY <1>2, <2>6
  <2> QED
    BY <1>2, <2>1, <2>2, <2>3, <2>4, <2>5, <2>6
       DEF Next, vars, MessageSent, IncomingAnswer, AnswerGivenUp, Send,
           PollComplete, Tick, WokenDone, EventsDone
<1> QED
  BY <1>1, <1>2, PTL DEF Spec

\* A parent that has answered is left only after that many polls.
THEOREM LeavesCorrect == Spec => LeavesForCause
<1>1. ASSUME TypeOK, CountsThisParent, RejoinInv, [Next]_vars,
             nwk = "JOINED", ~moveEvent, moveEvent', missed # Unheard
      PROVE  missed' = MaxMissedPolls
  <2>1. CASE \E s \in PollStatuses : PollComplete(s)
    <3>1. PICK s \in PollStatuses : PollComplete(s)
      BY <2>1
    <3>2. s = "NO_ACK" /\ MaxMissedPolls <= numPollsFailing'
      BY <1>1, <3>1 DEF PollComplete, emAfPollCompleteHandler, moveVars
    <3> QED
      BY <1>1, <3>1, <3>2, CountStep
  <2>2. ~RejoinBegins /\ ~RejoinSucceeds /\ ~RejoinFails /\ ~MoveEvent
    <3>1. ~RejoinBegins
      BY <1>1 DEF RejoinBegins, StackStatusTold, moveVars
    <3>2. ~RejoinSucceeds
      BY <1>1 DEF RejoinSucceeds, StackStatusTold, emberAfStopMoveCallback
    <3>3. ~MoveEvent
      BY <1>1 DEF MoveEvent, MoveNetworkEventHandler
    <3>4. ~RejoinFails
      BY <1>1 DEF RejoinFails, RejoinInv
    <3> QED
      BY <3>1, <3>2, <3>3, <3>4
  <2> QED
    BY <1>1, <2>1, <2>2
       DEF Next, vars, netVars, moveVars, MessageSent, IncomingAnswer,
           AnswerGivenUp, Send, Tick, WokenDone, PollingNetworkEventHandler,
           EventsDone
<1> QED
  BY <1>1, CountCorrect, TypeCorrect, RejoinOffNetwork, PTL
     DEF Spec, LeavesForCause

-----------------------------------------------------------------------------
(* Short polls *)

\* A ZCL message younger than the wake timeout has its task, and the time the
\* code keeps is no older than it; a short interval has a short timer.
SpanInv ==
  /\ age <= WakeTimeout => "zcl" \in tasks /\ sinceTask <= age
  /\ pollInterval = ShortPoll => pollTimer <= ShortPoll

\* What the tick does to the timer: within the short poll interval when an
\* acknowledgement or an answer is expected.
LEMMA ShortTimer ==
  ASSUME TypeOK, SpanInv, NEW d \in 0 .. LongPoll,
         emberAfSchedulePollEvent(emberOkToLongPoll, d)
  PROVE  /\ pollInterval' = ShortPoll => pollTimer' <= ShortPoll
         /\ nwk = "JOINED" /\ Expecting => pollTimer' \in 0 .. ShortPoll
         /\ age <= WakeTimeout => "zcl" \in tasks'
<1> USE DEF TypeOK, PollTypeOK, SpanInv, Off
<1>1. age <= WakeTimeout => "zcl" \in TasksLeft /\ "zcl" \in tasks
  BY DEF TasksLeft, TooOld
<1>2. CASE nwk # "JOINED"
  BY <1>1, <1>2 DEF emberAfSchedulePollEvent
<1>3. CASE nwk = "JOINED"
  <2>1. /\ tasks' = TasksLeft
        /\ pollInterval' = PollIntervalFor(TasksLeft, emberOkToLongPoll)
    BY <1>3 DEF emberAfSchedulePollEvent
  <2>2. PICK timer : /\ timer = IF pollInterval' # pollInterval \/ pollTimer = Off
                                THEN pollInterval' ELSE pollTimer
                     /\ d <= timer
                     /\ pollTimer' = timer - d
    BY <1>3 DEF emberAfSchedulePollEvent
  <2>3. pollInterval' \in {ShortPoll, LongPoll}
    BY <2>1 DEF PollIntervalFor
  <2>4. pollInterval' = ShortPoll => pollTimer' \in 0 .. ShortPoll
    BY <2>2, <2>3
  <2>5. Expecting => pollInterval' = ShortPoll
    BY <1>1, <2>1 DEF Expecting, PollIntervalFor, emberOkToLongPoll
  <2> QED
    BY <1>1, <2>1, <2>4, <2>5
<1> QED
  BY <1>2, <1>3

\* Every step keeps SpanInv.
LEMMA SpanNext ==
  ASSUME TypeOK, SpanInv, [Next]_vars
  PROVE  SpanInv'
<1> USE DEF SpanInv, taskVars, pollVars, historyVars
<1>1. ASSUME NEW x \in Messages, NEW s \in DeliveryStatuses, MessageSent(x, s)
      PROVE  SpanInv'
  BY <1>1 DEF MessageSent, emAfMessageSentHandler, TypeOK, TooOld
<1>2. ASSUME NEW x \in Messages, NEW c \in Clusters, IncomingAnswer(x, c)
      PROVE  SpanInv'
  BY <1>2 DEF IncomingAnswer, emberAfRemoveFromCurrentAppTasks, TasksAnswered
<1>3. ASSUME NEW x \in Messages, NEW k \in Kinds, Send(x, k)
      PROVE  SpanInv'
  <2>1. CASE k = "zcl"
    BY <1>3, <2>1 DEF Send, emberAfAddToCurrentAppTasks, WakeBitmask
  <2>2. CASE k # "zcl"
    BY <1>3, <2>2 DEF Send
  <2> QED
    BY <2>1, <2>2
<1>4. ASSUME NEW s \in PollStatuses, PollComplete(s)
      PROVE  SpanInv'
  <2>1. /\ "zcl" \in tasks => "zcl" \in tasks'
        /\ sinceTask' = sinceTask
    BY <1>4 DEF PollComplete, emAfPollCompleteHandler, WakeBitmask,
       emberAfAddToCurrentAppTasks, emberAfRemoveFromCurrentAppTasks
  <2> QED
    BY <1>4, <2>1 DEF PollComplete
<1>5. ASSUME NEW d \in 0 .. LongPoll, Tick(d)
      PROVE  SpanInv'
  <2>1. age' <= WakeTimeout => age + d = age' /\ age <= WakeTimeout
    BY <1>5 DEF Tick, TooOld, TypeOK
  <2>2. age <= WakeTimeout => sinceTask' <= age + d
    <3>1. (sinceTask + d) % TickModulus <= sinceTask + d
      <4>1. sinceTask + d \in Nat
        BY DEF TypeOK, PollTypeOK
      <4> QED
        BY <4>1, Modulo
    <3>2. (sinceTask + d) % TickModulus \in Int
      BY Modulo DEF TypeOK, PollTypeOK
    <3>3. sinceTask' \in {0, (sinceTask + d) % TickModulus}
      BY <1>5 DEF Tick
    <3>4. age \in Nat /\ d \in Nat /\ sinceTask \in Nat
      BY DEF TypeOK, PollTypeOK, TooOld
    <3> QED
      BY <3>1, <3>2, <3>3, <3>4
  <2> QED
    BY <1>5, <2>1, <2>2, ShortTimer DEF Tick
<1>6. CASE PollingNetworkEventHandler
  BY <1>6 DEF PollingNetworkEventHandler, Off
<1>7. CASE UNCHANGED <<taskVars, pollVars, age>>
  BY <1>7
<1> QED
  BY <1>1, <1>2, <1>3, <1>4, <1>5, <1>6, <1>7
     DEF Next, vars, AnswerGivenUp, RejoinBegins, RejoinSucceeds, RejoinFails,
         WokenDone, MoveEvent, EventsDone

\* A device that expects something from its parent sleeps no longer than a
\* short poll interval.
THEOREM SleepsShortCorrect == Spec => SleepsShort
<1>1. Init => SpanInv
  BY DEF Init, SpanInv, TooOld, Off
<1>2. TypeOK /\ SpanInv /\ [Next]_vars => SpanInv'
  BY SpanNext
<1>3. ASSUME TypeOK, SpanInv, [Next]_vars, turn = "stack", turn' # "stack",
             nwk = "JOINED", Expecting
      PROVE  pollTimer' \in 0 .. ShortPoll
  <2>1. PICK d \in 0 .. LongPoll : Tick(d)
    BY <1>3 DEF Next, vars, historyVars, MessageSent, IncomingAnswer,
       AnswerGivenUp, Send, PollComplete, RejoinBegins, RejoinSucceeds,
       RejoinFails, WokenDone, PollingNetworkEventHandler, MoveEvent,
       EventsDone
  <2> QED
    BY <1>3, <2>1, ShortTimer DEF Tick
<1> QED
  BY <1>1, <1>2, <1>3, TypeCorrect, PTL DEF Spec, SleepsShort
-----------------------------------------------------------------------------
(* No task is left behind *)

\* The task of an acknowledgement, which no timeout ends, is there only while
\* a delivery report is outstanding: it cannot keep the device at its short
\* polls for good, in whatever order messages are sent, reported and answered
\* (af-main-common.c, send and emAfMessageSentHandler).
AckOutstanding == "ack" \in tasks => \E m \in Messages : InFlight(m)

\* With a network, the 16-bit time since the last task of the wake timeout
\* does not wrap while there is such a task, however ticks, sleeps and polls
\* are spaced: the timeout ends it no more than a short poll interval late
\* (end-device-support.c, emberAfGetCurrentPollIntervalMsCallback).
WakeTimeExact ==
  [][ /\ turn = "stack" /\ turn' # "stack" /\ nwk = "JOINED"
      /\ tasks' \intersect WakeBitmask # {}
      => sinceTask' \in sinceTask .. WakeTimeout + ShortPoll ]_vars

\* Only messages in flight have a delivery report, which removes the task.
LEMMA AckNext ==
  ASSUME TypeOK, AckOutstanding, [Next]_vars
  PROVE  AckOutstanding'
<1> USE DEF AckOutstanding, taskVars
<1>1. ASSUME UNCHANGED msg, "ack" \in tasks' => "ack" \in tasks
      PROVE  AckOutstanding'
  BY <1>1 DEF InFlight
<1>2. ASSUME NEW x \in Messages, NEW s \in DeliveryStatuses, MessageSent(x, s)
      PROVE  AckOutstanding'
  BY <1>2 DEF MessageSent, emAfMessageSentHandler
<1>3. ASSUME NEW x \in Messages,
             (\E c \in Clusters : IncomingAnswer(x, c)) \/ AnswerGivenUp(x)
      PROVE  AckOutstanding'
  <2>1. "ack" \in tasks' => "ack" \in tasks
    BY <1>3 DEF IncomingAnswer, AnswerGivenUp, emberAfRemoveFromCurrentAppTasks
  <2>2. \A m \in Messages : InFlight(m) => InFlight(m)'
    BY <1>3 DEF IncomingAnswer, AnswerGivenUp, InFlight, TypeOK
  <2> QED
    BY <2>1, <2>2
<1>4. ASSUME NEW x \in Messages, NEW k \in Kinds, Send(x, k)
      PROVE  AckOutstanding'
  <2>1. InFlight(x)'
    BY <1>4 DEF Send, InFlight, TypeOK
  <2> QED
    BY <2>1
<1>5. ASSUME NEW s \in PollStatuses, PollComplete(s)
      PROVE  AckOutstanding'
  BY <1>1, <1>5 DEF PollComplete, emAfPollCompleteHandler,
     emberAfAddToCurrentAppTasks, emberAfRemoveFromCurrentAppTasks
<1>6. ASSUME NEW d \in 0 .. LongPoll, Tick(d)
      PROVE  AckOutstanding'
  BY <1>1, <1>6 DEF Tick, emberAfSchedulePollEvent, TasksLeft
<1>7. CASE UNCHANGED <<msg, tasks>>
  BY <1>1, <1>7
<1> QED
  BY <1>2, <1>3, <1>4, <1>5, <1>6, <1>7
     DEF Next, vars, RejoinBegins, RejoinSucceeds, RejoinFails,
         WokenDone, PollingNetworkEventHandler, MoveEvent, EventsDone

\* A short poll for an acknowledgement has an acknowledgement to wait for.
THEOREM AckCorrect == Spec => []AckOutstanding
<1>1. Init => AckOutstanding
  BY DEF Init, AckOutstanding
<1>2. TypeOK /\ AckOutstanding /\ [Next]_vars => AckOutstanding'
  BY AckNext
<1> QED
  BY <1>1, <1>2, TypeCorrect, PTL DEF Spec

\* The wake timeout is measured as it is while the device has a network.
THEOREM WakeTimeCorrect == Spec => WakeTimeExact
<1>1. Init => SpanInv
  BY DEF Init, SpanInv, TooOld, Off
<1>2. TypeOK /\ SpanInv /\ [Next]_vars => SpanInv'
  BY SpanNext
<1>3. ASSUME TypeOK, SpanInv, [Next]_vars, turn = "stack", turn' # "stack",
             nwk = "JOINED", tasks' \intersect WakeBitmask # {}
      PROVE  sinceTask' \in sinceTask .. WakeTimeout + ShortPoll
  <2>1. PICK d \in 0 .. LongPoll : Tick(d)
    BY <1>3 DEF Next, vars, historyVars, MessageSent, IncomingAnswer,
       AnswerGivenUp, Send, PollComplete, RejoinBegins, RejoinSucceeds,
       RejoinFails, WokenDone, PollingNetworkEventHandler, MoveEvent,
       EventsDone
  <2>2. /\ emberAfSchedulePollEvent(emberOkToLongPoll, d)
        /\ sinceTask' = (sinceTask + d) % TickModulus
    BY <1>3, <2>1 DEF Tick
  <2>3. tasks' = TasksLeft /\ TasksLeft # {} /\ sinceTask <= WakeTimeout
    BY <1>3, <2>2 DEF emberAfSchedulePollEvent, TasksLeft, TypeOK, PollTypeOK
  <2>4. d <= ShortPoll
    <3>1. pollInterval' = ShortPoll
      BY <1>3, <2>2, <2>3 DEF emberAfSchedulePollEvent, PollIntervalFor
    <3>2. PICK timer : /\ timer = IF pollInterval' # pollInterval \/ pollTimer = Off
                                  THEN pollInterval' ELSE pollTimer
                       /\ d <= timer
      BY <1>3, <2>2 DEF emberAfSchedulePollEvent
    <3> QED
      BY <1>3, <3>1, <3>2 DEF SpanInv, TypeOK, PollTypeOK, Off
  <2>5. sinceTask \in Nat /\ d \in Nat /\ sinceTask + d <= WakeTimeout + ShortPoll
    BY <1>3, <2>3, <2>4 DEF TypeOK, PollTypeOK
  <2>6. sinceTask' = sinceTask + d
    <3>1. sinceTask + d \in Nat /\ TickModulus \in Nat \ {0}
      BY <2>5
    <3>2. sinceTask + d < TickModulus
      BY <2>5
    <3>3. (sinceTask + d) % TickModulus = sinceTask + d
      BY <3>1, <3>2, Modulo
    <3> QED
      BY <2>2, <3>3
  <2> QED
    BY <2>3, <2>4, <2>5, <2>6
<1> QED
  BY <1>1, <1>2, <1>3, TypeCorrect, PTL DEF Spec, WakeTimeExact

-----------------------------------------------------------------------------
(* The move *)

\* A move that is over has its attempts back.
AttemptsInv ==
  \/ MaxRejoinAttempts = NeverStop
  \/ moveAttempts < MaxRejoinAttempts
  \/ moveAttempts = 0

\* What a step may do to the move: nothing, schedule it with some count of
\* attempts, or stop it.
LEMMA MoveStep ==
  ASSUME [Next]_vars
  PROVE  \/ UNCHANGED moveVars
         \/ \E n : emAfScheduleMoveEvent(n)
         \/ emberAfStopMoveCallback
<1>1. emberAfStartMoveCallback
        => UNCHANGED moveVars \/ \E n : emAfScheduleMoveEvent(n)
  BY DEF emberAfStartMoveCallback
<1>2. ASSUME NEW s, NEW n, NEW r, StackStatusTold(s, n, r)
      PROVE  \/ UNCHANGED moveVars
             \/ emberAfStartMoveCallback
             \/ emberAfStopMoveCallback
  BY <1>2 DEF StackStatusTold
<1>3. CASE RejoinBegins \/ RejoinSucceeds \/ RejoinFails
  BY <1>1, <1>2, <1>3 DEF RejoinBegins, RejoinSucceeds, RejoinFails
<1>4. CASE \E s \in PollStatuses : PollComplete(s)
  BY <1>1, <1>4 DEF PollComplete, emAfPollCompleteHandler
<1>5. CASE MoveEvent
  BY <1>5 DEF MoveEvent, MoveNetworkEventHandler
<1> QED
  BY <1>3, <1>4, <1>5
     DEF Next, vars, netVars, MessageSent, IncomingAnswer, AnswerGivenUp, Send,
         Tick, WokenDone, PollingNetworkEventHandler, EventsDone

LEMMA AttemptsHold == Spec => []AttemptsInv
<1>1. Init => AttemptsInv
  BY DEF Init, AttemptsInv
<1>2. ASSUME AttemptsInv, [Next]_vars
      PROVE  AttemptsInv'
  <2>1. CASE UNCHANGED moveVars
    BY <1>2, <2>1 DEF AttemptsInv, moveVars
  <2>2. ASSUME NEW n, emAfScheduleMoveEvent(n)
        PROVE  AttemptsInv'
    BY <2>2 DEF emAfScheduleMoveEvent, emberAfStopMoveCallback, AttemptsInv
  <2>3. CASE emberAfStopMoveCallback
    BY <2>3 DEF emberAfStopMoveCallback, AttemptsInv
  <2> QED
    BY <1>2, <2>1, <2>2, <2>3, MoveStep
<1> QED
  BY <1>1, <1>2, PTL DEF Spec

\* Provided that the move is allowed an attempt at all, starting it arms it.
LEMMA StartMoveArms ==
  ASSUME TypeOK, AttemptsInv, MaxRejoinAttempts > 0, emberAfStartMoveCallback
  PROVE  moveEvent'
<1>1. CASE moveEvent /\ UNCHANGED moveVars
  BY <1>1 DEF moveVars
<1>2. CASE emAfScheduleMoveEvent(moveAttempts)
  BY <1>2, MoveAssumption DEF AttemptsInv, emAfScheduleMoveEvent
<1> QED
  BY <1>1, <1>2 DEF emberAfStartMoveCallback

\* A device that lost its parent and is not rejoining has a move armed, for
\* which the plugin that polls is enough: JoinControl has the rejoin event of
\* sensor-iface beside it (end-device-move.c; polling-common.c, MOVE_FAILED).
OrphanMoves ==
  nwk = "NO_PARENT" /\ ~emberStackIsPerformingRejoin => moveEvent

\* Every missed poll from the limit on finds a move armed or arms one, though
\* earlier moves, given up or gone well, left their counts behind
\* (polling-common.c 15; end-device-move.c).
LimitMoves ==
  [][ PollComplete("NO_ACK") /\ MaxMissedPolls <= numPollsFailing'
      => moveEvent' ]_vars

LEMMA OrphanStep ==
  ASSUME TypeOK, AttemptsInv, MaxRejoinAttempts > 0, OrphanMoves, [Next]_vars
  PROVE  OrphanMoves'
<1> USE DEF OrphanMoves, emberStackIsPerformingRejoin, netVars, stackVars,
            moveVars
<1>1. CASE RejoinBegins
  BY <1>1 DEF RejoinBegins
<1>2. CASE RejoinSucceeds
  BY <1>2 DEF RejoinSucceeds
<1>3. CASE RejoinFails
  <2>1. emberAfStartMoveCallback
    BY <1>3 DEF RejoinFails, StackStatusTold
  <2> QED
    BY <2>1, StartMoveArms
<1>4. ASSUME NEW s \in PollStatuses, PollComplete(s)
      PROVE  OrphanMoves'
  <2>1. UNCHANGED stackVars
    BY <1>4 DEF PollComplete
  <2>2. emberAfStartMoveCallback \/ UNCHANGED moveVars
    BY <1>4 DEF PollComplete, emAfPollCompleteHandler
  <2> QED
    BY <2>1, <2>2, StartMoveArms
<1>5. CASE PollingNetworkEventHandler
  BY <1>5 DEF PollingNetworkEventHandler, emberFindAndRejoinNetwork
<1>6. CASE MoveEvent
  <2>1. PICK ok \in BOOLEAN : MoveNetworkEventHandler(ok)
    BY <1>6 DEF MoveEvent
  <2>2. CASE ok
    BY <2>1, <2>2 DEF MoveNetworkEventHandler, emberFindAndRejoinNetwork
  <2>3. CASE ~ok
    <3>1. emAfScheduleMoveEvent(moveAttempts)
      BY <2>1, <2>3 DEF MoveNetworkEventHandler
    <3> QED
      BY <3>1, MoveAssumption DEF emAfScheduleMoveEvent, AttemptsInv
  <2> QED
    BY <2>2, <2>3
<1>7. CASE UNCHANGED netVars
  BY <1>7
<1> QED
  BY <1>1, <1>2, <1>3, <1>4, <1>5, <1>6, <1>7
     DEF Next, vars, MessageSent, IncomingAnswer, AnswerGivenUp, Send, Tick,
         WokenDone, EventsDone

\* A device without a parent always has its next attempt ahead of it.
THEOREM OrphanCorrect ==
  ASSUME MaxRejoinAttempts > 0
  PROVE  Spec => []OrphanMoves
<1>1. Init => OrphanMoves
  BY DEF Init, OrphanMoves
<1>2. TypeOK /\ AttemptsInv /\ OrphanMoves /\ [Next]_vars => OrphanMoves'
  BY OrphanStep
<1> QED
  BY <1>1, <1>2, TypeCorrect, AttemptsHold, PTL DEF Spec

\* The limit of missed polls is never reached in vain.
THEOREM LimitCorrect ==
  ASSUME MaxRejoinAttempts > 0
  PROVE  Spec => LimitMoves
<1>1. TypeOK /\ AttemptsInv /\ PollComplete("NO_ACK")
        /\ MaxMissedPolls <= numPollsFailing' => moveEvent'
  BY StartMoveArms DEF PollComplete, emAfPollCompleteHandler
<1> QED
  BY <1>1, TypeCorrect, AttemptsHold, PTL DEF Spec, LimitMoves
=============================================================================
