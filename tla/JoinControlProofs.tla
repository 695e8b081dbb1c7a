------------------------- MODULE JoinControlProofs -------------------------
(***************************************************************************)
(* Theorems about module JoinControl, for every radio, buffer and limit.   *)
(***************************************************************************)
EXTENDS JoinControl, TLAPS

\* The definitions that say which variables a step leaves alone.
USE DEF vars, stackVars, searchVars, libraryVars, moveVars, ifaceVars,
        loopVars, historyVars

USE SearchAssumption, MoveAssumption, JoinAssumption
    DEF AllChannels

-----------------------------------------------------------------------------
(* Types *)

LEMMA CleanupType ==
  ASSUME emberFormAndJoinCleanup
  PROVE  /\ (scan \in {"NOT_SCANNING", "NEXT_NETWORK", "JOINABLE_SCAN"})'
         /\ (buffer \in BOOLEAN)'
  BY Zenon DEF emberFormAndJoinCleanup

LEMMA ScanForNextType ==
  ASSUME TypeOK, NEW n \in 0..MaxNetworks, NEW chan \in 0..NumChannels + 1,
         NEW m \in SUBSET AllChannels, NEW running \in BOOLEAN,
         NEW outcome \in Outcomes, ScanForNext(n, chan, m, running, outcome)
  PROVE  /\ StackTypeOK'
         /\ (scan \in {"NOT_SCANNING", "NEXT_NETWORK", "JOINABLE_SCAN"})'
         /\ (cached \in 0..MaxNetworks)'
         /\ (buffer \in BOOLEAN)'
         /\ (channel \in 0..NumChannels + 1)'
         /\ (mask \subseteq AllChannels)'
<1> DEFINE left == {c \in m : c > chan}
<1> USE DEF StackTypeOK, NetworkStates, RejoinStates, Outcomes
<1>0. StackTypeOK /\ SearchTypeOK
  BY DEF TypeOK
<1>1. CASE /\ emberJoinNetwork(outcome = "joining")
           /\ n > 0
           /\ cached' = n - 1
           /\ scan' = "NEXT_NETWORK"
           /\ buffer' = TRUE
           /\ channel' = chan
           /\ macScan' = running
           /\ mask' = m
  BY <1>0, <1>1 DEF emberJoinNetwork
<1>2. CASE /\ startScan(outcome = "scanning", running)
           /\ cached' = 0
           /\ channel' \in left
           /\ mask' = m
  <2>1. /\ scan' \in {"NOT_SCANNING", "NEXT_NETWORK", "JOINABLE_SCAN"}
        /\ buffer' \in BOOLEAN
    BY <1>2, CleanupType DEF startScan
  <2>2. macScan' = (running \/ outcome = "scanning") /\ UNCHANGED <<nwk, rejoin>>
    BY <1>2 DEF startScan, emberStartScan
  <2>3. StackTypeOK'
    BY <1>0, <2>2
  <2>4. cached' \in 0..MaxNetworks /\ mask' \subseteq AllChannels
    BY <1>2
  <2>5. channel' \in 0..NumChannels + 1
    BY <1>2
  <2> QED
    BY <2>1, <2>3, <2>4, <2>5
<1>3. CASE /\ emberFormAndJoinCleanup
           /\ cached' = 0
           /\ channel' = NumChannels + 1
           /\ macScan' = running
           /\ mask' = m
           /\ UNCHANGED <<nwk, rejoin>>
  BY <1>0, <1>3, CleanupType
<1> QED
  BY <1>1, <1>2, <1>3 DEF ScanForNext

LEMMA TickHandlerType ==
  ASSUME TypeOK, NEW state \in {"NONE", "JOIN", "WAIT"},
         NetworkFindTickHandler(state)
  PROVE  StackTypeOK' /\ SearchTypeOK'
<1>1. CASE \E outcome \in Outcomes :
             /\ ScanForNext(cached, channel, mask, macScan, outcome)
             /\ find' = IF outcome \in ScanErrors THEN "NONE" ELSE state
             /\ findTick' = (outcome = "joinRefused")
  <2> PICK outcome \in Outcomes :
             /\ ScanForNext(cached, channel, mask, macScan, outcome)
             /\ find' = IF outcome \in ScanErrors THEN "NONE" ELSE state
             /\ findTick' = (outcome = "joinRefused")
    BY <1>1
  <2>1. /\ cached \in 0..MaxNetworks
        /\ channel \in 0..NumChannels + 1
        /\ mask \in SUBSET AllChannels
        /\ macScan \in BOOLEAN
    BY DEF TypeOK, SearchTypeOK, StackTypeOK
  <2> QED
    BY <2>1, ScanForNextType DEF SearchTypeOK
<1>2. CASE /\ find' = "NONE"
           /\ findTick' = FALSE
           /\ UNCHANGED <<stackVars, libraryVars>>
  <2> findTick' \in BOOLEAN
    BY <1>2, Zenon
  <2> QED
    BY <1>2 DEF TypeOK, SearchTypeOK, StackTypeOK
<1>3. CASE /\ find' = "NONE"
           /\ findTick' = FALSE
           /\ emberFormAndJoinCleanup
           /\ UNCHANGED <<stackVars, cached, channel, mask>>
  <2> findTick' \in BOOLEAN
    BY <1>3, Zenon
  <2> QED
    BY <1>3, CleanupType DEF TypeOK, SearchTypeOK, StackTypeOK
<1> QED
  BY <1>1, <1>2, <1>3 DEF NetworkFindTickHandler

LEMMA StartSearchType ==
  ASSUME TypeOK, NEW m \in SUBSET AllChannels, StartSearchForJoinableNetwork(m)
  PROVE  StackTypeOK' /\ SearchTypeOK'
<1>1. CASE UNCHANGED <<stackVars, searchVars>>
  BY <1>1 DEF TypeOK, SearchTypeOK, StackTypeOK
<1>2. CASE /\ \E outcome \in Outcomes :
                /\ ScanForNext(0, 0, m, macScan, outcome)
                /\ find' = IF outcome = "scanRefused" THEN "NONE" ELSE "JOIN"
           /\ UNCHANGED findTick
  <2> PICK outcome \in Outcomes :
                /\ ScanForNext(0, 0, m, macScan, outcome)
                /\ find' = IF outcome = "scanRefused" THEN "NONE" ELSE "JOIN"
    BY <1>2
  <2>1. macScan \in BOOLEAN /\ findTick \in BOOLEAN
    BY DEF TypeOK, StackTypeOK, SearchTypeOK
  <2>2. 0 \in 0..MaxNetworks /\ 0 \in 0..NumChannels + 1
    OBVIOUS
  <2> QED
    BY <1>2, <2>1, <2>2, ScanForNextType DEF SearchTypeOK
<1>3. CASE /\ emberFormAndJoinCleanup
           /\ cached' = 0
           /\ UNCHANGED <<stackVars, find, findTick, channel, mask>>
  BY <1>3, CleanupType DEF TypeOK, SearchTypeOK, StackTypeOK
<1> QED
  BY <1>1, <1>2, <1>3 DEF StartSearchForJoinableNetwork

LEMMA IfaceSearchType ==
  ASSUME TypeOK, NEW n \in 0..MaxJoinAttempts, NEW armed \in BOOLEAN,
         startSearchForJoinableNetwork(n, armed)
  PROVE  /\ StackTypeOK' /\ SearchTypeOK'
         /\ (attempts \in 0..MaxJoinAttempts)'
         /\ (rejoinEvent \in BOOLEAN)'
         /\ (led \in {"off", "search", "on"})'
<1>1. CASE /\ attempts' = n
           /\ rejoinEvent' = armed
           /\ UNCHANGED <<stackVars, searchVars>>
           /\ led' \in {led, "off"}
  BY <1>1 DEF TypeOK, SearchTypeOK, StackTypeOK
<1>2. CASE /\ n < MaxJoinAttempts
           /\ attempts' = n + 1
           /\ rejoinEvent' = TRUE
           /\ led' \in {led, "search"}
           /\ StartSearchForJoinableNetwork(IF n = 0 THEN ChannelMask
                                                     ELSE AllChannels)
  <2>1. (IF n = 0 THEN ChannelMask ELSE AllChannels) \in SUBSET AllChannels
    OBVIOUS
  <2>2. StackTypeOK' /\ SearchTypeOK'
    BY <1>2, <2>1, StartSearchType
  <2> QED
    BY <1>2, <2>2 DEF TypeOK
<1> QED
  BY <1>1, <1>2 DEF startSearchForJoinableNetwork

LEMMA StopMoveType ==
  ASSUME emberAfStopMoveCallback
  PROVE  MoveTypeOK'
<1>1. (moveEvent \in BOOLEAN)'
  BY Zenon DEF emberAfStopMoveCallback
<1> QED
  BY <1>1 DEF emberAfStopMoveCallback, MoveTypeOK

LEMMA ScheduleMoveType ==
  ASSUME NEW n \in 0..255, emAfScheduleMoveEvent(n)
  PROVE  MoveTypeOK'
BY StopMoveType DEF emAfScheduleMoveEvent, MoveTypeOK

LEMMA StartMoveType ==
  ASSUME MoveTypeOK, emberAfStartMoveCallback
  PROVE  MoveTypeOK'
<1>1. moveAttempts \in 0..255
  BY DEF MoveTypeOK
<1>2. CASE UNCHANGED moveVars
  BY <1>2 DEF MoveTypeOK
<1>3. CASE emAfScheduleMoveEvent(moveAttempts)
  BY <1>1, <1>3, ScheduleMoveType
<1> QED
  BY <1>2, <1>3 DEF emberAfStartMoveCallback

LEMMA MoveStatusType ==
  ASSUME MoveTypeOK, NEW s \in Statuses, EndDeviceSupportStackStatus(s)
  PROVE  MoveTypeOK'
<1>1. CASE UNCHANGED moveVars
  BY <1>1 DEF MoveTypeOK
<1> QED
  BY <1>1, StopMoveType, StartMoveType DEF EndDeviceSupportStackStatus,
         StackStatusTold

LEMMA FindStatusType ==
  ASSUME TypeOK, NEW s \in Statuses, NetworkFindStackStatus(s)
  PROVE  StackTypeOK' /\ SearchTypeOK'
<1>1. CASE UNCHANGED <<stackVars, searchVars>>
  BY <1>1 DEF TypeOK, StackTypeOK, SearchTypeOK
<1>2. CASE /\ find' = "WAIT"
           /\ findTick' = TRUE
           /\ UNCHANGED <<stackVars, libraryVars>>
  BY <1>2 DEF TypeOK, StackTypeOK, SearchTypeOK
<1>3. CASE NetworkFindTickHandler("JOIN")
  BY <1>3, TickHandlerType
<1> QED
  BY <1>1, <1>2, <1>3 DEF NetworkFindStackStatus

LEMMA ReportType ==
  ASSUME TypeOK, NEW s \in Statuses, NEW n \in NetworkStates,
         NEW r \in RejoinStates, StackReports(s, n, r)
  PROVE  TypeOK'
<1>1. StackTypeOK'
  BY DEF StackReports, TypeOK, StackTypeOK
<1>2. SearchTypeOK' /\ MoveTypeOK'
  BY DEF StackReports, TypeOK, SearchTypeOK, MoveTypeOK
<1> QED
  BY <1>1, <1>2 DEF StackReports, TypeOK

LEMMA StackType ==
  ASSUME TypeOK, Stack
  PROVE  TypeOK'
<1> USE ReportType DEF NetworkStates, RejoinStates, Statuses
<1>1. nwk \in NetworkStates /\ rejoin \in RejoinStates
  BY DEF TypeOK, StackTypeOK
<1>2. CASE JoinSucceeds
  BY <1>2 DEF JoinSucceeds
<1>3. CASE JoinFails
  BY <1>3 DEF JoinFails
<1>4. CASE RejoinStarts
  BY <1>4 DEF RejoinStarts
<1>5. CASE RejoinSucceeds
  BY <1>5 DEF RejoinSucceeds
<1>6. CASE RejoinFails
  BY <1>6 DEF RejoinFails
<1>7. CASE LeaveCompletes
  BY <1>7 DEF LeaveCompletes
<1>8. CASE ParentLost
  BY <1>8 DEF ParentLost
<1>9. CASE ToldToLeave
  BY <1>9 DEF ToldToLeave
<1>10. CASE OtherStatus
  BY <1>1, <1>10 DEF OtherStatus
<1> QED
  BY <1>2, <1>3, <1>4, <1>5, <1>6, <1>7, <1>8, <1>9, <1>10 DEF Stack

LEMMA PluginsTail ==
  /\ Tail(<<"SensorIface">>) = <<>>
  /\ Tail(<<"NetworkFind", "SensorIface">>) = <<"SensorIface">>
  /\ Tail(Plugins) = <<"NetworkFind", "SensorIface">>
<1>1. Tail(<<"SensorIface">>) = <<>>
  OBVIOUS
<1>2. Tail(<<"NetworkFind", "SensorIface">>) = <<"SensorIface">>
  OBVIOUS
<1>3. Tail(Plugins) = <<"NetworkFind", "SensorIface">>
  BY DEF Plugins
<1> QED
  BY <1>1, <1>2, <1>3

LEMMA DispatchType ==
  ASSUME TypeOK, Dispatch
  PROVE  TypeOK'
<1>1. status \in Statuses /\ MoveTypeOK /\ StackTypeOK /\ SearchTypeOK
  BY DEF TypeOK
<1>2. ASSUME ~Idle, todo' = Tail(todo)
      PROVE  todo' \in {<<>>, <<"SensorIface">>,
                        <<"NetworkFind", "SensorIface">>, Plugins}
  BY <1>2, PluginsTail DEF TypeOK, Idle
<1>3. CASE TellEndDeviceSupport
  <2>1. MoveTypeOK'
    BY <1>1, <1>3, MoveStatusType DEF TellEndDeviceSupport
  <2>2. StackTypeOK' /\ SearchTypeOK'
    BY <1>1, <1>3 DEF TellEndDeviceSupport, StackTypeOK, SearchTypeOK
  <2> QED
    BY <1>2, <1>3, <2>1, <2>2 DEF TellEndDeviceSupport, TypeOK
<1>4. CASE TellNetworkFind
  <2>1. StackTypeOK' /\ SearchTypeOK'
    BY <1>1, <1>4, FindStatusType DEF TellNetworkFind
  <2>2. MoveTypeOK'
    BY <1>1, <1>4 DEF TellNetworkFind, MoveTypeOK
  <2> QED
    BY <1>2, <1>4, <2>1, <2>2 DEF TellNetworkFind, TypeOK
<1>5. CASE TellSensorIface
  <2>1. MoveTypeOK'
    BY <1>1, <1>5 DEF TellSensorIface, MoveTypeOK
  <2>2. CASE UNCHANGED <<stackVars, searchVars, attempts, led, enrolled>> /\ rejoinEvent' \in BOOLEAN
    <3>1. StackTypeOK' /\ SearchTypeOK'
      BY <1>1, <2>2 DEF StackTypeOK, SearchTypeOK
    <3> QED
      BY <1>2, <1>5, <2>1, <2>2, <3>1 DEF TellSensorIface, TypeOK
  <2>3. CASE NetworkUp
    <3>1. StackTypeOK' /\ SearchTypeOK'
      BY <1>1, <2>3 DEF NetworkUp, StackTypeOK, SearchTypeOK
    <3> QED
      BY <1>2, <1>5, <2>1, <2>3, <3>1 DEF TellSensorIface, NetworkUp, TypeOK
  <2>4. CASE /\ enrolled' = FALSE
             /\ startSearchForJoinableNetwork(attempts, rejoinEvent)
    <3>1. enrolled' \in BOOLEAN
      BY <2>4, Zenon
    <3>2. attempts \in 0..MaxJoinAttempts /\ rejoinEvent \in BOOLEAN
      BY DEF TypeOK
    <3>3. /\ StackTypeOK' /\ SearchTypeOK'
          /\ (attempts \in 0..MaxJoinAttempts)'
          /\ (rejoinEvent \in BOOLEAN)'
          /\ (led \in {"off", "search", "on"})'
      BY <2>4, <3>2, IfaceSearchType
    <3> QED
      BY <1>2, <1>5, <2>1, <3>1, <3>3 DEF TellSensorIface, TypeOK
  <2>5. rejoinEvent \in BOOLEAN
    BY DEF TypeOK
  <2> QED
    BY <1>5, <2>2, <2>3, <2>4, <2>5
       DEF TellSensorIface, SensorIfaceStackStatus, NetworkDown
<1> QED
  BY <1>3, <1>4, <1>5 DEF Dispatch

LEMMA RejoinCallType ==
  ASSUME StackTypeOK, NEW ok \in BOOLEAN, emberFindAndRejoinNetwork(ok)
  PROVE  StackTypeOK'
BY DEF emberFindAndRejoinNetwork, StackTypeOK, RejoinStates

LEMMA LeaveCallType ==
  ASSUME StackTypeOK, emberLeaveNetwork
  PROVE  StackTypeOK'
BY DEF emberLeaveNetwork, StackTypeOK, RejoinStates, NetworkStates

LEMMA EventsType ==
  ASSUME TypeOK, Events
  PROVE  TypeOK'
<1>1. /\ StackTypeOK /\ SearchTypeOK /\ MoveTypeOK
      /\ attempts \in 0..MaxJoinAttempts /\ rejoinEvent \in BOOLEAN
      /\ macScan \in BOOLEAN /\ find \in {"NONE", "JOIN", "WAIT"}
  BY DEF TypeOK, StackTypeOK, SearchTypeOK
<1>2. CASE InitEventHandler
  <2>1. initEvent' \in BOOLEAN
    BY <1>2, Zenon DEF InitEventHandler
  <2>2. MoveTypeOK'
    BY <1>1, <1>2 DEF InitEventHandler, MoveTypeOK
  <2>3. CASE startSearchForJoinableNetwork(attempts, rejoinEvent)
    <3>1. /\ StackTypeOK' /\ SearchTypeOK'
          /\ (attempts \in 0..MaxJoinAttempts)'
          /\ (rejoinEvent \in BOOLEAN)'
          /\ (led \in {"off", "search", "on"})'
      BY <1>1, <2>3, IfaceSearchType
    <3> QED
      BY <1>2, <2>1, <2>2, <3>1 DEF InitEventHandler, TypeOK
  <2>4. CASE UNCHANGED <<stackVars, searchVars, attempts, rejoinEvent, led>>
    <3>1. StackTypeOK' /\ SearchTypeOK'
      BY <1>1, <2>4 DEF StackTypeOK, SearchTypeOK
    <3> QED
      BY <1>2, <2>1, <2>2, <2>4, <3>1 DEF InitEventHandler, TypeOK
  <2> QED
    BY <1>2, <2>3, <2>4 DEF InitEventHandler
<1>3. CASE RejoinEventHandler
  <2>1. MoveTypeOK'
    BY <1>1, <1>3 DEF RejoinEventHandler, MoveTypeOK
  <2>2. CASE startSearchForJoinableNetwork(attempts, FALSE)
    <3>1. FALSE \in BOOLEAN
      BY Zenon
    <3>2. /\ StackTypeOK' /\ SearchTypeOK'
          /\ (attempts \in 0..MaxJoinAttempts)'
          /\ (rejoinEvent \in BOOLEAN)'
          /\ (led \in {"off", "search", "on"})'
      BY <1>1, <2>2, <3>1, IfaceSearchType
    <3> QED
      BY <1>3, <2>1, <3>2 DEF RejoinEventHandler, TypeOK
  <2>3. CASE /\ rejoinEvent' = TRUE
             /\ \E ok \in BOOLEAN : emberFindAndRejoinNetwork(ok)
             /\ UNCHANGED <<searchVars, attempts, led>>
    <3>1. StackTypeOK'
      BY <1>1, <2>3, RejoinCallType
    <3>2. SearchTypeOK'
      BY <1>1, <2>3 DEF SearchTypeOK
    <3> QED
      BY <1>3, <2>1, <2>3, <3>1, <3>2 DEF RejoinEventHandler, TypeOK
  <2>4. CASE /\ rejoinEvent' = FALSE
             /\ UNCHANGED <<stackVars, searchVars, attempts, led>>
    <3>1. StackTypeOK' /\ SearchTypeOK'
      BY <1>1, <2>4 DEF StackTypeOK, SearchTypeOK
    <3>2. rejoinEvent' \in BOOLEAN
      BY <2>4, Zenon
    <3> QED
      BY <1>3, <2>1, <2>4, <3>1, <3>2 DEF RejoinEventHandler, TypeOK
  <2> QED
    BY <1>3, <2>2, <2>3, <2>4 DEF RejoinEventHandler
<1>4. CASE MoveEvent
  <2> PICK ok \in BOOLEAN :
        /\ MoveNetworkEventHandler(ok)
        /\ moves' = IF ok /\ moves <= MaxRejoinAttempts THEN moves + 1
                    ELSE moves
    BY <1>4 DEF MoveEvent
  <2>1. StackTypeOK'
    BY <1>1, RejoinCallType DEF MoveNetworkEventHandler
  <2>2. moveAttempts \in 0..255
    BY <1>1 DEF MoveTypeOK
  <2>3. MoveTypeOK'
    BY <2>2, ScheduleMoveType DEF MoveNetworkEventHandler
  <2>4. SearchTypeOK'
    BY <1>1, <1>4 DEF MoveEvent, SearchTypeOK
  <2>5. moves' \in 0..MaxRejoinAttempts + 1
    BY DEF TypeOK
  <2> QED
    BY <1>4, <2>1, <2>3, <2>4, <2>5 DEF MoveEvent, TypeOK
<1>5. CASE FindTickEvent
  <2>1. StackTypeOK' /\ SearchTypeOK'
    BY <1>1, <1>5, TickHandlerType DEF FindTickEvent, NetworkFindTick
  <2>2. MoveTypeOK'
    BY <1>1, <1>5 DEF FindTickEvent, MoveTypeOK
  <2> QED
    BY <1>5, <2>1, <2>2 DEF FindTickEvent, TypeOK
<1>6. CASE LedExpires
  <2>1. StackTypeOK' /\ SearchTypeOK' /\ MoveTypeOK'
    BY <1>1, <1>6 DEF LedExpires, StackTypeOK, SearchTypeOK, MoveTypeOK
  <2> QED
    BY <1>6, <2>1 DEF LedExpires, TypeOK
<1> QED
  BY <1>2, <1>3, <1>4, <1>5, <1>6 DEF Events

LEMMA EnvironmentType ==
  ASSUME TypeOK, Environment
  PROVE  TypeOK'
<1>1. /\ StackTypeOK /\ SearchTypeOK /\ MoveTypeOK
      /\ rejoinEvent \in BOOLEAN
  BY DEF TypeOK
<1>2. CASE ButtonPressedShort
  <2>1. MoveTypeOK' /\ presses' \in 0..MaxPresses
    BY <1>1, <1>2 DEF ButtonPressedShort, TypeOK, MoveTypeOK
  <2>2. CASE startSearchForJoinableNetwork(0, rejoinEvent)
    <3>1. 0 \in 0..MaxJoinAttempts
      OBVIOUS
    <3>2. /\ StackTypeOK' /\ SearchTypeOK'
          /\ (attempts \in 0..MaxJoinAttempts)'
          /\ (rejoinEvent \in BOOLEAN)'
          /\ (led \in {"off", "search", "on"})'
      BY <1>1, <2>2, <3>1, IfaceSearchType
    <3> QED
      BY <1>2, <2>1, <3>2 DEF ButtonPressedShort, TypeOK
  <2>3. CASE /\ emberLeaveNetwork
             /\ UNCHANGED <<searchVars, attempts, rejoinEvent, led>>
    <3>1. StackTypeOK' /\ SearchTypeOK'
      BY <1>1, <2>3, LeaveCallType DEF SearchTypeOK
    <3> QED
      BY <1>2, <2>1, <2>3, <3>1 DEF ButtonPressedShort, TypeOK
  <2>4. CASE UNCHANGED <<stackVars, searchVars, attempts, rejoinEvent, led>>
    <3>1. StackTypeOK' /\ SearchTypeOK'
      BY <1>1, <2>4 DEF SearchTypeOK, StackTypeOK
    <3> QED
      BY <1>2, <2>1, <2>4, <3>1 DEF ButtonPressedShort, TypeOK
  <2> QED
    BY <1>2, <2>2, <2>3, <2>4 DEF ButtonPressedShort
<1>3. CASE ButtonPressedLong
  <2>1. MoveTypeOK' /\ SearchTypeOK'
    BY <1>1, <1>3 DEF ButtonPressedLong, MoveTypeOK, SearchTypeOK
  <2>2. StackTypeOK'
    BY <1>1, <1>3, LeaveCallType DEF ButtonPressedLong
  <2>3. enrolled' \in BOOLEAN
    BY <1>3, Zenon DEF ButtonPressedLong
  <2> QED
    BY <1>3, <2>1, <2>2, <2>3 DEF ButtonPressedLong, TypeOK
<1>4. CASE MissedPollLimit
  <2>1. StackTypeOK' /\ SearchTypeOK'
    BY <1>1, <1>4 DEF MissedPollLimit, StackTypeOK, SearchTypeOK
  <2>2. MoveTypeOK'
    BY <1>1, <1>4, StartMoveType DEF MissedPollLimit
  <2> QED
    BY <1>4, <2>1, <2>2 DEF MissedPollLimit, TypeOK
<1>5. CASE ZoneEnrollResponse \/ MfgLibStart \/ MfgLibEnd
  <2>1. StackTypeOK' /\ SearchTypeOK' /\ MoveTypeOK'
    <3>1. UNCHANGED <<stackVars, searchVars, moveVars>>
      BY <1>5 DEF ZoneEnrollResponse, MfgLibStart, MfgLibEnd
    <3> QED
      BY <1>1, <3>1 DEF StackTypeOK, SearchTypeOK, MoveTypeOK
  <2>2. mfgLibRunning' \in BOOLEAN
    <3>1. CASE ZoneEnrollResponse
      BY <3>1 DEF ZoneEnrollResponse, TypeOK
    <3>2. CASE MfgLibStart
      BY <3>2, Zenon DEF MfgLibStart
    <3>3. CASE MfgLibEnd
      BY <3>3, Zenon DEF MfgLibEnd
    <3> QED
      BY <1>5, <3>1, <3>2, <3>3
  <2> QED
    BY <1>5, <2>1, <2>2 DEF ZoneEnrollResponse, MfgLibStart, MfgLibEnd, TypeOK
<1> QED
  BY <1>2, <1>3, <1>4, <1>5 DEF Environment

LEMMA ScanType ==
  ASSUME TypeOK, BeaconHeard \/ ScanComplete
  PROVE  TypeOK'
<1>1. /\ StackTypeOK /\ SearchTypeOK /\ MoveTypeOK
      /\ cached \in 0..MaxNetworks /\ channel \in 0..NumChannels + 1
      /\ mask \in SUBSET AllChannels /\ findTick \in BOOLEAN
      /\ find \in {"NONE", "JOIN", "WAIT"}
  BY DEF TypeOK, SearchTypeOK
<1>2. MoveTypeOK'
  BY <1>1 DEF BeaconHeard, ScanComplete, MoveTypeOK
<1>3. CASE BeaconHeard
  <2>1. StackTypeOK' /\ SearchTypeOK'
    BY <1>1, <1>3 DEF BeaconHeard, emberFormAndJoinNetworkFoundHandler,
                      StackTypeOK, SearchTypeOK
  <2> QED
    BY <1>2, <1>3, <2>1 DEF BeaconHeard, TypeOK
<1>4. CASE ScanComplete
  <2>1. CASE /\ macScan' = FALSE
             /\ UNCHANGED <<nwk, rejoin, searchVars>>
    <3>1. macScan' \in BOOLEAN
      BY <2>1, Zenon
    <3> QED
      BY <1>1, <1>2, <1>4, <2>1, <3>1
         DEF ScanComplete, TypeOK, StackTypeOK, SearchTypeOK
  <2>2. CASE \E outcome \in Outcomes :
               /\ ScanForNext(cached, channel, mask, FALSE, outcome)
               /\ find' = IF outcome \in ScanErrors THEN "NONE" ELSE find
               /\ findTick' = (findTick \/ outcome = "joinRefused")
    <3> PICK outcome \in Outcomes :
               /\ ScanForNext(cached, channel, mask, FALSE, outcome)
               /\ find' = IF outcome \in ScanErrors THEN "NONE" ELSE find
               /\ findTick' = (findTick \/ outcome = "joinRefused")
      BY <2>2
    <3>1. FALSE \in BOOLEAN
      BY Zenon
    <3>2. /\ StackTypeOK'
          /\ (scan \in {"NOT_SCANNING", "NEXT_NETWORK", "JOINABLE_SCAN"})'
          /\ (cached \in 0..MaxNetworks)'
          /\ (buffer \in BOOLEAN)'
          /\ (channel \in 0..NumChannels + 1)'
          /\ (mask \subseteq AllChannels)'
      BY <1>1, <3>1, ScanForNextType
    <3>3. SearchTypeOK'
      BY <1>1, <3>2 DEF SearchTypeOK
    <3> QED
      BY <1>2, <1>4, <3>2, <3>3 DEF ScanComplete, TypeOK
  <2> QED
    BY <1>4, <2>1, <2>2 DEF ScanComplete, emberFormAndJoinScanCompleteHandler
<1> QED
  BY <1>3, <1>4

LEMMA TypeStep ==
  ASSUME TypeOK, [Next]_vars
  PROVE  TypeOK'
<1>1. CASE UNCHANGED vars
  BY <1>1 DEF TypeOK, StackTypeOK, SearchTypeOK, MoveTypeOK
<1> QED
  BY <1>1, StackType, DispatchType, EventsType, EnvironmentType, ScanType
     DEF Next

LEMMA TypeInit ==
  ASSUME Init
  PROVE  TypeOK
<1>1. /\ macScan \in BOOLEAN /\ findTick \in BOOLEAN /\ buffer \in BOOLEAN
      /\ moveEvent \in BOOLEAN /\ rejoinEvent \in BOOLEAN
      /\ mfgLibRunning \in BOOLEAN /\ enrolled \in BOOLEAN
  BY Zenon DEF Init
<1>2. StackTypeOK /\ SearchTypeOK /\ MoveTypeOK
  BY <1>1 DEF Init, StackTypeOK, NetworkStates, RejoinStates, SearchTypeOK,
              MoveTypeOK
<1> QED
  BY <1>1, <1>2 DEF Init, TypeOK, Statuses

\* Every variable keeps its type: no more networks are cached than the
\* buffer holds, no counter leaves its width.
THEOREM TypeCorrect == Spec => []TypeOK
<1>1. Init => TypeOK
  BY TypeInit
<1>2. TypeOK /\ [Next]_vars => TypeOK'
  BY TypeStep
<1> QED
  BY <1>1, <1>2, PTL DEF Spec
=============================================================================
