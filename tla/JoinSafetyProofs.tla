-------------------------- MODULE JoinSafetyProofs --------------------------
(***************************************************************************)
(* The safety properties of module JoinControl hold in every state, for    *)
(* every radio, buffer and limit.  None of them is inductive by itself:    *)
(* each says something of the states in which the main loop is idle, and   *)
(* the invariants below say what holds while the plugins are being told of *)
(* a status.                                                               *)
(***************************************************************************)
EXTENDS JoinControlProofs

USE DEF vars, stackVars, searchVars, libraryVars, moveVars, ifaceVars,
        loopVars, historyVars

USE SearchAssumption, MoveAssumption, JoinAssumption
    DEF AllChannels

-----------------------------------------------------------------------------
(* What a step may do to the network state *)

OffNetwork == nwk \in {"NO_NETWORK", "JOINING"}

\* The search only ever takes a node from NO_NETWORK to JOINING.
MayJoin ==
  /\ rejoin' = rejoin
  /\ nwk' = nwk \/ (nwk = "NO_NETWORK" /\ nwk' = "JOINING")

MayRejoin ==
  /\ nwk' = nwk
  /\ nwk \in {"JOINED", "NO_PARENT"}
  /\ rejoin' \in {"start", "scan"}

MayLeave ==
  /\ nwk \in {"JOINED", "NO_PARENT"}
  /\ nwk' = "LEAVING"
  /\ rejoin' = "no"

LEMMA ScanForNextJoins ==
  ASSUME NEW n, NEW chan, NEW m, NEW running, NEW outcome,
         ScanForNext(n, chan, m, running, outcome)
  PROVE  MayJoin
BY DEF ScanForNext, emberJoinNetwork, startScan, emberStartScan, MayJoin

LEMMA TickHandlerJoins ==
  ASSUME NEW state, NetworkFindTickHandler(state)
  PROVE  MayJoin
<1>1. CASE \E outcome \in Outcomes :
             ScanForNext(cached, channel, mask, macScan, outcome)
  BY <1>1, ScanForNextJoins
<1>2. CASE UNCHANGED stackVars
  BY <1>2 DEF MayJoin
<1> QED
  BY <1>1, <1>2 DEF NetworkFindTickHandler

LEMMA StartSearchJoins ==
  ASSUME NEW m, StartSearchForJoinableNetwork(m)
  PROVE  MayJoin
<1>1. CASE \E outcome \in Outcomes : ScanForNext(0, 0, m, macScan, outcome)
  BY <1>1, ScanForNextJoins
<1>2. CASE UNCHANGED stackVars
  BY <1>2 DEF MayJoin
<1> QED
  BY <1>1, <1>2 DEF StartSearchForJoinableNetwork

LEMMA IfaceSearchJoins ==
  ASSUME NEW n, NEW armed, startSearchForJoinableNetwork(n, armed)
  PROVE  MayJoin
<1>1. CASE UNCHANGED stackVars
  BY <1>1 DEF MayJoin
<1> QED
  BY <1>1, StartSearchJoins DEF startSearchForJoinableNetwork

LEMMA ScanCompleteJoins ==
  ASSUME emberFormAndJoinScanCompleteHandler
  PROVE  MayJoin
<1>1. CASE \E outcome \in Outcomes :
             ScanForNext(cached, channel, mask, FALSE, outcome)
  BY <1>1, ScanForNextJoins
<1>2. CASE UNCHANGED <<nwk, rejoin>>
  BY <1>2 DEF MayJoin
<1> QED
  BY <1>1, <1>2 DEF emberFormAndJoinScanCompleteHandler

LEMMA RejoinCallRejoins ==
  ASSUME NEW ok, emberFindAndRejoinNetwork(ok)
  PROVE  MayJoin \/ MayRejoin
BY DEF emberFindAndRejoinNetwork, MayJoin, MayRejoin

LEMMA LeaveCallLeaves ==
  ASSUME emberLeaveNetwork
  PROVE  MayJoin \/ MayLeave
BY DEF emberLeaveNetwork, MayJoin, MayLeave

\* Every step that is not the stack's own changes the network state by one
\* of the calls above.
LEMMA NetworkStep ==
  ASSUME [Next]_vars
  PROVE  Stack \/ MayJoin \/ MayRejoin \/ MayLeave
<1>1. CASE UNCHANGED <<nwk, rejoin>>
  BY <1>1 DEF MayJoin
<1>2. CASE Dispatch
  <2>1. CASE TellEndDeviceSupport
    BY <1>1, <2>1 DEF TellEndDeviceSupport
  <2>2. CASE TellNetworkFind
    BY <1>1, <2>2, TickHandlerJoins DEF TellNetworkFind, NetworkFindStackStatus
  <2>3. CASE TellSensorIface
    BY <1>1, <2>3, IfaceSearchJoins
       DEF TellSensorIface, SensorIfaceStackStatus, NetworkUp, NetworkDown
  <2> QED
    BY <1>2, <2>1, <2>2, <2>3 DEF Dispatch
<1>3. CASE Events
  <2>1. CASE InitEventHandler
    BY <1>1, <2>1, IfaceSearchJoins DEF InitEventHandler
  <2>2. CASE RejoinEventHandler
    BY <1>1, <2>2, IfaceSearchJoins, RejoinCallRejoins DEF RejoinEventHandler
  <2>3. CASE MoveEvent
    BY <2>3, RejoinCallRejoins DEF MoveEvent, MoveNetworkEventHandler
  <2>4. CASE FindTickEvent
    BY <2>4, TickHandlerJoins DEF FindTickEvent, NetworkFindTick
  <2>5. CASE LedExpires
    BY <1>1, <2>5 DEF LedExpires
  <2> QED
    BY <1>3, <2>1, <2>2, <2>3, <2>4, <2>5 DEF Events
<1>4. CASE Environment
  <2>1. CASE ButtonPressedShort
    BY <1>1, <2>1, IfaceSearchJoins, LeaveCallLeaves DEF ButtonPressedShort
  <2>2. CASE ButtonPressedLong
    BY <2>2, LeaveCallLeaves DEF ButtonPressedLong
  <2>3. CASE MissedPollLimit \/ ZoneEnrollResponse \/ MfgLibStart \/ MfgLibEnd
    BY <1>1, <2>3
       DEF MissedPollLimit, ZoneEnrollResponse, MfgLibStart, MfgLibEnd
  <2> QED
    BY <1>4, <2>1, <2>2, <2>3 DEF Environment
<1>5. CASE BeaconHeard
  BY <1>1, <1>5 DEF BeaconHeard, emberFormAndJoinNetworkFoundHandler
<1>6. CASE ScanComplete
  BY <1>6, ScanCompleteJoins DEF ScanComplete
<1>7. CASE UNCHANGED vars
  BY <1>1, <1>7
<1> QED
  BY <1>2, <1>3, <1>4, <1>5, <1>6, <1>7 DEF Next

\* A rejoin is only under way on a node that has a network.
RejoinInv == rejoin # "no" => nwk \in {"JOINED", "NO_PARENT"}

LEMMA RejoinStep ==
  ASSUME RejoinInv, [Next]_vars
  PROVE  RejoinInv'
<1>1. CASE MayJoin \/ MayRejoin \/ MayLeave
  BY <1>1 DEF MayJoin, MayRejoin, MayLeave, RejoinInv
<1>2. CASE Stack
  <2>1. PICK s, n, r : /\ StackReports(s, n, r)
                       /\ \/ r = "no"
                          \/ n = "NO_PARENT"
                          \/ n = nwk /\ r = rejoin
    BY <1>2 DEF Stack, JoinSucceeds, JoinFails, RejoinStarts, RejoinSucceeds,
                RejoinFails, LeaveCompletes, ParentLost, ToldToLeave,
                OtherStatus
  <2> QED
    BY <2>1 DEF StackReports, RejoinInv
<1> QED
  BY <1>1, <1>2, NetworkStep

-----------------------------------------------------------------------------
(* The library's buffer and the MAC's scan follow the scan type. *)

LibraryInv == BufferHeld /\ ScanNeverWedged

LEMMA CleanupLibrary ==
  ASSUME emberFormAndJoinCleanup
  PROVE  LibraryInv'
<1>1. BufferHeld'
  BY Zenon DEF emberFormAndJoinCleanup, BufferHeld
<1>2. ScanNeverWedged'
  BY DEF emberFormAndJoinCleanup, ScanNeverWedged
<1> QED
  BY <1>1, <1>2 DEF LibraryInv

LEMMA ScanForNextLibrary ==
  ASSUME NEW n, NEW chan, NEW m, NEW running, NEW outcome,
         ScanForNext(n, chan, m, running, outcome)
  PROVE  LibraryInv'
<1>1. CASE scan' = "NEXT_NETWORK" /\ buffer' = TRUE
  BY <1>1 DEF LibraryInv, BufferHeld, ScanNeverWedged
<1>2. CASE startScan(outcome = "scanning", running)
  <2>1. CASE /\ outcome = "scanning"
             /\ emberStartScan(outcome = "scanning", running)
             /\ scan' = "JOINABLE_SCAN"
             /\ buffer' = TRUE
    BY <2>1 DEF emberStartScan, LibraryInv, BufferHeld, ScanNeverWedged
  <2> QED
    BY <1>2, <2>1, CleanupLibrary DEF startScan
<1> QED
  BY <1>1, <1>2, CleanupLibrary DEF ScanForNext

LEMMA LibraryUnchanged ==
  ASSUME LibraryInv, scan' = scan, buffer' = buffer,
         macScan' = macScan \/ scan # "JOINABLE_SCAN"
  PROVE  LibraryInv'
BY DEF LibraryInv, BufferHeld, ScanNeverWedged

LEMMA TickHandlerLibrary ==
  ASSUME LibraryInv, NEW state, NetworkFindTickHandler(state)
  PROVE  LibraryInv'
BY ScanForNextLibrary, CleanupLibrary, LibraryUnchanged
   DEF NetworkFindTickHandler

LEMMA StartSearchLibrary ==
  ASSUME LibraryInv, NEW m, StartSearchForJoinableNetwork(m)
  PROVE  LibraryInv'
BY ScanForNextLibrary, CleanupLibrary, LibraryUnchanged
   DEF StartSearchForJoinableNetwork

LEMMA IfaceSearchLibrary ==
  ASSUME LibraryInv, NEW n, NEW armed, startSearchForJoinableNetwork(n, armed)
  PROVE  LibraryInv'
BY StartSearchLibrary, LibraryUnchanged DEF startSearchForJoinableNetwork

LEMMA LibraryStep ==
  ASSUME LibraryInv, [Next]_vars
  PROVE  LibraryInv'
<1>1. CASE UNCHANGED <<scan, buffer, macScan>>
  BY <1>1, LibraryUnchanged
<1>2. CASE Stack
  BY <1>1, <1>2 DEF Stack, JoinSucceeds, JoinFails, RejoinStarts,
     RejoinSucceeds, RejoinFails, LeaveCompletes, ParentLost, ToldToLeave,
     OtherStatus, StackReports
<1>3. CASE Dispatch
  <2>1. CASE TellEndDeviceSupport
    BY <1>1, <2>1 DEF TellEndDeviceSupport
  <2>2. CASE TellNetworkFind
    BY <1>1, <2>2, TickHandlerLibrary DEF TellNetworkFind, NetworkFindStackStatus
  <2>3. CASE TellSensorIface
    BY <1>1, <2>3, IfaceSearchLibrary
       DEF TellSensorIface, SensorIfaceStackStatus, NetworkUp, NetworkDown
  <2> QED
    BY <1>3, <2>1, <2>2, <2>3 DEF Dispatch
<1>4. CASE Events
  <2>1. CASE InitEventHandler
    BY <1>1, <2>1, IfaceSearchLibrary DEF InitEventHandler
  <2>2. CASE RejoinEventHandler
    BY <1>1, <2>2, IfaceSearchLibrary
       DEF RejoinEventHandler, emberFindAndRejoinNetwork
  <2>3. CASE MoveEvent
    BY <1>1, <2>3
       DEF MoveEvent, MoveNetworkEventHandler, emberFindAndRejoinNetwork
  <2>4. CASE FindTickEvent
    BY <2>4, TickHandlerLibrary DEF FindTickEvent, NetworkFindTick
  <2>5. CASE LedExpires
    BY <1>1, <2>5 DEF LedExpires
  <2> QED
    BY <1>4, <2>1, <2>2, <2>3, <2>4, <2>5 DEF Events
<1>5. CASE Environment
  <2>1. CASE ButtonPressedShort
    BY <1>1, <2>1, IfaceSearchLibrary DEF ButtonPressedShort, emberLeaveNetwork
  <2>2. CASE ButtonPressedLong
    BY <1>1, <2>2 DEF ButtonPressedLong, emberLeaveNetwork
  <2>3. CASE MissedPollLimit \/ ZoneEnrollResponse \/ MfgLibStart \/ MfgLibEnd
    BY <1>1, <2>3
       DEF MissedPollLimit, ZoneEnrollResponse, MfgLibStart, MfgLibEnd
  <2> QED
    BY <1>5, <2>1, <2>2, <2>3 DEF Environment
<1>6. CASE BeaconHeard
  BY <1>1, <1>6 DEF BeaconHeard, emberFormAndJoinNetworkFoundHandler
<1>7. CASE ScanComplete
  <2>1. CASE \E outcome \in Outcomes :
               ScanForNext(cached, channel, mask, FALSE, outcome)
    BY <2>1, ScanForNextLibrary
  <2>2. CASE scan # "JOINABLE_SCAN" /\ UNCHANGED <<scan, buffer>>
    BY <2>2, LibraryUnchanged
  <2> QED
    BY <1>7, <2>1, <2>2 DEF ScanComplete, emberFormAndJoinScanCompleteHandler,
                            emberFormAndJoinIsScanning
<1>8. CASE UNCHANGED vars
  BY <1>1, <1>8
<1> QED
  BY <1>2, <1>3, <1>4, <1>5, <1>6, <1>7, <1>8 DEF Next

-----------------------------------------------------------------------------
(* network-find is always about to be woken up. *)

NetworkFindToBeTold ==
  todo \in {Plugins, <<"NetworkFind", "SensorIface">>}

FindOk ==
  /\ find = "JOIN" => scan = "JOINABLE_SCAN" \/ findTick \/ nwk = "JOINING"
  /\ find = "WAIT" => findTick

\* While a status is on its way to network-find, a join may have ended
\* without its knowing.
FindInv ==
  /\ find = "JOIN" /\ ~NetworkFindToBeTold
       => scan = "JOINABLE_SCAN" \/ findTick \/ nwk = "JOINING"
  /\ find = "WAIT" => findTick

LEMMA FindUnchanged ==
  ASSUME FindInv, find' = find, findTick' = findTick, scan' = scan,
         nwk = "JOINING" => nwk' = "JOINING",
         NetworkFindToBeTold => NetworkFindToBeTold'
  PROVE  FindInv'
BY DEF FindInv

LEMMA FindOkSuffices ==
  ASSUME FindOk'
  PROVE  FindInv'
BY DEF FindOk, FindInv

LEMMA TickHandlerFind ==
  ASSUME NEW state, NetworkFindTickHandler(state)
  PROVE  FindOk'
<1>1. CASE /\ state = "JOIN"
           /\ \E outcome \in Outcomes :
                /\ ScanForNext(cached, channel, mask, macScan, outcome)
                /\ find' = IF outcome \in ScanErrors THEN "NONE" ELSE state
                /\ findTick' = (outcome = "joinRefused")
  <2> PICK outcome \in Outcomes :
                /\ ScanForNext(cached, channel, mask, macScan, outcome)
                /\ find' = IF outcome \in ScanErrors THEN "NONE" ELSE state
                /\ findTick' = (outcome = "joinRefused")
    BY <1>1
  <2>1. CASE outcome \in ScanErrors
    BY <2>1 DEF FindOk
  <2>2. CASE outcome = "joinRefused"
    BY <1>1, <2>2 DEF FindOk, ScanErrors
  <2>3. CASE outcome = "joining"
    BY <1>1, <2>3 DEF FindOk, ScanErrors, ScanForNext, emberJoinNetwork
  <2>4. CASE outcome = "scanning"
    BY <1>1, <2>4 DEF FindOk, ScanErrors, ScanForNext, startScan
  <2> QED
    BY <2>1, <2>2, <2>3, <2>4 DEF Outcomes, ScanErrors
<1>2. CASE find' = "NONE"
  BY <1>2 DEF FindOk
<1> QED
  BY <1>1, <1>2 DEF NetworkFindTickHandler

LEMMA StartSearchFind ==
  ASSUME NEW m \in SUBSET AllChannels, m # {}, StartSearchForJoinableNetwork(m)
  PROVE  UNCHANGED <<find, findTick, scan, nwk>> \/ FindOk'
<1>1. CASE \E outcome \in Outcomes :
             /\ ScanForNext(0, 0, m, macScan, outcome)
             /\ find' = IF outcome = "scanRefused" THEN "NONE" ELSE "JOIN"
  <2> PICK outcome \in Outcomes :
             /\ ScanForNext(0, 0, m, macScan, outcome)
             /\ find' = IF outcome = "scanRefused" THEN "NONE" ELSE "JOIN"
    BY <1>1
  <2>0. \A c \in AllChannels : c > 0
    OBVIOUS
  <2>1. {c \in m : c > 0} # {}
    BY <2>0
  <2>2. outcome \in {"scanning", "scanRefused"}
    BY <2>1 DEF ScanForNext
  <2>3. CASE outcome = "scanRefused"
    BY <2>3 DEF FindOk
  <2>4. CASE outcome = "scanning"
    BY <2>4 DEF FindOk, ScanForNext, startScan
  <2> QED
    BY <2>2, <2>3, <2>4
<1>2. CASE /\ find = "NONE"
           /\ UNCHANGED <<find, findTick>>
  BY <1>2 DEF FindOk
<1> QED
  BY <1>1, <1>2 DEF StartSearchForJoinableNetwork

LEMMA IfaceSearchFind ==
  ASSUME NEW n, NEW armed, startSearchForJoinableNetwork(n, armed)
  PROVE  UNCHANGED <<find, findTick, scan, nwk>> \/ FindOk'
<1>1. /\ ChannelMask \in SUBSET AllChannels /\ ChannelMask # {}
      /\ AllChannels \in SUBSET AllChannels /\ AllChannels # {}
  OBVIOUS
<1> QED
  BY <1>1, StartSearchFind DEF startSearchForJoinableNetwork

LEMMA FindStep ==
  ASSUME TypeOK, FindInv, [Next]_vars
  PROVE  FindInv'
<1>1. ASSUME UNCHANGED <<find, findTick, scan, nwk, todo>>
      PROVE  FindInv'
  BY <1>1, FindUnchanged DEF NetworkFindToBeTold
<1>2. ASSUME UNCHANGED <<find, findTick, scan, todo>>,
             nwk = "JOINING" => nwk' = "JOINING"
      PROVE  FindInv'
  BY <1>2, FindUnchanged DEF NetworkFindToBeTold
<1>3. CASE Stack
  <2>1. \E s, n, r : StackReports(s, n, r)
    BY <1>3 DEF Stack, JoinSucceeds, JoinFails, RejoinStarts, RejoinSucceeds,
                RejoinFails, LeaveCompletes, ParentLost, ToldToLeave,
                OtherStatus
  <2> QED
    BY <2>1 DEF StackReports, FindInv, NetworkFindToBeTold
<1>4. CASE Dispatch
  <2>1. CASE TellEndDeviceSupport
    <3>1. todo = Plugins
      BY <2>1 DEF TellEndDeviceSupport, TypeOK, Idle, Plugins
    <3>2. NetworkFindToBeTold'
      BY <2>1, <3>1, PluginsTail DEF TellEndDeviceSupport, NetworkFindToBeTold
    <3> QED
      BY <2>1, <3>2, FindUnchanged DEF TellEndDeviceSupport
  <2>2. CASE TellNetworkFind
    <3>1. CASE status # "NETWORK_UP" /\ find \in {"JOIN", "WAIT"}
      BY <2>2, <3>1, TickHandlerFind, FindOkSuffices
         DEF TellNetworkFind, NetworkFindStackStatus
    <3>2. CASE status = "NETWORK_UP" /\ find = "JOIN"
      BY <2>2, <3>2 DEF TellNetworkFind, NetworkFindStackStatus, FindInv
    <3>3. CASE find = "NONE" \/ (status = "NETWORK_UP" /\ find = "WAIT")
      BY <2>2, <3>3 DEF TellNetworkFind, NetworkFindStackStatus, FindInv
    <3> QED
      BY <3>1, <3>2, <3>3 DEF TypeOK, SearchTypeOK
  <2>3. CASE TellSensorIface
    <3>1. todo = <<"SensorIface">>
      BY <2>3 DEF TellSensorIface, TypeOK, Idle, Plugins
    <3>2. ~NetworkFindToBeTold
      BY <3>1 DEF NetworkFindToBeTold, Plugins
    <3>3. ASSUME UNCHANGED <<find, findTick, scan, nwk>>
          PROVE  FindInv'
      BY <3>2, <3>3, FindUnchanged
    <3> QED
      BY <2>3, <3>3, IfaceSearchFind, FindOkSuffices
         DEF TellSensorIface, SensorIfaceStackStatus, NetworkUp, NetworkDown
  <2> QED
    BY <1>4, <2>1, <2>2, <2>3 DEF Dispatch
<1>5. CASE Events
  <2>1. CASE InitEventHandler
    BY <1>1, <2>1, IfaceSearchFind, FindOkSuffices DEF InitEventHandler
  <2>2. CASE RejoinEventHandler
    BY <1>1, <2>2, IfaceSearchFind, FindOkSuffices
       DEF RejoinEventHandler, emberFindAndRejoinNetwork
  <2>3. CASE MoveEvent
    BY <1>1, <2>3
       DEF MoveEvent, MoveNetworkEventHandler, emberFindAndRejoinNetwork
  <2>4. CASE FindTickEvent
    BY <2>4, TickHandlerFind, FindOkSuffices DEF FindTickEvent, NetworkFindTick
  <2>5. CASE LedExpires
    BY <1>1, <2>5 DEF LedExpires
  <2> QED
    BY <1>5, <2>1, <2>2, <2>3, <2>4, <2>5 DEF Events
<1>6. CASE Environment
  <2>1. CASE ButtonPressedShort
    BY <1>1, <1>2, <2>1, IfaceSearchFind, FindOkSuffices
       DEF ButtonPressedShort, emberLeaveNetwork
  <2>2. CASE ButtonPressedLong
    BY <1>2, <2>2 DEF ButtonPressedLong, emberLeaveNetwork
  <2>3. CASE MissedPollLimit \/ ZoneEnrollResponse \/ MfgLibStart \/ MfgLibEnd
    BY <1>1, <2>3
       DEF MissedPollLimit, ZoneEnrollResponse, MfgLibStart, MfgLibEnd
  <2> QED
    BY <1>6, <2>1, <2>2, <2>3 DEF Environment
<1>7. CASE BeaconHeard
  BY <1>1, <1>7 DEF BeaconHeard, emberFormAndJoinNetworkFoundHandler
<1>8. CASE ScanComplete
  <2>1. CASE \E outcome \in Outcomes :
               /\ ScanForNext(cached, channel, mask, FALSE, outcome)
               /\ find' = IF outcome \in ScanErrors THEN "NONE" ELSE find
               /\ findTick' = (findTick \/ outcome = "joinRefused")
    <3> PICK outcome \in Outcomes :
               /\ ScanForNext(cached, channel, mask, FALSE, outcome)
               /\ find' = IF outcome \in ScanErrors THEN "NONE" ELSE find
               /\ findTick' = (findTick \/ outcome = "joinRefused")
      BY <2>1
    <3>1. CASE outcome \in ScanErrors
      BY <3>1 DEF FindInv
    <3>2. CASE outcome = "joinRefused"
      BY <3>2 DEF FindInv
    <3>3. CASE outcome = "joining"
      BY <3>3 DEF FindInv, ScanErrors, ScanForNext, emberJoinNetwork
    <3>4. CASE outcome = "scanning"
      BY <3>4 DEF FindInv, ScanErrors, ScanForNext, startScan
    <3> QED
      BY <3>1, <3>2, <3>3, <3>4 DEF Outcomes, ScanErrors
  <2>2. CASE UNCHANGED <<nwk, searchVars>>
    BY <1>1, <1>8, <2>2 DEF ScanComplete
  <2> QED
    BY <1>8, <2>1, <2>2 DEF ScanComplete, emberFormAndJoinScanCompleteHandler
<1>9. CASE UNCHANGED vars
  BY <1>1, <1>9
<1> QED
  BY <1>3, <1>4, <1>5, <1>6, <1>7, <1>8, <1>9 DEF Next

-----------------------------------------------------------------------------
(* What a step does to the report under way, to the LED and to the move *)

LEMMA LoopStep ==
  ASSUME [Next]_vars
  PROVE  \/ Stack
         \/ Dispatch /\ ~Idle /\ todo' = Tail(todo) /\ status' = status
         \/ Idle /\ UNCHANGED loopVars
         \/ UNCHANGED vars
<1>1. CASE Dispatch
  BY <1>1 DEF Dispatch, TellEndDeviceSupport, TellNetworkFind, TellSensorIface
<1>2. CASE Events
  BY <1>2 DEF Events, InitEventHandler, RejoinEventHandler, MoveEvent,
              FindTickEvent, LedExpires
<1>3. CASE Environment
  BY <1>3 DEF Environment, ButtonPressedShort, ButtonPressedLong,
              MissedPollLimit, ZoneEnrollResponse, MfgLibStart, MfgLibEnd
<1>4. CASE BeaconHeard \/ ScanComplete
  BY <1>4 DEF BeaconHeard, ScanComplete
<1> QED
  BY <1>1, <1>2, <1>3, <1>4 DEF Next

LEMMA StackStep ==
  ASSUME RejoinInv, Stack
  PROVE  /\ Idle /\ todo' = Plugins
         /\ UNCHANGED <<moveVars, ifaceVars>>
         /\ \/ status' = "NETWORK_UP" /\ nwk' = "JOINED"
            \/ /\ status' = "NETWORK_DOWN" /\ nwk' = "NO_NETWORK"
               /\ nwk \in {"JOINED", "LEAVING"}
            \/ status' = "JOIN_FAILED" /\ nwk' = "NO_NETWORK" /\ nwk = "JOINING"
            \/ /\ status' \in {"NETWORK_DOWN", "MOVE_FAILED"}
               /\ nwk' = "NO_PARENT"
               /\ nwk \in {"JOINED", "NO_PARENT"}
            \/ status' = "OTHER" /\ nwk = "JOINED" /\ nwk' = "JOINED"
BY DEF RejoinInv, Stack, JoinSucceeds, JoinFails, RejoinStarts, RejoinSucceeds,
       RejoinFails, LeaveCompletes, ParentLost, ToldToLeave, OtherStatus,
       StackReports

\* Only the end-device-support plugin touches its move.
LEMMA MoveStep ==
  ASSUME [Next]_vars
  PROVE  \/ UNCHANGED moveVars
         \/ TellEndDeviceSupport
         \/ MoveEvent
         \/ MissedPollLimit
<1>1. CASE Stack
  BY <1>1 DEF Stack, JoinSucceeds, JoinFails, RejoinStarts,
     RejoinSucceeds, RejoinFails, LeaveCompletes, ParentLost, ToldToLeave,
     OtherStatus, StackReports
<1>2. CASE Dispatch
  BY <1>2 DEF Dispatch, TellNetworkFind, TellSensorIface
<1>3. CASE Events
  BY <1>3 DEF Events, InitEventHandler, RejoinEventHandler, FindTickEvent,
              LedExpires
<1>4. CASE Environment
  BY <1>4 DEF Environment, ButtonPressedShort, ButtonPressedLong,
              ZoneEnrollResponse, MfgLibStart, MfgLibEnd
<1>5. CASE BeaconHeard \/ ScanComplete
  BY <1>5 DEF BeaconHeard, ScanComplete
<1> QED
  BY <1>1, <1>2, <1>3, <1>4, <1>5 DEF Next

\* A status of NETWORK_UP is told by a node that is on a network.
StatusInv == ~Idle /\ status = "NETWORK_UP" => nwk = "JOINED"

LEMMA DispatchJoins ==
  ASSUME Dispatch
  PROVE  MayJoin
<1>1. CASE UNCHANGED stackVars
  BY <1>1 DEF MayJoin
<1>2. CASE TellNetworkFind
  BY <1>1, <1>2, TickHandlerJoins DEF TellNetworkFind, NetworkFindStackStatus
<1>3. CASE TellSensorIface
  BY <1>1, <1>3, IfaceSearchJoins
     DEF TellSensorIface, SensorIfaceStackStatus, NetworkUp, NetworkDown
<1> QED
  BY <1>1, <1>2, <1>3 DEF Dispatch, TellEndDeviceSupport

LEMMA StatusStep ==
  ASSUME RejoinInv, StatusInv, [Next]_vars
  PROVE  StatusInv'
<1>1. CASE Stack
  BY <1>1, StackStep DEF StatusInv
<1>2. CASE Dispatch /\ ~Idle /\ status' = status
  BY <1>2, DispatchJoins DEF StatusInv, MayJoin
<1>3. CASE Idle /\ UNCHANGED loopVars
  BY <1>3 DEF StatusInv, Idle
<1>4. CASE UNCHANGED vars
  BY <1>4 DEF StatusInv, Idle
<1> QED
  BY <1>1, <1>2, <1>3, <1>4, LoopStep

\* The search pattern outlives a join until sensor-iface is told of it.
LedInv ==
  led = "search" => OffNetwork \/ (~Idle /\ status = "NETWORK_UP")

LEMMA LedStep ==
  ASSUME [Next]_vars
  PROVE  \/ led' = led
         \/ led' # "search"
         \/ OffNetwork'
<1>0. ASSUME NEW n, NEW armed, startSearchForJoinableNetwork(n, armed)
      PROVE  led' = led \/ led' # "search" \/ OffNetwork'
  BY <1>0, IfaceSearchJoins
     DEF startSearchForJoinableNetwork, MayJoin, OffNetwork
<1>1. CASE Stack
  BY <1>1 DEF Stack, JoinSucceeds, JoinFails, RejoinStarts,
     RejoinSucceeds, RejoinFails, LeaveCompletes, ParentLost, ToldToLeave,
     OtherStatus, StackReports
<1>2. CASE Dispatch
  BY <1>0, <1>2 DEF Dispatch, TellEndDeviceSupport, TellNetworkFind,
     TellSensorIface, SensorIfaceStackStatus, NetworkUp, NetworkDown
<1>3. CASE Events
  BY <1>0, <1>3 DEF Events, InitEventHandler, RejoinEventHandler, MoveEvent,
     FindTickEvent, LedExpires
<1>4. CASE Environment
  BY <1>0, <1>4 DEF Environment, ButtonPressedShort, ButtonPressedLong,
     MissedPollLimit, ZoneEnrollResponse, MfgLibStart, MfgLibEnd
<1>5. CASE BeaconHeard \/ ScanComplete
  BY <1>5 DEF BeaconHeard, ScanComplete
<1> QED
  BY <1>1, <1>2, <1>3, <1>4, <1>5 DEF Next

LEMMA LedInvStep ==
  ASSUME TypeOK, RejoinInv, LedInv, [Next]_vars
  PROVE  LedInv'
<1>1. CASE Stack
  BY <1>1, StackStep DEF LedInv, OffNetwork, Idle, Plugins
<1>2. CASE Dispatch /\ ~Idle /\ todo' = Tail(todo) /\ status' = status
  <2>1. CASE TellEndDeviceSupport \/ TellNetworkFind
    <3>1. todo' # <<>>
      <4>1. todo \in {<<"NetworkFind", "SensorIface">>, Plugins}
        BY <2>1 DEF TellEndDeviceSupport, TellNetworkFind, TypeOK, Idle
      <4> QED
        BY <1>2, <4>1, PluginsTail
    <3>2. led' = led
      BY <2>1 DEF TellEndDeviceSupport, TellNetworkFind
    <3> QED
      BY <1>2, <3>1, <3>2, DispatchJoins DEF LedInv, OffNetwork, MayJoin, Idle
  <2>2. CASE TellSensorIface
    <3>1. CASE status = "NETWORK_UP"
      BY <2>2, <3>1
         DEF TellSensorIface, SensorIfaceStackStatus, NetworkUp, LedInv
    <3>2. CASE status # "NETWORK_UP"
      BY <1>2, <3>2, DispatchJoins, LedStep DEF LedInv, OffNetwork, MayJoin
    <3> QED
      BY <3>1, <3>2
  <2> QED
    BY <1>2, <2>1, <2>2 DEF Dispatch
<1>3. CASE Idle /\ UNCHANGED loopVars
  <2>1. CASE Stack
    BY <1>1, <2>1
  <2>2. CASE MayJoin \/ MayRejoin \/ MayLeave
    BY <1>3, <2>2, LedStep DEF LedInv, OffNetwork, MayJoin, MayRejoin, MayLeave
  <2> QED
    BY <2>1, <2>2, NetworkStep
<1>4. CASE UNCHANGED vars
  BY <1>4 DEF LedInv, OffNetwork, Idle
<1> QED
  BY <1>1, <1>2, <1>3, <1>4, LoopStep

-----------------------------------------------------------------------------
(* Moves and orphans *)

\* The move that outlives the network is stopped by the first plugin that
\* is told of the loss.
MoveInv ==
  OffNetwork /\ moveEvent
    => todo = Plugins /\ status = "NETWORK_DOWN" /\ nwk = "NO_NETWORK"

LEMMA MoveInvStep ==
  ASSUME TypeOK, RejoinInv, MoveInv, [Next]_vars
  PROVE  MoveInv'
<1>1. CASE TellEndDeviceSupport
  <2>1. UNCHANGED nwk
    BY <1>1 DEF TellEndDeviceSupport
  <2>2. CASE OffNetwork /\ moveEvent
    <3>1. emberAfStopMoveCallback
      BY <1>1, <2>2 DEF TellEndDeviceSupport, EndDeviceSupportStackStatus,
         StackStatusTold,
         MoveInv, RejoinInv, emberStackIsPerformingRejoin
    <3> QED
      BY <3>1 DEF emberAfStopMoveCallback, MoveInv
  <2>3. CASE OffNetwork /\ ~moveEvent
    <3>1. ~moveEvent'
      BY <1>1, <2>3
         DEF TellEndDeviceSupport, EndDeviceSupportStackStatus,
         StackStatusTold, OffNetwork,
             emberAfStopMoveCallback
    <3> QED
      BY <3>1 DEF MoveInv
  <2>4. CASE ~OffNetwork
    BY <2>1, <2>4 DEF OffNetwork, MoveInv
  <2> QED
    BY <2>2, <2>3, <2>4
<1>2. CASE MoveEvent
  <2>1. Idle /\ moveEvent /\ UNCHANGED nwk
    BY <1>2 DEF MoveEvent, MoveNetworkEventHandler, emberFindAndRejoinNetwork
  <2> QED
    BY <2>1 DEF MoveInv, OffNetwork, Idle, Plugins
<1>3. CASE MissedPollLimit
  BY <1>3 DEF MissedPollLimit, MoveInv, OffNetwork
<1>4. CASE UNCHANGED moveVars
  <2>1. CASE Stack
    BY <1>4, <2>1, StackStep DEF MoveInv, OffNetwork, Idle, Plugins
  <2>2. CASE Idle /\ UNCHANGED loopVars
    <3>1. CASE MayJoin \/ MayRejoin \/ MayLeave
      BY <1>4, <2>2, <3>1
         DEF MoveInv, OffNetwork, MayJoin, MayRejoin, MayLeave, Idle, Plugins
    <3> QED
      BY <2>1, <3>1, NetworkStep
  <2>3. CASE TellNetworkFind \/ TellSensorIface
    <3>1. todo # Plugins
      BY <2>3 DEF TellNetworkFind, TellSensorIface, Plugins
    <3>2. MayJoin
      BY <2>3, DispatchJoins DEF Dispatch
    <3> QED
      BY <1>4, <3>1, <3>2 DEF MoveInv, OffNetwork, MayJoin
  <2>4. CASE UNCHANGED vars
    BY <2>4 DEF MoveInv, OffNetwork
  <2> QED
    BY <1>1, <2>1, <2>2, <2>3, <2>4, LoopStep DEF Dispatch
<1> QED
  BY <1>1, <1>2, <1>3, <1>4, MoveStep

\* A move that stopped has its attempts back.
AttemptsInv ==
  \/ MaxRejoinAttempts = NeverStop
  \/ moveAttempts < MaxRejoinAttempts
  \/ moveAttempts = 0

LEMMA AttemptsStep ==
  ASSUME TypeOK, AttemptsInv, [Next]_vars
  PROVE  AttemptsInv'
<1>1. CASE UNCHANGED moveVars
  BY <1>1 DEF AttemptsInv
<1>2. ASSUME NEW n, emAfScheduleMoveEvent(n)
      PROVE  AttemptsInv'
  BY <1>2 DEF emAfScheduleMoveEvent, emberAfStopMoveCallback, AttemptsInv
<1>3. CASE emberAfStopMoveCallback
  BY <1>3 DEF emberAfStopMoveCallback, AttemptsInv
<1>4. CASE emberAfStartMoveCallback
  BY <1>1, <1>2, <1>4 DEF emberAfStartMoveCallback
<1>5. CASE TellEndDeviceSupport
  BY <1>1, <1>3, <1>4, <1>5
     DEF TellEndDeviceSupport, EndDeviceSupportStackStatus,
         StackStatusTold
<1>6. CASE MoveEvent
  BY <1>2, <1>6 DEF MoveEvent, MoveNetworkEventHandler
<1>7. CASE MissedPollLimit
  BY <1>4, <1>7 DEF MissedPollLimit
<1> QED
  BY <1>1, <1>5, <1>6, <1>7, MoveStep

LEMMA StartMoveArms ==
  ASSUME TypeOK, AttemptsInv, MaxRejoinAttempts > 0, emberAfStartMoveCallback
  PROVE  moveEvent'
<1>1. CASE moveEvent /\ UNCHANGED moveVars
  BY <1>1
<1>2. CASE emAfScheduleMoveEvent(moveAttempts)
  BY <1>2 DEF AttemptsInv, emAfScheduleMoveEvent
<1> QED
  BY <1>1, <1>2 DEF emberAfStartMoveCallback

LEMMA RejoinEventStep ==
  ASSUME rejoinEvent, nwk = "NO_PARENT", [Next]_vars
  PROVE  rejoinEvent'
<1>1. CASE Stack
  BY <1>1 DEF Stack, JoinSucceeds, JoinFails, RejoinStarts,
     RejoinSucceeds, RejoinFails, LeaveCompletes, ParentLost, ToldToLeave,
     OtherStatus, StackReports
<1>2. CASE Dispatch
  BY <1>2 DEF Dispatch, TellEndDeviceSupport, TellNetworkFind,
     TellSensorIface, SensorIfaceStackStatus, NetworkUp, NetworkDown
<1>3. CASE Events
  BY <1>3 DEF Events, InitEventHandler, RejoinEventHandler, MoveEvent,
     FindTickEvent, LedExpires
<1>4. CASE Environment
  BY <1>4 DEF Environment, ButtonPressedShort, ButtonPressedLong,
     MissedPollLimit, ZoneEnrollResponse, MfgLibStart, MfgLibEnd
<1>5. CASE BeaconHeard \/ ScanComplete
  BY <1>5 DEF BeaconHeard, ScanComplete
<1> QED
  BY <1>1, <1>2, <1>3, <1>4, <1>5 DEF Next

\* A fresh orphan is helped by the first plugin that is told.
OrphanInv ==
  nwk = "NO_PARENT" /\ rejoin = "no"
    => \/ moveEvent
       \/ rejoinEvent
       \/ todo = Plugins /\ status \in {"NETWORK_DOWN", "MOVE_FAILED"}

LEMMA OrphanStep ==
  ASSUME TypeOK, StatusInv, RejoinInv, AttemptsInv, OrphanInv,
         MaxRejoinAttempts > 0, [Next]_vars
  PROVE  OrphanInv'
<1>1. CASE Stack
  BY <1>1, StackStep DEF OrphanInv
<1>2. CASE nwk' = nwk /\ rejoin' = rejoin /\ nwk = "NO_PARENT" /\ rejoin = "no"
  <2>1. CASE rejoinEvent
    BY <1>2, <2>1, RejoinEventStep DEF OrphanInv
  <2>2. CASE moveEvent
    <3>1. CASE UNCHANGED moveVars
      BY <2>2, <3>1 DEF OrphanInv
    <3>2. CASE TellEndDeviceSupport
      BY <1>2, <2>2, <3>2 DEF TellEndDeviceSupport,
         EndDeviceSupportStackStatus,
         StackStatusTold, StatusInv, emberAfStartMoveCallback,
         OrphanInv
    <3>3. CASE MoveEvent
      <4>1. PICK ok \in BOOLEAN : MoveNetworkEventHandler(ok)
        BY <3>3 DEF MoveEvent
      <4>2. ~ok
        BY <1>2, <4>1 DEF MoveNetworkEventHandler, emberFindAndRejoinNetwork
      <4>3. emAfScheduleMoveEvent(moveAttempts)
        BY <4>1, <4>2 DEF MoveNetworkEventHandler
      <4> QED
        BY <4>3 DEF emAfScheduleMoveEvent, AttemptsInv, OrphanInv
    <3>4. CASE MissedPollLimit
      BY <3>4, StartMoveArms DEF MissedPollLimit, OrphanInv
    <3> QED
      BY <3>1, <3>2, <3>3, <3>4, MoveStep
  <2>3. CASE todo = Plugins /\ status \in {"NETWORK_DOWN", "MOVE_FAILED"}
    <3>1. CASE TellEndDeviceSupport
      BY <1>2, <2>3, <3>1, StartMoveArms DEF TellEndDeviceSupport,
         EndDeviceSupportStackStatus,
         StackStatusTold, emberStackIsPerformingRejoin, OrphanInv
    <3>2. CASE UNCHANGED vars
      BY <2>3, <3>2 DEF OrphanInv
    <3> QED
      BY <1>1, <2>3, <3>1, <3>2, LoopStep
         DEF Dispatch, TellNetworkFind, TellSensorIface, Plugins, Idle
  <2> QED
    BY <1>2, <2>1, <2>2, <2>3 DEF OrphanInv
<1>3. CASE MayJoin \/ MayRejoin \/ MayLeave
  BY <1>2, <1>3 DEF MayJoin, MayRejoin, MayLeave, OrphanInv
<1> QED
  BY <1>1, <1>3, NetworkStep

-----------------------------------------------------------------------------
(* A search never goes back: the argument why it ends.                     *)

ChannelsLeft == {c \in mask : c > channel}

\* A step of a search under way leaves fewer channels to scan; or, on the
\* same channel, it ends the scan, remembers one more network (there is a
\* limit) or takes one of those remembered.
SearchStep ==
  /\ mask' = mask
  /\ \/ ChannelsLeft' \subseteq ChannelsLeft /\ ChannelsLeft' # ChannelsLeft
     \/ /\ channel' = channel
        /\ \/ scan = "JOINABLE_SCAN" /\ scan' = "NEXT_NETWORK"
           \/ /\ scan = "JOINABLE_SCAN" /\ scan' = scan
              /\ cached < cached' /\ cached' <= MaxNetworks
           \/ /\ scan = "NEXT_NETWORK" /\ scan' = scan
              /\ cached' < cached

\* While network-find has a search under way, whatever the plugins, the stack
\* and the button do in between, form-and-join is not started anew and each
\* of its steps brings the search closer to its end (form-and-join.c,
\* emberScanForNextJoinableNetwork; network-find.c, "Form and join ongoing").
SearchAdvances ==
  [][find # "NONE" /\ find' # "NONE" => SearchStep]_libraryVars

LEMMA ScanForNextAdvances ==
  ASSUME TypeOK, NEW running, NEW outcome \in Outcomes \ ScanErrors,
         scan \in {"NEXT_NETWORK", "JOINABLE_SCAN"},
         ScanForNext(cached, channel, mask, running, outcome)
  PROVE  SearchStep
<1>0. /\ cached \in 0..MaxNetworks /\ channel \in 0..NumChannels + 1
      /\ mask \subseteq AllChannels
  BY DEF TypeOK, SearchTypeOK
<1>1. CASE /\ cached > 0
           /\ cached' = cached - 1
           /\ scan' = "NEXT_NETWORK"
           /\ UNCHANGED <<channel, mask>>
  BY <1>0, <1>1 DEF SearchStep
<1>2. CASE channel' \in ChannelsLeft /\ mask' = mask
  <2>1. /\ channel \in Nat /\ channel' \in Nat /\ channel' > channel
        /\ mask \subseteq Nat
    BY <1>0, <1>2 DEF ChannelsLeft
  <2>2. ChannelsLeft' = {c \in mask : c > channel'}
    BY <1>2 DEF ChannelsLeft
  <2>3. channel' \notin ChannelsLeft'
    <3>1. ~(channel' > channel')
      BY <2>1
    <3>2. \A c \in ChannelsLeft' : c > channel'
      BY <2>2
    <3> QED
      BY <3>1, <3>2, Zenon
  <2>4. ASSUME NEW c \in ChannelsLeft' PROVE c \in ChannelsLeft
    <3>1. c \in mask /\ c > channel'
      BY <2>2
    <3>2. c \in Nat
      BY <2>1, <3>1
    <3>3. c > channel
      BY <2>1, <3>1, <3>2
    <3> QED
      BY <3>1, <3>3 DEF ChannelsLeft
  <2>5. ChannelsLeft' # ChannelsLeft
    BY <1>2, <2>3
  <2> QED
    BY <1>2, <2>4, <2>5 DEF SearchStep
<1>3. outcome \notin {"scanRefused", "noBeacons"}
  BY DEF ScanErrors
<1>4. mask' = mask
  BY DEF ScanForNext
<1>5. CASE cached > 0
  BY <1>1, <1>4, <1>5 DEF ScanForNext
<1>6. CASE cached = 0
  <2>1. channel' \in ChannelsLeft
    BY <1>3, <1>6 DEF ScanForNext, ChannelsLeft
  <2> QED
    BY <1>2, <1>4, <2>1
<1> QED
  BY <1>0, <1>5, <1>6

LEMMA TickHandlerAdvances ==
  ASSUME TypeOK, NEW state, NetworkFindTickHandler(state)
  PROVE  find' = "NONE" \/ SearchStep
<1>1. CASE /\ scan = "NEXT_NETWORK"
           /\ \E outcome \in Outcomes :
                /\ ScanForNext(cached, channel, mask, macScan, outcome)
                /\ find' = IF outcome \in ScanErrors THEN "NONE" ELSE state
  BY <1>1, ScanForNextAdvances
<1>2. CASE find' = "NONE"
  BY <1>2
<1> QED
  BY <1>1, <1>2 DEF NetworkFindTickHandler

\* network-find refuses a search while it has one.
LEMMA IfaceSearchRefused ==
  ASSUME find # "NONE", NEW n, NEW armed, startSearchForJoinableNetwork(n, armed)
  PROVE  UNCHANGED libraryVars
BY DEF startSearchForJoinableNetwork, StartSearchForJoinableNetwork

LEMMA SearchStepTaken ==
  ASSUME TypeOK, find # "NONE", [Next]_vars
  PROVE  find' = "NONE" \/ SearchStep \/ UNCHANGED libraryVars
<1>1. CASE Stack
  BY <1>1 DEF Stack, JoinSucceeds, JoinFails, RejoinStarts,
     RejoinSucceeds, RejoinFails, LeaveCompletes, ParentLost, ToldToLeave,
     OtherStatus, StackReports
<1>2. CASE Dispatch
  <2>1. CASE TellEndDeviceSupport
    BY <2>1 DEF TellEndDeviceSupport
  <2>2. CASE TellNetworkFind
    BY <2>2, TickHandlerAdvances DEF TellNetworkFind, NetworkFindStackStatus
  <2>3. CASE TellSensorIface
    BY <2>3, IfaceSearchRefused
       DEF TellSensorIface, SensorIfaceStackStatus, NetworkUp, NetworkDown
  <2> QED
    BY <1>2, <2>1, <2>2, <2>3 DEF Dispatch
<1>3. CASE Events
  <2>1. CASE InitEventHandler
    BY <2>1, IfaceSearchRefused DEF InitEventHandler
  <2>2. CASE RejoinEventHandler
    BY <2>2, IfaceSearchRefused DEF RejoinEventHandler
  <2>3. CASE MoveEvent
    BY <2>3 DEF MoveEvent
  <2>4. CASE FindTickEvent
    BY <2>4, TickHandlerAdvances DEF FindTickEvent, NetworkFindTick
  <2>5. CASE LedExpires
    BY <2>5 DEF LedExpires
  <2> QED
    BY <1>3, <2>1, <2>2, <2>3, <2>4, <2>5 DEF Events
<1>4. CASE Environment
  <2>1. CASE ButtonPressedShort
    BY <2>1, IfaceSearchRefused DEF ButtonPressedShort
  <2>2. CASE ButtonPressedLong
    BY <2>2 DEF ButtonPressedLong
  <2>3. CASE MissedPollLimit \/ ZoneEnrollResponse \/ MfgLibStart \/ MfgLibEnd
    BY <2>3 DEF MissedPollLimit, ZoneEnrollResponse, MfgLibStart, MfgLibEnd
  <2> QED
    BY <1>4, <2>1, <2>2, <2>3 DEF Environment
<1>5. CASE BeaconHeard
  BY <1>5 DEF BeaconHeard, emberFormAndJoinNetworkFoundHandler,
     emberFormAndJoinIsScanning, SearchStep, TypeOK, SearchTypeOK
<1>6. CASE ScanComplete
  BY <1>6, ScanForNextAdvances
     DEF ScanComplete, emberFormAndJoinScanCompleteHandler,
         emberFormAndJoinIsScanning
<1>7. CASE UNCHANGED vars
  BY <1>7
<1> QED
  BY <1>1, <1>2, <1>3, <1>4, <1>5, <1>6, <1>7 DEF Next

-----------------------------------------------------------------------------
(* Searches cost attempts: the argument why they end too.                  *)

\* A search that begins spends one of the attempts, of which there are
\* MaxJoinAttempts, and only the user and a network give attempts back: a node
\* that is left alone scans for so many searches at most, whichever handler
\* starts them (sensor-iface.c, startSearchForJoinableNetwork, "stop trying").
AttemptsSpent ==
  [][ /\ find = "NONE" /\ find' # "NONE"
           => attempts < attempts' \/ presses < presses'
      /\ attempts' < attempts
           => presses < presses' \/ (~Idle /\ status = "NETWORK_UP") ]_vars

\* What AttemptsSpent says of a step that is not a press.
SpendGoal ==
  /\ find = "NONE" /\ find' # "NONE" => attempts < attempts'
  /\ attempts' < attempts => ~Idle /\ status = "NETWORK_UP"

LEMMA IfaceSearchSpends ==
  ASSUME TypeOK, NEW armed, startSearchForJoinableNetwork(attempts, armed)
  PROVE  /\ UNCHANGED find \/ attempts < attempts'
         /\ attempts' \in Nat /\ attempts <= attempts'
BY DEF startSearchForJoinableNetwork, TypeOK

LEMMA TickHandlerEnds ==
  ASSUME NEW state, find # "NONE" \/ state = "NONE",
         NetworkFindTickHandler(state)
  PROVE  find = "NONE" => find' = "NONE"
BY DEF NetworkFindTickHandler

LEMMA SpendStep ==
  ASSUME TypeOK, [Next]_vars
  PROVE  SpendGoal \/ presses < presses'
<1> USE DEF SpendGoal
<1>0. attempts \in Nat /\ presses \in Nat
  BY DEF TypeOK
<1>1. CASE Stack
  BY <1>0, <1>1 DEF Stack, JoinSucceeds, JoinFails, RejoinStarts,
     RejoinSucceeds, RejoinFails, LeaveCompletes, ParentLost, ToldToLeave,
     OtherStatus, StackReports
<1>2. CASE Dispatch
  <2>1. CASE TellEndDeviceSupport
    BY <1>0, <2>1 DEF TellEndDeviceSupport
  <2>2. CASE TellNetworkFind
    BY <1>0, <2>2 DEF TellNetworkFind, NetworkFindStackStatus
  <2>3. CASE TellSensorIface
    <3>1. CASE status = "NETWORK_UP"
      BY <2>3, <3>1
         DEF TellSensorIface, SensorIfaceStackStatus, NetworkUp
    <3>2. CASE status # "NETWORK_UP"
      BY <1>0, <2>3, <3>2, IfaceSearchSpends
         DEF TellSensorIface, SensorIfaceStackStatus, NetworkDown
    <3> QED
      BY <3>1, <3>2
  <2> QED
    BY <1>2, <2>1, <2>2, <2>3 DEF Dispatch
<1>3. CASE Events
  <2>1. CASE InitEventHandler
    BY <1>0, <2>1, IfaceSearchSpends DEF InitEventHandler
  <2>2. CASE RejoinEventHandler
    <3>1. \/ startSearchForJoinableNetwork(attempts, FALSE)
          \/ UNCHANGED <<searchVars, attempts>>
      BY <2>2 DEF RejoinEventHandler
    <3>2. \/ UNCHANGED <<find, attempts>>
          \/ /\ UNCHANGED find \/ attempts < attempts'
             /\ attempts' \in Nat /\ attempts <= attempts'
      BY <3>1, IfaceSearchSpends DEF searchVars
    <3> QED
      BY <1>0, <3>2
  <2>3. CASE MoveEvent
    BY <1>0, <2>3 DEF MoveEvent
  <2>4. CASE FindTickEvent
    BY <1>0, <2>4, TickHandlerEnds DEF FindTickEvent, NetworkFindTick
  <2>5. CASE LedExpires
    BY <1>0, <2>5 DEF LedExpires
  <2> QED
    BY <1>3, <2>1, <2>2, <2>3, <2>4, <2>5 DEF Events
<1>4. CASE Environment
  BY <1>0, <1>4 DEF Environment, ButtonPressedShort, ButtonPressedLong,
     MissedPollLimit, ZoneEnrollResponse, MfgLibStart, MfgLibEnd
<1>5. CASE BeaconHeard
  BY <1>0, <1>5 DEF BeaconHeard, emberFormAndJoinNetworkFoundHandler
<1>6. CASE ScanComplete
  <2>1. find = "NONE" => find' = "NONE"
    BY <1>6 DEF ScanComplete, emberFormAndJoinScanCompleteHandler
  <2> QED
    BY <1>0, <1>6, <2>1 DEF ScanComplete
<1>7. CASE UNCHANGED vars
  BY <1>0, <1>7
<1> QED
  BY <1>1, <1>2, <1>3, <1>4, <1>5, <1>6, <1>7 DEF Next

-----------------------------------------------------------------------------
(* The theorems *)

JoinInv ==
  /\ TypeOK
  /\ RejoinInv
  /\ LibraryInv
  /\ FindInv
  /\ StatusInv
  /\ LedInv
  /\ MoveInv
  /\ AttemptsInv

LEMMA JoinInvHolds == Spec => []JoinInv
<1>1. Init => JoinInv
  <2> SUFFICES ASSUME Init PROVE JoinInv
    OBVIOUS
  <2>1. TypeOK
    BY TypeInit
  <2>2. BufferHeld
    BY Zenon DEF Init, BufferHeld
  <2>3. StatusInv /\ LedInv /\ FindInv
    BY DEF Init, StatusInv, LedInv, FindInv, Idle
  <2>4. RejoinInv /\ MoveInv /\ AttemptsInv /\ ScanNeverWedged
    BY DEF Init, RejoinInv, MoveInv, AttemptsInv, ScanNeverWedged
  <2> QED
    BY <2>1, <2>2, <2>3, <2>4 DEF JoinInv, LibraryInv
<1>2. JoinInv /\ [Next]_vars => JoinInv'
  BY TypeStep, RejoinStep, LibraryStep, FindStep, StatusStep, LedInvStep,
     MoveInvStep, AttemptsStep DEF JoinInv
<1> QED
  BY <1>1, <1>2, PTL DEF Spec

\* form-and-join holds its message buffer exactly while a search can go on.
THEOREM BufferCorrect == Spec => []BufferHeld
<1>1. JoinInv => BufferHeld
  BY DEF JoinInv, LibraryInv
<1> QED
  BY <1>1, JoinInvHolds, PTL

\* form-and-join never waits for a scan that the MAC does not run.
THEOREM ScanCorrect == Spec => []ScanNeverWedged
<1>1. JoinInv => ScanNeverWedged
  BY DEF JoinInv, LibraryInv
<1> QED
  BY <1>1, JoinInvHolds, PTL

\* network-find, when it is not NONE, waits for a scan, a join or its tick.
THEOREM FindCorrect == Spec => []FindNeverWedged
<1>1. JoinInv => FindNeverWedged
  <2> SUFFICES ASSUME FindInv, Idle PROVE FindNeverWedged
    BY DEF JoinInv, FindNeverWedged
  <2>1. ~NetworkFindToBeTold
    BY DEF Idle, NetworkFindToBeTold, Plugins
  <2> QED
    BY <2>1 DEF FindInv, FindNeverWedged
<1> QED
  BY <1>1, JoinInvHolds, PTL

\* A node that lost its network has no move armed.
THEOREM MoveCorrect == Spec => []MoveStopsOffNetwork
<1>1. JoinInv => MoveStopsOffNetwork
  BY DEF JoinInv, MoveInv, MoveStopsOffNetwork, OffNetwork, Idle, Plugins
<1> QED
  BY <1>1, JoinInvHolds, PTL

\* The LED does not show the search pattern on a network.
THEOREM LedCorrect == Spec => []LedHonest
<1>1. JoinInv => LedHonest
  BY DEF JoinInv, LedInv, LedHonest, OffNetwork
<1> QED
  BY <1>1, JoinInvHolds, PTL

\* A node without a parent has a way back armed, provided that the move is
\* allowed at least one attempt: with none, a failed rejoin at boot leaves
\* the node without any.
THEOREM OrphanCorrect ==
  ASSUME MaxRejoinAttempts > 0
  PROVE  Spec => []OrphanRecovers
<1>1. Init => OrphanInv
  BY DEF Init, OrphanInv
<1>2. JoinInv /\ OrphanInv /\ [Next]_vars => OrphanInv'
  BY OrphanStep DEF JoinInv
<1>3. OrphanInv => OrphanRecovers
  BY DEF OrphanInv, OrphanRecovers, emberStackIsPerformingRejoin, Idle, Plugins
<1> QED
  BY <1>1, <1>2, <1>3, JoinInvHolds, PTL DEF Spec

\* A search under way never goes back, which is why it ends.
THEOREM SearchCorrect == Spec => SearchAdvances
<1>1. TypeOK /\ [Next]_vars
        => [find # "NONE" /\ find' # "NONE" => SearchStep]_libraryVars
  BY SearchStepTaken
<1> QED
  BY <1>1, TypeCorrect, PTL DEF Spec, SearchAdvances

\* Every search spends an attempt, and a node left alone gets none back.
THEOREM AttemptsCorrect == Spec => AttemptsSpent
BY SpendStep, TypeCorrect, PTL DEF Spec, AttemptsSpent, SpendGoal
=============================================================================
