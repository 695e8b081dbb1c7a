---------------------------- MODULE JoinControl ----------------------------
(***************************************************************************)
(* How the door sensor gets onto a network and back onto it: the policy of *)
(* the sensor-iface plugin composed with the search for a joinable network *)
(* (NetworkSearch), the search for a new parent (EndDeviceMove) and the    *)
(* stack (EmberStack).                                                     *)
(*                                                                         *)
(* The main loop is single threaded: a step is one handler run by it.  The *)
(* stack reports a status to three plugins in a fixed order, and each of   *)
(* them sees what the previous ones did: todo holds those still to be told.*)
(* Delays are abstracted to armed or not: an armed event may run whenever  *)
(* the loop is idle.                                                       *)
(***************************************************************************)
EXTENDS NetworkSearch, EndDeviceMove

CONSTANTS
  MaxJoinAttempts,   \* the 40 of startSearchForJoinableNetwork
  MaxPresses         \* bound: button presses that a behaviour has

ASSUME JoinAssumption ==
  /\ MaxJoinAttempts \in 1..255
  /\ MaxPresses \in Nat

VARIABLES
  attempts,        \* networkJoinAttempts
  rejoinEvent,     \* emberAfPluginSensorIfaceRejoinEventControl is armed
  initEvent,       \* emberAfPluginSensorIfaceInitEventControl is armed
  mfgLibRunning,   \* a manufacturing test holds the radio
  led,             \* what the LED shows
  enrolled,        \* the zone server is enrolled with a CIE
  status,          \* the stack status being reported
  todo,            \* plugins that have not seen it yet, in order
  presses,         \* button presses so far
  moves            \* rejoins started by the move event since NETWORK_UP

ifaceVars == <<attempts, rejoinEvent, initEvent, mfgLibRunning, led, enrolled>>
loopVars == <<status, todo>>
historyVars == <<presses, moves>>
vars == <<stackVars, searchVars, moveVars, ifaceVars, loopVars, historyVars>>

Plugins == <<"EndDeviceSupport", "NetworkFind", "SensorIface">>

Idle == todo = <<>>

Init ==
  \* A node that was on a network resumes it by a rejoin.
  /\ \/ nwk = "NO_NETWORK" /\ rejoin = "no"
     \/ nwk = "NO_PARENT" /\ rejoin = "scan"
  /\ macScan = FALSE
  /\ find = "NONE" /\ findTick = FALSE
  /\ scan = "NOT_SCANNING" /\ buffer = FALSE
  /\ cached = 0 /\ channel = 0 /\ mask = {}
  /\ moveEvent = FALSE /\ moveAttempts = 0
  /\ attempts = 0 /\ rejoinEvent = FALSE
  /\ initEvent = TRUE /\ mfgLibRunning = FALSE
  /\ led = "off" /\ enrolled = FALSE
  /\ status = "OTHER" /\ todo = <<>>
  /\ presses = 0 /\ moves = 0

-----------------------------------------------------------------------------
(* The sensor-iface plugin *)

\* Mutant of startSearchForJoinableNetwork: only accepted searches count.
CountsAcceptedSearches(n, armed) ==
  \/ /\ mfgLibRunning
     /\ attempts' = n
     /\ rejoinEvent' = armed
     /\ UNCHANGED <<stackVars, searchVars, led>>
  \/ /\ ~mfgLibRunning
     /\ n < MaxJoinAttempts
     /\ StartSearchForJoinableNetwork(IF n = 0 THEN ChannelMask
                                               ELSE AllChannels)
     /\ attempts' = IF find' = "JOIN" THEN n + 1 ELSE n
     /\ rejoinEvent' = TRUE
     /\ led' = IF n = 0 /\ nwk = "NO_NETWORK" THEN "search" ELSE led
  \/ /\ ~mfgLibRunning
     /\ n >= MaxJoinAttempts
     /\ attempts' = n
     /\ rejoinEvent' = armed
     /\ led' = "off"
     /\ UNCHANGED <<stackVars, searchVars>>

\* startSearchForJoinableNetwork with n join attempts behind it and the
\* rejoin event armed or not.  The first attempt takes the preferred
\* channels.  That a search is refused goes unnoticed.
startSearchForJoinableNetwork(n, armed) ==
  \/ /\ mfgLibRunning
     /\ attempts' = n
     /\ rejoinEvent' = armed
     /\ UNCHANGED <<stackVars, searchVars, led>>
  \/ /\ ~mfgLibRunning
     /\ n < MaxJoinAttempts
     /\ attempts' = n + 1
     /\ rejoinEvent' = TRUE
     /\ led' = IF n = 0 /\ nwk = "NO_NETWORK" THEN "search" ELSE led
     /\ StartSearchForJoinableNetwork(IF n = 0 THEN ChannelMask
                                               ELSE AllChannels)
  \/ /\ ~mfgLibRunning
     /\ n >= MaxJoinAttempts
     /\ attempts' = n
     /\ rejoinEvent' = armed
     /\ led' = "off"
     /\ UNCHANGED <<stackVars, searchVars>>

InitEventHandler ==
  /\ Idle
  /\ initEvent
  /\ ~mfgLibRunning          \* otherwise it stays armed and tries again
  /\ initEvent' = FALSE
  /\ \/ /\ nwk = "NO_NETWORK"
        /\ startSearchForJoinableNetwork(attempts, rejoinEvent)
     \/ /\ nwk # "NO_NETWORK"
        /\ UNCHANGED <<stackVars, searchVars, attempts, rejoinEvent, led>>
  /\ UNCHANGED <<moveVars, mfgLibRunning, enrolled, loopVars, historyVars>>

RejoinEventHandler ==
  /\ Idle
  /\ rejoinEvent
  /\ \/ /\ nwk = "NO_NETWORK"
        /\ startSearchForJoinableNetwork(attempts, FALSE)
     \/ /\ nwk = "NO_PARENT"
        /\ rejoinEvent' = TRUE
        /\ \E ok \in BOOLEAN : emberFindAndRejoinNetwork(ok)
        /\ UNCHANGED <<searchVars, attempts, led>>
     \/ /\ nwk \notin {"NO_NETWORK", "NO_PARENT"}
        /\ rejoinEvent' = FALSE
        /\ UNCHANGED <<stackVars, searchVars, attempts, led>>
  /\ UNCHANGED <<moveVars, initEvent, mfgLibRunning, enrolled, loopVars,
                 historyVars>>

\* emberAfPluginSensorIfaceButtonPressedShortCallback
ButtonPressedShort ==
  /\ Idle
  /\ presses < MaxPresses
  /\ presses' = presses + 1
  /\ \/ /\ nwk = "NO_NETWORK"
        /\ startSearchForJoinableNetwork(0, rejoinEvent)
     \/ /\ nwk = "NO_PARENT"
        /\ emberLeaveNetwork
        /\ UNCHANGED <<searchVars, attempts, rejoinEvent, led>>
     \/ /\ nwk \notin {"NO_NETWORK", "NO_PARENT"}
        /\ UNCHANGED <<stackVars, searchVars, attempts, rejoinEvent, led>>
  /\ UNCHANGED <<moveVars, initEvent, mfgLibRunning, enrolled, loopVars, moves>>

\* emberAfPluginSensorIfaceButton0PressedLongCallback, more than 5 seconds.
ButtonPressedLong ==
  /\ Idle
  /\ presses < MaxPresses
  /\ presses' = presses + 1
  /\ enrolled' = FALSE
  /\ emberLeaveNetwork
  /\ UNCHANGED <<searchVars, moveVars, attempts, rejoinEvent, initEvent,
                 mfgLibRunning, led, loopVars, moves>>

NetworkUp ==
  /\ attempts' = 0
  /\ led' = "on"
  /\ UNCHANGED <<stackVars, searchVars, rejoinEvent, enrolled>>

NetworkDown ==
  \/ /\ nwk = "NO_NETWORK"
     /\ enrolled' = FALSE
     /\ startSearchForJoinableNetwork(attempts, rejoinEvent)
  \/ /\ nwk = "NO_PARENT"
     /\ rejoinEvent' = TRUE
     /\ UNCHANGED <<stackVars, searchVars, attempts, led, enrolled>>
  \/ /\ nwk \notin {"NO_NETWORK", "NO_PARENT"}
     /\ UNCHANGED <<stackVars, searchVars, attempts, rejoinEvent, led,
                    enrolled>>

\* emberAfPluginSensorIfaceStackStatusCallback
SensorIfaceStackStatus ==
  \/ status = "NETWORK_UP" /\ NetworkUp
  \/ status = "NETWORK_DOWN" /\ NetworkDown
  \/ /\ status \notin {"NETWORK_UP", "NETWORK_DOWN"}
     /\ UNCHANGED <<stackVars, searchVars, attempts, rejoinEvent, led,
                    enrolled>>

-----------------------------------------------------------------------------
(* The plugins are told of a stack status, one after the other.            *)

TellEndDeviceSupport ==
  /\ ~Idle /\ Head(todo) = "EndDeviceSupport"
  /\ todo' = Tail(todo)
  /\ EndDeviceSupportStackStatus(status)
  /\ UNCHANGED <<stackVars, searchVars, ifaceVars, status, historyVars>>

TellNetworkFind ==
  /\ ~Idle /\ Head(todo) = "NetworkFind"
  /\ todo' = Tail(todo)
  /\ NetworkFindStackStatus(status)
  /\ UNCHANGED <<moveVars, ifaceVars, status, historyVars>>

TellSensorIface ==
  /\ ~Idle /\ Head(todo) = "SensorIface"
  /\ todo' = Tail(todo)
  /\ SensorIfaceStackStatus
  /\ UNCHANGED <<moveVars, initEvent, mfgLibRunning, status, historyVars>>

-----------------------------------------------------------------------------
(* Events of the other plugins *)

MoveEvent ==
  /\ Idle
  /\ \E ok \in BOOLEAN :
       /\ MoveNetworkEventHandler(ok)
       /\ moves' = IF ok /\ moves <= MaxRejoinAttempts THEN moves + 1
                   ELSE moves
  /\ UNCHANGED <<searchVars, ifaceVars, loopVars, presses>>

FindTickEvent ==
  /\ Idle
  /\ NetworkFindTick
  /\ UNCHANGED <<moveVars, ifaceVars, loopVars, historyVars>>

\* emAfPollCompleteHandler after EMBER_AF_PLUGIN_END_DEVICE_SUPPORT_MAX_MISSED_POLLS.
MissedPollLimit ==
  /\ Idle
  /\ nwk \in {"JOINED", "NO_PARENT"}
  /\ emberAfStartMoveCallback
  /\ UNCHANGED <<stackVars, searchVars, ifaceVars, loopVars, historyVars>>

\* The pattern (300 s) or the 5 s of light that follow NETWORK_UP are over.
LedExpires ==
  /\ Idle
  /\ led # "off"
  /\ led' = "off"
  /\ UNCHANGED <<stackVars, searchVars, moveVars, attempts, rejoinEvent,
                 initEvent, mfgLibRunning, enrolled, loopVars, historyVars>>

\* A zone enroll response of the CIE (module IasZone has the handshake).
ZoneEnrollResponse ==
  /\ Idle
  /\ nwk = "JOINED"
  /\ enrolled' \in BOOLEAN
  /\ UNCHANGED <<stackVars, searchVars, moveVars, attempts, rejoinEvent,
                 initEvent, mfgLibRunning, led, loopVars, historyVars>>

\* CLI commands, given at any time: the boot leaves 10 s for a test to start.
MfgLibStart ==
  /\ Idle
  /\ ~mfgLibRunning
  /\ mfgLibRunning' = TRUE
  /\ UNCHANGED <<stackVars, searchVars, moveVars, attempts, rejoinEvent,
                 initEvent, led, enrolled, loopVars, historyVars>>

MfgLibEnd ==
  /\ Idle
  /\ mfgLibRunning
  /\ mfgLibRunning' = FALSE
  /\ UNCHANGED <<stackVars, searchVars, moveVars, attempts, rejoinEvent,
                 initEvent, led, enrolled, loopVars, historyVars>>

BeaconHeard ==
  /\ Idle
  /\ emberFormAndJoinNetworkFoundHandler
  /\ UNCHANGED <<moveVars, ifaceVars, loopVars, historyVars>>

ScanComplete ==
  /\ Idle
  /\ emberFormAndJoinScanCompleteHandler
  /\ UNCHANGED <<moveVars, ifaceVars, loopVars, historyVars>>

-----------------------------------------------------------------------------
(* What the stack does by itself and reports. *)

\* emberStackStatusHandler(s) after the stack went to state n, rejoin r.
StackReports(s, n, r) ==
  /\ nwk' = n
  /\ rejoin' = r
  /\ status' = s
  /\ todo' = Plugins
  /\ moves' = IF s = "NETWORK_UP" THEN 0 ELSE moves
  /\ UNCHANGED <<macScan, searchVars, moveVars, ifaceVars, presses>>

JoinSucceeds ==
  /\ Idle /\ nwk = "JOINING"
  /\ StackReports("NETWORK_UP", "JOINED", "no")

JoinFails ==
  /\ Idle /\ nwk = "JOINING"
  /\ StackReports("JOIN_FAILED", "NO_NETWORK", "no")

RejoinStarts ==
  /\ Idle /\ rejoin = "start"
  /\ StackReports("NETWORK_DOWN", "NO_PARENT", "scan")

RejoinSucceeds ==
  /\ Idle /\ rejoin = "scan"
  /\ StackReports("NETWORK_UP", "JOINED", "no")

RejoinFails ==
  /\ Idle /\ rejoin = "scan"
  /\ StackReports("MOVE_FAILED", "NO_PARENT", "no")

LeaveCompletes ==
  /\ Idle /\ nwk = "LEAVING"
  /\ StackReports("NETWORK_DOWN", "NO_NETWORK", "no")

\* The parent stops answering polls; the stack may rejoin by itself.
ParentLost ==
  /\ Idle /\ nwk = "JOINED" /\ rejoin = "no"
  /\ \E r \in {"no", "scan"} : StackReports("NETWORK_DOWN", "NO_PARENT", r)

\* A leave command over the air.
ToldToLeave ==
  /\ Idle /\ nwk = "JOINED"
  /\ StackReports("NETWORK_DOWN", "NO_NETWORK", "no")

OtherStatus ==
  /\ Idle /\ nwk = "JOINED"
  /\ StackReports("OTHER", nwk, rejoin)

Stack ==
  \/ JoinSucceeds \/ JoinFails
  \/ RejoinStarts \/ RejoinSucceeds \/ RejoinFails
  \/ LeaveCompletes \/ ParentLost \/ ToldToLeave \/ OtherStatus

Dispatch == TellEndDeviceSupport \/ TellNetworkFind \/ TellSensorIface

Events ==
  \/ InitEventHandler \/ RejoinEventHandler \/ MoveEvent \/ FindTickEvent
  \/ LedExpires

Environment ==
  \/ ButtonPressedShort \/ ButtonPressedLong \/ MissedPollLimit
  \/ ZoneEnrollResponse \/ MfgLibStart \/ MfgLibEnd

Next ==
  \/ Stack \/ Dispatch \/ Events \/ Environment
  \/ BeaconHeard \/ ScanComplete

Spec == Init /\ [][Next]_vars

\* The loop never stops, so that a reported status reaches every plugin and
\* an armed event runs; the stack ends every scan, join, rejoin and leave.
Fairness ==
  /\ WF_vars(Dispatch)
  /\ WF_vars(ScanComplete)
  /\ WF_vars(JoinSucceeds \/ JoinFails)
  /\ WF_vars(RejoinStarts)
  /\ WF_vars(RejoinSucceeds \/ RejoinFails)
  /\ WF_vars(LeaveCompletes)
  /\ WF_vars(InitEventHandler)
  /\ WF_vars(RejoinEventHandler)
  /\ WF_vars(MoveEvent)
  /\ WF_vars(FindTickEvent)

FairSpec == Spec /\ Fairness
-----------------------------------------------------------------------------
(* Properties *)

\* Every variable keeps its type: the buffer of form-and-join does not grow
\* past its limit, and the int8u counters of sensor-iface.c and
\* end-device-move.c do not wrap.
TypeOK ==
  /\ StackTypeOK
  /\ SearchTypeOK
  /\ MoveTypeOK
  /\ attempts \in 0..MaxJoinAttempts
  /\ rejoinEvent \in BOOLEAN
  /\ initEvent \in BOOLEAN
  /\ mfgLibRunning \in BOOLEAN
  /\ led \in {"off", "search", "on"}
  /\ enrolled \in BOOLEAN
  /\ status \in Statuses
  /\ todo \in {<<>>, <<"SensorIface">>, <<"NetworkFind", "SensorIface">>,
              Plugins}
  /\ presses \in 0..MaxPresses
  /\ moves \in 0..MaxRejoinAttempts + 1

\* The library holds its message buffer while a search can go on and only
\* then: otherwise a record of a network is read through a buffer that is
\* gone, or a buffer is lost at every search (form-and-join.c, setup,
\* emberFormAndJoinCleanup).
BufferHeld == buffer = (scan # "NOT_SCANNING")

\* The library waits for a scan only if the MAC runs one, whoever else
\* cleaned up or scanned in between: otherwise emberFormAndJoinIsScanning
\* stays TRUE and setup refuses every later search.
ScanNeverWedged == scan = "JOINABLE_SCAN" => macScan

\* network-find never rests in a state that nothing is going to end: while it
\* is not NONE, every new search is refused ("Form and join ongoing").
FindNeverWedged ==
  Idle =>
    /\ find = "JOIN" => scan = "JOINABLE_SCAN" \/ findTick \/ nwk = "JOINING"
    /\ find = "WAIT" => findTick

\* A node without a parent has a move or a rejoin event armed, or a rejoin
\* running, however the two plugins and the stack interleave.
OrphanRecovers ==
  Idle /\ nwk = "NO_PARENT" /\ ~emberStackIsPerformingRejoin
    => moveEvent \/ rejoinEvent

\* A node that lost its network stops looking for a parent: a move event
\* left behind would spin, its rejoin refused each time.
MoveStopsOffNetwork ==
  Idle /\ nwk \in {"NO_NETWORK", "JOINING"} => ~moveEvent

\* The search pattern is not shown by a node that is on a network.
LedHonest ==
  Idle /\ led = "search" => nwk \in {"NO_NETWORK", "JOINING"}

\* sensor-iface.c, "make a join attempt every 5 seconds": while attempts are
\* left and no search runs, the next attempt is scheduled.
SearchKeepsTrying ==
  Idle /\ nwk = "NO_NETWORK" /\ find = "NONE"
       /\ attempts \in 1..MaxJoinAttempts - 1
    => rejoinEvent

\* end-device-support, plugin.properties: at most so many sequential attempts
\* to find a new parent "before giving up"; a successful rejoin resets them.
MoveGivesUp == moves <= MaxRejoinAttempts

\* sensor-iface.c, "if we are off the network, we need to unenroll": no
\* enrolment outlives the network it was made on.
NewNetworkNotEnrolled == nwk = "JOINING" => ~enrolled

\* A search ends: it finds a network, or runs out of channels.
SearchEnds == find = "JOIN" ~> find # "JOIN"

\* The battery is not drained by a search without end: a node that never
\* gets onto a network stops scheduling attempts.
SearchGivesUp ==
  []<>(~rejoinEvent \/ nwk \notin {"NO_NETWORK", "JOINING"})

\* A node without a parent tries to rejoin.
OrphanRetries ==
  nwk = "NO_PARENT" ~> emberStackIsPerformingRejoin \/ nwk # "NO_PARENT"
=============================================================================
