--------------------------- MODULE NetworkSearch ---------------------------
(***************************************************************************)
(* The search for a network to join: the network-find plugin on top of the *)
(* form-and-join library.  The library scans one channel at a time, keeps  *)
(* the joinable networks it hears in a buffer, offers them one by one and  *)
(* can be told to go on from where it stopped; the plugin decides when.    *)
(*                                                                         *)
(* The product has no coordinator network, so that forming (the energy and *)
(* PAN ID scans, NETWORK_FIND_FORM) cannot be started; it is built with    *)
(* EMBER_AF_DISABLE_FORM_AND_JOIN_TICK, so that the clean-up event of the  *)
(* library never runs.  Channels are numbered from 1.                      *)
(***************************************************************************)
EXTENDS EmberStack

CONSTANTS
  NumChannels,   \* the channels of the radio are 1..NumChannels
  ChannelMask,   \* EMBER_AF_PLUGIN_NETWORK_FIND_CHANNEL_MASK
  MaxNetworks    \* FORM_AND_JOIN_MAX_NETWORKS

ASSUME SearchAssumption ==
  /\ NumChannels \in Nat
  /\ ChannelMask \subseteq 1..NumChannels
  /\ ChannelMask # {}
  /\ MaxNetworks \in Nat

VARIABLES
  find,      \* state of network-find
  findTick,  \* emberAfPluginNetworkFindTickEventControl is armed
  scan,      \* formAndJoinScanType
  cached,    \* networkCount
  buffer,    \* the library holds its message buffer (dataCache)
  channel,   \* channelCache; 0 before the first channel
  mask       \* channelMaskCache

libraryVars == <<scan, cached, buffer, channel, mask>>
searchVars == <<find, findTick, libraryVars>>

AllChannels == 1..NumChannels

-----------------------------------------------------------------------------
(* The form-and-join library *)

emberFormAndJoinIsScanning == scan = "JOINABLE_SCAN"

\* Mutant of emberFormAndJoinCleanup: the buffer is not released.
CleanupKeepsBuffer ==
  /\ scan' = "NOT_SCANNING"
  /\ buffer' = buffer

emberFormAndJoinCleanup ==
  /\ scan' = "NOT_SCANNING"
  /\ buffer' = FALSE

\* Mutant of startScan: a refused scan leaves the scan type as it is.
startScanKeepsType(ok, running) ==
  /\ emberStartScan(ok, running)
  /\ scan' = "JOINABLE_SCAN"
  /\ buffer' = TRUE

\* An active scan of one channel; a refused one ends the search.
startScan(ok, running) ==
  /\ emberStartScan(ok, running)
  /\ \/ ok /\ scan' = "JOINABLE_SCAN" /\ buffer' = TRUE
     \/ ~ok /\ emberFormAndJoinCleanup

\* The ways in which emberScanForNextJoinableNetwork ends.  In the first two
\* a cached network is offered and emberJoinNetwork accepts or refuses it;
\* otherwise the next channel is scanned, or there is none left.
Outcomes == {"joining", "joinRefused", "scanning", "scanRefused", "noBeacons"}

\* The outcomes that end in emberScanErrorHandler.
ScanErrors == {"scanRefused", "noBeacons"}

\* emberScanForNextJoinableNetwork when the scan type is NEXT_NETWORK, with
\* n networks in the cache, chan the last channel scanned and m the mask;
\* running says whether the MAC still runs a scan.
ScanForNext(n, chan, m, running, outcome) ==
  LET left == {c \in m : c > chan}
  IN /\ mask' = m
     /\ \/ /\ n > 0
           /\ outcome \in {"joining", "joinRefused"}
           /\ emberJoinNetwork(outcome = "joining")
           /\ cached' = n - 1
           /\ scan' = "NEXT_NETWORK"
           /\ buffer' = TRUE
           /\ channel' = chan
           /\ macScan' = running
        \/ /\ n = 0
           /\ left # {}
           /\ outcome \in {"scanning", "scanRefused"}
           /\ startScan(outcome = "scanning", running)
           /\ cached' = 0
           /\ channel' \in {c \in left : \A d \in left : c <= d}
        \/ /\ n = 0
           /\ left = {}
           /\ outcome = "noBeacons"
           /\ emberFormAndJoinCleanup
           /\ cached' = 0
           /\ channel' = NumChannels + 1
           /\ macScan' = running
           /\ UNCHANGED <<nwk, rejoin>>

\* Mutant of emberFormAndJoinNetworkFoundHandler: the limit is off by one.
SavesOneTooMany ==
  /\ macScan
  /\ emberFormAndJoinIsScanning
  /\ cached <= MaxNetworks
  /\ cached' = cached + 1
  /\ UNCHANGED <<stackVars, find, findTick, scan, buffer, channel, mask>>

\* A beacon with permit-join on is remembered if the buffer can grow.
emberFormAndJoinNetworkFoundHandler ==
  /\ macScan
  /\ emberFormAndJoinIsScanning
  /\ cached < MaxNetworks
  /\ cached' = cached + 1
  /\ UNCHANGED <<stackVars, find, findTick, scan, buffer, channel, mask>>

-----------------------------------------------------------------------------
(* The network-find plugin *)

\* emberAfPluginNetworkFindTickEventHandler, run by the event and, in line,
\* by the stack status callback.  A join that is refused arms it again.
NetworkFindTickHandler(state) ==
  \/ /\ state = "JOIN"
     /\ scan = "NEXT_NETWORK"
     /\ \E outcome \in Outcomes :
          /\ ScanForNext(cached, channel, mask, macScan, outcome)
          /\ find' = IF outcome \in ScanErrors THEN "NONE" ELSE state
          /\ findTick' = (outcome = "joinRefused")
  \/ /\ state = "JOIN"                   \* EMBER_INVALID_CALL
     /\ scan # "NEXT_NETWORK"
     /\ find' = "NONE"
     /\ findTick' = FALSE
     /\ UNCHANGED <<stackVars, libraryVars>>
  \/ /\ state # "JOIN"
     /\ find' = "NONE"
     /\ findTick' = FALSE
     /\ emberFormAndJoinCleanup
     /\ UNCHANGED <<stackVars, cached, channel, mask>>

\* emberAfStartSearchForJoinableNetworkCallback and its all-channels twin.
\* The caller ignores the status they return.
StartSearchForJoinableNetwork(m) ==
  \/ /\ find # "NONE" \/ emberFormAndJoinIsScanning
     /\ UNCHANGED <<stackVars, searchVars>>
  \/ /\ find = "NONE"
     /\ ~emberFormAndJoinIsScanning
     /\ \/ \E outcome \in Outcomes :
             /\ ScanForNext(0, 0, m, macScan, outcome)
             /\ find' = IF outcome = "scanRefused" THEN "NONE" ELSE "JOIN"
        \/ /\ emberFormAndJoinCleanup    \* EMBER_NO_BUFFERS
           /\ cached' = 0
           /\ UNCHANGED <<stackVars, find, channel, mask>>
     /\ UNCHANGED findTick

\* Mutant of NetworkFindStackStatus: only NETWORK_DOWN continues a search.
ContinuesOnDownOnly(status) ==
  \/ /\ status = "NETWORK_UP"
     /\ find = "JOIN"
     /\ find' = "WAIT"
     /\ findTick' = TRUE
     /\ UNCHANGED <<stackVars, libraryVars>>
  \/ /\ status = "NETWORK_DOWN"
     /\ find \in {"JOIN", "WAIT"}
     /\ NetworkFindTickHandler("JOIN")
  \/ /\ \/ status \notin {"NETWORK_UP", "NETWORK_DOWN"}
        \/ find = "NONE"
        \/ status = "NETWORK_UP" /\ find = "WAIT"
     /\ UNCHANGED <<stackVars, searchVars>>

\* emberAfPluginNetworkFindStackStatusCallback
NetworkFindStackStatus(status) ==
  \/ /\ status = "NETWORK_UP"
     /\ find = "JOIN"
     /\ find' = "WAIT"
     /\ findTick' = TRUE
     /\ UNCHANGED <<stackVars, libraryVars>>
  \/ /\ status # "NETWORK_UP"
     /\ find \in {"JOIN", "WAIT"}
     /\ NetworkFindTickHandler("JOIN")
  \/ /\ \/ find = "NONE"
        \/ status = "NETWORK_UP" /\ find = "WAIT"
     /\ UNCHANGED <<stackVars, searchVars>>

\* Mutant of emberFormAndJoinScanCompleteHandler: a refused join goes unnoticed.
RefusedJoinUnnoticed ==
  /\ macScan
  /\ \/ /\ emberFormAndJoinIsScanning
        /\ \E outcome \in Outcomes :
             /\ ScanForNext(cached, channel, mask, FALSE, outcome)
             /\ find' = IF outcome \in ScanErrors THEN "NONE" ELSE find
        /\ UNCHANGED findTick
     \/ /\ ~emberFormAndJoinIsScanning
        /\ macScan' = FALSE
        /\ UNCHANGED <<nwk, rejoin, searchVars>>

\* emberFormAndJoinScanCompleteHandler with EMBER_SUCCESS; other statuses
\* report a beacon request that was not sent and change nothing.  A network
\* that is found is joined at once.
emberFormAndJoinScanCompleteHandler ==
  /\ macScan
  /\ \/ /\ emberFormAndJoinIsScanning
        /\ \E outcome \in Outcomes :
             /\ ScanForNext(cached, channel, mask, FALSE, outcome)
             /\ find' = IF outcome \in ScanErrors THEN "NONE" ELSE find
             /\ findTick' = (findTick \/ outcome = "joinRefused")
     \/ /\ ~emberFormAndJoinIsScanning
        /\ macScan' = FALSE
        /\ UNCHANGED <<nwk, rejoin, searchVars>>

\* The tick event of network-find.
NetworkFindTick ==
  /\ findTick
  /\ NetworkFindTickHandler(find)

SearchTypeOK ==
  /\ find \in {"NONE", "JOIN", "WAIT"}
  /\ findTick \in BOOLEAN
  /\ scan \in {"NOT_SCANNING", "NEXT_NETWORK", "JOINABLE_SCAN"}
  /\ cached \in 0..MaxNetworks
  /\ buffer \in BOOLEAN
  /\ channel \in 0..NumChannels + 1
  /\ mask \subseteq AllChannels
=============================================================================
