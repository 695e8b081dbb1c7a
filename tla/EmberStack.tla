----------------------------- MODULE EmberStack -----------------------------
(***************************************************************************)
(* The EmberZNet stack as the application sees it.  The stack itself is a  *)
(* binary library: this module is external, written from the contract in   *)
(* stack/include/network-formation.h and from the way the framework uses   *)
(* it.  The API calls are operators over the stack's own variables that    *)
(* the handlers of the application conjoin with their own assignments; the *)
(* changes that the stack makes by itself are actions of module            *)
(* JoinControl.                                                            *)
(***************************************************************************)
EXTENDS Naturals, Sequences

VARIABLES
  nwk,       \* what emberNetworkState() returns
  rejoin,    \* progress of emberFindAndRejoinNetwork
  macScan    \* a scan started by emberStartScan is running in the MAC

stackVars == <<nwk, rejoin, macScan>>

NetworkStates ==
  {"NO_NETWORK", "JOINING", "JOINED", "NO_PARENT", "LEAVING"}

\* "start" is a rejoin whose NETWORK_DOWN has not been reported yet, "scan"
\* one whose outcome has not.
RejoinStates == {"no", "start", "scan"}

\* EmberStatus values that the handlers of the product tell apart.  OTHER
\* stands for NODE_ID_CHANGED, CHANNEL_CHANGED, PAN_ID_CHANGED and the like.
Statuses ==
  {"NETWORK_UP", "NETWORK_DOWN", "JOIN_FAILED", "MOVE_FAILED", "OTHER"}

emberStackIsPerformingRejoin == rejoin # "no"

\* A scan is refused while another one runs (EMBER_MAC_SCANNING); a rejoin
\* scans too.  running says whether one started by this call runs already.
emberStartScan(ok, running) ==
  /\ ok = (~running /\ ~emberStackIsPerformingRejoin)
  /\ macScan' = (running \/ ok)
  /\ UNCHANGED <<nwk, rejoin>>

\* Only a node without a network can join one; even then the call may be
\* refused (no buffer, no security state).
emberJoinNetwork(ok) ==
  /\ ok => nwk = "NO_NETWORK"
  /\ nwk' = IF ok THEN "JOINING" ELSE nwk
  /\ UNCHANGED rejoin

emberFindAndRejoinNetwork(ok) ==
  /\ ok = /\ nwk \in {"JOINED", "NO_PARENT"}
          /\ ~emberStackIsPerformingRejoin
          /\ ~macScan
  /\ \/ rejoin' = IF ok THEN "start" ELSE rejoin
     \/ /\ ok /\ nwk = "NO_PARENT"    \* the network was down already
        /\ rejoin' = "scan"
  /\ UNCHANGED <<nwk, macScan>>

emberLeaveNetwork ==
  /\ nwk' = IF nwk \in {"JOINED", "NO_PARENT"} THEN "LEAVING" ELSE nwk
  /\ rejoin' = IF nwk \in {"JOINED", "NO_PARENT"} THEN "no" ELSE rejoin
  /\ UNCHANGED macScan

StackTypeOK ==
  /\ nwk \in NetworkStates
  /\ rejoin \in RejoinStates
  /\ macScan \in BOOLEAN
=============================================================================
