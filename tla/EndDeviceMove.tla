--------------------------- MODULE EndDeviceMove ---------------------------
(***************************************************************************)
(* The end-device-support plugin's search for a new parent ("move"): a     *)
(* network event that asks the stack to rejoin, a limited number of times, *)
(* 10 seconds apart.                                                       *)
(***************************************************************************)
EXTENDS EmberStack

CONSTANT MaxRejoinAttempts   \* EMBER_AF_REJOIN_ATTEMPTS_MAX

ASSUME MoveAssumption == MaxRejoinAttempts \in 0..255

VARIABLES
  moveEvent,      \* the move event of the network is armed
  moveAttempts    \* State.moveAttempts, an int8u

moveVars == <<moveEvent, moveAttempts>>

NeverStop == 255   \* NEVER_STOP_ATTEMPTING_REJOIN

emberAfStopMoveCallback ==
  /\ moveEvent' = FALSE
  /\ moveAttempts' = 0

\* emAfScheduleMoveEvent with n attempts made so far.
emAfScheduleMoveEvent(n) ==
  IF MaxRejoinAttempts = NeverStop \/ n < MaxRejoinAttempts
  THEN /\ moveEvent' = TRUE
       /\ moveAttempts' = n
  ELSE emberAfStopMoveCallback

emberAfStartMoveCallback ==
  IF moveEvent THEN UNCHANGED moveVars ELSE emAfScheduleMoveEvent(moveAttempts)

\* The event handler: an attempt counts only if the stack accepts it.
MoveNetworkEventHandler(ok) ==
  /\ moveEvent
  /\ emberFindAndRejoinNetwork(ok)
  /\ emAfScheduleMoveEvent(IF ok THEN (moveAttempts + 1) % 256
                                  ELSE moveAttempts)

\* Mutants of EndDeviceSupportStackStatus: a failed rejoin is not followed by
\* another move; the loss of the network does not stop one.
IgnoresMoveFailed(status) ==
  IF status = "NETWORK_UP"
  THEN emberAfStopMoveCallback
  ELSE IF status = "NETWORK_DOWN" /\ ~emberStackIsPerformingRejoin
       THEN \/ nwk = "NO_PARENT" /\ emberAfStartMoveCallback
            \/ nwk = "NO_NETWORK" /\ emberAfStopMoveCallback
            \/ /\ nwk \notin {"NO_PARENT", "NO_NETWORK"}
               /\ UNCHANGED moveVars
       ELSE UNCHANGED moveVars

KeepsMovingOffNetwork(status) ==
  IF status = "NETWORK_UP"
  THEN emberAfStopMoveCallback
  ELSE IF /\ status \in {"NETWORK_DOWN", "MOVE_FAILED"}
          /\ ~emberStackIsPerformingRejoin
          /\ nwk = "NO_PARENT"
       THEN emberAfStartMoveCallback
       ELSE UNCHANGED moveVars

\* emberAfPluginEndDeviceSupportStackStatusCallback, told of a status when
\* the network state is network and the stack is rejoining or not.
StackStatusTold(status, network, rejoining) ==
  IF status = "NETWORK_UP"
  THEN emberAfStopMoveCallback
  ELSE IF status \in {"NETWORK_DOWN", "MOVE_FAILED"} /\ ~rejoining
       THEN \/ network = "NO_PARENT" /\ emberAfStartMoveCallback
            \/ network = "NO_NETWORK" /\ emberAfStopMoveCallback
            \/ /\ network \notin {"NO_PARENT", "NO_NETWORK"}
               /\ UNCHANGED moveVars
       ELSE UNCHANGED moveVars

EndDeviceSupportStackStatus(status) ==
  StackStatusTold(status, nwk, emberStackIsPerformingRejoin)

MoveTypeOK ==
  /\ moveEvent \in BOOLEAN
  /\ moveAttempts \in 0..255
=============================================================================
