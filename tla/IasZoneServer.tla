--------------------------- MODULE IasZoneServer ---------------------------
(***************************************************************************)
(* The IAS zone server of one or more devices (the door sensors): the      *)
(* attributes of the cluster, the tick that asks a client to enroll the    *)
(* device, and the notifications.  The handlers are operators on a device  *)
(* or on a message that it received; module IasZone takes their steps.     *)
(***************************************************************************)
EXTENDS Naturals

CONSTANTS
  Devices,         \* the nodes with a zone server
  ServerEndpoint   \* the endpoint of the zone cluster on each of them

ASSUME ServerAssumption == ServerEndpoint \in 1..240

UNDEFINED_ZONE_ID == 255
ZoneStatuses == {0, 1}

\* Who the CIE address attribute names: nobody (zeros), the client of module
\* IasZoneClient, or another node that wrote its own address.
CieAddresses == {"zeros", "client", "other"}

VARIABLES
  cie,             \* the CIE address attribute
  clientEndpoint,
  enrolled,        \* the zone state attribute
  zoneId,          \* the zone ID attribute
  zoneStatus,      \* the zone status attribute
  enrollTick,      \* the server tick is scheduled (DELAY_TIMER_MS)
  net              \* the messages in the air, in no order

attributes == <<cie, clientEndpoint, enrolled, zoneId, zoneStatus>>
serverVars == <<attributes, enrollTick>>

Send(messages) == net' = net \cup messages
Answer(m, messages) == net' = (net \ {m}) \cup messages

-----------------------------------------------------------------------------

ServerInit ==
  /\ cie = [d \in Devices |-> "zeros"]
  /\ clientEndpoint = [d \in Devices |-> ServerEndpoint]
  /\ enrolled = [d \in Devices |-> FALSE]
  /\ zoneId = [d \in Devices |-> UNDEFINED_ZONE_ID]
  /\ zoneStatus = [d \in Devices |-> 0]
  /\ enrollTick = [d \in Devices |-> TRUE]

\* Mutant of WriteCieAddress: the tick is not scheduled.
WriteCieWithoutTick(d, c) ==
  /\ cie' = [cie EXCEPT ![d] = c]
  /\ clientEndpoint' = [clientEndpoint EXCEPT ![d] = ServerEndpoint]
  /\ UNCHANGED enrollTick

\* A write of the CIE address, by a client or by the device itself, with the
\* attribute changed callback that follows it: "clientEndpoint = endpoint".
WriteCieAddress(d, c) ==
  /\ cie' = [cie EXCEPT ![d] = c]
  /\ clientEndpoint' = [clientEndpoint EXCEPT ![d] = ServerEndpoint]
  /\ enrollTick' = [enrollTick EXCEPT ![d] = TRUE]

\* Mutant of SetEnrolled: the zone ID of an earlier enrolment stays.
SetEnrolledKeepsId(d, ok, id) ==
  /\ enrolled' = [enrolled EXCEPT ![d] = ok]
  /\ zoneId' = [zoneId EXCEPT ![d] = IF ok THEN id ELSE @]

\* updateEnrollState and setZoneId.
SetEnrolled(d, ok, id) ==
  /\ enrolled' = [enrolled EXCEPT ![d] = ok]
  /\ zoneId' = [zoneId EXCEPT ![d] = IF ok THEN id ELSE UNDEFINED_ZONE_ID]

\* emberAfIasZoneClusterServerInitCallback after a reset of the device: none
\* of the attributes is kept in a token.
ServerInitCallback(d) ==
  /\ WriteCieAddress(d, "zeros")
  /\ SetEnrolled(d, FALSE, UNDEFINED_ZONE_ID)
  /\ zoneStatus' = [zoneStatus EXCEPT ![d] = 0]

unenrollSecurityDevice(d) ==
  /\ WriteCieAddress(d, "zeros")
  /\ SetEnrolled(d, FALSE, UNDEFINED_ZONE_ID)
  /\ UNCHANGED zoneStatus

\* A write attributes command of the client reaches the zone cluster.
WriteAttributesReceived(m) ==
  /\ WriteCieAddress(m.dev, "client")
  /\ Answer(m, {[type |-> "writeResponse", dev |-> m.dev]})
  /\ UNCHANGED <<enrolled, zoneId, zoneStatus>>

ReadAttributesReceived(m) ==
  /\ Answer(m, {IF m.type = "readCie"
                THEN [type |-> "cieRead", dev |-> m.dev, cie |-> cie[m.dev]]
                ELSE [type |-> "attributesRead", dev |-> m.dev,
                      status |-> zoneStatus[m.dev]]})
  /\ UNCHANGED serverVars

\* Mutant of ZoneEnrollResponseCallback: the response code is not looked at.
EnrolsUnpermitted(m) ==
  /\ SetEnrolled(m.dev, TRUE, m.zone)
  /\ Answer(m, {})
  /\ UNCHANGED <<cie, clientEndpoint, zoneStatus, enrollTick>>

ZoneEnrollResponseCallback(m) ==
  /\ SetEnrolled(m.dev, m.permit, m.zone)
  /\ Answer(m, {})
  /\ UNCHANGED <<cie, clientEndpoint, zoneStatus, enrollTick>>

\* sendToClient: the message, when the node ID of the CIE is known and the
\* stack takes the message (ok).  What goes to another CIE is left out.
sendToClient(d, message, ok) ==
  IF ok /\ cie[d] = "client" THEN {message} ELSE {}

ServerTickCallback(d, ok) ==
  /\ enrollTick[d]
  /\ enrollTick' = [enrollTick EXCEPT ![d] = FALSE]
  /\ Send(sendToClient(d, [type |-> "enrollRequest", dev |-> d,
                           ep |-> clientEndpoint[d]], ok))
  /\ UNCHANGED attributes

\* emberAfPluginIasZoneServerUpdateZoneStatus, sendZoneUpdate.
UpdateZoneStatus(d, s, ok) ==
  /\ zoneStatus' = [zoneStatus EXCEPT ![d] = s]
  /\ Send(IF enrolled[d]
          THEN sendToClient(d, [type |-> "notification", dev |-> d,
                                ep |-> clientEndpoint[d], status |-> s], ok)
          ELSE {})
  /\ UNCHANGED <<cie, clientEndpoint, enrolled, zoneId, enrollTick>>
=============================================================================
