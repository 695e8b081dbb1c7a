------------------------------ MODULE IasZone ------------------------------
(***************************************************************************)
(* The enrolment of door sensors with an IAS zone client over the air: the *)
(* composition of IasZoneServer (one per device), IasZoneClient and        *)
(* ServiceDiscovery.  Messages are neither ordered nor duplicated; what is *)
(* lost, refused or not found, and what users and other nodes do, is       *)
(* counted against a budget.                                               *)
(***************************************************************************)
EXTENDS IasZoneClient

\* What the budget bounds: joins of a device, changes of its contact, resets,
\* leaves, losses of the network that end no enrolment, faults (a message
\* lost, a send refused, an address not known), writes of another node's CIE
\* address, clear-all commands.
Kinds == {"join", "change", "reset", "leave", "drop", "fault", "other",
          "clear"}

CONSTANT Budget   \* how often each kind of event may happen

ASSUME BudgetAssumption == Budget \in [Kinds -> Nat]

VARIABLES
  onNetwork,    \* per device: it joined, and its network is up since
  left,         \* what is left of the budget
  interrupted   \* history, per device: its network went down before the CIE
                \* that it was given had enrolled it, and it kept the address

vars == <<serverVars, clientVars, net, onNetwork, left, interrupted>>

Message ==
  [type : {"announce", "matchRequest", "matchResponse", "writeResponse"},
   dev : Devices]
    \cup [type : {"writeCie", "readCie", "readAttributes", "enrollRequest"},
          dev : Devices, ep : 0..255]
    \cup [type : {"cieRead"}, dev : Devices, cie : CieAddresses]
    \cup [type : {"attributesRead"}, dev : Devices, status : ZoneStatuses]
    \cup [type : {"enrollResponse"}, dev : Devices, permit : BOOLEAN,
          zone : {ZoneIdGiven, UNDEFINED_ZONE_ID}]
    \cup [type : {"notification"}, dev : Devices, ep : 0..255,
          status : ZoneStatuses]

ServerTypeOK ==
  /\ cie \in [Devices -> CieAddresses]
  /\ clientEndpoint \in [Devices -> {ServerEndpoint}]
  /\ enrolled \in [Devices -> BOOLEAN]
  /\ zoneId \in [Devices -> {ZoneIdGiven, UNDEFINED_ZONE_ID}]
  /\ zoneStatus \in [Devices -> ZoneStatuses]
  /\ enrollTick \in [Devices -> BOOLEAN]

Entry == [dev : Devices \cup {NoDevice}, endpoint : 0..255,
          status : ZoneStatuses \cup {65535},
          zoneId : {ZoneIdGiven, UNDEFINED_ZONE_ID}]

ClientTypeOK ==
  /\ servers \in [Slots -> Entry]
  /\ currentIndex \in Slots \cup {NO_INDEX}
  /\ clientState \in ClientStates
  /\ discovery \in BOOLEAN

TypeOK ==
  /\ ServerTypeOK
  /\ ClientTypeOK
  /\ net \subseteq Message
  /\ onNetwork \in [Devices -> BOOLEAN]
  /\ left \in [Kinds -> Nat]
  /\ interrupted \in [Devices -> BOOLEAN]

Init ==
  /\ ServerInit
  /\ ClientInit
  /\ net = {}
  /\ onNetwork = [d \in Devices |-> FALSE]
  /\ left = Budget
  /\ interrupted = [d \in Devices |-> FALSE]

Spend(k) == left[k] > 0 /\ left' = [left EXCEPT ![k] = @ - 1]

\* A send or a lookup that goes well, or one that does not.
Attempt(ok) == IF ok THEN UNCHANGED left ELSE Spend("fault")

-----------------------------------------------------------------------------
(* The devices.                                                            *)

\* The stack announces the device when it has joined or rejoined.
DeviceJoins(d) ==
  /\ ~onNetwork[d]
  /\ onNetwork' = [onNetwork EXCEPT ![d] = TRUE]
  /\ Send({[type |-> "announce", dev |-> d]})
  /\ Spend("join")
  /\ UNCHANGED <<serverVars, clientVars, interrupted>>

\* The address that an earlier enrolment left is gone, or written anew.
StartsAnew(d) == interrupted' = [interrupted EXCEPT ![d] = FALSE]

\* EMBER_NETWORK_DOWN with emberNetworkState() = EMBER_NO_NETWORK.
Unenrolls(d) ==
  /\ unenrollSecurityDevice(d)
  /\ StartsAnew(d)
  /\ Spend("leave")

\* The same status when network-find, which was told before, is joining again
\* or the node has only lost its parent: the attributes stay as they are.
KeepsEnrolment(d) ==
  /\ interrupted' = [interrupted EXCEPT ![d] = @ \/ ~enrolled[d]]
  /\ Spend("drop")
  /\ UNCHANGED <<attributes, enrollTick>>

DeviceLeaves(d) ==
  /\ onNetwork[d]
  /\ onNetwork' = [onNetwork EXCEPT ![d] = FALSE]
  /\ Unenrolls(d) \/ KeepsEnrolment(d)
  /\ UNCHANGED <<clientVars, net>>

\* The long press of the button, which asks the stack to leave; also the
\* status told to a node that is off the network already.
FactoryReset(d) ==
  /\ Unenrolls(d)
  /\ UNCHANGED <<clientVars, net, onNetwork>>

DeviceResets(d) ==
  /\ onNetwork' = [onNetwork EXCEPT ![d] = FALSE]
  /\ ServerInitCallback(d)
  /\ StartsAnew(d)
  /\ Spend("reset")
  /\ UNCHANGED <<clientVars, net>>

OtherCieWrites(d) ==
  /\ onNetwork[d]
  /\ WriteCieAddress(d, "other")
  /\ Spend("other")
  /\ UNCHANGED <<enrolled, zoneId, zoneStatus, clientVars, net, onNetwork,
                 interrupted>>

\* Off the network the stack refuses the message.
ServerTick(d) ==
  /\ \/ /\ onNetwork[d]
        /\ \E ok \in BOOLEAN : ServerTickCallback(d, ok) /\ Attempt(ok)
     \/ ~onNetwork[d] /\ ServerTickCallback(d, FALSE) /\ UNCHANGED left
  /\ UNCHANGED <<clientVars, onNetwork, interrupted>>

StatusChanges(d) ==
  /\ UpdateZoneStatus(d, 1 - zoneStatus[d], onNetwork[d])
  /\ Spend("change")
  /\ UNCHANGED <<clientVars, onNetwork, interrupted>>

\* The device's stack answers a match descriptor request by itself.
StackAnswersMatch(m) ==
  /\ Answer(m, {[type |-> "matchResponse", dev |-> m.dev]})
  /\ UNCHANGED serverVars

ForServer(m) == m.ep \in {ServerEndpoint, BROADCAST_ENDPOINT}

DeviceReceives(m) ==
  /\ m \in net
  /\ onNetwork[m.dev]
  /\ IF m.type = "writeCie" /\ ForServer(m) THEN StartsAnew(m.dev)
                                           ELSE UNCHANGED interrupted
  /\ \/ m.type = "matchRequest" /\ StackAnswersMatch(m)
     \/ m.type = "writeCie" /\ ForServer(m) /\ WriteAttributesReceived(m)
     \/ /\ m.type \in {"readCie", "readAttributes"}
        /\ ForServer(m)
        /\ ReadAttributesReceived(m)
     \/ /\ m.type \in {"writeCie", "readCie", "readAttributes"}
        /\ ~ForServer(m)
        /\ Answer(m, {})
        /\ UNCHANGED serverVars
     \/ m.type = "enrollResponse" /\ ZoneEnrollResponseCallback(m)
  /\ UNCHANGED <<clientVars, onNetwork, left>>

-----------------------------------------------------------------------------
(* The client.                                                             *)

ForClient(m) == m.ep = ClientEndpoint

\* Dropped before a callback sees it.
Unwanted(m) ==
  IF m.type \in {"enrollRequest", "notification"} THEN ~ForClient(m)
  ELSE m.type = "matchResponse" /\ ~discovery

ClientReceives(m) ==
  /\ m \in net
  /\ \/ \E ok \in BOOLEAN :
          /\ Attempt(ok)
          /\ \/ m.type = "announce" /\ DeviceAnnounced(m, ok)
             \/ m.type = "matchResponse" /\ discovery /\ MatchFound(m, ok)
             \/ m.type = "writeResponse" /\ WriteAttributesResponse(m, ok)
             \/ m.type = "cieRead" /\ ReadCieAddressResponse(m, ok)
             \/ /\ m.type = "enrollRequest"
                /\ ForClient(m)
                /\ ZoneEnrollRequest(m, ok)
             \/ /\ m.type = "notification"
                /\ ForClient(m)
                /\ ZoneStatusChangeNotification(m, ok)
     \/ /\ m.type = "attributesRead"
        /\ ReadZoneAttributesResponse(m)
        /\ UNCHANGED left
     \/ /\ Unwanted(m)
        /\ Ignored(m)
        /\ UNCHANGED left
  /\ UNCHANGED <<serverVars, onNetwork, interrupted>>

ClearAll ==
  /\ clearServers
  /\ Spend("clear")
  /\ UNCHANGED <<serverVars, onNetwork, interrupted>>

DiscoveryTimesOut ==
  /\ DiscoveryTimeout
  /\ UNCHANGED <<serverVars, onNetwork, left, interrupted>>

-----------------------------------------------------------------------------
(* The air.                                                                *)

ToDevice == {"matchRequest", "writeCie", "readCie", "readAttributes",
             "enrollResponse"}

\* A message is lost, or is for a device that is not there.
Lost(m) ==
  /\ m \in net
  /\ Answer(m, {})
  /\ \/ Spend("fault")
     \/ m.type \in ToDevice /\ ~onNetwork[m.dev] /\ UNCHANGED left
  /\ UNCHANGED <<serverVars, clientVars, onNetwork, interrupted>>

DeviceStep(d) ==
  DeviceJoins(d) \/ DeviceLeaves(d) \/ FactoryReset(d) \/ DeviceResets(d)
    \/ OtherCieWrites(d) \/ ServerTick(d) \/ StatusChanges(d)

Received(m) == DeviceReceives(m) \/ ClientReceives(m)

Next ==
  \/ \E d \in Devices : DeviceStep(d)
  \/ \E m \in net : Received(m) \/ Lost(m)
  \/ DiscoveryTimesOut
  \/ ClearAll

\* Ticks and timeouts are events of main loops that never stop, and a message
\* that is not lost arrives.
Fairness ==
  /\ \A d \in Devices : WF_vars(ServerTick(d))
  /\ WF_vars(DiscoveryTimesOut)
  /\ WF_vars(\E m \in net : Received(m))

Spec == Init /\ [][Next]_vars /\ Fairness

-----------------------------------------------------------------------------
(* What holds.                                                             *)

\* The zone state and the zone ID of a device tell the same: whatever order
\* enroll responses, resets and leaves come in, no ID outlives its enrolment.
EnrolledHasZoneId ==
  \A d \in Devices : enrolled[d] <=> zoneId[d] # UNDEFINED_ZONE_ID

\* As long as nobody clears the table, a device that is enrolled is one of
\* the servers that the client knows, under the zone ID that it was given.
EnrolledIsKnown ==
  \A d \in Devices : enrolled[d] /\ left["clear"] = Budget["clear"] =>
    \E i \in Slots : servers[i].dev = d /\ servers[i].zoneId = zoneId[d]

\* No device has two entries in the table, however often it announces itself
\* and whichever exchange is under way.
NoDuplicateServers ==
  \A i, j \in Slots :
    servers[i].dev = servers[j].dev /\ servers[i].dev # NoDevice => i = j

\* Every use of currentIndex is inside of the table: the discovery callback,
\* sendCommand and the attribute handler index it without a check.
IndexInTable ==
  discovery \/ clientState # "NONE" => currentIndex \in Slots

\* The client's answer to an enroll request of d is on its way.
EnrolmentUnderWay(d) ==
  \/ enrollTick[d]
  \/ \E m \in net : m.dev = d /\ m.type \in {"enrollRequest", "enrollResponse"}

\* Without faults and cleared tables a device that the client configured is
\* enrolled or its enrolment is under way: the one tick after the write of
\* the CIE address is enough, though the client is not done configuring.  But
\* for one that was off the network meanwhile with the address kept: its tick
\* may be spent, and the client takes it for known when it is back.
HandshakeUnderWay ==
  left["fault"] = Budget["fault"] /\ left["clear"] = Budget["clear"] =>
    \A d \in Devices : cie[d] = "client" =>
      enrolled[d] \/ EnrolmentUnderWay(d) \/ interrupted[d]

\* A device that the client configured gets enrolled, unless it is configured
\* anew or its network goes down meanwhile.  (Without faults.)
EnrolmentCompletes ==
  \A d \in Devices :
    cie[d] = "client" ~> enrolled[d] \/ cie[d] # "client" \/ interrupted[d]

\* The devices on the network, those that the client has in its table, those
\* to which an enroll response is under way that enrolls them, and those that
\* are enrolled.
Attached == {d \in Devices : onNetwork[d]}
Listed == {servers[i].dev : i \in Slots \ FreeSlots}
Permits(m) == m.type = "enrollResponse" /\ m.permit
Permitted == {d \in Devices : \E m \in net : Permits(m) /\ m.dev = d}
Members == {d \in Devices : enrolled[d]}

\* The enrolment of the devices is what EnrolmentSpec promises.
Enrolment ==
  INSTANCE EnrolmentSpec
    WITH joined <- Attached, known <- Listed, permitted <- Permitted,
         enrolled <- Members

ImplementsEnrolment == Enrolment!Spec

-----------------------------------------------------------------------------
(* What the code does not keep, each with a run that shows it.             *)

\* "Read the IAS Zone Server attributes.  Record in table.": a device that
\* never had an alarm is not recorded with one.  (The run has one change of a
\* contact and no reset, so that an alarm does not go away.)
StatusOfRightServer ==
  \A i \in Slots : servers[i].dev \in Devices /\ servers[i].status = 1 =>
    zoneStatus[servers[i].dev] = 1

\* The client "keeps track of IAS Zone Servers": once nothing is under way,
\* it has the status of every device that is enrolled with it.
ClientTracksServer ==
  \A d \in Devices, i \in Slots :
    /\ enrolled[d] /\ servers[i].dev = d
    /\ ~enrollTick[d] /\ ~\E m \in net : m.dev = d
    => servers[i].status = zoneStatus[d]
=============================================================================
