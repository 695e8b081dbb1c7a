--------------------------- MODULE IasZoneProofs ---------------------------
(***************************************************************************)
(* Theorems about IasZone, for every set of devices, table size, endpoints *)
(* and budget.                                                             *)
(***************************************************************************)
EXTENDS IasZone, FiniteSetTheorems, TLAPS

\* The type invariant needs to know that sendCommand reads an entry of the
\* table.
IndexInv == TypeOK /\ IndexInTable

\* The slots are not empty and do not contain NO_INDEX.
LEMMA SlotFacts ==
  /\ 0 \in Slots
  /\ Slots \subseteq 0..253
  /\ NO_INDEX \notin Slots
BY ClientAssumption DEF Slots, NO_INDEX

\* The fields that a message of each type has.
LEMMA MessageFields ==
  ASSUME NEW m \in Message
  PROVE  /\ m.dev \in Devices
         /\ m.type = "cieRead" => m.cie \in CieAddresses
         /\ m.type \in {"attributesRead", "notification"}
              => m.status \in ZoneStatuses
         /\ m.type = "enrollResponse" =>
              /\ m.permit \in BOOLEAN
              /\ m.zone \in {ZoneIdGiven, UNDEFINED_ZONE_ID}
BY DEF Message

LEMMA InitType == Init => IndexInv
<1> SUFFICES ASSUME Init PROVE IndexInv
  OBVIOUS
<1> USE DEF Init, ServerInit, ClientInit
<1>1. ServerTypeOK
  BY ServerAssumption DEF ServerTypeOK, CieAddresses, ZoneStatuses
<1>2. ErasedServer \in Entry
  BY DEF ErasedServer, Entry, BROADCAST_ENDPOINT
<1>3. ClientTypeOK
  BY <1>2 DEF ClientTypeOK, ClientStates
<1> QED
  BY <1>1, <1>3, BudgetAssumption DEF IndexInv, TypeOK, IndexInTable

\* What the handlers of the server do to its types.
LEMMA ServerTypes ==
  ASSUME ServerTypeOK, NEW d \in Devices
  PROVE  /\ \A c \in CieAddresses :
              WriteCieAddress(d, c)
              /\ UNCHANGED <<enrolled, zoneId, zoneStatus>> => ServerTypeOK'
         /\ ServerInitCallback(d) => ServerTypeOK'
         /\ unenrollSecurityDevice(d) => ServerTypeOK'
         /\ \A ok \in BOOLEAN, id \in {ZoneIdGiven, UNDEFINED_ZONE_ID} :
              SetEnrolled(d, ok, id)
              /\ UNCHANGED <<cie, clientEndpoint, zoneStatus, enrollTick>>
              => ServerTypeOK'
         /\ \A ok \in BOOLEAN : ServerTickCallback(d, ok) => ServerTypeOK'
         /\ \A ok \in BOOLEAN, s \in ZoneStatuses :
              UpdateZoneStatus(d, s, ok) => ServerTypeOK'
<1> USE DEF ServerTypeOK
<1>1. \A c \in CieAddresses :
        WriteCieAddress(d, c) /\ UNCHANGED <<enrolled, zoneId, zoneStatus>>
        => ServerTypeOK'
  BY DEF WriteCieAddress
<1>2. ServerInitCallback(d) => ServerTypeOK'
  BY DEF ServerInitCallback, WriteCieAddress, SetEnrolled, CieAddresses,
         ZoneStatuses
<1>3. unenrollSecurityDevice(d) => ServerTypeOK'
  BY DEF unenrollSecurityDevice, WriteCieAddress, SetEnrolled, CieAddresses
<1>4. \A ok \in BOOLEAN, id \in {ZoneIdGiven, UNDEFINED_ZONE_ID} :
        SetEnrolled(d, ok, id)
        /\ UNCHANGED <<cie, clientEndpoint, zoneStatus, enrollTick>>
        => ServerTypeOK'
  BY DEF SetEnrolled
<1>5. \A ok \in BOOLEAN : ServerTickCallback(d, ok) => ServerTypeOK'
  BY DEF ServerTickCallback, attributes
<1>6. \A ok \in BOOLEAN, s \in ZoneStatuses :
        UpdateZoneStatus(d, s, ok) => ServerTypeOK'
  BY DEF UpdateZoneStatus
<1> QED
  BY <1>1, <1>2, <1>3, <1>4, <1>5, <1>6

-----------------------------------------------------------------------------

\* The messages that the client sends are messages.
LEMMA Sent ==
  ASSUME NEW d \in Devices
  PROVE  /\ [type |-> "matchRequest", dev |-> d] \in Message
         /\ \A t \in {"writeCie", "readCie", "readAttributes"}, e \in 0..255 :
              [type |-> t, dev |-> d, ep |-> e] \in Message
         /\ \A known \in BOOLEAN : EnrollResponse(d, known) \in Message
<1>1. [type |-> "matchRequest", dev |-> d] \in Message
  BY DEF Message
<1>2. ASSUME NEW t \in {"writeCie", "readCie", "readAttributes"},
             NEW e \in 0..255
      PROVE  [type |-> t, dev |-> d, ep |-> e] \in Message
  BY DEF Message
<1>3. ASSUME NEW known \in BOOLEAN PROVE EnrollResponse(d, known) \in Message
  BY DEF Message, EnrollResponse
<1> QED
  BY <1>1, <1>2, <1>3

\* An answer that is a message leaves nothing but messages in the air.
LEMMA Answered ==
  ASSUME net \subseteq Message, NEW m, NEW a \in SUBSET Message, Answer(m, a)
  PROVE  net' \subseteq Message
BY DEF Answer

LEMMA ServerUnchanged ==
  ASSUME ServerTypeOK, UNCHANGED serverVars
  PROVE  ServerTypeOK'
BY DEF ServerTypeOK, serverVars, attributes

\* What sendCommand does, in a state of the exchange whose entry is there.
LEMMA SendCommandTypes ==
  ASSUME IndexInv, NEW m \in net, currentIndex \in Slots,
         servers' \in [Slots -> Entry],
         NEW t \in {"writeCie", "readCie", "readAttributes"},
         NEW next \in ClientStates, NEW ok \in BOOLEAN,
         sendCommand(m, t, next, ok)
  PROVE  /\ net' \subseteq Message
         /\ currentIndex' \in Slots
         /\ clientState' \in ClientStates
<1>1. m \in Message /\ m.dev \in Devices
  BY MessageFields DEF IndexInv, TypeOK
<1>2. servers'[currentIndex].endpoint \in 0..255
  BY DEF Entry
<1>3. CASE ok
  <2>1. [type |-> t, dev |-> m.dev, ep |-> servers'[currentIndex].endpoint]
          \in Message
    BY <1>1, <1>2, Sent
  <2>2. net \subseteq Message
    BY DEF IndexInv, TypeOK
  <2>3. net' \subseteq Message
    BY <1>3, <2>1, <2>2, Answered DEF sendCommand
  <2> QED
    BY <1>3, <2>3 DEF sendCommand
<1>4. CASE ~ok
  BY <1>4, SlotFacts
     DEF sendCommand, clearState, Answer, IndexInv, TypeOK, ClientStates
<1> QED
  BY <1>3, <1>4

ClientGoal == ClientTypeOK' /\ IndexInTable' /\ net' \subseteq Message

LEMMA AnnounceTypes ==
  ASSUME IndexInv, NEW m \in net, NEW ok \in BOOLEAN, DeviceAnnounced(m, ok)
  PROVE  ClientGoal
<1> USE DEF IndexInv, TypeOK, ClientTypeOK
<1>1. m \in Message /\ m.dev \in Devices
  BY MessageFields
<1>2. CASE Answer(m, {}) /\ UNCHANGED clientVars
  BY <1>2 DEF ClientGoal, Answer, clientVars, IndexInTable
<1>3. ASSUME NEW i \in Slots, addServer(m.dev, i), CheckServer(m, i, ok)
      PROVE  ClientGoal
  <2>1. servers' \in [Slots -> Entry]
    BY <1>1, <1>3 DEF addServer, Entry, UNKNOWN_ENDPOINT
  <2>2. CASE Answer(m, {}) /\ UNCHANGED <<currentIndex, clientState, discovery>>
    BY <2>1, <2>2 DEF ClientGoal, Answer, IndexInTable
  <2>3. CASE /\ FindDevices
             /\ Answer(m, {[type |-> "matchRequest", dev |-> m.dev]})
             /\ currentIndex' = i
             /\ UNCHANGED clientState
    BY <1>1, <2>1, <2>3, Sent
       DEF ClientGoal, Answer, IndexInTable, FindDevices
  <2>4. CASE UNCHANGED discovery /\ Answer(m, {}) /\ clearState
    BY <2>1, <2>4, SlotFacts
       DEF ClientGoal, Answer, IndexInTable, clearState, ClientStates
  <2> QED
    BY <1>3, <2>2, <2>3, <2>4 DEF CheckServer
<1> QED
  BY <1>2, <1>3 DEF DeviceAnnounced

LEMMA ExchangeTypes ==
  ASSUME IndexInv, NEW m \in net, NEW ok \in BOOLEAN,
         \/ MatchFound(m, ok)
         \/ m.type = "writeResponse" /\ WriteAttributesResponse(m, ok)
         \/ m.type = "cieRead" /\ ReadCieAddressResponse(m, ok)
         \/ m.type = "attributesRead" /\ ReadZoneAttributesResponse(m)
  PROVE  ClientGoal
<1> USE DEF IndexInv, TypeOK, ClientTypeOK
<1>1. m \in Message
  OBVIOUS
<1>2. CASE MatchFound(m, ok)
  <2>2. currentIndex \in Slots /\ discovery' = FALSE
    BY <1>2 DEF MatchFound, DiscoveryComplete, IndexInTable
  <2>1. servers' \in [Slots -> Entry]
    <3>1. ServerEndpoint \in 0..255
      BY ServerAssumption
    <3>2. [servers[currentIndex] EXCEPT !.endpoint = ServerEndpoint] \in Entry
      BY <2>2, <3>1 DEF Entry
    <3> QED
      BY <1>2, <2>2, <3>2 DEF MatchFound
  <2>3. sendCommand(m, "writeCie", "SET_CIE_ADDRESS", ok)
    BY <1>2 DEF MatchFound
  <2> QED
    BY <2>1, <2>2, <2>3, SendCommandTypes
       DEF ClientGoal, IndexInTable, ClientStates
<1>3. CASE Ignored(m)
  BY <1>3 DEF Ignored, Answer, ClientGoal, clientVars, IndexInTable
<1>4. ASSUME UNCHANGED <<servers, discovery>>, clientState # "NONE",
             NEW t \in {"readCie", "readAttributes"},
             NEW next \in ClientStates, sendCommand(m, t, next, ok)
      PROVE  ClientGoal
  BY <1>4, SendCommandTypes DEF ClientGoal, IndexInTable
<1>5. CASE m.type = "writeResponse" /\ WriteAttributesResponse(m, ok)
  <2>1. CASE clientState = "SET_CIE_ADDRESS"
    BY <1>4, <1>5, <2>1 DEF WriteAttributesResponse, ClientStates
  <2> QED
    BY <1>3, <1>5, <2>1 DEF WriteAttributesResponse
<1>6. CASE m.type = "cieRead" /\ ReadCieAddressResponse(m, ok)
  <2>1. CASE Reading /\ m.cie # "client"
    BY <1>6, <2>1, SlotFacts
       DEF ReadCieAddressResponse, ClientGoal, Answer, clearState,
           IndexInTable, ClientStates
  <2>2. CASE Reading /\ m.cie = "client"
    <3>1. clientState # "NONE"
      BY <2>2 DEF Reading
    <3>2. UNCHANGED <<servers, discovery>>
          /\ sendCommand(m, "readAttributes", "READ_ATTRIBUTES", ok)
      BY <1>6, <2>2 DEF ReadCieAddressResponse
    <3> QED
      BY <1>4, <3>1, <3>2 DEF ClientStates
  <2> QED
    BY <1>3, <1>6, <2>1, <2>2 DEF ReadCieAddressResponse
<1>7. CASE m.type = "attributesRead" /\ ReadZoneAttributesResponse(m)
  <2>1. CASE Reading
    <3>1. m.status \in ZoneStatuses
      BY <1>1, <1>7, MessageFields
    <3>2. servers' \in [Slots -> Entry]
      BY <1>7, <2>1, <3>1 DEF ReadZoneAttributesResponse, Entry
    <3> QED
      BY <1>7, <2>1, <3>2, SlotFacts
         DEF ReadZoneAttributesResponse, ClientGoal, Answer, clearState,
             IndexInTable, ClientStates
  <2> QED
    BY <1>3, <1>7, <2>1 DEF ReadZoneAttributesResponse
<1> QED
  BY <1>2, <1>5, <1>6, <1>7

LEMMA EnrolTypes ==
  ASSUME IndexInv, NEW m \in net, NEW ok \in BOOLEAN,
         \/ m.type = "enrollRequest" /\ ZoneEnrollRequest(m, ok)
         \/ m.type = "notification" /\ ZoneStatusChangeNotification(m, ok)
  PROVE  ClientGoal
<1> USE DEF IndexInv, TypeOK, ClientTypeOK
<1>1. m \in Message /\ m.dev \in Devices
  BY MessageFields
<1>2. CASE m.type = "enrollRequest" /\ ZoneEnrollRequest(m, ok)
  <2>1. servers' \in [Slots -> Entry]
    BY <1>2 DEF ZoneEnrollRequest, Entry
  <2>2. EnrollResponse(m.dev, ok /\ SlotsOf(m.dev) # {}) \in Message
    BY <1>1, Sent
  <2> QED
    BY <1>2, <2>1, <2>2 DEF ZoneEnrollRequest, Answer, ClientGoal, IndexInTable
<1>3. CASE m.type = "notification" /\ ZoneStatusChangeNotification(m, ok)
  <2>1. m.status \in ZoneStatuses
    BY <1>1, <1>3, MessageFields
  <2>2. servers' \in [Slots -> Entry]
    BY <1>3, <2>1 DEF ZoneStatusChangeNotification, Entry
  <2> QED
    BY <1>3, <2>2
       DEF ZoneStatusChangeNotification, Answer, ClientGoal, IndexInTable
<1> QED
  BY <1>2, <1>3

-----------------------------------------------------------------------------

LEMMA SpendType ==
  ASSUME left \in [Kinds -> Nat], NEW k \in Kinds, Spend(k)
  PROVE  left' \in [Kinds -> Nat]
BY DEF Spend

LEMMA AttemptType ==
  ASSUME left \in [Kinds -> Nat], NEW ok \in BOOLEAN, Attempt(ok)
  PROVE  left' \in [Kinds -> Nat]
BY SpendType DEF Attempt, Kinds

\* The server's sends are messages.
LEMMA ServerSends ==
  ASSUME ServerTypeOK, net \subseteq Message, NEW d \in Devices,
         NEW ok \in BOOLEAN
  PROVE  /\ ServerTickCallback(d, ok) => net' \subseteq Message
         /\ \A s \in ZoneStatuses :
              UpdateZoneStatus(d, s, ok) => net' \subseteq Message
<1> USE DEF ServerTypeOK
<1>1. clientEndpoint[d] \in 0..255
  BY ServerAssumption
<1>2. [type |-> "enrollRequest", dev |-> d, ep |-> clientEndpoint[d]]
        \in Message
  BY <1>1 DEF Message
<1>3. \A s \in ZoneStatuses :
        [type |-> "notification", dev |-> d, ep |-> clientEndpoint[d],
         status |-> s] \in Message
  BY <1>1 DEF Message
<1> QED
  BY <1>2, <1>3 DEF ServerTickCallback, UpdateZoneStatus, Send, sendToClient

LEMMA DeviceStepType ==
  ASSUME IndexInv, NEW d \in Devices, DeviceStep(d)
  PROVE  IndexInv'
<1> USE DEF IndexInv, TypeOK
<1>1. CASE DeviceJoins(d)
  <2>1. [type |-> "announce", dev |-> d] \in Message
    BY DEF Message
  <2> QED
    BY <1>1, <2>1, SpendType
       DEF DeviceJoins, Send, serverVars, attributes, clientVars, Kinds,
           ServerTypeOK, ClientTypeOK, IndexInTable
<1>2. CASE DeviceLeaves(d) \/ FactoryReset(d)
  <2>0. /\ onNetwork' \in [Devices -> BOOLEAN]
        /\ UNCHANGED <<clientVars, net>>
    BY <1>2 DEF DeviceLeaves, FactoryReset
  <2>1. CASE Unenrolls(d)
    <3>1. ServerTypeOK'
      BY <2>1, ServerTypes DEF Unenrolls
    <3>2. left' \in [Kinds -> Nat] /\ interrupted' \in [Devices -> BOOLEAN]
      BY <2>1, SpendType DEF Unenrolls, StartsAnew, Kinds
    <3> QED
      BY <2>0, <3>1, <3>2 DEF clientVars, ClientTypeOK, IndexInTable
  <2>2. CASE KeepsEnrolment(d)
    <3>1. ServerTypeOK'
      BY <2>2, ServerUnchanged DEF KeepsEnrolment, serverVars
    <3>2. left' \in [Kinds -> Nat] /\ interrupted' \in [Devices -> BOOLEAN]
      BY <2>2, SpendType DEF KeepsEnrolment, ServerTypeOK, Kinds
    <3> QED
      BY <2>0, <3>1, <3>2 DEF clientVars, ClientTypeOK, IndexInTable
  <2> QED
    BY <1>2, <2>1, <2>2 DEF DeviceLeaves, FactoryReset
<1>3. CASE DeviceResets(d)
  <2>1. ServerTypeOK'
    BY <1>3, ServerTypes DEF DeviceResets
  <2> QED
    BY <1>3, <2>1, SpendType
       DEF DeviceResets, StartsAnew, clientVars, Kinds, ClientTypeOK,
           IndexInTable
<1>4. CASE OtherCieWrites(d)
  <2>1. ServerTypeOK'
    BY <1>4, ServerTypes DEF OtherCieWrites, CieAddresses
  <2> QED
    BY <1>4, <2>1, SpendType
       DEF OtherCieWrites, clientVars, Kinds, ClientTypeOK, IndexInTable
<1>5. CASE ServerTick(d)
  <2>1. PICK ok \in BOOLEAN :
          ServerTickCallback(d, ok) /\ (Attempt(ok) \/ UNCHANGED left)
    BY <1>5 DEF ServerTick
  <2>2. ServerTypeOK' /\ net' \subseteq Message
    BY <2>1, ServerTypes, ServerSends
  <2>3. left' \in [Kinds -> Nat]
    BY <2>1, AttemptType
  <2> QED
    BY <1>5, <2>2, <2>3 DEF ServerTick, clientVars, ClientTypeOK, IndexInTable
<1>6. CASE StatusChanges(d)
  <2>1. 1 - zoneStatus[d] \in ZoneStatuses
    BY DEF ServerTypeOK, ZoneStatuses
  <2>2. ServerTypeOK' /\ net' \subseteq Message
    <3>1. onNetwork[d] \in BOOLEAN
      OBVIOUS
    <3> QED
      BY <1>6, <2>1, <3>1, ServerTypes, ServerSends DEF StatusChanges
  <2> QED
    BY <1>6, <2>2, SpendType
       DEF StatusChanges, clientVars, Kinds, ClientTypeOK, IndexInTable
<1> QED
  BY <1>1, <1>2, <1>3, <1>4, <1>5, <1>6 DEF DeviceStep

LEMMA DeviceReceivesType ==
  ASSUME IndexInv, NEW m \in net, DeviceReceives(m)
  PROVE  IndexInv'
<1> USE DEF IndexInv, TypeOK
<1>1. m \in Message /\ m.dev \in Devices
  BY MessageFields
<1>2. UNCHANGED <<clientVars, onNetwork, left>>
  BY DEF DeviceReceives
<1>0. interrupted' \in [Devices -> BOOLEAN]
  BY <1>1 DEF DeviceReceives, StartsAnew
<1>3. SUFFICES ServerTypeOK' /\ net' \subseteq Message
  BY <1>0, <1>2 DEF clientVars, ClientTypeOK, IndexInTable
<1>4. CASE StackAnswersMatch(m)
  <2>1. [type |-> "matchResponse", dev |-> m.dev] \in Message
    BY <1>1 DEF Message
  <2> QED
    BY <1>4, <2>1, Answered, ServerUnchanged DEF StackAnswersMatch
<1>5. CASE WriteAttributesReceived(m)
  <2>1. [type |-> "writeResponse", dev |-> m.dev] \in Message
    BY <1>1 DEF Message
  <2>2. ServerTypeOK'
    BY <1>1, <1>5, ServerTypes DEF WriteAttributesReceived, CieAddresses
  <2> QED
    BY <1>5, <2>1, <2>2, Answered DEF WriteAttributesReceived
<1>6. CASE ReadAttributesReceived(m)
  <2>1. [type |-> "cieRead", dev |-> m.dev, cie |-> cie[m.dev]] \in Message
    BY <1>1 DEF Message, ServerTypeOK
  <2>2. [type |-> "attributesRead", dev |-> m.dev,
         status |-> zoneStatus[m.dev]] \in Message
    BY <1>1 DEF Message, ServerTypeOK
  <2> QED
    BY <1>6, <2>1, <2>2, Answered, ServerUnchanged DEF ReadAttributesReceived
<1>7. CASE Answer(m, {}) /\ UNCHANGED serverVars
  BY <1>7, Answered, ServerUnchanged
<1>8. CASE m.type = "enrollResponse" /\ ZoneEnrollResponseCallback(m)
  <2>1. m.permit \in BOOLEAN /\ m.zone \in {ZoneIdGiven, UNDEFINED_ZONE_ID}
    BY <1>1, <1>8, MessageFields
  <2>2. ServerTypeOK'
    BY <1>1, <1>8, <2>1, ServerTypes DEF ZoneEnrollResponseCallback
  <2> QED
    BY <1>8, <2>2, Answered DEF ZoneEnrollResponseCallback
<1> QED
  BY <1>4, <1>5, <1>6, <1>7, <1>8 DEF DeviceReceives

LEMMA ClientReceivesType ==
  ASSUME IndexInv, NEW m \in net, ClientReceives(m)
  PROVE  IndexInv'
<1> USE DEF IndexInv, TypeOK
<1>1. UNCHANGED <<serverVars, onNetwork, interrupted>>
  BY DEF ClientReceives
<1>2. SUFFICES ClientGoal /\ left' \in [Kinds -> Nat]
  BY <1>1 DEF ClientGoal, serverVars, attributes, ServerTypeOK
<1>3. ASSUME NEW ok \in BOOLEAN, Attempt(ok),
             \/ m.type = "announce" /\ DeviceAnnounced(m, ok)
             \/ m.type = "matchResponse" /\ discovery /\ MatchFound(m, ok)
             \/ m.type = "writeResponse" /\ WriteAttributesResponse(m, ok)
             \/ m.type = "cieRead" /\ ReadCieAddressResponse(m, ok)
             \/ /\ m.type = "enrollRequest"
                /\ ForClient(m)
                /\ ZoneEnrollRequest(m, ok)
             \/ /\ m.type = "notification"
                /\ ForClient(m)
                /\ ZoneStatusChangeNotification(m, ok)
      PROVE  ClientGoal /\ left' \in [Kinds -> Nat]
  <2>1. left' \in [Kinds -> Nat]
    BY <1>3, AttemptType
  <2>2. ClientGoal
    BY <1>3, AnnounceTypes, ExchangeTypes, EnrolTypes
  <2> QED
    BY <2>1, <2>2
<1>4. CASE /\ m.type = "attributesRead"
           /\ ReadZoneAttributesResponse(m)
           /\ UNCHANGED left
  <2>1. ClientGoal
    BY <1>4, ExchangeTypes
  <2> QED
    BY <1>4, <2>1
<1>5. CASE Ignored(m) /\ UNCHANGED left
  BY <1>5
     DEF ClientGoal, Ignored, Answer, clientVars, ClientTypeOK, IndexInTable
<1> QED
  BY <1>3, <1>4, <1>5 DEF ClientReceives

LEMMA TypeStep == IndexInv /\ [Next]_vars => IndexInv'
<1> SUFFICES ASSUME IndexInv, [Next]_vars PROVE IndexInv'
  OBVIOUS
<1>1. ASSUME NEW d \in Devices, DeviceStep(d) PROVE IndexInv'
  BY <1>1, DeviceStepType
<1>2. ASSUME NEW m \in net, Received(m) PROVE IndexInv'
  BY <1>2, DeviceReceivesType, ClientReceivesType DEF Received
<1>3. ASSUME NEW m \in net, Lost(m) PROVE IndexInv'
  <2>1. left' \in [Kinds -> Nat]
    BY <1>3, SpendType DEF Lost, Kinds, IndexInv, TypeOK
  <2> QED
    BY <1>3, <2>1
       DEF Lost, Answer, serverVars, attributes, clientVars, IndexInv, TypeOK,
           ServerTypeOK, ClientTypeOK, IndexInTable
<1>4. CASE DiscoveryTimesOut
  BY <1>4, SlotFacts
     DEF DiscoveryTimesOut, DiscoveryTimeout, DiscoveryComplete, clearState,
         serverVars, attributes, IndexInv, TypeOK, ServerTypeOK, ClientTypeOK,
         IndexInTable, ClientStates
<1>5. CASE ClearAll
  <2>1. left' \in [Kinds -> Nat]
    BY <1>5, SpendType DEF ClearAll, Kinds, IndexInv, TypeOK
  <2>2. ErasedServer \in Entry
    BY DEF ErasedServer, Entry, BROADCAST_ENDPOINT
  <2> QED
    BY <1>5, <2>1, <2>2
       DEF ClearAll, clearServers, serverVars, attributes, IndexInv, TypeOK,
           ServerTypeOK, ClientTypeOK, IndexInTable
<1>6. CASE UNCHANGED vars
  BY <1>6
     DEF vars, serverVars, attributes, clientVars, IndexInv, TypeOK,
         ServerTypeOK, ClientTypeOK, IndexInTable
<1> QED
  BY <1>1, <1>2, <1>3, <1>4, <1>5, <1>6 DEF Next

\* Type correctness, and every use of currentIndex is inside of the table,
\* whatever exchange an announcement, a timeout or a fault cuts through.
THEOREM TypeCorrect == Spec => []TypeOK
<1>1. Spec => []IndexInv
  BY InitType, TypeStep, PTL DEF Spec
<1>2. IndexInv => TypeOK
  BY DEF IndexInv
<1> QED
  BY <1>1, <1>2, PTL

THEOREM IndexCorrect == Spec => []IndexInTable
<1>1. Spec => []IndexInv
  BY InitType, TypeStep, PTL DEF Spec
<1>2. IndexInv => IndexInTable
  BY DEF IndexInv
<1> QED
  BY <1>1, <1>2, PTL

-----------------------------------------------------------------------------
(* The table of the client and the enrolments it grants.                   *)

Known(d) ==
  \E i \in Slots : servers[i].dev = d /\ servers[i].zoneId = ZoneIdGiven

SameDevices == \A i \in Slots : servers'[i].dev = servers[i].dev

DeviceAdded ==
  \E d \in Devices, i \in Slots :
    /\ SlotsOf(d) = {}
    /\ servers[i].dev = NoDevice
    /\ servers'[i].dev = d
    /\ \A j \in Slots \ {i} : servers'[j].dev = servers[j].dev

ZonesKept ==
  \A i \in Slots : servers'[i].zoneId \in {servers[i].zoneId, ZoneIdGiven}

TableGoal == (SameDevices \/ DeviceAdded) /\ ZonesKept

\* An entry that was free is the one of a device that had none.
LEMMA Added ==
  ASSUME NEW d \in Devices, NEW i \in Slots, SlotsOf(d) = {},
         servers[i].dev = NoDevice, servers'[i].dev = d,
         \A j \in Slots \ {i} : servers'[j] = servers[j]
  PROVE  DeviceAdded
BY DEF DeviceAdded

\* What one message does to the table, as far as it names devices.
LEMMA ClientTable ==
  ASSUME IndexInv, NEW m \in net, ClientReceives(m)
  PROVE  TableGoal
<1> USE DEF IndexInv, TypeOK, ClientTypeOK, Entry
<1>1. m \in Message /\ m.dev \in Devices
  BY MessageFields
<1>2. CASE UNCHANGED servers
  BY <1>2 DEF TableGoal, SameDevices, ZonesKept
<1>3. ASSUME NEW ok \in BOOLEAN, DeviceAnnounced(m, ok) PROVE TableGoal
  <2>1. CASE UNCHANGED clientVars
    BY <1>2, <2>1 DEF clientVars
  <2>2. ASSUME NEW i \in Slots, SlotsOf(m.dev) = {}, i \in FreeSlots,
               servers' = [servers EXCEPT ![i].dev = m.dev,
                                          ![i].endpoint = UNKNOWN_ENDPOINT]
        PROVE  TableGoal
    <3>1. servers'[i].dev = m.dev /\ servers'[i].zoneId = servers[i].zoneId
      BY <2>2
    <3>2. \A j \in Slots \ {i} : servers'[j] = servers[j]
      BY <2>2
    <3>3. servers[i].dev = NoDevice
      BY <2>2 DEF FreeSlots
    <3>4. DeviceAdded
      BY ONLY <1>1, <2>2, <3>1, <3>2, <3>3, Added
    <3>5. ZonesKept
      BY <3>1, <3>2 DEF ZonesKept
    <3> QED
      BY <3>4, <3>5 DEF TableGoal
  <2>3. ASSUME NEW i \in Slots, addServer(m.dev, i) PROVE TableGoal
    BY <1>2, <2>2, <2>3 DEF addServer
  <2> QED
    BY <1>3, <2>1, <2>3 DEF DeviceAnnounced
<1>4. ASSUME NEW ok \in BOOLEAN, MatchFound(m, ok) PROVE TableGoal
  BY <1>4 DEF MatchFound, TableGoal, SameDevices, ZonesKept
<1>5. ASSUME NEW ok \in BOOLEAN, WriteAttributesResponse(m, ok)
      PROVE  TableGoal
  BY <1>2, <1>5 DEF WriteAttributesResponse, Ignored, clientVars
<1>6. ASSUME NEW ok \in BOOLEAN, ReadCieAddressResponse(m, ok)
      PROVE  TableGoal
  BY <1>2, <1>6 DEF ReadCieAddressResponse, Ignored, clientVars
<1>7. ASSUME NEW ok \in BOOLEAN, ZoneEnrollRequest(m, ok) PROVE TableGoal
  BY <1>7 DEF ZoneEnrollRequest, TableGoal, SameDevices, ZonesKept
<1>8. ASSUME NEW ok \in BOOLEAN, ZoneStatusChangeNotification(m, ok)
      PROVE  TableGoal
  BY <1>8 DEF ZoneStatusChangeNotification, TableGoal, SameDevices, ZonesKept
<1>9. CASE ReadZoneAttributesResponse(m)
  <2>1. CASE Reading
    BY <1>9, <2>1
       DEF ReadZoneAttributesResponse, TableGoal, SameDevices, ZonesKept
  <2> QED
    BY <1>2, <1>9, <2>1 DEF ReadZoneAttributesResponse, Ignored, clientVars
<1>10. CASE Ignored(m)
  BY <1>2, <1>10 DEF Ignored, clientVars
<1> QED
  BY <1>3, <1>4, <1>5, <1>6, <1>7, <1>8, <1>9, <1>10 DEF ClientReceives

LEMMA TableStep ==
  ASSUME IndexInv, [Next]_vars
  PROVE  ClearAll \/ TableGoal
<1>1. ASSUME UNCHANGED servers PROVE TableGoal
  BY <1>1 DEF TableGoal, SameDevices, ZonesKept
<1>2. ASSUME NEW d \in Devices, DeviceStep(d) PROVE TableGoal
  <2>1. UNCHANGED clientVars
    BY <1>2
       DEF DeviceStep, DeviceJoins, DeviceLeaves, FactoryReset, DeviceResets,
           OtherCieWrites, ServerTick, StatusChanges
  <2> QED
    BY <1>1, <2>1 DEF clientVars
<1>3. ASSUME NEW m \in net, DeviceReceives(m) \/ Lost(m) PROVE TableGoal
  <2>1. UNCHANGED clientVars
    BY <1>3 DEF DeviceReceives, Lost
  <2> QED
    BY <1>1, <2>1 DEF clientVars
<1>4. CASE DiscoveryTimesOut
  BY <1>1, <1>4 DEF DiscoveryTimesOut, DiscoveryTimeout
<1>5. CASE UNCHANGED vars
  BY <1>1, <1>5 DEF vars, clientVars
<1> QED
  BY <1>2, <1>3, <1>4, <1>5, ClientTable DEF Next, Received

\* No device has two entries.
THEOREM NoDuplicateCorrect == Spec => []NoDuplicateServers
<1>1. Init => NoDuplicateServers
  BY DEF Init, ClientInit, NoDuplicateServers, ErasedServer
<1>2. NoDuplicateServers /\ IndexInv /\ [Next]_vars => NoDuplicateServers'
  <2> SUFFICES ASSUME NoDuplicateServers, IndexInv, [Next]_vars
               PROVE  NoDuplicateServers'
    OBVIOUS
  <2>1. CASE ClearAll
    BY <2>1 DEF ClearAll, clearServers, NoDuplicateServers, ErasedServer
  <2>2. CASE SameDevices
    BY <2>2 DEF SameDevices, NoDuplicateServers
  <2>3. CASE DeviceAdded
    BY <2>3, ClientAssumption DEF DeviceAdded, SlotsOf, NoDuplicateServers
  <2> QED
    BY <2>1, <2>2, <2>3, TableStep DEF TableGoal
<1>3. Spec => []IndexInv
  BY InitType, TypeStep, PTL DEF Spec
<1> QED
  BY <1>1, <1>2, <1>3, PTL DEF Spec

-----------------------------------------------------------------------------
(* The enrolment of a device: from the response that grants it.            *)

NotCleared == left["clear"] = Budget["clear"]

\* A response on its way that enrolls a device gives it the zone ID that the
\* client has recorded for it.
ResponsesGranted ==
  \A m \in net : m.type = "enrollResponse" =>
    /\ m.permit <=> m.zone # UNDEFINED_ZONE_ID
    /\ m.permit /\ NotCleared => Known(m.dev)

\* ResponsesGranted is what makes the two invariants inductive; that the
\* budget never grows makes NotCleared a fact about the whole past.
EnrolInv ==
  /\ EnrolledHasZoneId
  /\ EnrolledIsKnown
  /\ ResponsesGranted
  /\ left["clear"] <= Budget["clear"]

Unenrolled(d) == enrolled'[d] = FALSE /\ zoneId'[d] = UNDEFINED_ZONE_ID

EnrolledBy(d, m) ==
  /\ m.type = "enrollResponse" /\ m.dev = d
  /\ enrolled'[d] = m.permit
  /\ zoneId'[d] = IF m.permit THEN m.zone ELSE UNDEFINED_ZONE_ID

EnrolGoal ==
  \A d \in Devices :
    \/ enrolled'[d] = enrolled[d] /\ zoneId'[d] = zoneId[d]
    \/ Unenrolled(d)
    \/ \E m \in net : EnrolledBy(d, m)

\* Every step leaves the enrolment of a device alone, ends it, or takes it
\* from a response.
LEMMA EnrolStep ==
  ASSUME IndexInv, [Next]_vars
  PROVE  EnrolGoal
<1> USE DEF IndexInv, TypeOK, ServerTypeOK
<1>1. ASSUME UNCHANGED <<enrolled, zoneId>> PROVE EnrolGoal
  BY <1>1 DEF EnrolGoal
<1>2. ASSUME NEW d \in Devices,
             Unenrolls(d) \/ DeviceResets(d)
      PROVE  EnrolGoal
  BY <1>2
     DEF Unenrolls, DeviceResets, unenrollSecurityDevice,
         ServerInitCallback, SetEnrolled, EnrolGoal, Unenrolled
<1>3. ASSUME NEW d \in Devices, DeviceStep(d) PROVE EnrolGoal
  BY <1>1, <1>2, <1>3
     DEF DeviceStep, DeviceJoins, DeviceLeaves, FactoryReset, KeepsEnrolment,
         OtherCieWrites, ServerTick, ServerTickCallback, StatusChanges,
         UpdateZoneStatus, serverVars, attributes
<1>4. ASSUME NEW m \in net, m.type = "enrollResponse",
             ZoneEnrollResponseCallback(m)
      PROVE  EnrolGoal
  <2>1. m.dev \in Devices
    BY MessageFields
  <2>2. EnrolledBy(m.dev, m)
    BY <1>4, <2>1 DEF ZoneEnrollResponseCallback, SetEnrolled, EnrolledBy
  <2>3. \A d \in Devices \ {m.dev} :
          enrolled'[d] = enrolled[d] /\ zoneId'[d] = zoneId[d]
    BY <1>4, <2>1 DEF ZoneEnrollResponseCallback, SetEnrolled
  <2> QED
    BY <2>2, <2>3 DEF EnrolGoal
<1>5. ASSUME NEW m \in net, DeviceReceives(m) PROVE EnrolGoal
  BY <1>1, <1>4, <1>5
     DEF DeviceReceives, StackAnswersMatch, WriteAttributesReceived,
         ReadAttributesReceived, serverVars, attributes
<1>6. ASSUME NEW m \in net, ClientReceives(m) \/ Lost(m) PROVE EnrolGoal
  <2>1. UNCHANGED serverVars
    BY <1>6 DEF ClientReceives, Lost
  <2> QED
    BY <1>1, <2>1 DEF serverVars, attributes
<1>7. CASE DiscoveryTimesOut \/ ClearAll \/ UNCHANGED vars
  <2>1. UNCHANGED serverVars
    BY <1>7 DEF DiscoveryTimesOut, ClearAll, vars
  <2> QED
    BY <1>1, <2>1 DEF serverVars, attributes
<1> QED
  BY <1>3, <1>5, <1>6, <1>7 DEF Next, Received

\* A response that a step puts on the air.
NewResponse(m) ==
  \E d \in Devices, known \in BOOLEAN :
    /\ m = EnrollResponse(d, known)
    /\ known => Known(d)'

ResponseGoal ==
  \A m \in net' : m.type = "enrollResponse" => m \in net \/ NewResponse(m)

LEMMA ResponseStep ==
  ASSUME IndexInv, [Next]_vars
  PROVE  ResponseGoal
<1> USE DEF IndexInv, TypeOK
<1>1. ASSUME net' \subseteq net PROVE ResponseGoal
  BY <1>1 DEF ResponseGoal
<1>2. ASSUME NEW d \in Devices, DeviceStep(d) PROVE ResponseGoal
  BY <1>2
     DEF DeviceStep, DeviceJoins, DeviceLeaves, FactoryReset, DeviceResets,
         OtherCieWrites, ServerTick, ServerTickCallback, StatusChanges,
         UpdateZoneStatus, sendToClient, Send, ResponseGoal
<1>3. ASSUME NEW m \in net, DeviceReceives(m) PROVE ResponseGoal
  BY <1>3
     DEF DeviceReceives, StackAnswersMatch, WriteAttributesReceived,
         ReadAttributesReceived, ZoneEnrollResponseCallback, Answer,
         ResponseGoal
<1>4. ASSUME NEW m \in net, NEW ok \in BOOLEAN, m.type = "enrollRequest",
             ZoneEnrollRequest(m, ok)
      PROVE  ResponseGoal
  <2>1. m.dev \in Devices
    BY MessageFields
  <2>2. (ok /\ SlotsOf(m.dev) # {}) => Known(m.dev)'
    <3> SUFFICES ASSUME ok, NEW i \in Slots, servers[i].dev = m.dev
                 PROVE  Known(m.dev)'
      BY DEF SlotsOf
    <3>1. servers'[i].dev = m.dev /\ servers'[i].zoneId = ZoneIdGiven
      BY <1>4 DEF ZoneEnrollRequest, SlotsOf, ClientTypeOK, Entry
    <3> QED
      BY <3>1 DEF Known
  <2>3. NewResponse(EnrollResponse(m.dev, ok /\ SlotsOf(m.dev) # {}))
    BY <2>1, <2>2 DEF NewResponse
  <2> QED
    BY <1>4, <2>3 DEF ZoneEnrollRequest, Answer, ResponseGoal
<1>5. ASSUME NEW m \in net, NEW ok \in BOOLEAN,
             \/ DeviceAnnounced(m, ok)
             \/ MatchFound(m, ok)
             \/ WriteAttributesResponse(m, ok)
             \/ ReadCieAddressResponse(m, ok)
      PROVE  ResponseGoal
  BY <1>5
     DEF DeviceAnnounced, CheckServer, MatchFound, WriteAttributesResponse,
         ReadCieAddressResponse, sendCommand, Ignored, Answer, ResponseGoal
<1>6. ASSUME NEW m \in net, NEW ok \in BOOLEAN,
             \/ ZoneStatusChangeNotification(m, ok)
             \/ ReadZoneAttributesResponse(m)
             \/ Ignored(m)
             \/ Lost(m)
      PROVE  ResponseGoal
  BY <1>1, <1>6
     DEF ZoneStatusChangeNotification, ReadZoneAttributesResponse, Ignored,
         Lost, Answer
<1>7. ASSUME NEW m \in net, ClientReceives(m) PROVE ResponseGoal
  BY <1>4, <1>5, <1>6, <1>7 DEF ClientReceives
<1>8. CASE DiscoveryTimesOut \/ ClearAll \/ UNCHANGED vars
  BY <1>1, <1>8
     DEF DiscoveryTimesOut, DiscoveryTimeout, ClearAll, clearServers, vars
<1> QED
  BY <1>2, <1>3, <1>6, <1>7, <1>8 DEF Next, Received

\* The budget never grows.
LEMMA BudgetStep ==
  ASSUME IndexInv, [Next]_vars, NEW k \in Kinds
  PROVE  left'[k] <= left[k]
<1> USE DEF IndexInv, TypeOK
<1>1. left[k] \in Nat
  OBVIOUS
<1>2. ASSUME NEW j \in Kinds, Spend(j) PROVE left'[k] <= left[k]
  BY <1>1, <1>2 DEF Spend
<1>3. ASSUME UNCHANGED left PROVE left'[k] <= left[k]
  BY <1>1, <1>3
<1>4. ASSUME NEW ok \in BOOLEAN, Attempt(ok) PROVE left'[k] <= left[k]
  BY <1>2, <1>3, <1>4 DEF Attempt, Kinds
<1>5. ASSUME NEW d \in Devices, DeviceStep(d) PROVE left'[k] <= left[k]
  BY <1>2, <1>3, <1>4, <1>5
     DEF DeviceStep, DeviceJoins, DeviceLeaves, FactoryReset, Unenrolls,
         KeepsEnrolment, DeviceResets, OtherCieWrites, ServerTick,
         StatusChanges, Kinds
<1>6. ASSUME NEW m \in net, Received(m) \/ Lost(m) PROVE left'[k] <= left[k]
  BY <1>2, <1>3, <1>4, <1>6
     DEF Received, DeviceReceives, ClientReceives, Lost, Kinds
<1>7. CASE DiscoveryTimesOut \/ UNCHANGED vars
  BY <1>3, <1>7 DEF DiscoveryTimesOut, vars
<1>8. CASE ClearAll
  BY <1>2, <1>8 DEF ClearAll, Kinds
<1> QED
  BY <1>5, <1>6, <1>7, <1>8 DEF Next

\* The client forgets no device unless its table is cleared, and what is left
\* of the budget only shrinks.
LEMMA KnownStep ==
  ASSUME IndexInv, [Next]_vars
  PROVE  /\ left'["clear"] <= left["clear"]
         /\ left'["clear"] = left["clear"] =>
              \A d \in Devices : Known(d) => Known(d)'
<1> USE DEF IndexInv, TypeOK
<1>1. left'["clear"] <= left["clear"]
  BY BudgetStep DEF Kinds
<1>2. ClearAll => left'["clear"] # left["clear"]
  BY DEF ClearAll, Spend, Kinds
<1>3. ASSUME TableGoal, NEW d \in Devices, Known(d) PROVE Known(d)'
  <2>1. PICK i \in Slots : servers[i].dev = d /\ servers[i].zoneId = ZoneIdGiven
    BY <1>3 DEF Known
  <2>2. servers'[i].zoneId = ZoneIdGiven
    BY <1>3, <2>1 DEF TableGoal, ZonesKept
  <2>3. servers'[i].dev = d
    BY <1>3, <2>1, ClientAssumption
       DEF TableGoal, SameDevices, DeviceAdded
  <2> QED
    BY <2>1, <2>2, <2>3 DEF Known
<1> QED
  BY <1>1, <1>2, <1>3, TableStep

LEMMA EnrolInvStep == EnrolInv /\ IndexInv /\ [Next]_vars => EnrolInv'
<1> SUFFICES ASSUME EnrolInv, IndexInv, [Next]_vars PROVE EnrolInv'
  OBVIOUS
<1>0. /\ left["clear"] \in Nat /\ left'["clear"] \in Nat
      /\ Budget["clear"] \in Nat
  BY TypeStep, BudgetAssumption DEF IndexInv, TypeOK, Kinds
<1>1. left'["clear"] <= Budget["clear"]
  BY <1>0, KnownStep DEF EnrolInv
<1>2. NotCleared' => NotCleared /\ left'["clear"] = left["clear"]
  BY <1>0, KnownStep DEF EnrolInv, NotCleared
<1>3. ResponsesGranted'
  <2> SUFFICES ASSUME NEW m \in net', m.type = "enrollResponse"
               PROVE  /\ m.permit <=> m.zone # UNDEFINED_ZONE_ID
                      /\ m.permit /\ NotCleared' => Known(m.dev)'
    BY DEF ResponsesGranted
  <2>1. CASE m \in net
    <3>1. m.dev \in Devices
      BY <2>1, MessageFields DEF IndexInv, TypeOK
    <3> QED
      BY <1>2, <2>1, <3>1, KnownStep DEF EnrolInv, ResponsesGranted
  <2>2. CASE NewResponse(m)
    BY <2>2 DEF NewResponse, EnrollResponse, ZoneIdGiven, UNDEFINED_ZONE_ID
  <2> QED
    BY <2>1, <2>2, ResponseStep DEF ResponseGoal
<1>4. EnrolledHasZoneId'
  <2> SUFFICES ASSUME NEW d \in Devices
               PROVE  enrolled'[d] <=> zoneId'[d] # UNDEFINED_ZONE_ID
    BY DEF EnrolledHasZoneId
  <2>1. CASE enrolled'[d] = enrolled[d] /\ zoneId'[d] = zoneId[d]
    BY <2>1 DEF EnrolInv, EnrolledHasZoneId
  <2>2. CASE Unenrolled(d)
    BY <2>2 DEF Unenrolled
  <2>3. ASSUME NEW m \in net, EnrolledBy(d, m)
        PROVE  enrolled'[d] <=> zoneId'[d] # UNDEFINED_ZONE_ID
    BY <2>3 DEF EnrolledBy, EnrolInv, ResponsesGranted
  <2> QED
    BY <2>1, <2>2, <2>3, EnrolStep DEF EnrolGoal
<1>5. EnrolledIsKnown'
  <2> SUFFICES ASSUME NEW d \in Devices, enrolled'[d], NotCleared'
               PROVE  Known(d)' /\ zoneId'[d] = ZoneIdGiven
    BY DEF EnrolledIsKnown, NotCleared, Known
  <2>1. zoneId'[d] = ZoneIdGiven
    BY <1>4, TypeStep
       DEF EnrolledHasZoneId, IndexInv, TypeOK, ServerTypeOK
  <2>2. CASE enrolled'[d] = enrolled[d] /\ zoneId'[d] = zoneId[d]
    <3>1. Known(d)
      BY <1>2, <2>1, <2>2 DEF EnrolInv, EnrolledIsKnown, NotCleared, Known
    <3> QED
      BY <1>2, <2>1, <3>1, KnownStep
  <2>3. CASE Unenrolled(d)
    BY <2>3 DEF Unenrolled
  <2>4. ASSUME NEW m \in net, EnrolledBy(d, m) PROVE Known(d)'
    <3>1. Known(d)
      BY <1>2, <2>4 DEF EnrolledBy, EnrolInv, ResponsesGranted
    <3> QED
      BY <1>2, <3>1, KnownStep
  <2> QED
    BY <2>1, <2>2, <2>3, <2>4, EnrolStep DEF EnrolGoal
<1> QED
  BY <1>1, <1>3, <1>4, <1>5 DEF EnrolInv

LEMMA InitEnrol == Init => EnrolInv
<1> SUFFICES ASSUME Init PROVE EnrolInv
  OBVIOUS
<1>1. EnrolledHasZoneId /\ EnrolledIsKnown
  BY DEF Init, ServerInit, EnrolledHasZoneId, EnrolledIsKnown
<1>2. ResponsesGranted
  BY DEF Init, ResponsesGranted
<1>3. left["clear"] <= Budget["clear"]
  BY BudgetAssumption DEF Init, Kinds
<1> QED
  BY <1>1, <1>2, <1>3 DEF EnrolInv

\* No zone ID outlives its enrolment, and no enrolment is without one.
THEOREM EnrolledHasZoneIdCorrect == Spec => []EnrolledHasZoneId
<1>1. Spec => [](EnrolInv /\ IndexInv)
  BY InitType, TypeStep, InitEnrol, EnrolInvStep, PTL DEF Spec
<1>2. EnrolInv => EnrolledHasZoneId
  BY DEF EnrolInv
<1> QED
  BY <1>1, <1>2, PTL

\* A device is enrolled only if the client knows it under the zone ID that
\* the device has, whatever was lost, reset or came late, as long as the
\* table was not cleared.
THEOREM EnrolledIsKnownCorrect == Spec => []EnrolledIsKnown
<1>1. Spec => [](EnrolInv /\ IndexInv)
  BY InitType, TypeStep, InitEnrol, EnrolInvStep, PTL DEF Spec
<1>2. EnrolInv => EnrolledIsKnown
  BY DEF EnrolInv
<1> QED
  BY <1>1, <1>2, PTL

-----------------------------------------------------------------------------
(* What the plugins promise: IasZone implements EnrolmentSpec.             *)

\* No two messages on their way permit the same device.
LEMMA OnePermission ==
  ASSUME IndexInv, ResponsesGranted, NEW m \in net, NEW n \in net,
         Permits(m), Permits(n), m.dev = n.dev
  PROVE  m = n
<1>1. m \in Message /\ n \in Message
  BY DEF IndexInv, TypeOK
<1>2. m.zone = ZoneIdGiven /\ n.zone = ZoneIdGiven
  BY <1>1, MessageFields DEF ResponsesGranted, Permits
<1>3. \A r \in Message :
        r.type = "enrollResponse" =>
          r = [type |-> "enrollResponse", dev |-> r.dev,
               permit |-> r.permit, zone |-> r.zone]
  BY DEF Message
<1>4. m.permit = TRUE /\ n.permit = TRUE
  BY <1>1, MessageFields DEF Permits
<1> QED
  BY <1>1, <1>2, <1>3, <1>4 DEF Permits

\* A table with a free entry has room.
LEMMA Room ==
  ASSUME NEW i \in FreeSlots
  PROVE  Cardinality(Listed) < MaxDevices
<1>1. /\ IsFiniteSet(Slots)
      /\ Cardinality(Slots) = MaxDevices
  <2>1. 0 \in Int /\ MaxDevices - 1 \in Int /\ 0 <= MaxDevices - 1
    BY ClientAssumption
  <2> QED
    BY <2>1, FS_Interval, ClientAssumption DEF Slots
<1>2. /\ IsFiniteSet(Slots \ {i})
      /\ Cardinality(Slots \ {i}) = MaxDevices - 1
  BY <1>1, FS_RemoveElement, ClientAssumption DEF FreeSlots
<1>3. /\ IsFiniteSet(Slots \ FreeSlots)
      /\ Cardinality(Slots \ FreeSlots) <= MaxDevices - 1
  <2>1. Slots \ FreeSlots \subseteq Slots \ {i}
    OBVIOUS
  <2> QED
    BY <1>2, <2>1, FS_Subset
<1>4. /\ IsFiniteSet(Listed)
      /\ Cardinality(Listed) <= Cardinality(Slots \ FreeSlots)
  <2> DEFINE f == [j \in Slots \ FreeSlots |-> servers[j].dev]
  <2>1. f \in Surjection(Slots \ FreeSlots, Listed)
    BY DEF Surjection, Listed
  <2> QED
    BY <1>3, <2>1, FS_Surjection
<1> QED
  BY <1>3, <1>4, FS_CardinalityType, ClientAssumption

\* A step that puts no permission on the air and takes none from it leaves
\* the devices permitted as they are.
LEMMA PermittedKept ==
  ASSUME \A m \in net' : Permits(m) => m \in net,
         \A m \in net : Permits(m) => m \in net'
  PROVE  Permitted' = Permitted
BY DEF Permitted, Permits

LEMMA PermittedSent ==
  ASSUME NEW S, \A m \in S : m.type # "enrollResponse", Send(S)
  PROVE  Permitted' = Permitted
BY PermittedKept DEF Send, Permits

LEMMA PermittedAnswered ==
  ASSUME NEW m, m.type # "enrollResponse",
         NEW S, \A n \in S : n.type # "enrollResponse", Answer(m, S)
  PROVE  Permitted' = Permitted
BY PermittedKept DEF Answer, Permits

\* What a permission that is taken from the air leaves.
LEMMA PermissionGone ==
  ASSUME IndexInv, ResponsesGranted, NEW m \in net, Answer(m, {})
  PROVE  Permitted' = IF Permits(m) THEN Permitted \ {m.dev} ELSE Permitted
<1>1. net' = net \ {m}
  BY DEF Answer
<1>2. CASE Permits(m)
  <2>1. ASSUME NEW n \in net, Permits(n) PROVE n.dev # m.dev <=> n \in net'
    BY <1>1, <1>2, <2>1, OnePermission
  <2>2. \A d \in Devices : d \in Permitted' <=> d \in Permitted \ {m.dev}
    BY <1>1, <2>1 DEF Permitted
  <2> QED
    BY <1>2, <2>2 DEF Permitted
<1>3. CASE ~Permits(m)
  BY <1>1, <1>3, PermittedKept
<1> QED
  BY <1>2, <1>3

\* The devices in the table stay, but for one that is added where there is
\* room.
LEMMA ListedStep ==
  ASSUME IndexInv, SameDevices \/ DeviceAdded
  PROVE  \/ Listed' = Listed
         \/ /\ Cardinality(Listed) < MaxDevices
            /\ \E d \in Devices : Listed' = Listed \union {d}
<1>1. CASE SameDevices
  BY <1>1 DEF SameDevices, Listed, FreeSlots
<1>2. CASE DeviceAdded
  <2>1. PICK d \in Devices, i \in Slots :
          /\ servers[i].dev = NoDevice
          /\ servers'[i].dev = d
          /\ \A j \in Slots \ {i} : servers'[j].dev = servers[j].dev
    BY <1>2 DEF DeviceAdded
  <2>2. Cardinality(Listed) < MaxDevices
    BY <2>1, Room DEF FreeSlots
  <2>3. d # NoDevice
    BY ClientAssumption
  <2>4. \A x : x \in Listed' <=> x \in Listed \union {d}
    BY <2>1, <2>3 DEF Listed, FreeSlots
  <2> QED
    BY <2>2, <2>4
<1> QED
  BY <1>1, <1>2

\* EnrolmentSpec counts as this module does.
LEMMA SameCount == \A S : Enrolment!Cardinality(S) = Cardinality(S)
BY DEF Enrolment!Cardinality, Cardinality

EnrolmentStep == \E d \in Devices :
  \/ Enrolment!Join(d) \/ Enrolment!Depart(d) \/ Enrolment!Drop(d)
  \/ Enrolment!Learn(d) \/ Enrolment!Permit(d) \/ Enrolment!Lose(d)
  \/ Enrolment!Enrol(d) \/ Enrolment!Refuse(d)

LEMMA DeviceStepImplements ==
  ASSUME IndexInv, NEW d \in Devices, DeviceStep(d)
  PROVE  EnrolmentStep \/ UNCHANGED Enrolment!vars
<1> USE DEF IndexInv, TypeOK, ServerTypeOK
<1>1. Listed' = Listed
  BY DEF DeviceStep, DeviceJoins, DeviceLeaves, FactoryReset, DeviceResets,
         OtherCieWrites, ServerTick, StatusChanges, clientVars, Listed,
         FreeSlots
<1>2. CASE DeviceJoins(d)
  <2>1. Permitted' = Permitted
    BY <1>2, PermittedSent DEF DeviceJoins
  <2>2. /\ d \notin Attached
        /\ Attached' = Attached \union {d}
        /\ Members' = Members
    BY <1>2 DEF DeviceJoins, Attached, Members, serverVars, attributes
  <2> QED
    BY <1>1, <2>1, <2>2 DEF Enrolment!Join, EnrolmentStep
<1>3. CASE DeviceLeaves(d) \/ FactoryReset(d) \/ DeviceResets(d)
  <2>1. Permitted' = Permitted
    BY <1>3 DEF DeviceLeaves, FactoryReset, DeviceResets, Permitted
  <2>2. CASE Unenrolls(d) \/ DeviceResets(d)
    <3>1. Members' = Members \ {d}
      BY <2>2
         DEF Unenrolls, DeviceResets, unenrollSecurityDevice,
             ServerInitCallback, SetEnrolled, Members
    <3>2. CASE Attached' = Attached \ {d}
      BY <1>1, <2>1, <3>1, <3>2 DEF Enrolment!Depart, EnrolmentStep
    <3>3. CASE Attached' = Attached
      <4>1. CASE d \in Attached
        BY <1>1, <2>1, <3>1, <3>3, <4>1 DEF Enrolment!Refuse, EnrolmentStep
      <4>2. CASE d \notin Attached
        <5>1. Attached' = Attached \ {d}
          BY <3>3, <4>2
        <5> QED
          BY <3>2, <5>1
      <4> QED
        BY <4>1, <4>2
    <3> QED
      BY <1>3, <3>2, <3>3 DEF DeviceLeaves, FactoryReset, DeviceResets, Attached
  <2>3. CASE KeepsEnrolment(d) /\ onNetwork' = [onNetwork EXCEPT ![d] = FALSE]
    <3>1. Attached' = Attached \ {d} /\ Members' = Members
      BY <2>3 DEF KeepsEnrolment, attributes, Attached, Members
    <3> QED
      BY <1>1, <2>1, <3>1 DEF Enrolment!Drop, EnrolmentStep
  <2> QED
    BY <1>3, <2>2, <2>3 DEF DeviceLeaves, FactoryReset
<1>4. CASE OtherCieWrites(d) \/ ServerTick(d) \/ StatusChanges(d)
  <2>1. Permitted' = Permitted
    BY <1>4, PermittedSent, PermittedKept
       DEF OtherCieWrites, ServerTick, ServerTickCallback, StatusChanges,
           UpdateZoneStatus, sendToClient
  <2>2. UNCHANGED <<onNetwork, enrolled>>
    BY <1>4
       DEF OtherCieWrites, ServerTick, ServerTickCallback, StatusChanges,
           UpdateZoneStatus, attributes
  <2> QED
    BY <1>1, <2>1, <2>2 DEF Attached, Members, Enrolment!vars
<1> QED
  BY <1>2, <1>3, <1>4 DEF DeviceStep

LEMMA DeviceReceivesImplements ==
  ASSUME IndexInv, ResponsesGranted, NEW m \in net, DeviceReceives(m)
  PROVE  EnrolmentStep \/ UNCHANGED Enrolment!vars
<1> USE DEF IndexInv, TypeOK, ServerTypeOK
<1>1. Listed' = Listed /\ Attached' = Attached
  BY DEF DeviceReceives, clientVars, Listed, FreeSlots, Attached
<1>2. m.dev \in Devices /\ m.dev \in Attached
  BY MessageFields DEF DeviceReceives, Attached
<1>3. CASE m.type = "enrollResponse" /\ ZoneEnrollResponseCallback(m)
  <2>1. Permitted' = IF Permits(m) THEN Permitted \ {m.dev} ELSE Permitted
    BY <1>3, PermissionGone DEF ZoneEnrollResponseCallback
  <2>2. m.permit \in BOOLEAN
    BY <1>3, MessageFields
  <2>3. Members' = IF m.permit THEN Members \union {m.dev}
                   ELSE Members \ {m.dev}
    BY <1>2, <1>3, <2>2
       DEF ZoneEnrollResponseCallback, SetEnrolled, Members
  <2>4. CASE m.permit
    <3>1. Permits(m) /\ m.dev \in Permitted
      BY <1>2, <1>3, <2>4 DEF Permits, Permitted
    <3>2. Enrolment!Enrol(m.dev)
      BY <1>1, <1>2, <2>1, <2>3, <2>4, <3>1 DEF Enrolment!Enrol
    <3> QED
      BY <1>2, <3>2 DEF EnrolmentStep
  <2>5. CASE ~m.permit
    <3>1. Enrolment!Refuse(m.dev)
      BY <1>1, <1>2, <2>1, <2>3, <2>5 DEF Enrolment!Refuse, Permits
    <3> QED
      BY <1>2, <3>1 DEF EnrolmentStep
  <2> QED
    BY <2>4, <2>5
<1>4. CASE m.type # "enrollResponse"
  <2>1. UNCHANGED enrolled
    BY <1>4
       DEF DeviceReceives, StackAnswersMatch, WriteAttributesReceived,
           ReadAttributesReceived, serverVars, attributes
  <2>2. \E S : Answer(m, S) /\ \A n \in S : n.type # "enrollResponse"
    BY <1>4
       DEF DeviceReceives, StackAnswersMatch, WriteAttributesReceived,
           ReadAttributesReceived
  <2>3. Permitted' = Permitted
    BY <1>4, <2>2, PermittedAnswered
  <2> QED
    BY <1>1, <2>1, <2>3 DEF Members, Enrolment!vars
<1> QED
  BY <1>3, <1>4 DEF DeviceReceives

LEMMA ClientReceivesImplements ==
  ASSUME IndexInv, NEW m \in net, ClientReceives(m)
  PROVE  EnrolmentStep \/ UNCHANGED Enrolment!vars
<1> USE DEF IndexInv, TypeOK, ClientTypeOK
<1>1. Members' = Members /\ Attached' = Attached
  BY DEF ClientReceives, serverVars, attributes, Members, Attached
<1>2. m.dev \in Devices
  BY MessageFields
<1>3. ASSUME NEW ok \in BOOLEAN, m.type = "enrollRequest",
             ZoneEnrollRequest(m, ok)
      PROVE  EnrolmentStep \/ UNCHANGED Enrolment!vars
  <2> DEFINE known == ok /\ SlotsOf(m.dev) # {}
             answer == EnrollResponse(m.dev, known)
  <2>1. Listed' = Listed
    BY <1>3 DEF ZoneEnrollRequest, Listed, FreeSlots
  <2>2. net' = (net \ {m}) \union {answer}
    BY <1>3 DEF ZoneEnrollRequest, Answer
  <2>3. CASE known
    <3>1. m.dev \in Listed
      BY <1>2, <2>3, ClientAssumption DEF SlotsOf, Listed, FreeSlots
    <3>2. Permits(answer) /\ answer.dev = m.dev
      BY <2>3 DEF EnrollResponse, Permits
    <3>3. \A d \in Devices : d \in Permitted' <=> d \in Permitted \union {m.dev}
      BY <1>2, <1>3, <2>2, <3>2 DEF Permitted, Permits
    <3>4. Permitted' = Permitted \union {m.dev}
      BY <1>2, <3>3 DEF Permitted
    <3> QED
      BY <1>1, <1>2, <2>1, <3>1, <3>4 DEF Enrolment!Permit, EnrolmentStep
  <2>4. CASE ~known
    <3>1. ~Permits(answer)
      BY <2>4 DEF EnrollResponse, Permits
    <3>2. Permitted' = Permitted
      BY <1>3, <2>2, <3>1, PermittedKept DEF Permits
    <3> QED
      BY <1>1, <2>1, <3>2 DEF Enrolment!vars
  <2> QED
    BY <2>3, <2>4
<1>4. ASSUME \E S : Answer(m, S) /\ \A n \in S : n.type # "enrollResponse",
             m.type # "enrollResponse"
      PROVE  EnrolmentStep \/ UNCHANGED Enrolment!vars
  <2>1. Permitted' = Permitted
    BY <1>4, PermittedAnswered
  <2>2. \/ Listed' = Listed
        \/ /\ Cardinality(Listed) < MaxDevices
           /\ \E d \in Devices : Listed' = Listed \union {d}
    BY ClientTable, ListedStep DEF TableGoal
  <2> QED
    BY <1>1, <2>1, <2>2, SameCount
       DEF Enrolment!Learn, Enrolment!vars, EnrolmentStep
<1>5. ASSUME NEW ok \in BOOLEAN,
             \/ DeviceAnnounced(m, ok)
             \/ MatchFound(m, ok)
             \/ WriteAttributesResponse(m, ok)
             \/ ReadCieAddressResponse(m, ok)
             \/ ZoneStatusChangeNotification(m, ok)
             \/ ReadZoneAttributesResponse(m)
             \/ Ignored(m)
      PROVE  \E S : Answer(m, S) /\ \A n \in S : n.type # "enrollResponse"
  <2>1. CASE DeviceAnnounced(m, ok) \/ MatchFound(m, ok)
    BY <2>1 DEF DeviceAnnounced, CheckServer, MatchFound, sendCommand
  <2>2. CASE WriteAttributesResponse(m, ok) \/ ReadCieAddressResponse(m, ok)
    BY <2>2
       DEF WriteAttributesResponse, ReadCieAddressResponse, sendCommand,
           Ignored
  <2>3. CASE \/ ZoneStatusChangeNotification(m, ok)
             \/ ReadZoneAttributesResponse(m)
             \/ Ignored(m)
    BY <2>3
       DEF ZoneStatusChangeNotification, ReadZoneAttributesResponse, Ignored
  <2> QED
    BY <1>5, <2>1, <2>2, <2>3
<1>6. m.type # "enrollResponse"
  BY DEF ClientReceives, Unwanted
<1> QED
  BY <1>3, <1>4, <1>5, <1>6 DEF ClientReceives

LEMMA EnrolmentStepHolds ==
  ASSUME IndexInv, EnrolInv, [Next]_vars
  PROVE  [Enrolment!Next]_(Enrolment!vars)
<1>1. ResponsesGranted
  BY DEF EnrolInv
<1>2. EnrolmentStep => Enrolment!Next
  BY DEF EnrolmentStep, Enrolment!Next
<1>3. ASSUME NEW m \in net, Lost(m)
      PROVE  EnrolmentStep \/ UNCHANGED Enrolment!vars
  <2>1. Permitted' = IF Permits(m) THEN Permitted \ {m.dev} ELSE Permitted
    BY <1>1, <1>3, PermissionGone DEF Lost
  <2>2. UNCHANGED <<servers, enrolled, onNetwork>>
    BY <1>3 DEF Lost, serverVars, attributes, clientVars
  <2>3. UNCHANGED <<Listed, Members, Attached>>
    BY <2>2 DEF Listed, FreeSlots, Members, Attached
  <2>4. m.dev \in Devices
    BY MessageFields DEF IndexInv, TypeOK
  <2> QED
    BY <2>1, <2>3, <2>4 DEF Enrolment!Lose, Enrolment!vars, EnrolmentStep
<1>4. CASE DiscoveryTimesOut \/ UNCHANGED vars
  <2>1. UNCHANGED <<servers, enrolled, onNetwork, net>>
    BY <1>4
       DEF DiscoveryTimesOut, DiscoveryTimeout, vars, serverVars, attributes,
           clientVars
  <2> QED
    BY <2>1
       DEF Listed, FreeSlots, Members, Attached, Permitted, Enrolment!vars
<1>5. CASE ClearAll
  <2>1. UNCHANGED <<enrolled, onNetwork, net>>
    BY <1>5 DEF ClearAll, clearServers, serverVars, attributes
  <2>2. Listed' = {}
    BY <1>5 DEF ClearAll, clearServers, ErasedServer, Listed, FreeSlots
  <2> QED
    BY <2>1, <2>2
       DEF Members, Attached, Permitted, Enrolment!ForgetAll, Enrolment!Next
<1> QED
  BY <1>1, <1>2, <1>3, <1>4, <1>5, DeviceStepImplements,
     DeviceReceivesImplements, ClientReceivesImplements
     DEF Next, Received

\* Whatever is lost, late or reset, only a permission that the client gives
\* to a device of its table enrolls it, once, and the table keeps its size.
THEOREM EnrolmentCorrect == Spec => ImplementsEnrolment
<1>1. Init => Enrolment!Init
  BY DEF Init, ServerInit, ClientInit, ErasedServer, Listed, FreeSlots,
         Members, Attached, Permitted, Enrolment!Init
<1>2. Spec => [](EnrolInv /\ IndexInv)
  BY InitType, TypeStep, InitEnrol, EnrolInvStep, PTL DEF Spec
<1> QED
  BY <1>1, <1>2, EnrolmentStepHolds, PTL
     DEF Spec, ImplementsEnrolment, Enrolment!Spec

-----------------------------------------------------------------------------
(* Who is enrolled off the network.                                        *)

NoDrop == left["drop"] = Budget["drop"]
EnrolledIsJoined == NoDrop => \A d \in Devices : enrolled[d] => onNetwork[d]

\* The network of a device goes down only by a leave or a reset, which both
\* unenroll the device, unless the budget tells.
LEMMA DownStep ==
  ASSUME IndexInv, [Next]_vars, left'["drop"] = left["drop"],
         NEW d \in Devices, onNetwork[d], ~onNetwork'[d]
  PROVE  ~enrolled'[d]
<1> USE DEF IndexInv, TypeOK, ServerTypeOK
<1>1. ASSUME NEW x \in Devices, DeviceStep(x) PROVE ~enrolled'[d]
  <2>1. ~KeepsEnrolment(x)
    BY DEF KeepsEnrolment, Spend, Kinds
  <2>2. /\ x = d
        /\ Unenrolls(x) \/ DeviceResets(x)
    BY <1>1, <2>1
       DEF DeviceStep, DeviceJoins, DeviceLeaves, FactoryReset, DeviceResets,
           OtherCieWrites, ServerTick, StatusChanges
  <2> QED
    BY <2>2
       DEF Unenrolls, DeviceResets, unenrollSecurityDevice,
           ServerInitCallback, SetEnrolled
<1>2. ASSUME NEW m \in net, Received(m) \/ Lost(m) PROVE UNCHANGED onNetwork
  BY <1>2 DEF Received, DeviceReceives, ClientReceives, Lost
<1>3. CASE DiscoveryTimesOut \/ ClearAll \/ UNCHANGED vars
  BY <1>3 DEF DiscoveryTimesOut, ClearAll, vars
<1> QED
  BY <1>1, <1>2, <1>3 DEF Next

\* A device gets enrolled on the network alone: what EnrolmentSpec promises.
LEMMA GetsEnrolled ==
  ASSUME [Enrolment!Next]_(Enrolment!vars), NEW d \in Devices,
         d \in Members', d \notin Members
  PROVE  d \in Attached'
BY DEF Enrolment!Next, Enrolment!vars, Enrolment!Join, Enrolment!Depart,
       Enrolment!Drop, Enrolment!Learn, Enrolment!ForgetAll,
       Enrolment!Permit, Enrolment!Lose, Enrolment!Enrol, Enrolment!Refuse

\* No device is enrolled off the network, whatever response comes late, until
\* a network goes down without a leave (sensor-iface.c:377-383), which keeps
\* the enrolment.
THEOREM EnrolledIsJoinedCorrect == Spec => []EnrolledIsJoined
<1> DEFINE Inv == EnrolledIsJoined /\ left["drop"] <= Budget["drop"]
           All == Inv /\ EnrolInv /\ IndexInv
<1>1. Init => Inv
  BY BudgetAssumption DEF Init, ServerInit, EnrolledIsJoined, Kinds
<1>2. All /\ [Next]_vars => Inv'
  <2> SUFFICES ASSUME All, [Next]_vars PROVE Inv'
    OBVIOUS
  <2>1. /\ left["drop"] \in Nat /\ left'["drop"] \in Nat
        /\ Budget["drop"] \in Nat
    BY TypeStep, BudgetAssumption DEF IndexInv, TypeOK, Kinds
  <2>2. left'["drop"] <= left["drop"]
    BY BudgetStep DEF Kinds
  <2>3. left'["drop"] <= Budget["drop"]
    BY <2>1, <2>2
  <2>4. ASSUME NoDrop', NEW d \in Devices, enrolled'[d] PROVE onNetwork'[d]
    <3>1. NoDrop /\ left'["drop"] = left["drop"]
      BY <2>1, <2>2, <2>4 DEF NoDrop
    <3>2. CASE enrolled[d]
      <4>1. onNetwork[d]
        BY <3>1, <3>2 DEF EnrolledIsJoined
      <4> QED
        BY <2>4, <3>1, <4>1, DownStep
    <3>3. CASE ~enrolled[d]
      <4>1. d \in Members' /\ d \notin Members
        BY <2>4, <3>3 DEF Members
      <4>2. [Enrolment!Next]_(Enrolment!vars)
        BY EnrolmentStepHolds
      <4>3. d \in Attached'
        BY <4>1, <4>2, GetsEnrolled
      <4> QED
        BY <4>3 DEF Attached
    <3> QED
      BY <3>2, <3>3
  <2> QED
    BY <2>3, <2>4 DEF EnrolledIsJoined
<1>3. Spec => [](EnrolInv /\ IndexInv)
  BY InitType, TypeStep, InitEnrol, EnrolInvStep, PTL DEF Spec
<1> QED
  BY <1>1, <1>2, <1>3, PTL DEF Spec
=============================================================================
