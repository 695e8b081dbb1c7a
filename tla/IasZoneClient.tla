--------------------------- MODULE IasZoneClient ---------------------------
(***************************************************************************)
(* The IAS zone client plugin (a CIE): the table of known servers and the  *)
(* exchange that configures one of them, "1. Look for ZDO device announce  *)
(* notification" to "7. When we get a notification".  One exchange at a    *)
(* time is remembered, by currentIndex and iasZoneClientState alone.       *)
(***************************************************************************)
EXTENDS IasZoneServer, ServiceDiscovery

CONSTANTS
  MaxDevices,      \* EMBER_AF_PLUGIN_IAS_ZONE_CLIENT_MAX_DEVICES
  ClientEndpoint   \* myEndpoint of the client

UNKNOWN_ENDPOINT == 0
BROADCAST_ENDPOINT == 255
NO_INDEX == 255
ZoneIdGiven == 1          \* EMBER_AF_PLUGIN_IAS_ZONE_CLIENT_ZONE_ID
Slots == 0..MaxDevices - 1
NoDevice == "no device"   \* an address of 0xFF bytes

ASSUME ClientAssumption ==
  /\ MaxDevices \in 1..254
  /\ ClientEndpoint \in 1..240
  /\ NoDevice \notin Devices

\* An entry of 0xFF bytes: its endpoint reads as the broadcast endpoint.
ErasedServer == [dev |-> NoDevice, endpoint |-> BROADCAST_ENDPOINT,
                 status |-> 65535, zoneId |-> UNDEFINED_ZONE_ID]

ClientStates == {"NONE", "SET_CIE_ADDRESS", "READ_CIE_ADDRESS",
                 "READ_ATTRIBUTES"}

VARIABLES
  servers,        \* emberAfIasZoneClientKnownServers
  currentIndex,
  clientState     \* iasZoneClientState

clientVars == <<servers, currentIndex, clientState, discovery>>

ClientInit ==
  /\ servers = [i \in Slots |-> ErasedServer]
  /\ currentIndex = NO_INDEX
  /\ clientState = "NONE"
  /\ discovery = FALSE

\* findIasZoneServerByIeee: no entry, or the only one (NoDuplicateServers).
SlotsOf(d) == {i \in Slots : servers[i].dev = d}

-----------------------------------------------------------------------------

\* Mutant of clearState: one past the table.
clearStateToEnd ==
  /\ currentIndex' = MaxDevices
  /\ clientState' = "NONE"

clearState ==
  /\ currentIndex' = 0
  /\ clientState' = "NONE"

\* sendCommand in answer to m: the next statement of the exchange goes to the
\* endpoint of the current entry.  ok when the stack took the message.
sendCommand(m, type, next, ok) ==
  IF ok
  THEN /\ Answer(m, {[type |-> type, dev |-> m.dev,
                      ep |-> servers'[currentIndex].endpoint]})
       /\ clientState' = next
       /\ UNCHANGED currentIndex
  ELSE /\ Answer(m, {})
       /\ clearState

FreeSlots == {i \in Slots : servers[i].dev = NoDevice}

\* Mutant of addServer: a device that is known already is added again.
addServerAgain(d, i) ==
  /\ i \in FreeSlots
  /\ servers' = [servers EXCEPT ![i].dev = d,
                                ![i].endpoint = UNKNOWN_ENDPOINT]

\* addServer: the entry of d, or the first free one, which becomes it.
addServer(d, i) ==
  \/ /\ i \in SlotsOf(d)
     /\ UNCHANGED servers
  \/ /\ SlotsOf(d) = {}
     /\ i \in FreeSlots
     /\ \A j \in FreeSlots : i <= j
     /\ servers' = [servers EXCEPT ![i].dev = d,
                                   ![i].endpoint = UNKNOWN_ENDPOINT]

\* checkForIasZoneServer with the entry i, when a device announces itself.
\* ok when the match descriptor request was sent.
CheckServer(m, i, ok) ==
  \/ /\ servers'[i].endpoint # UNKNOWN_ENDPOINT   \* "already known"
     /\ Answer(m, {})
     /\ UNCHANGED <<currentIndex, clientState, discovery>>
  \/ /\ servers'[i].endpoint = UNKNOWN_ENDPOINT
     /\ FindDevices
     /\ Answer(m, {[type |-> "matchRequest", dev |-> m.dev]})
     /\ currentIndex' = i
     /\ UNCHANGED clientState
     /\ ok
  \/ /\ servers'[i].endpoint = UNKNOWN_ENDPOINT
     /\ discovery \/ ~ok
     /\ UNCHANGED discovery
     /\ Answer(m, {})
     /\ clearState

DeviceAnnounced(m, ok) ==
  \/ /\ SlotsOf(m.dev) = {}
     /\ FreeSlots = {}
     /\ Answer(m, {})
     /\ UNCHANGED clientVars
  \/ \E i \in Slots : addServer(m.dev, i) /\ CheckServer(m, i, ok)

\* iasZoneClientServiceDiscoveryCallback on a match: the endpoint goes into
\* the current entry, whichever device it is of, and the write to the device
\* that answered.
MatchFound(m, ok) ==
  /\ DiscoveryComplete
  /\ servers' = [servers EXCEPT ![currentIndex].endpoint = ServerEndpoint]
  /\ sendCommand(m, "writeCie", "SET_CIE_ADDRESS", ok)

DiscoveryTimeout ==
  /\ DiscoveryComplete
  /\ clearState
  /\ UNCHANGED <<servers, net>>

\* An answer to no statement of the exchange that is going on.
Ignored(m) == Answer(m, {}) /\ UNCHANGED clientVars

WriteAttributesResponse(m, ok) ==
  \/ /\ clientState = "SET_CIE_ADDRESS"
     /\ UNCHANGED <<servers, discovery>>
     /\ sendCommand(m, "readCie", "READ_CIE_ADDRESS", ok)
  \/ /\ clientState # "SET_CIE_ADDRESS"
     /\ Ignored(m)

Reading == clientState \in {"READ_ATTRIBUTES", "READ_CIE_ADDRESS"}

\* emberAfPluginIasZoneClientReadAttributesResponseCallback with the CIE
\* address.  removeServer searches for the address that was read, which no
\* server has, and erases at NO_INDEX, beyond the table: what it overwrites
\* there is left out.
ReadCieAddressResponse(m, ok) ==
  \/ /\ Reading
     /\ m.cie # "client"
     /\ Answer(m, {})
     /\ clearState
     /\ UNCHANGED <<servers, discovery>>
  \/ /\ Reading
     /\ m.cie = "client"
     /\ UNCHANGED <<servers, discovery>>
     /\ sendCommand(m, "readAttributes", "READ_ATTRIBUTES", ok)
  \/ ~Reading /\ Ignored(m)

\* The same callback with the attributes, which go into the current entry.
ReadZoneAttributesResponse(m) ==
  \/ /\ Reading
     /\ servers' = [servers EXCEPT ![currentIndex].status = m.status]
     /\ clearState
     /\ Answer(m, {})
     /\ UNCHANGED discovery
  \/ ~Reading /\ Ignored(m)

EnrollResponse(d, known) ==
  [type |-> "enrollResponse", dev |-> d, permit |-> known,
   zone |-> IF known THEN ZoneIdGiven ELSE UNDEFINED_ZONE_ID]

\* Mutant of ZoneEnrollRequest: a node that is not in the table is enrolled.
EnrollAnyone(m, ok) ==
  /\ servers' = [i \in Slots |-> IF ok /\ i \in SlotsOf(m.dev)
                   THEN [servers[i] EXCEPT !.zoneId = ZoneIdGiven]
                   ELSE servers[i]]
  /\ Answer(m, {EnrollResponse(m.dev, TRUE)})
  /\ UNCHANGED <<currentIndex, clientState, discovery>>

\* Mutant of ZoneEnrollRequest: refused while an exchange is going on.
EnrollWhenIdle(m, ok) ==
  /\ servers' = [i \in Slots |-> IF ok /\ i \in SlotsOf(m.dev)
                   THEN [servers[i] EXCEPT !.zoneId = ZoneIdGiven]
                   ELSE servers[i]]
  /\ Answer(m, {EnrollResponse(m.dev, SlotsOf(m.dev) # {}
                                         /\ clientState = "NONE")})
  /\ UNCHANGED <<currentIndex, clientState, discovery>>

\* ok when the stack knows the EUI64 of the sender, here and below.
ZoneEnrollRequest(m, ok) ==
  /\ servers' = [i \in Slots |-> IF ok /\ i \in SlotsOf(m.dev)
                   THEN [servers[i] EXCEPT !.zoneId = ZoneIdGiven]
                   ELSE servers[i]]
  /\ Answer(m, {EnrollResponse(m.dev, ok /\ SlotsOf(m.dev) # {})})
  /\ UNCHANGED <<currentIndex, clientState, discovery>>

ZoneStatusChangeNotification(m, ok) ==
  /\ servers' = [i \in Slots |-> IF ok /\ i \in SlotsOf(m.dev)
                   THEN [servers[i] EXCEPT !.status = m.status]
                   ELSE servers[i]]
  /\ Answer(m, {})
  /\ UNCHANGED <<currentIndex, clientState, discovery>>

\* emAfClearServers, by the CLI command clear-all.
clearServers ==
  /\ servers' = [i \in Slots |-> ErasedServer]
  /\ UNCHANGED <<currentIndex, clientState, discovery, net>>
=============================================================================
