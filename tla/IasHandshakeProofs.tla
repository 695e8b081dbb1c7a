------------------------- MODULE IasHandshakeProofs -------------------------
(***************************************************************************)
(* The proof of HandshakeUnderWay, for every set of devices, table size    *)
(* and budget.  It follows the enrolment of a device: as long as nothing   *)
(* fails and no table is cleared, what is in the air for a device is only  *)
(* there because the client knows it.                                      *)
(***************************************************************************)
EXTENDS IasZoneProofs

\* Nothing failed and no table was cleared, since the start and in a step.
Pristine == left["fault"] = Budget["fault"] /\ left["clear"] = Budget["clear"]

Calm == left'["fault"] = left["fault"] /\ left'["clear"] = left["clear"]

HasEntry(d) == \E i \in Slots : servers[i].dev = d

InAir(type, d) == \E m \in net : m.type = type /\ m.dev = d

\* In a step in which nothing fails every send and look-up goes well.
LEMMA CalmFacts ==
  ASSUME IndexInv, Calm
  PROVE  /\ \A ok \in BOOLEAN : Attempt(ok) => ok
         /\ ~Spend("fault")
         /\ ~Spend("clear")
<1>1. left["fault"] \in Nat /\ left["clear"] \in Nat
  BY DEF IndexInv, TypeOK, Kinds
<1>2. ~Spend("fault") /\ ~Spend("clear")
  BY <1>1 DEF Spend, Calm, IndexInv, TypeOK, Kinds
<1> QED
  BY <1>2 DEF Attempt

\* The client forgets no device.
LEMMA EntryStep ==
  ASSUME IndexInv, [Next]_vars, Calm, NEW d \in Devices, HasEntry(d)
  PROVE  HasEntry(d)'
<1>1. TableGoal
  BY TableStep, CalmFacts DEF ClearAll
<1>2. PICK i \in Slots : servers[i].dev = d
  BY DEF HasEntry
<1>3. servers'[i].dev = d
  BY <1>1, <1>2, ClientAssumption DEF TableGoal, SameDevices, DeviceAdded
<1> QED
  BY <1>3 DEF HasEntry

-----------------------------------------------------------------------------
(* What a step does to a device and to the air                             *)

\* The CIE address becomes the client's by a write of the client alone, which
\* schedules the tick; a device that has it and is not enrolled stays on the
\* network or is interrupted.
CieGoal(d) ==
  \/ cie'[d] # "client"
  \/ /\ cie[d] = "client"
     /\ interrupted[d] => interrupted'[d]
     /\ onNetwork[d] /\ ~enrolled[d] => onNetwork'[d] \/ interrupted'[d]
  \/ InAir("writeCie", d) /\ enrollTick'[d] /\ onNetwork'[d]

LEMMA CieStep ==
  ASSUME IndexInv, [Next]_vars, NEW d \in Devices
  PROVE  CieGoal(d)
<1> USE DEF IndexInv, TypeOK, ServerTypeOK
<1>1. ASSUME UNCHANGED <<cie, onNetwork, interrupted>> PROVE CieGoal(d)
  BY <1>1 DEF CieGoal
<1>2. ASSUME NEW x \in Devices, DeviceJoins(x) PROVE CieGoal(d)
  BY <1>2 DEF DeviceJoins, serverVars, attributes, CieGoal
<1>3. ASSUME NEW x \in Devices,
             DeviceLeaves(x) \/ FactoryReset(x) \/ DeviceResets(x)
      PROVE  CieGoal(d)
  <2>1. /\ x # d => onNetwork'[d] = onNetwork[d]
        /\ interrupted' \in [Devices -> BOOLEAN]
    BY <1>3, TypeStep
       DEF DeviceLeaves, FactoryReset, DeviceResets, DeviceStep, Next
  <2>2. CASE Unenrolls(x) \/ DeviceResets(x)
    BY <2>1, <2>2
       DEF Unenrolls, DeviceResets, unenrollSecurityDevice,
           ServerInitCallback, WriteCieAddress, StartsAnew, CieGoal
  <2>3. CASE KeepsEnrolment(x)
    BY <2>1, <2>3 DEF KeepsEnrolment, attributes, CieGoal
  <2> QED
    BY <1>3, <2>2, <2>3 DEF DeviceLeaves, FactoryReset
<1>4. ASSUME NEW x \in Devices, OtherCieWrites(x) PROVE CieGoal(d)
  BY <1>4 DEF OtherCieWrites, WriteCieAddress, CieGoal
<1>5. ASSUME NEW x \in Devices, ServerTick(x) \/ StatusChanges(x)
      PROVE  CieGoal(d)
  BY <1>1, <1>5 DEF ServerTick, ServerTickCallback, StatusChanges,
     UpdateZoneStatus, attributes
<1>6. ASSUME NEW m \in net, m.type = "writeCie", onNetwork[m.dev],
             WriteAttributesReceived(m), StartsAnew(m.dev), UNCHANGED onNetwork
      PROVE  CieGoal(d)
  <2>1. m.dev \in Devices
    BY MessageFields
  <2>2. CASE m.dev = d
    BY <1>6, <2>1, <2>2
       DEF WriteAttributesReceived, WriteCieAddress, CieGoal, InAir
  <2>3. CASE m.dev # d
    BY <1>6, <2>1, <2>3
       DEF WriteAttributesReceived, WriteCieAddress, StartsAnew, CieGoal
  <2> QED
    BY <2>2, <2>3
<1>7. ASSUME NEW m \in net, DeviceReceives(m) PROVE CieGoal(d)
  BY <1>1, <1>6, <1>7
     DEF DeviceReceives, StackAnswersMatch, ReadAttributesReceived,
         ZoneEnrollResponseCallback, serverVars, attributes
<1>8. ASSUME NEW m \in net, ClientReceives(m) \/ Lost(m) PROVE CieGoal(d)
  BY <1>1, <1>8 DEF ClientReceives, Lost, serverVars, attributes
<1>9. CASE DiscoveryTimesOut \/ ClearAll \/ UNCHANGED vars
  BY <1>1, <1>9 DEF DiscoveryTimesOut, ClearAll, vars, serverVars, attributes
<1> QED
  BY <1>2, <1>3, <1>4, <1>5, <1>7, <1>8, <1>9 DEF Next, Received, DeviceStep

\* Why a message of the enrolment is put in the air.
Justified(m) ==
  /\ m.type = "matchRequest" => HasEntry(m.dev)'
  /\ m.type = "matchResponse" => InAir("matchRequest", m.dev)
  /\ m.type = "writeCie" => InAir("matchResponse", m.dev)
  /\ m.type = "enrollRequest" => cie[m.dev] = "client" /\ m.ep = ServerEndpoint
  /\ m.type = "enrollResponse" =>
       InAir("enrollRequest", m.dev) /\ (HasEntry(m.dev) => m.permit)

AirGoal == \A m \in net' : m \in net \/ Justified(m)

LEMMA AirStep ==
  ASSUME IndexInv, [Next]_vars, Calm
  PROVE  AirGoal
<1> USE DEF IndexInv, TypeOK
<1>1. ASSUME net' \subseteq net PROVE AirGoal
  BY <1>1 DEF AirGoal
<1>2. ASSUME NEW m \in net, NEW new, Answer(m, {new}), Justified(new)
      PROVE  AirGoal
  BY <1>2 DEF Answer, AirGoal
<1>3. ASSUME NEW m \in net, Answer(m, {}) PROVE AirGoal
  BY <1>1, <1>3 DEF Answer
<1>4. ASSUME NEW d \in Devices, DeviceStep(d) PROVE AirGoal
  <2>1. CASE DeviceJoins(d)
    BY <2>1 DEF DeviceJoins, Send, AirGoal, Justified
  <2>2. CASE \/ DeviceLeaves(d) \/ FactoryReset(d) \/ DeviceResets(d)
             \/ OtherCieWrites(d)
    BY <1>1, <2>2 DEF DeviceLeaves, FactoryReset, DeviceResets, OtherCieWrites
  <2>3. CASE ServerTick(d)
    <3>1. clientEndpoint[d] = ServerEndpoint
      BY DEF ServerTypeOK
    <3> QED
      BY <2>3, <3>1 DEF ServerTick, ServerTickCallback, sendToClient, Send,
         AirGoal, Justified
  <2>4. CASE StatusChanges(d)
    BY <2>4 DEF StatusChanges, UpdateZoneStatus, sendToClient, Send, AirGoal,
       Justified
  <2> QED
    BY <1>4, <2>1, <2>2, <2>3, <2>4 DEF DeviceStep
<1>5. ASSUME NEW m \in net, DeviceReceives(m) PROVE AirGoal
  <2>1. CASE m.type = "matchRequest" /\ StackAnswersMatch(m)
    <3> DEFINE new == [type |-> "matchResponse", dev |-> m.dev]
    <3>1. Justified(new)
      BY <2>1 DEF Justified, InAir
    <3>2. Answer(m, {new})
      BY <2>1 DEF StackAnswersMatch
    <3> QED
      BY <1>2, <3>1, <3>2
  <2>2. CASE WriteAttributesReceived(m)
    BY <1>2, <2>2 DEF WriteAttributesReceived, Justified
  <2>3. CASE ReadAttributesReceived(m)
    BY <1>2, <2>3 DEF ReadAttributesReceived, Justified
  <2>4. CASE Answer(m, {}) \/ ZoneEnrollResponseCallback(m)
    BY <1>3, <2>4 DEF ZoneEnrollResponseCallback
  <2> QED
    BY <1>5, <2>1, <2>2, <2>3, <2>4 DEF DeviceReceives
<1>6. ASSUME NEW m \in net, NEW ok \in BOOLEAN, m.type = "announce",
             DeviceAnnounced(m, ok)
      PROVE  AirGoal
  <2>1. CASE Answer(m, {})
    BY <1>3, <2>1
  <2>2. ASSUME NEW i \in Slots, addServer(m.dev, i),
               Answer(m, {[type |-> "matchRequest", dev |-> m.dev]})
        PROVE  AirGoal
    <3>1. servers'[i].dev = m.dev
      BY <2>2 DEF addServer, SlotsOf, ClientTypeOK, Entry
    <3>2. Justified([type |-> "matchRequest", dev |-> m.dev])
      BY <3>1 DEF Justified, HasEntry
    <3> QED
      BY <1>2, <2>2, <3>2
  <2> QED
    BY <1>6, <2>1, <2>2 DEF DeviceAnnounced, CheckServer
<1>7. ASSUME NEW m \in net, NEW ok \in BOOLEAN, m.type = "matchResponse",
             MatchFound(m, ok)
      PROVE  AirGoal
  <2>1. CASE Answer(m, {})
    BY <1>3, <2>1
  <2>2. ASSUME NEW ep, Answer(m, {[type |-> "writeCie", dev |-> m.dev, ep |-> ep]})
        PROVE  AirGoal
    <3>1. Justified([type |-> "writeCie", dev |-> m.dev, ep |-> ep])
      BY <1>7 DEF Justified, InAir
    <3> QED
      BY <1>2, <2>2, <3>1
  <2> QED
    BY <1>7, <2>1, <2>2 DEF MatchFound, sendCommand
<1>8. ASSUME NEW m \in net, NEW ok \in BOOLEAN,
             WriteAttributesResponse(m, ok) \/ ReadCieAddressResponse(m, ok)
      PROVE  AirGoal
  <2>1. ASSUME NEW ep, NEW t \in {"readCie", "readAttributes"},
               Answer(m, {[type |-> t, dev |-> m.dev, ep |-> ep]})
        PROVE  AirGoal
    BY <1>2, <2>1 DEF Justified
  <2> QED
    BY <1>3, <1>8, <2>1
       DEF WriteAttributesResponse, ReadCieAddressResponse, sendCommand, Ignored
<1>9. ASSUME NEW m \in net, NEW ok \in BOOLEAN, ok, m.type = "enrollRequest",
             ZoneEnrollRequest(m, ok)
      PROVE  AirGoal
  <2> DEFINE new == EnrollResponse(m.dev, ok /\ SlotsOf(m.dev) # {})
  <2>1. new.type = "enrollResponse" /\ new.dev = m.dev
    BY DEF EnrollResponse
  <2>2. HasEntry(m.dev) => new.permit
    BY <1>9 DEF HasEntry, SlotsOf, EnrollResponse
  <2>3. Answer(m, {new})
    BY <1>9 DEF ZoneEnrollRequest
  <2>4. InAir("enrollRequest", m.dev)
    BY <1>9 DEF InAir
  <2> HIDE DEF new
  <2>5. Justified(new)
    BY <2>1, <2>2, <2>4 DEF Justified
  <2> QED
    BY <1>2, <2>3, <2>5
<1>10. ASSUME NEW m \in net, NEW ok \in BOOLEAN,
              \/ ZoneStatusChangeNotification(m, ok)
              \/ ReadZoneAttributesResponse(m)
              \/ Ignored(m)
              \/ Lost(m)
       PROVE  AirGoal
  BY <1>3, <1>10
     DEF ZoneStatusChangeNotification, ReadZoneAttributesResponse, Ignored, Lost
<1>11. ASSUME NEW m \in net, ClientReceives(m) PROVE AirGoal
  <2>1. CASE ReadZoneAttributesResponse(m) \/ Ignored(m)
    BY <1>10, <2>1
  <2>2. ASSUME NEW ok \in BOOLEAN, Attempt(ok),
               \/ m.type = "announce" /\ DeviceAnnounced(m, ok)
               \/ m.type = "matchResponse" /\ MatchFound(m, ok)
               \/ WriteAttributesResponse(m, ok)
               \/ ReadCieAddressResponse(m, ok)
               \/ m.type = "enrollRequest" /\ ZoneEnrollRequest(m, ok)
               \/ ZoneStatusChangeNotification(m, ok)
        PROVE  AirGoal
    <3>1. ok
      BY <2>2, CalmFacts
    <3> QED
      BY <1>6, <1>7, <1>8, <1>9, <1>10, <2>2, <3>1
  <2> QED
    BY <1>11, <2>1, <2>2 DEF ClientReceives
<1>12. CASE DiscoveryTimesOut \/ ClearAll \/ UNCHANGED vars
  BY <1>1, <1>12
     DEF DiscoveryTimesOut, DiscoveryTimeout, ClearAll, clearServers, vars
<1> QED
  BY <1>4, <1>5, <1>10, <1>11, <1>12 DEF Next, Received

\* A message leaves the air only when it is received or lost itself.
LEMMA OthersStay ==
  ASSUME NEW m \in net, Received(m) \/ Lost(m)
  PROVE  net \ {m} \subseteq net'
<1>1. ASSUME NEW new, Answer(m, new) PROVE net \ {m} \subseteq net'
  BY <1>1 DEF Answer
<1>2. CASE Lost(m)
  BY <1>1, <1>2 DEF Lost
<1>3. CASE DeviceReceives(m)
  BY <1>1, <1>3 DEF DeviceReceives, StackAnswersMatch, WriteAttributesReceived,
     ReadAttributesReceived, ZoneEnrollResponseCallback
<1>4. ASSUME NEW ok \in BOOLEAN, DeviceAnnounced(m, ok)
      PROVE  net \ {m} \subseteq net'
  BY <1>1, <1>4 DEF DeviceAnnounced, CheckServer
<1>5. ASSUME NEW ok \in BOOLEAN,
             \/ MatchFound(m, ok)
             \/ WriteAttributesResponse(m, ok)
             \/ ReadCieAddressResponse(m, ok)
      PROVE  net \ {m} \subseteq net'
  BY <1>1, <1>5 DEF MatchFound, WriteAttributesResponse,
     ReadCieAddressResponse, sendCommand, Ignored
<1>6. ASSUME NEW ok \in BOOLEAN,
             ZoneEnrollRequest(m, ok) \/ ZoneStatusChangeNotification(m, ok)
      PROVE  net \ {m} \subseteq net'
  BY <1>1, <1>6 DEF ZoneEnrollRequest, ZoneStatusChangeNotification
<1>7. CASE ReadZoneAttributesResponse(m) \/ Ignored(m)
  BY <1>1, <1>7 DEF ReadZoneAttributesResponse, Ignored
<1> QED
  BY <1>2, <1>3, <1>4, <1>5, <1>6, <1>7 DEF Received, ClientReceives

LEMMA Removed ==
  ASSUME [Next]_vars, NEW m \in net, m \notin net'
  PROVE  Received(m) \/ Lost(m)
<1>1. ASSUME NEW d \in Devices, DeviceStep(d) PROVE net \subseteq net'
  BY <1>1 DEF DeviceStep, DeviceJoins, DeviceLeaves, FactoryReset,
     DeviceResets, OtherCieWrites, ServerTick, ServerTickCallback,
     StatusChanges, UpdateZoneStatus, Send
<1>2. CASE DiscoveryTimesOut \/ ClearAll \/ UNCHANGED vars
  BY <1>2 DEF DiscoveryTimesOut, DiscoveryTimeout, ClearAll, clearServers, vars
<1> QED
  BY <1>1, <1>2, OthersStay DEF Next

\* A device that stays enrolled, or is refused.
LEMMA StaysEnrolled ==
  ASSUME IndexInv, [Next]_vars, NEW d \in Devices,
         cie'[d] = "client", enrolled[d]
  PROVE  \/ enrolled'[d]
         \/ \E m \in net : m.type = "enrollResponse" /\ m.dev = d /\ ~m.permit
<1> USE DEF IndexInv, TypeOK, ServerTypeOK
<1>1. CASE UNCHANGED enrolled
  BY <1>1
<1>2. ASSUME NEW x \in Devices, Unenrolls(x) \/ DeviceResets(x)
      PROVE  enrolled'[d]
  <2>1. x # d
    BY <1>2 DEF Unenrolls, DeviceResets, unenrollSecurityDevice,
       ServerInitCallback, WriteCieAddress
  <2> QED
    BY <1>2, <2>1 DEF Unenrolls, DeviceResets, unenrollSecurityDevice,
       ServerInitCallback, SetEnrolled
<1>3. ASSUME NEW x \in Devices, DeviceStep(x) PROVE enrolled'[d]
  BY <1>1, <1>2, <1>3
     DEF DeviceStep, DeviceJoins, DeviceLeaves, FactoryReset, KeepsEnrolment,
         OtherCieWrites, ServerTick, ServerTickCallback, StatusChanges,
         UpdateZoneStatus, serverVars, attributes
<1>4. ASSUME NEW m \in net, m.type = "enrollResponse",
             ZoneEnrollResponseCallback(m)
      PROVE  enrolled'[d] \/ (m.dev = d /\ ~m.permit)
  <2>1. enrolled' = [enrolled EXCEPT ![m.dev] = m.permit]
    BY <1>4 DEF ZoneEnrollResponseCallback, SetEnrolled
  <2>2. CASE m.dev = d
    <3>1. enrolled'[d] = m.permit
      BY <2>1, <2>2
    <3> QED
      BY <2>2, <3>1
  <2>3. CASE m.dev # d
    BY <2>1, <2>3
  <2> QED
    BY <2>2, <2>3
<1>5. ASSUME NEW m \in net, DeviceReceives(m)
      PROVE  \/ UNCHANGED enrolled
             \/ m.type = "enrollResponse" /\ ZoneEnrollResponseCallback(m)
  BY <1>5 DEF DeviceReceives, StackAnswersMatch, WriteAttributesReceived,
     ReadAttributesReceived, serverVars, attributes
<1>6. ASSUME NEW m \in net, ClientReceives(m) \/ Lost(m)
      PROVE  UNCHANGED enrolled
  BY <1>6 DEF ClientReceives, Lost, serverVars, attributes
<1>7. CASE DiscoveryTimesOut \/ ClearAll \/ UNCHANGED vars
  BY <1>1, <1>7 DEF DiscoveryTimesOut, ClearAll, vars, serverVars, attributes
<1> QED
  BY <1>1, <1>3, <1>4, <1>5, <1>6, <1>7 DEF Next, Received

\* The tick asks for the enrolment, at the endpoint of the server.
LEMMA TickAsks ==
  ASSUME IndexInv, [Next]_vars, Calm, NEW d \in Devices,
         cie[d] = "client", enrollTick[d], onNetwork[d]
  PROVE  enrollTick'[d] \/ InAir("enrollRequest", d)'
<1> USE DEF IndexInv, TypeOK, ServerTypeOK
<1>1. CASE UNCHANGED enrollTick
  BY <1>1
<1>2. ASSUME NEW x \in Devices, NEW c, WriteCieAddress(x, c) PROVE enrollTick'[d]
  BY <1>2 DEF WriteCieAddress
<1>3. ASSUME NEW x \in Devices, ServerTick(x)
      PROVE  enrollTick'[d] \/ InAir("enrollRequest", d)'
  <2>1. PICK ok \in BOOLEAN :
          ServerTickCallback(x, ok) /\ (onNetwork[x] => Attempt(ok))
    BY <1>3 DEF ServerTick
  <2>2. x = d => ok
    BY <2>1, CalmFacts
  <2>3. CASE x = d
    <3> DEFINE new == [type |-> "enrollRequest", dev |-> d,
                       ep |-> clientEndpoint[d]]
    <3>1. new \in net'
      BY <2>1, <2>2, <2>3 DEF ServerTickCallback, sendToClient, Send
    <3>2. new.type = "enrollRequest" /\ new.dev = d
      OBVIOUS
    <3> QED
      BY <3>1, <3>2 DEF InAir
  <2>4. CASE x # d
    BY <2>1, <2>4 DEF ServerTickCallback
  <2> QED
    BY <2>3, <2>4
<1>4. ASSUME NEW x \in Devices, DeviceStep(x)
      PROVE  enrollTick'[d] \/ InAir("enrollRequest", d)'
  BY <1>1, <1>2, <1>3, <1>4
     DEF DeviceStep, DeviceJoins, DeviceLeaves, FactoryReset, Unenrolls,
         KeepsEnrolment, DeviceResets, unenrollSecurityDevice,
         ServerInitCallback, OtherCieWrites, StatusChanges, UpdateZoneStatus,
         serverVars
<1>5. ASSUME NEW m \in net, DeviceReceives(m) PROVE enrollTick'[d]
  <2>1. m.dev \in Devices
    BY MessageFields
  <2> QED
    BY <1>1, <1>2, <1>5, <2>1 DEF DeviceReceives, StackAnswersMatch,
       WriteAttributesReceived, ReadAttributesReceived,
       ZoneEnrollResponseCallback, serverVars
<1>6. ASSUME NEW m \in net, ClientReceives(m) \/ Lost(m) PROVE enrollTick'[d]
  BY <1>1, <1>6 DEF ClientReceives, Lost, serverVars
<1>7. CASE DiscoveryTimesOut \/ ClearAll \/ UNCHANGED vars
  BY <1>1, <1>7 DEF DiscoveryTimesOut, ClearAll, vars, serverVars
<1> QED
  BY <1>4, <1>5, <1>6, <1>7 DEF Next, Received

\* A request that leaves the air is answered.
LEMMA RequestAnswered ==
  ASSUME IndexInv, [Next]_vars, Calm, ServerEndpoint = ClientEndpoint,
         NEW m \in net, m \notin net', m.type = "enrollRequest",
         m.ep = ServerEndpoint
  PROVE  InAir("enrollResponse", m.dev)'
<1>1. ~Lost(m)
  BY CalmFacts DEF Lost, ToDevice
<1>2. ~DeviceReceives(m)
  BY DEF DeviceReceives
<1>3. ClientReceives(m)
  BY <1>1, <1>2, Removed DEF Received
<1>4. \E ok \in BOOLEAN : ZoneEnrollRequest(m, ok)
  BY <1>3 DEF ClientReceives, Unwanted, ForClient
<1>5. PICK ok \in BOOLEAN : ZoneEnrollRequest(m, ok)
  BY <1>4
<1> DEFINE new == EnrollResponse(m.dev, ok /\ SlotsOf(m.dev) # {})
<1>6. new \in net'
  BY <1>5 DEF ZoneEnrollRequest, Answer
<1>7. new.type = "enrollResponse" /\ new.dev = m.dev
  BY DEF EnrollResponse
<1> QED
  BY <1>6, <1>7 DEF InAir

\* A response that leaves the air has enrolled the device, if it permits.
LEMMA ResponseEnrols ==
  ASSUME IndexInv, [Next]_vars, Calm,
         NEW m \in net, m \notin net', m.type = "enrollResponse", m.permit,
         onNetwork[m.dev]
  PROVE  enrolled'[m.dev]
<1>1. ~Lost(m)
  BY CalmFacts DEF Lost
<1>2. ~ClientReceives(m)
  BY DEF ClientReceives, Unwanted
<1>3. ZoneEnrollResponseCallback(m)
  BY <1>1, <1>2, Removed DEF Received, DeviceReceives
<1>4. m.dev \in Devices
  BY MessageFields DEF IndexInv, TypeOK
<1> QED
  BY <1>3, <1>4
     DEF ZoneEnrollResponseCallback, SetEnrolled, IndexInv, TypeOK, ServerTypeOK

-----------------------------------------------------------------------------
(* The invariant                                                           *)

\* What leads up to a request is in the air for devices that have an entry.
Leading == {"matchRequest", "matchResponse", "writeCie"}

HandshakeInv ==
  /\ \A m \in net : m.type \in Leading => HasEntry(m.dev)
  /\ \A m \in net : m.type = "enrollRequest" =>
                      HasEntry(m.dev) /\ m.ep = ServerEndpoint
  /\ \A m \in net : m.type = "enrollResponse" => m.permit
  /\ \A d \in Devices : cie[d] = "client" =>
       /\ HasEntry(d)
       /\ \/ enrolled[d]
          \/ interrupted[d]
          \/ onNetwork[d] /\ EnrolmentUnderWay(d)

BudgetInv ==
  left["fault"] <= Budget["fault"] /\ left["clear"] <= Budget["clear"]

LEMMA HandshakeStep ==
  ASSUME IndexInv, HandshakeInv, [Next]_vars, Calm,
         ServerEndpoint = ClientEndpoint
  PROVE  HandshakeInv'
<1>1. \A m \in net : m.dev \in Devices
  BY MessageFields DEF IndexInv, TypeOK
<1>2. \A m \in net' : m.dev \in Devices
  <2>1. net' \subseteq Message
    BY TypeStep DEF IndexInv, TypeOK
  <2> QED
    BY <2>1, MessageFields
<1>3. \A d \in Devices : HasEntry(d) => HasEntry(d)'
  BY EntryStep
<1>4. \A m \in net' : m \in net \/ Justified(m)
  BY AirStep DEF AirGoal
<1>5. ASSUME NEW m \in net', m.type \in Leading PROVE HasEntry(m.dev)'
  BY <1>1, <1>2, <1>3, <1>4, <1>5 DEF HandshakeInv, Leading, Justified, InAir
<1>6. ASSUME NEW m \in net', m.type = "enrollRequest"
      PROVE  HasEntry(m.dev)' /\ m.ep = ServerEndpoint
  BY <1>1, <1>2, <1>3, <1>4, <1>6 DEF HandshakeInv, Justified
<1>7. ASSUME NEW m \in net', m.type = "enrollResponse" PROVE m.permit
  BY <1>1, <1>4, <1>7 DEF HandshakeInv, Justified, InAir
<1>8. ASSUME NEW d \in Devices, cie'[d] = "client"
      PROVE  /\ HasEntry(d)'
             /\ \/ enrolled'[d]
                \/ interrupted'[d]
                \/ onNetwork'[d] /\ EnrolmentUnderWay(d)'
  <2>1. CASE InAir("writeCie", d) /\ enrollTick'[d] /\ onNetwork'[d]
    BY <1>3, <2>1 DEF HandshakeInv, Leading, InAir, EnrolmentUnderWay
  <2>2. CASE /\ cie[d] = "client"
             /\ interrupted[d] => interrupted'[d]
             /\ onNetwork[d] /\ ~enrolled[d] => onNetwork'[d] \/ interrupted'[d]
    <3>1. HasEntry(d)'
      BY <1>3, <2>2 DEF HandshakeInv
    <3>2. CASE enrolled[d]
      BY <1>8, <3>1, <3>2, StaysEnrolled DEF HandshakeInv
    <3>3. CASE interrupted[d]
      BY <2>2, <3>1, <3>3
    <3>4. CASE ~enrolled[d] /\ onNetwork[d] /\ EnrolmentUnderWay(d)
      <4>1. onNetwork'[d] \/ interrupted'[d]
        BY <2>2, <3>4
      <4>2. CASE enrollTick[d]
        BY <2>2, <3>1, <3>4, <4>1, <4>2, TickAsks DEF EnrolmentUnderWay, InAir
      <4>3. ASSUME NEW m \in net, m.dev = d,
                   m.type \in {"enrollRequest", "enrollResponse"}
            PROVE  enrolled'[d] \/ EnrolmentUnderWay(d)'
        <5>1. CASE m \in net'
          BY <4>3, <5>1 DEF EnrolmentUnderWay
        <5>2. CASE m \notin net' /\ m.type = "enrollRequest"
          BY <4>3, <5>2, RequestAnswered
             DEF HandshakeInv, EnrolmentUnderWay, InAir
        <5>3. CASE m \notin net' /\ m.type = "enrollResponse"
          BY <3>4, <4>3, <5>3, ResponseEnrols DEF HandshakeInv
        <5> QED
          BY <4>3, <5>1, <5>2, <5>3
      <4> QED
        BY <3>1, <3>4, <4>1, <4>2, <4>3 DEF EnrolmentUnderWay
    <3> QED
      BY <2>2, <3>2, <3>3, <3>4 DEF HandshakeInv
  <2> QED
    BY <1>8, <2>1, <2>2, CieStep DEF CieGoal
<1> QED
  BY <1>5, <1>6, <1>7, <1>8 DEF HandshakeInv

LEMMA PristineStep ==
  ASSUME IndexInv, BudgetInv, [Next]_vars
  PROVE  /\ BudgetInv'
         /\ Pristine' => Pristine /\ Calm
<1>1. /\ left["fault"] \in Nat /\ left["clear"] \in Nat
      /\ left'["fault"] \in Nat /\ left'["clear"] \in Nat
      /\ Budget["fault"] \in Nat /\ Budget["clear"] \in Nat
  BY TypeStep, BudgetAssumption DEF IndexInv, TypeOK, Kinds
<1>2. left'["fault"] <= left["fault"] /\ left'["clear"] <= left["clear"]
  BY BudgetStep DEF Kinds
<1> QED
  BY <1>1, <1>2 DEF BudgetInv, Pristine, Calm

LEMMA InitHandshake == Init => BudgetInv /\ HandshakeInv
<1> SUFFICES ASSUME Init PROVE BudgetInv /\ HandshakeInv
  OBVIOUS
<1>1. BudgetInv
  BY BudgetAssumption DEF Init, BudgetInv, Kinds
<1>2. HandshakeInv
  BY DEF Init, ServerInit, HandshakeInv
<1> QED
  BY <1>1, <1>2

\* A device that the client configured is enrolled or its enrolment is under
\* way, as long as nothing fails: the one tick after the write of the CIE
\* address is enough (ias-zone-server.c:60-110), unless the network went down
\* in the middle and the address was kept (sensor-iface.c:377-383).  The client has to listen at
\* the endpoint of the server, to which the requests go (ias-zone-server.c:67).
THEOREM HandshakeCorrect ==
  ServerEndpoint = ClientEndpoint => (Spec => []HandshakeUnderWay)
<1> SUFFICES ASSUME ServerEndpoint = ClientEndpoint
             PROVE  Spec => []HandshakeUnderWay
  OBVIOUS
<1> DEFINE Inv == IndexInv /\ BudgetInv /\ (Pristine => HandshakeInv)
<1>1. Init => Inv
  BY InitType, InitHandshake
<1>2. Inv /\ [Next]_vars => Inv'
  BY TypeStep, PristineStep, HandshakeStep
<1>3. Inv => HandshakeUnderWay
  BY DEF Pristine, HandshakeInv, HandshakeUnderWay
<1> QED
  BY <1>1, <1>2, <1>3, PTL DEF Spec
=============================================================================
