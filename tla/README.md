# Verification of the SM6011 door sensor

The repository is the EmberZNet 5.3 SDK for the EM35x with one product in it,
`app/builder/DoorSensor_SM6011`: a battery powered door and window sensor. It
is a ZigBee sleepy end device with one endpoint and one network, an IAS zone
server of type 21, with a magnetic contact on BUTTON1 and a push button on
BUTTON0. This directory holds TLA+ modules of the product's own logic and of
the SDK code it runs through, TLC configurations that check them on small
instances, and proofs that TLAPS checks for every instance.

`PROJECT.json` lists components, runs, mutants (a wrong version of a definition
for every property, which the property has to reject), the source lines of every
definition, hazards and theorems.

Source files are named below by their last part: `sensor-iface.c` is
`app/framework/plugin/sensor-iface/sensor-iface.c`, and so on.

## 1. The system

### Components, what they keep, what they do

| component | state | operations |
|---|---|---|
| stack (binary library) | network state, rejoin progress, MAC scan | scan, join, rejoin, leave; reports statuses |
| form-and-join library | scan type, message buffer, cached networks, channel, mask | scan for a joinable network, next network, scan callbacks, clean-up |
| network-find | NONE / JOIN / WAIT, tick event | start search, tick, network found, scan error, stack status |
| end-device-support, move | move event, attempts (int8u) | start, stop, schedule, event, stack status |
| end-device-support, polling | missed polls, tasks, intervals, wake timeout | poll complete, add and remove task, poll interval |
| sensor-iface, join policy | join attempts, rejoin event, init event | init, rejoin event, stack status, short and long press |
| sensor-iface, contact | two events of BUTTON1, debounce event, last and new status | pressed, released, debounce; gate by BUTTON0 |
| sensor-iface, BUTTON0 | press state, press time, press counter | pressed, released, timeout |
| button HAL | last state of the pin | edge interrupt |
| IAS zone server | CIE address, zone state, ID and status, tick, client endpoint | attribute changed, tick, enroll response, update status, unenroll |
| IAS zone client (the CIE side, SDK code that is not in the product) | table of servers, current index, state of the exchange | device announce, discovery result, attribute responses, enroll request, notification, clear |
| service discovery | one outstanding request per network | find, response, timeout |
| idle-sleep | sleep control | sleep check, deep sleep, wake-up |
| led-blink | pattern and event | on, off, blink, pattern, event |
| framework | attribute table, event table | main loop, dispatch, attribute writes |
| message-sent table | a tag and a callback in each slot | send, delivery report |
| reporting | table in tokens, last value and time of each entry, tick event | configure, remove, attribute changed, tick, retry |
| fragmentation (SDK code that is not in the product) | sender: entries with base and fragments in transit; receiver: entries with a window, `rxWindowMoved` | send, fragment sent, fragment received, ageing |
| battery-monitor, identify, counters, eeprom, CLI, serial | see the note in `PROJECT.json` | |

### How they interact

- One main loop (`af-main-soc.c:203`): stack tick, serial, `emberAfTick`, events
  in the order of the generated table, sleep check. A handler runs to its end;
  only interrupts run in between. The order of the table matters where one pass
  finds two events (contact).
- The stack reports a status by one call that tells the plugins in a generated
  order (`DoorSensor_SM6011_endpoint_config.h:261`): end-device-support, then
  network-find, then sensor-iface. Each acts at once, and the later ones ask
  for a network state that the earlier ones may have changed.
- network-find owns a search, form-and-join owns its scan and buffer; they call
  each other in both directions, and sensor-iface starts searches without
  looking at the result.
- The contact reaches the zone status through interrupt, two events and a
  debounce event; the zone status reaches the CIE by a notification, if the
  device is enrolled.
- Enrolment is a conversation of two nodes: announce, match descriptor, write
  of the CIE address, read back, read of the attributes, enroll request (by a
  timer of the device) and enroll response, with several devices at once.
- What a device sends decides how it sleeps: a message sets task flags, its
  delivery report and its answer clear them, the flags and a wake timeout choose
  between the short and the long poll interval, and the polls that a parent
  leaves unanswered start the move to another one.
- Reporting is driven by whoever writes an attribute, by configuration commands
  and by its own tick, which all of them set again; a report whose delivery
  failed comes back through the message-sent table and is sent once more.

### What is hard about it

- *Order of reports and stale state*: a status handled after the state it is
  about has changed; a rejoin event that fires during a join; a search
  continued from the middle of another plugin's handler.
- *Interrupts*: an edge at any point of the loop, also between the sleep check
  and the sleep, and in the middle of the interrupt handler itself.
- *Refusals*: scans, joins, rejoins and sends that the stack does not take, and
  callers that do not look.
- *Retries and limits*: two plugins share the recovery of an orphan; limits that
  are reset by reaching them.
- *Messages without identity*: answers that carry neither device nor exchange,
  with one `currentIndex` for all; late and lost messages; resets of a device
  that keeps no attribute.
- *Sleep*: what keeps the device awake, and what may wait while it sleeps; a
  timeout read from a 16-bit tick by whoever asks next.
- *Counters that outlive their cause*: polls missed under one parent and counted
  against the next; a byte that wraps before its limit is asked for.
- *Copies*: fragments and acknowledgements that are lost, late or repeated, for a
  receiver with few entries that remembers a finished message only for a while.
- *Time arithmetic*: one tick for all reports, set to the earliest of them, in
  units that a delay must fit, served late, with times that wrap.

### What makes each component correct

Search: it ends, nothing is left wedged, the buffer is held exactly as long as
needed, refused steps do not stop it. Move and rejoin: an orphan always has a
way back, a node without a network does not look for a parent. Join policy:
attempts go on while there are any and stop when there are none, and enrolment
ends with the network. Contact: what is reported is what the contact did, in
alternation, and a contact that comes to rest is reported. Zone server and
client: state and zone ID agree, who is enrolled is known, one entry for a
device, a configured device gets enrolled, the status recorded is the one of
that device. Sleep: no task waits for a sleep that it should have prevented. Polling:
the device polls fast while it expects something and only then, a parent is left
for as many missed polls as configured and for no other reason. Fragmentation: a
success is told only of a message that arrived, and it arrived once and whole.
Reporting: no change is left unreported, no report comes too early or too often,
the tick is there in time for every entry. Message-sent table: every slot is
given back, no callback is called for another message.

## 2. Modules

    EmberStack ──┬─ NetworkSearch ──┐
                 └─ EndDeviceMove ──┴─ JoinControl ── MCJoinControl
                                         └─ JoinControlProofs ── JoinSafetyProofs
    ContactSpec  <──(implements)── DoorContact ── DoorContactProofs
    IasZoneServer ──┐
    ServiceDiscovery ┴─ IasZoneClient ── IasZone ──┬─ MCIasZone
    EnrolmentSpec <──(implements)──────────────────┴─ IasZoneProofs ── IasHandshakeProofs
    EmberStack ── EndDeviceMove ── EndDevicePolling ── SleepyDevice ── SleepyDeviceProofs
    FragmentReceiver ── Fragmentation ──┬─ MCFragmentation
    MessageTransfer <──(implements)─────┴─ FragmentationProofs
    MessageSent ── Reporting ──┬─ MCReporting
                               └─ ReportingProofs

The modules of components hold operators over their own variables, one per
function of the code, named as in the code; the composing module turns them into
steps and adds what lies between the components. A "Mutant of X" in a module is
a wrong version of the definition X and is used in no specification.

### Getting onto the network: EmberStack, NetworkSearch, EndDeviceMove, JoinControl

`EmberStack` is external: the stack is a library without source. It has the
network state, the progress of a rejoin and whether the MAC scans. A call
takes `ok`, whether the stack accepts it: a scan or a rejoin is refused exactly
when one of them runs already or the network state does not allow it, a join
may be refused for other reasons too.

`NetworkSearch` is `network-find.c` over `form-and-join.c`. `ScanForNext` is
`emberScanForNextJoinableNetwork` with what the callbacks do in line; its five
outcomes are the ways it ends. What network a beacon is of does not matter, so
that the cache is a count. The search of an unused PAN ID, which nothing in the
product starts, is left out, and so is the clean-up tick, which the product
disables. `EndDeviceMove` is `end-device-move.c` as it is.

`JoinControl` is the join policy of `sensor-iface.c` and the composition. A
status of the stack is put into `status` and `todo`, and the plugins in `todo`
see it one by one; while `todo` is not empty no other handler runs (`Idle`). Delays
are abstracted: an armed event may run at any time. That includes orders that
the real delays make rare, and none that they exclude for good: 5 or 10 s, 10 s
between moves and 30 min are all shorter than what a join or a rejoin may take.
`rejoin = "start"` is a rejoin whose NETWORK_DOWN was not reported yet. Exceptions
to the plain reading of the code: the two stages of attempts (20 and 40) are one
constant `MaxJoinAttempts`, since only the delay differs; a status of the stack is
one of the five that a handler tells apart.

### The contact: ContactSpec, DoorContact

`DoorContact` has the pin, its interrupt flag, the two halves of `BUTTON1_ISR`
(clear, read and tell), the events, the handlers in the order of the table, and
the sleep with its ATOMIC block, in which the interrupt is masked. `turn` is
where the loop is. A state of the button is written as the status it stands for
(`SENSOR_POLARITY` is 0). `buttonActive` is BUTTON0 held down. `moved` and
`overrun` are history: an interrupt was served since the boot; the last one
left both events active, which is when the order of events is lost.

`ContactSpec` is what the pipeline promises to the zone server: a report is of a
status that the contact took and that was still pending, and two reports in a
row differ. The refinement maps its `pending` to what the interrupt is going to
tell, the active events and the debounce that is under way. It holds with
`BUTTON_GATE` too: idling the sensor makes it report a status again, which is a step
of `ContactSpec` that forgets.

### Enrolment: IasZoneServer, ServiceDiscovery, IasZoneClient, IasZone, EnrolmentSpec

`IasZoneServer` has the attributes and the tick of each device, `IasZoneClient`
the table, `currentIndex` and the state of the exchange, `ServiceDiscovery` the
one outstanding request. Messages are a set in `IasZone`: they arrive in
any order or not at all. Two equal messages in the air are one; none of the
handlers counts them. `ok` is again whether the stack takes a message or knows an
address. `Budget` bounds what comes from outside: joins, changes of a contact,
resets, leaves, losses of the network that end no enrolment, faults, writes of
another CIE, clear-all commands. A network that goes down unenrolls the device only
if `emberNetworkState()` is EMBER_NO_NETWORK when sensor-iface is told
(`sensor-iface.c:379`). `JoinControl` shows that network-find may be joining again by
then, and an orphan is not off the network either, so that `DeviceLeaves` is one of
two: `Unenrolls`, or `KeepsEnrolment`, which leaves every attribute as it is. In both
the radio is off: what the tick or a changed status sends then is refused. The
long press of the button unenrolls on the network (`FactoryReset`). `interrupted` is
history: the device went off the network between the write of the address and
its enrolment and kept the address. All zone
attributes are volatile in the product (`DoorSensor_SM6011_endpoint_config.h`),
which `ServerInitCallback` shows. Left out: the zone type, the reading of the
zone state (nothing is decided by either), default responses, and what
`removeServer` overwrites behind the table.

`EnrolmentSpec` is what the two plugins promise together, without endpoints, exchanges
and attributes: the devices on the network, those in the client's table, which
has room for `MaxDevices`, those with a permission on its way, and those
enrolled. The client permits only a device of its table; only a permission enrolls
a device that is on the network, and is then used up; a device that departs is not enrolled, one
whose network only goes down (`Drop`) stays what it was. It
also says what is not promised: a permission may enroll a device that left and
joined since, or that is not in the table any more. The refinement takes these sets
from the table, the attributes and the enroll responses in the air.

### Polling and sleep: EndDevicePolling, SleepyDevice

`EndDevicePolling` is the polling half of the end-device-support plugin, over
`EndDeviceMove`: the tasks that make the device poll fast, the wake timeout that
ends two of them, the poll event and the counter of missed polls. Time is
counted in units; what the code sees of a span is the span modulo `TickModulus`
(`sinceTask`), and the counter is a number modulo `CounterModulus`.

`SleepyDevice` composes it with the main loop (`turn`: the stack's callbacks, the
tick in which time passes and a sleep may happen, the events), with the messages
the device waits for, and with the move. A sleep lasts until the next timer, and the
stack runs once more after it, before the events. `missed` and `age` are
history: how many polls were missed since this parent answered one, and how long
ago the last message that still waits for an answer was sent. `JoinControl` keeps the
coarser view, in which the limit may be reached at any time (`MissedPollLimit`);
every move that `SleepyDevice` starts is one of those. Left out: the poll control
that an application may set, which has no caller in the product, and the
transport of the messages.

### Long messages: FragmentReceiver, Fragmentation, MessageTransfer

`FragmentReceiver` is the receiving half of the fragmentation plugin: entries, a
window of fragments, the buffer, ageing, and the flag `rxWindowMoved` that all
entries share. A byte is a pair of its message and its position, so that a buffer
with a wrong, old or misplaced byte is told from the right one.

`Fragmentation` adds the sender, and, as an external part, the two stacks and the
air: a fragment is transmitted again until its acknowledgement arrives or the
stack gives up, copies may arrive late (`LateCopies`) or never. A
message stands for its APS sequence number and its sender. `arrived`, `broken`
and `forgotten` are history. The option
`FREE_OUTGOING_MESSAGE_PRIOR_TO_FINAL_ACK`, off by default, is left out.

`MessageTransfer` is the promise to the two applications: a sender that was taken
is told once what became of the message, a success only of one that arrived, and a
refused one never arrives. The refinement is the identity on `phase` and maps
`arrived` to the set of messages that were passed on.

### Reports: MessageSent, Reporting

`MessageSent` is the callback table of `af-main-common.c`. A tag is the buffer the
message was sent from, which is free again as soon as the stack has told, before
the callback is called. `Reporting` is the plugin: the table in tokens that a reset keeps, what was
reported last and when that it loses, the marks, the one tick. `SetDelay` is
the event of the framework with its three units (milliseconds, quarter seconds,
minutes), what it rounds and what it refuses. `Difference` is `emberAfGetDifference`:
values of more than 4 bytes, those not in `Small`, have no difference to any other,
and what was reported of them is not kept (`reporting.c:194`). `Remaining` is the time
left with its wrap. `told` is history: what was reported of each attribute and how long
ago. The loop may serve the tick up to `Late` units late. The
command that reads a configuration changes nothing and is left out; an entry
for reports to be received only takes its place in the table.

### What an action stands for

Every step of a specification is one whole handler with every call it makes.
`PROJECT.json` maps each definition to its lines. Some that a reader looks for:

| action or operator | code |
|---|---|
| `TellSensorIface` | `emberAfPluginSensorIfaceStackStatusCallback`, `sensor-iface.c:362` |
| `startSearchForJoinableNetwork` | `sensor-iface.c:302` |
| `RejoinEventHandler` | `sensor-iface.c:439` |
| `NetworkFindTickHandler` | `network-find.c:136`, with the network-found callback |
| `MissedPollLimit` | `polling-common.c:57`, at any time |
| `ButtonIsrClears`, `ButtonIsrReads` | `button.c:215`, `sensor-iface.c:200` |
| `CheckForSleep`, `PowerDown`, `WakeUp` | `idle-sleep-soc.c:65`, `:22` |
| `WriteCieAddress` | write and attribute-changed callback, `ias-zone-server.c:60` |
| `DeviceAnnounced` | `ias-zone-client.c:235` |
| `ReadZoneAttributesResponse` | `ias-zone-client.c:323` |
| `PollComplete` | `emberPollCompleteHandler` and the callbacks it makes, `polling-common.c` |
| `PollingNetworkEventHandler` | the poll event, `end-device-support.c` |
| `Tick` | a pass of the loop: poll schedule, sleep check, time |
| `TickEventHandler` | `emberAfPluginReportingTickEventHandler`, `reporting.c` |

## 3. Runs

| run | distinct states | what it shows |
|---|---|---|
| `join` | 226 552 | types; the library never waits for a scan that does not run (`ScanNeverWedged`) and has its buffer exactly while searching (`BufferHeld`); network-find never rests in a state that nothing ends (`FindNeverWedged`); an orphan has a way back (`OrphanRecovers`) and takes it (`OrphanRetries`); no move without a network (`MoveStopsOffNetwork`); a search ends (`SearchEnds`), attempts end (`SearchGivesUp`) |
| `join_keeps_enrolment` | violation | `NewNetworkNotEnrolled` |
| `contact` | 4 380 | a settled pipeline shows the contact (`QuietContactReported`); every report is one that `ContactSpec` allows (`ImplementsContactSpec`); a contact that comes to rest is reported for good (`RestingContactReported`) |
| `contact_gated` | 5 251 | with `BUTTON_GATE`: BUTTON0 silences the sensor (`GateHolds`), only a change is debounced (`DebouncesAChange`) |
| `contact_misses_move` | violation | `ContactReported` |
| `ias_faults` | 1 569 067 | one fault, one leave and one cleared table anywhere: `EnrolledIsKnown`, `NoDuplicateServers`; implements `EnrolmentSpec` (`ImplementsEnrolment`) |
| `ias_rejoins` | 522 576 | devices reset, leave, go down with their enrolment kept, rejoin, are written by another CIE, with one slot for two of them: `EnrolledHasZoneId`; a device that was given a CIE gets enrolled (`HandshakeUnderWay`, `EnrolmentCompletes`), unless its network went down before |
| `ias_mixes_status` | violation | `StatusOfRightServer` |
| `sleepy` | 304 662 | the counter of missed polls is about this parent (`CountsThisParent`), which, once it has answered, is left for the full number of them only (`LeavesForCause`); one that answers nothing any more is left (`SilentParentLeft`); a device that expects something does not sleep long (`SleepsShort`) and returns to its long polls (`ReturnsToLongPolls`) |
| `fragmentation` | 150 985 | over a link that repeats, delays and loses: entries of the sender are held exactly while a message is under way (`EntriesHold`), a message that is remembered is passed on once (`PassedOnce`) and, with the default window, whole (`PassedWhole`); implements `MessageTransfer` (`ImplementsTransfer`) |
| `reporting` | 1 081 508 | configurations that come, change and go, resets, a late main loop: one entry for an attribute (`OneEntry`), the tick comes in time for each (`TickCovers`), no change of a value of at most 4 bytes is lost in small steps (`NoCreep`), reports keep their distance (`MinIntervalKept`) |
| `reporting_sent` | 95 744 | reports, deliveries and retries through a small message-sent table: `CallbacksMatch`; every change is reported (`ChangesReported`) |

Seven more configurations are kept for a reader of section 4. TLC refutes the one
property of each, and each counterexample is a behaviour of the code:
`JoinSearchDies.cfg` and `JoinMoveEndless.cfg` (module `MCJoinControl`),
`DoorContactSleepsOnEvent.cfg` (`DoorContact`), `IasZoneMissesChange.cfg`
(`MCIasZone`), `FragmentationLosesLength.cfg` and `FragmentationLosesMessage.cfg`
(`MCFragmentation`) and `ReportingUnasked.cfg` (`MCReporting`).

### Bounds, and why they are enough

- `join`: 2 channels with 1 of them preferred, so that the first attempt and
  the later ones scan different masks, a scan has a next channel and a last
  one; 2 cached networks, so that one is left after a join fails; 2 rejoin
  attempts, so that an attempt can be first, middle and last; 3 join attempts
  in place of 40, for the same reason; 1 press of the button, at any point.
  `moves` stops counting one past the limit.
- `contact`: nothing is bounded, the state space is finite.
- `ias_faults`: 2 devices, 2 slots, 2 joins, 1 change, 1 leave, 1 fault, 1 clear.
  One fault at any place breaks an exchange at every step; two devices are
  what it takes to mix two exchanges up. The devices are symmetric; no liveness
  is checked under symmetry.
- `ias_rejoins`: 3 joins, 1 reset, 1 leave, 1 loss of the network that keeps the
  enrolment and 1 write of another CIE without faults, with one slot so that the
  table is full for the second device. The three ways off the network may each be
  the first, in the middle of an enrolment, or follow each other.
- `sleepy`: a short poll of 1 unit, a long one of 2, a wake timeout of 1 and a
  16-bit tick that wraps after 3, so that a span can be below, at and past each
  of them and wrap; 2 missed polls with a counter that wraps at 3, so that it can
  stand below the limit, at it and past it; 1 rejoin attempt, which can fail and
  start again; 2 messages, since one must not clear what the other waits for;
  a budget of 2 messages and unasked data.
- `fragmentation`: messages of 2 and of 3 fragments, the last one short, so that
  there is a first, a middle and a last fragment and a window that is not full;
  windows of 1 (the default) and of 2; 2 entries on each side, which is one for each
  message and none to spare for a third copy; an age that wraps at 3, past the
  point where an acknowledged entry is reused; 1 copy that comes late.
- `reporting`: an analog and a discrete attribute of two clusters and a discrete
  one that is too large to be compared, so that each can take the place of
  another in an entry; two entries,
  four configurations (periodic with a pause, on change only, a request to stop,
  intervals that make no sense), an event that counts a delay of 2 in its second unit and one of 3 in the
  third, which rounds it to 2,
  a loop that is up to 1 late; after `Horizon` nothing depends on how much more
  time went by. No messages: what a report does to its entry does not depend on
  its delivery.
- `reporting_sent`: one attribute reported to two bindings, 3 buffers and 2 slots,
  so that a report finds slots for all, for one or for none of its messages, and a
  buffer is used again while an older entry of the table could still name it.
- Deadlock is not checked: a device at rest with its budget spent, an idle
  sensor whose button was pressed as often as the bound allows, a link with
  nothing left to send, or a report table without entries may stop.

### Fairness, and what justifies it

- The main loop never stops: an armed event of it runs (weak fairness of each
  event handler), the plugins are told of a status (`Dispatch`).
- The stack ends every scan, join, rejoin and leave with a report, by its
  contract in `stack/include/network-formation.h`.
- An interrupt that is pending is served when it is not masked. The sleep masks
  it again and again, which needs strong fairness of `ButtonIsrClears`; the
  debounce time passes in a loop that also comes by without it, which needs
  strong fairness of `DebounceEventHandler`.
- `SleepyDevice` states part of its fairness as recurrence, `[]<><<P => A>>_vars`:
  infinitely often, A is taken or P does not hold. Weak fairness would ask that A
  be enabled all the time, which a handler of a loop with turns never is: what is
  pending all the time is served, time passes, some polls are not lost in the
  MAC while the node is joined, a delay of the move event runs out, a rejoin ends.
- `Reporting`: the main loop passes and the tick, once due, is served.
- Over the air, a message that is not lost arrives; losses are bounded by the
  budget. No fairness is assumed of users, contacts, parents or other nodes.

## 4. Where the code and its words differ

With a run that expects the violation:

1. `sensor-iface.c:379` (`join_keeps_enrolment`): network-find is told first and
   joins the next cached network at once, so that the device is no longer off the
   network when it should unenroll. (This takes a search that is not over while
   the node is on a network: network-find in WAIT.)
2. `sensor-iface.c:611` (`contact_misses_move`): a release and the press after
   it, served in one pass, are handled the other way round; the contact then rests
   in a state that is not the reported one, until its next move.
3. `ias-zone-client.c:250` (`ias_mixes_status`): an announcement in the middle of
   another device's exchange moves `currentIndex`, and attributes go to the wrong
   entry.

With a configuration that shows it:

4. `sensor-iface.c:457` (`JoinSearchDies.cfg`): a rejoin event that fires during a
   join disarms itself; when the join fails the search is over, although attempts
   are left and `:321` promises one every 5 seconds.
5. `end-device-move.c:47` (`JoinMoveEndless.cfg`): reaching the limit resets the
   counter; the MOVE_FAILED of the last attempt starts again from 0. The limit is none.
6. `idle-sleep-soc.c:73` (`DoorContactSleepsOnEvent.cfg`): an event of the
   interrupt between the sleep check and the ATOMIC block waits for the next timer, up
   to the 300 s of the long poll.
7. `ias-zone-server.c:124` (`IasZoneMissesChange.cfg`): a change between the
   reading of the status and the enrolment is never sent.
8. `fragmentation.c:470` (`FragmentationLosesLength.cfg`): with a window above 1,
   the last fragment may come before the first, which tells how many there are;
   it is not known for the last one then, its length is not stored, and the
   application is told a length that an older message left in the entry; if it is
   short, it also sets the length of the others, which are then refused. The
   default window is 1, where this cannot happen.
9. `fragmentation.c:430` (`FragmentationLosesMessage.cfg`): with a window of three
   or more, the sender may be told a success of a message that was never passed
   on. Fragments 2 and 1 come first and are acknowledged, the timer gives up the
   entry, and a new one gets fragment 0 and a repeat of 2, on which the reply
   for the window acknowledges the rest. With windows of 1 and 2 this is proved
   impossible (section 5).
10. `reporting.c:112` (`ReportingUnasked.cfg`): an entry with a maximum interval
   of 0, which asks for no periodic reports, is due whenever the tick comes for
   another entry.

Seen while modelling, without a configuration of their own; those that can bite
are in the list of hazards:

- `ias-zone-client.c`: a reset device is taken for known and not configured
  again (`:245`), nor is one whose network went down with its CIE address kept
  before it was enrolled: its one tick may be spent off the network, and it stays
  unenrolled (`HandshakeUnderWay` fails for it without the exception of
  `interrupted`); the timeout of the exchange is never scheduled (`:149`);
  `removeServer` gets the wrong address and erases behind the table (`:377`).
- `ias-zone-server.c:67`: the client endpoint is taken to be the server's own.
- `form-and-join.c:487` and `DoorSensor_SM6011.h:192`: the product disables the
  tick that frees the buffer of a search after 30 s.
- `sensor-iface.c`: a release and a press of BUTTON0 served in one pass are
  handled pressed first, so that the state is idle while the button is held; the
  next release is then measured from the older press, may read as long and clear
  the counter, and the timeout that is still armed asserts that it is above 0
  (`:109`). Presses are measured in 16-bit ticks (`:146`) and counted in 8 bits.
- `fragmentation.c`: the base of the window wraps as a byte (`:331`); the event
  table of `fragmentation.h:34` omits an index; the sequence number of a
  new entry is not set and its type is 0xFF (`:113`, `:186`); an entry that was
  acknowledged is the first to be reused (`:496`), after which a late copy of its
  message starts a new one.
- `af-main-common.c`: a message that is sent in fragments keeps no callback
  (`:239`); `:568` clears the task of a ZDO response for clusters above the first
  response, so that the answer with the network address, which is the first, does not.
- `reporting.c`: removing an entry leaves its mark for the next user of the
  index (`:590`); the mark is cleared before the report is sent (`:189`); an entry
  whose maximum interval is over when the tick is scheduled for another reason
  gets a delay that wraps (`:570`): 1 ms over, it stands for nothing to do, and more
  over it is one that the event refuses; a marked entry of a disabled
  endpoint, which the tick skips (`:126`), would set the tick to now for ever; an
  endpoint is disabled by a console command only, so that this is left out. Values are
  compared as unsigned numbers (`util.c:189`), signed ones too; those of more than 4
  bytes, such as the CIE address, are never seen to change (`:194`) and are reported
  by the maximum interval only, or, if analog with a reportable change of 0, at every write.

## 5. Proofs

The theorems are of the form `Spec => []P`, `Spec => [][A]_vars`, or, for the three
refinements, `Spec => AbstractSpec` (`IasZone`'s
`Spec` includes its fairness, which safety does not need), some under a premise that
is named below, for every value of the constants that
the modules' assumptions allow. These assumptions are as weak as the code
has them: counters fit their int8u, the channel mask is a non-empty set of
channels, a table has 1 to 254 entries, endpoints are 1 to 240.

**JoinControlProofs** proves `TypeOK`, which needs nothing else: it bounds the
buffer by `MaxNetworks` and shows that no int8u wraps.

**JoinSafetyProofs** proves `BufferHeld`, `ScanNeverWedged`, `FindNeverWedged`,
`MoveStopsOffNetwork`, `LedHonest` and `OrphanRecovers`. Each speaks of the
state between handlers, while a status is being told in three steps, so each
is strengthened by what holds in the middle of it (`FindInv`, `LedInv`,
`MoveInv`, `OrphanInv`: the plugin that will restore it is still to be told), and by
`RejoinInv` (a rejoin runs on a joined or orphaned node only), `StatusInv`
(NETWORK_UP is told on a joined node) and `AttemptsInv` (the counter of moves is
below the limit whenever the event is armed or not: otherwise an orphan's move
would not be scheduled). `JoinInv` is their conjunction. `OrphanCorrect` assumes
`MaxRejoinAttempts > 0`, without which it is wrong.

Two action properties carry the argument behind `SearchEnds` and `SearchGivesUp`,
which themselves need fairness. `SearchAdvances`: while network-find has a search
under way, form-and-join is not started anew, and each of its steps leaves
fewer channels to scan, or, on the same channel, ends the scan, remembers one more
network (of at most `MaxNetworks`) or takes one of those. `AttemptsSpent`: every
search that begins spends an attempt, and only a press of the button or
a NETWORK_UP gives attempts back.

**DoorContactProofs** proves `TypeOK`, `DebouncesAChange`, `LastStatusReported`,
`GateHolds` and `QuietContactReported`, with and without the gate as the property
has it. `DebouncesAChange` is inductive only together with the next two, since
idling the sensor changes the last status. `QuietContactReported` relates the pin
to the zone status through every stage of the pipeline: its invariant says which
stage holds the truth while the pipeline is busy. `ContactRefinement` proves that
every step, with the gate or without, is a step of `ContactSpec` or leaves it alone.

**IasZoneProofs** proves `TypeOK`, `IndexInTable`, `NoDuplicateServers`,
`EnrolledHasZoneId` and `EnrolledIsKnown`, for any number of devices, slots and
events. `TypeOK` and `IndexInTable` need each other: an attribute response writes
into the entry of `currentIndex`, and a message carries the endpoint of that
entry. `EnrolledIsKnown` needs `ResponsesGranted`: an enroll response in the air
that permits is for a device in the table, and no response enrolls without an
ID; and that entries never change their device, which is why a cleared table is
its premise. `EnrolmentCorrect` is the refinement of `EnrolmentSpec`, one lemma for
the steps of a device, of a device that receives and of the client that receives.
It needs `ResponsesGranted` again, for no two permissions of one device to be in the
air, and a count of the table: a device is added to a free entry only, so that there is
room. Off the network a device may well be enrolled, since `sensor-iface.c:379` may
leave it so. `EnrolledIsJoined` says that this is the only way: until a network has
gone down without unenrolling (`NoDrop`), no device is enrolled off the network,
whatever response comes late. It is inductive, since a response is handled on
the network only (`GetsEnrolled`) and every other way off it unenrolls.

**IasHandshakeProofs** proves `HandshakeUnderWay`: a configured device is
enrolled, or its timer or a message in the air will go on with its enrolment, or its
network went down before it was enrolled (`interrupted`).
The premise `ServerEndpoint = ClientEndpoint` is what the code of the server takes for
granted. `HandshakeInv` holds as long as nothing failed and no table was
cleared (`Pristine`, which the property has as its premise): a message of the exchange
in the air is for a device with an entry, and one that was written has its next
step pending. `BudgetInv` says that the budget never grows, so that a state that
is pristine had only pristine ones before it.

**SleepyDeviceProofs** proves `TypeOK`, `CountsThisParent`, `LeavesForCause` and
`SleepsShort`. `RejoinInv` ties the history of a parent to the rejoin that starts
a new one. `SpanInv` is what `SleepsShort` needs: what the code knows of the last
message (a task, and a time of 16 bits) is never behind the true time since it
was sent, which is where the sizes of the tick, the wake timeout and the short poll
interval enter.

The safety behind `ReturnsToLongPolls` and `SilentParentLeft` is proved too.
`AckOutstanding`: the task that no timeout ends is there only while a delivery
report is outstanding. `WakeTimeExact`: the 16-bit time of the wake timeout does not
wrap while the device is on a network and has a task of that timeout, which is ended at most a
short poll late. `OrphanMoves` and `LimitMoves`, under the premise
`MaxRejoinAttempts > 0`: a device without a parent that does not rejoin has a move
armed, by the polling half alone, and every missed poll from the limit on leaves
one armed; their `AttemptsInv` says that the counter of attempts never stands at a
limit that would refuse the move.

**FragmentationProofs** goes as far as each window allows.

- Every window: `TypeOK`; `EntriesHold`, by `SendInv` (nothing of a message is in
  the air before it is sent); `PassedOnce` and `OneEntry`, by `OnceInv`: an
  acknowledged entry is kept for every message that was passed on and is not
  forgotten. What `OnceInv` needs of an entry is its `Shape`: until the first
  fragment has come, the count of fragments is unknown and nothing is complete.
- Windows of one and two fragments: every step is one of `MessageTransfer` or
  leaves it alone (`ImplementsTransfer`). `TransferInv` relates the two ends: the
  sender hears of the first fragment of the last window only if the message was
  passed on (`AtWindow`), a refused message has left its first fragment at most
  (`NothingUnsent`, `NothingOpened`), and an entry knows how many fragments it has
  (`Tally`), so that the reply for the last window comes from an entry that has
  them all. With a window of three a fragment is counted by an entry that is
  given up and acknowledged again by its successor; the refinement is wrong there
  (section 4).
- The default window of one: `PassedWhole`, by `RxInv`: an entry has all bytes up
  to its base, in place. With larger windows it is wrong as well.

**ReportingProofs** proves `TypeOK`, `OneEntry`, `TickCovers`, `NoCreep`,
`MinIntervalKept` and `CallbacksMatch`. `TickCovers` rests on `ScheduleCovers`: the
minimum over all entries, after the rounding and the refusals of the event, is
never past what an entry needs. `ReportInv` ties the last value and time the code keeps of an
entry to what was really reported of its attribute, over resets, removals and
entries that move; the next two follow from it, `NoCreep` for values of at most 4 bytes,
which are all that the code compares. `RetriesOnce` follows from
`CallbacksMatch`: a message whose callback is gone, such as the second try of a report,
is not sent again whatever becomes of it.

Proved and in no run: `LedHonest`, `SearchAdvances`, `AttemptsSpent`,
`LastStatusReported`, `IndexInTable`, `EnrolledIsJoined`,
`AckOutstanding`, `WakeTimeExact`, `OrphanMoves`, `LimitMoves`, `RetriesOnce` and
`OneEntry` of `Fragmentation`. TLC agreed with each on the instances of the runs
before it was proved.

Only model-checked: everything under fairness (`SearchEnds`, `SearchGivesUp`,
`OrphanRetries`, `RestingContactReported`, `EnrolmentCompletes`,
`ReturnsToLongPolls`, `SilentParentLeft`, `ChangesReported`), since the prover
handles neither ENABLED nor liveness under fairness. Every other property of a
passing run is proved. Induction over data and recursive definitions are beyond
the prover too; no module has any.

## 6. Not modelled, and the plan

Not modelled: parsing and generated dispatch (data formats), serial and CLI
(console), HAL and bootloader (hardware access), battery monitor (a filter over 16
samples), identify (a countdown), forming of networks, multi-network (the product has
one), and the plugins of the SDK that are not in the product, except the zone client and
fragmentation.

Most lines of the repository are of these kinds: generated callback stubs and command
macros, register maps of six processors, the HAL, other applications' plugins and
the console. The modules translate the plugins that decide what the product
does, which is a small part of them.

Planned, in this order:

1. `Button0`: press states, timers in 16-bit time, the press counter in 8 bits
   and its assertion, short and long presses feeding `JoinControl`, where they
   come at any time today.
2. `AlarmPath`: `DoorContact` and one device of `IasZoneServer` by INSTANCE, the
   reports of the one being the changes of the other: what the CIE is told is
   what the contact did.
3. `SleepControl`: event contexts with their poll and sleep controls and the
   stay-awake switch of BUTTON0, which `DoorContact` has as a free choice.
