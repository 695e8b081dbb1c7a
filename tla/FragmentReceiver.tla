-------------------------- MODULE FragmentReceiver --------------------------
(***************************************************************************)
(* The receiving half of the fragmentation plugin: a few packet entries,   *)
(* each with a window of fragments, that are reassembled in the entry's    *)
(* buffer.  A message stands for its APS sequence number and its sender,   *)
(* and its bytes are the pairs of the message and a position.              *)
(***************************************************************************)
EXTENDS Integers, FiniteSets

CONSTANTS
  Messages,      \* long messages, each sent at most once
  Length,        \* bytes of each message; longer ones are refused at once
  FragmentLen,   \* what fits in a frame
  BufferSize,    \* EMBER_AF_PLUGIN_FRAGMENTATION_BUFFER_SIZE
  MaxIncoming,   \* ..._MAX_INCOMING_PACKETS
  WindowSizes,   \* values of ..._RX_WINDOW_SIZE
  AgeModulus,    \* 2^8, the width of ackedPacketAge
  Nobody         \* of an entry, or a byte, that was never used

ASSUME ReceiverAssumption ==
  /\ FragmentLen \in Nat \ {0}
  /\ BufferSize \in Nat
  /\ Length \in [Messages -> 1 .. BufferSize]
  /\ \A m \in Messages : Length[m] <= 255 * FragmentLen
  /\ MaxIncoming \in Nat \ {0}
  /\ AgeModulus \in Nat \ {0}
  /\ WindowSizes \subseteq 1 .. 8
  /\ Nobody \notin Messages

VARIABLES
  window,         \* emberFragmentWindowSize
  rxPackets,      \* the entries
  rxWindowMoved   \* the static flag that all entries share

Entries == 0 .. MaxIncoming - 1

\* EmberApsFrame.groupId of a fragment tells its number, and the count of
\* fragments of its message.
Count(m) == (Length[m] + FragmentLen - 1) \div FragmentLen
Fragments(m) == 0 .. Count(m) - 1
LenOf(m, i) ==
  IF i = Count(m) - 1 THEN Length[m] - i * FragmentLen ELSE FragmentLen

Junk == <<Nobody, 0>>

\* fragmentsExpected before the first fragment has come.
Unknown == 255

\* fragmentMask is a byte.
Masks == SUBSET (0 .. 7)
Statuses == {"AVAILABLE", "ACKED", "IN_USE"}
Ages == 0 .. AgeModulus - 1
Buffers == [0 .. BufferSize - 1 -> (Messages \union {Nobody}) \X Nat]

EntryType ==
  [status : Statuses, age : Ages, msg : Messages \union {Nobody}, base : Nat,
   finger : Nat, expected : Nat, received : Nat, mask : Masks, lastLen : Nat,
   len : Nat, buffer : Buffers]

EmptyEntry ==
  [status |-> "AVAILABLE", age |-> 0, msg |-> Nobody, base |-> 0, finger |-> 0,
   expected |-> 0, received |-> 0, mask |-> {}, lastLen |-> 0, len |-> 0,
   buffer |-> [k \in 0 .. BufferSize - 1 |-> Junk]]

RxInit ==
  /\ window \in WindowSizes
  /\ rxPackets = [r \in Entries |-> EmptyEntry]
  /\ rxWindowMoved = FALSE

-----------------------------------------------------------------------------
(* Finding an entry *)

Available == {r \in Entries : rxPackets[r].status = "AVAILABLE"}
Acked == {r \in Entries : rxPackets[r].status = "ACKED"}

\* Mutant of rxPacketLookUp: entries kept for duplicates are not looked at.
LooksUpInUse(m) ==
  {r \in Entries \ (Available \union Acked) : rxPackets[r].msg = m}

rxPacketLookUp(m) ==
  {r \in Entries \ Available : rxPackets[r].msg = m}

\* Available entries first, then the oldest of those that are kept to
\* recognise duplicates.
getFreeRxPacketEntry ==
  IF Available # {} THEN Available
  ELSE {r \in Acked : \A q \in Acked : rxPackets[q].age <= rxPackets[r].age}

First(rs) == CHOOSE r \in rs : \A q \in rs : r <= q

-----------------------------------------------------------------------------
(* The window of an entry *)

AllBits == 0 .. window - 1

\* setFragmentMask: unused bits are 1.
Mask(base, expected) ==
  (IF expected < base + window THEN expected % window ELSE window) .. window - 1

NewEntry(e, m, len) ==
  [EmptyEntry EXCEPT !.status = "IN_USE", !.msg = m, !.expected = Unknown,
                     !.mask = Mask(0, Unknown), !.len = len,
                     !.lastLen = e.lastLen]

WindowMoves(e, i) == e.mask = AllBits /\ e.base + window <= i

\* Mutant of moveRxWindow: the next fragments overwrite the first ones.
FingerStays(e) ==
  [e EXCEPT !.base = @ + window, !.mask = Mask(e.base + window, e.expected)]

moveRxWindow(e) ==
  [e EXCEPT !.base = @ + window, !.finger = @ + window * e.len,
            !.mask = Mask(e.base + window, e.expected)]

InWindow(e, i) == i \in e.base .. e.base + window - 1

-----------------------------------------------------------------------------
(* emAfFragmentationIncomingMessage, for fragment i of message m and the     *)
(* entry e that was found or opened for it                                   *)

\* storeRxFragment
storeRxFragment(e, m, i) ==
  LET index == e.finger + (i - e.base) * e.len
      part  == index .. index + LenOf(m, i) - 1
  IN [e EXCEPT !.buffer = [k \in DOMAIN @ |->
                             IF k \in part THEN <<m, i * FragmentLen + k - index>>
                             ELSE @[k]],
               !.lastLen = IF i = e.expected - 1 THEN LenOf(m, i) ELSE @]

Bit(i) == i % window

\* The first fragment tells how many there are.
Counted(e, m, i) ==
  IF i = 0
  THEN [e EXCEPT !.expected = Count(m),
                 !.mask = IF Count(m) < window THEN Mask(e.base, Count(m)) ELSE @]
  ELSE e

\* The entry with the fragment noted, and stored if it is new.
Noted(e, m, i) ==
  LET c == Counted(e, m, i)
      n == [c EXCEPT !.mask = @ \union {Bit(i)}]
  IN IF Bit(i) \in e.mask THEN n
     ELSE storeRxFragment([n EXCEPT !.received = @ + 1], m, i)

FitsBuffer(e, m, i) ==
  Bit(i) \in e.mask \/ e.finger + LenOf(m, i) <= BufferSize

\* A reply is sent for the last fragment of the window or of the message.
Replies(e, i) ==
  \/ i = e.expected - 1
  \/ e.mask \union 0 .. Bit(i) - 1 = AllBits

\* The fragments of its window that a reply acknowledges.
Acknowledged(e) == {i \in e.base .. e.base + window - 1 : Bit(i) \in e.mask}

Complete(e) == e.received = e.expected

\* The size that the application is told.
TotalLen(e) ==
  LET n == IF e.expected % window = 0 THEN window ELSE e.expected % window
  IN e.finger + e.lastLen + (n - 1) * e.len

Whole(e, m) ==
  /\ TotalLen(e) = Length[m]
  /\ \A k \in 0 .. Length[m] - 1 : e.buffer[k] = <<m, k>>

\* All of the fragments but the last have the length of the first one.
LengthFits(e, m, i) == i < e.expected - 1 => e.len = LenOf(m, i)

\* A free entry keeps its lastfragmentLen; the rest is set anew before it is
\* read, but for the bytes of the buffer, which are junk to the next packet.
Aborted(e) == [EmptyEntry EXCEPT !.lastLen = e.lastLen]

Kept(e) == [e EXCEPT !.status = "ACKED", !.age = 0]

\* ageAllAckedRxPackets, and its mutant: the age does not wrap.
OlderForEver ==
  [r \in Entries |->
     IF r \in Acked THEN [rxPackets[r] EXCEPT !.age = @ + 1] ELSE rxPackets[r]]

Older ==
  [r \in Entries |->
     IF r \in Acked THEN [rxPackets[r] EXCEPT !.age = (@ + 1) % AgeModulus]
     ELSE rxPackets[r]]
=============================================================================
