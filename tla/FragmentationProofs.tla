------------------------ MODULE FragmentationProofs ------------------------
(***************************************************************************)
(* Theorems about Fragmentation, for any messages, lengths and numbers of  *)
(* entries.                                                                *)
(*                                                                         *)
(* With every window: the types, EntriesHold by SendInv, and that no       *)
(* message is passed on twice, by OnceInv; what OnceInv needs of an entry  *)
(* is its Shape.                                                           *)
(*                                                                         *)
(* With a window of one or two fragments: the refinement of                *)
(* MessageTransfer, by TransferInv.  An entry of the receiver then knows   *)
(* how many fragments it has (Tally), so that the reply for the last       *)
(* window comes from an entry that has them all.  With a window of three   *)
(* this is false, and so is the refinement.                                *)
(*                                                                         *)
(* With the default window of one fragment: that a message is passed on    *)
(* whole, by RxInv; an entry of the receiver has all bytes up to its base. *)
(***************************************************************************)
EXTENDS Fragmentation, FiniteSetTheorems, WellFoundedInduction, TLAPS

\* Division, as far as Count needs it.
LEMMA Division ==
  ASSUME NEW a \in Nat, NEW b \in Nat \ {0}, b <= a, a < 256 * b
  PROVE  a \div b \in 1 .. 255
<1>1. a \div b \in Nat /\ a \div b >= 1 /\ a \div b < 256
  OBVIOUS
<1> QED
  BY <1>1

\* A message that is sent has 1 to 255 fragments.
LEMMA CountType ==
  ASSUME NEW m \in Messages
  PROVE  Count(m) \in 1 .. 255
<1> DEFINE a == Length[m] + FragmentLen - 1
<1>1. a \in Nat /\ FragmentLen <= a /\ a < 256 * FragmentLen
             /\ FragmentLen \in Nat \ {0}
  BY ReceiverAssumption
<1> HIDE DEF a
<1>2. a \div FragmentLen \in 1 .. 255
  BY <1>1, Division
<1> QED
  BY <1>2 DEF Count, a

\* The length of a fragment.
LEMMA LenOfType ==
  ASSUME NEW m \in Messages, NEW i \in Fragments(m)
  PROVE  LenOf(m, i) \in Nat
<1>1. CASE i # Count(m) - 1
  BY <1>1, ReceiverAssumption DEF LenOf
<1>2. CASE i = Count(m) - 1
  <2> DEFINE a == Length[m] + FragmentLen - 1
  <2>1. a \in Nat /\ FragmentLen \in Nat \ {0} /\ Length[m] \in Nat
    BY ReceiverAssumption
  <2> HIDE DEF a
  <2>2. (a \div FragmentLen) * FragmentLen <= a
    BY <2>1
  <2> DEFINE q == a \div FragmentLen
  <2>3. q \in Nat /\ q = Count(m) /\ a = Length[m] + FragmentLen - 1
    BY <2>1, CountType DEF Count, a
  <2> HIDE DEF q
  <2>4. (q - 1) * FragmentLen = q * FragmentLen - FragmentLen
    BY <2>1, <2>3
  <2>5. q * FragmentLen \in Nat /\ q * FragmentLen <= a
    BY <2>1, <2>2, <2>3 DEF q
  <2>6. LenOf(m, i) = Length[m] - (q - 1) * FragmentLen
    BY <1>2, <2>3 DEF LenOf
  <2> QED
    BY <2>1, <2>3, <2>4, <2>5, <2>6
<1> QED
  BY <1>1, <1>2

-----------------------------------------------------------------------------
(* Types of the receiver *)

\* The window is known and its bits are those of a byte.
LEMMA MaskType ==
  ASSUME window \in WindowSizes, NEW b \in Nat, NEW x \in Nat
  PROVE  /\ Mask(b, x) \in Masks
         /\ \A i \in Nat : Bit(i) \in 0 .. 7
<1>1. window \in 1 .. 8
  BY ReceiverAssumption
<1>2. \A i \in Nat : i % window \in 0 .. window - 1
  BY <1>1
<1> DEFINE r == x % window
<1>3. r \in Nat
  BY <1>2
<1> HIDE DEF r
<1>4. r .. window - 1 \in SUBSET (0 .. 7) /\ window .. window - 1 \in SUBSET (0 .. 7)
  BY <1>1, <1>3
<1> QED
  BY <1>1, <1>2, <1>4 DEF Mask, Bit, Masks, r

\* The entries that no packet has used, or that one has given back.
LEMMA EmptyType ==
  /\ EmptyEntry \in EntryType
  /\ \A e \in EntryType : Aborted(e) \in EntryType
<1>1. /\ 0 \in Ages /\ {} \in Masks /\ "AVAILABLE" \in Statuses
      /\ [k \in 0 .. BufferSize - 1 |-> Junk] \in Buffers
  BY ReceiverAssumption DEF Ages, Masks, Statuses, Buffers, Junk
<1>2. EmptyEntry \in EntryType
  BY <1>1 DEF EmptyEntry, EntryType
<1> QED
  BY <1>2 DEF Aborted, EntryType

\* A new entry, and one whose window moves.
LEMMA WindowTypes ==
  ASSUME window \in WindowSizes, NEW e \in EntryType
  PROVE  /\ \A m \in Messages, n \in Nat : NewEntry(e, m, n) \in EntryType
         /\ moveRxWindow(e) \in EntryType
<1>1. /\ \A b \in Nat, x \in Nat : Mask(b, x) \in Masks
      /\ "IN_USE" \in Statuses
      /\ window \in Nat
  BY MaskType, ReceiverAssumption DEF Statuses
<1>2. ASSUME NEW m \in Messages, NEW n \in Nat
      PROVE  NewEntry(e, m, n) \in EntryType
  <2> DEFINE x == [EmptyEntry EXCEPT !.status = "IN_USE", !.msg = m,
                                     !.expected = Unknown]
             first == Mask(0, Unknown)
  <2> DEFINE y == EmptyEntry
  <2>1. x \in EntryType
    <3>1. y \in EntryType /\ 255 \in Nat /\ m \in Messages \union {Nobody}
      BY EmptyType
    <3>2. x = [[[y EXCEPT !.status = "IN_USE"] EXCEPT !.msg = m]
                 EXCEPT !.expected = 255]
      BY DEF Unknown
    <3> HIDE DEF y, x
    <3>3. [y EXCEPT !.status = "IN_USE"] \in EntryType
      BY <1>1, <3>1 DEF EntryType
    <3> DEFINE z == [y EXCEPT !.status = "IN_USE"]
    <3> HIDE DEF z
    <3>4. [z EXCEPT !.msg = m] \in EntryType
      BY <3>1, <3>3 DEF EntryType, z
    <3> DEFINE w == [z EXCEPT !.msg = m]
    <3>5. w \in EntryType /\ x = [w EXCEPT !.expected = 255]
      BY <3>2, <3>4 DEF z
    <3> HIDE DEF w
    <3> QED
      BY <3>1, <3>5 DEF EntryType
  <2>2. NewEntry(e, m, n)
          = [x EXCEPT !.mask = first, !.len = n, !.lastLen = e.lastLen]
    BY DEF NewEntry
  <2>3. first \in Masks /\ e.lastLen \in Nat
    BY <1>1 DEF Unknown, EntryType
  <2> HIDE DEF x, first
  <2> QED
    BY <2>1, <2>2, <2>3 DEF EntryType
<1>3. /\ e.base + window \in Nat
      /\ e.finger + window * e.len \in Nat
      /\ Mask(e.base + window, e.expected) \in Masks
  BY <1>1 DEF EntryType
<1> QED
  BY <1>2, <1>3 DEF moveRxWindow, EntryType

\* An entry that has noted a fragment.
LEMMA NotedType ==
  ASSUME window \in WindowSizes, NEW e \in EntryType, NEW m \in Messages,
         NEW i \in Fragments(m)
  PROVE  Noted(e, m, i) \in EntryType
<1> DEFINE c == Counted(e, m, i)
           n == [c EXCEPT !.mask = @ \union {Bit(i)}]
<1>1. i \in Nat /\ Count(m) \in Nat
  BY CountType DEF Fragments
<1>2. c \in EntryType
  <2> DEFINE mask == IF Count(m) < window THEN Mask(e.base, Count(m)) ELSE e.mask
  <2>1. mask \in Masks
    BY <1>1, MaskType DEF EntryType
  <2>2. c = IF i = 0 THEN [e EXCEPT !.expected = Count(m), !.mask = mask] ELSE e
    BY DEF Counted, EntryType
  <2> HIDE DEF mask
  <2> QED
    BY <1>1, <2>1, <2>2 DEF EntryType
<1> HIDE DEF c
<1>3. n \in EntryType
  <2>1. c.mask \union {Bit(i)} \in Masks
    BY <1>1, <1>2, MaskType DEF EntryType, Masks
  <2> QED
    BY <1>2, <2>1 DEF EntryType
<1> HIDE DEF n
<1>4. [n EXCEPT !.received = @ + 1] \in EntryType
  BY <1>3 DEF EntryType
<1>5. ASSUME NEW x \in EntryType
      PROVE  storeRxFragment(x, m, i) \in EntryType
  <2> DEFINE index == x.finger + (i - x.base) * x.len
             stored == [k \in DOMAIN x.buffer |->
                          IF k \in index .. index + LenOf(m, i) - 1
                          THEN <<m, i * FragmentLen + k - index>>
                          ELSE x.buffer[k]]
  <2>1. index \in Int /\ x.buffer \in Buffers /\ LenOf(m, i) \in Nat
    BY <1>1, LenOfType DEF EntryType
  <2> HIDE DEF index
  <2>2. stored \in Buffers
    <3> DEFINE start == i * FragmentLen
    <3>1. start \in Nat
      BY <1>1, ReceiverAssumption
    <3> HIDE DEF start
    <3>2. \A k \in index .. index + LenOf(m, i) - 1 : start + k - index \in Nat
      BY <2>1, <3>1
    <3>3. stored = [k \in 0 .. BufferSize - 1 |->
                      IF k \in index .. index + LenOf(m, i) - 1
                      THEN <<m, start + k - index>> ELSE x.buffer[k]]
      BY <2>1 DEF Buffers, start
    <3> HIDE DEF stored
    <3> QED
      BY <2>1, <3>2, <3>3 DEF Buffers
  <2>3. (IF i = x.expected - 1 THEN LenOf(m, i) ELSE x.lastLen) \in Nat
    BY <2>1 DEF EntryType
  <2>4. storeRxFragment(x, m, i)
          = [x EXCEPT !.buffer = stored,
                      !.lastLen = IF i = x.expected - 1 THEN LenOf(m, i)
                                  ELSE x.lastLen]
    BY DEF storeRxFragment, EntryType, index
  <2> HIDE DEF stored
  <2> QED
    BY <2>2, <2>3, <2>4 DEF EntryType
<1> QED
  BY <1>3, <1>4, <1>5 DEF Noted, c, n
-----------------------------------------------------------------------------
(* TypeOK is inductive *)

LEMMA TypeInit ==
  Init => TypeOK
<1> SUFFICES ASSUME Init PROVE TypeOK
  OBVIOUS
<1>1. /\ window \in WindowSizes
      /\ rxPackets \in [Entries -> EntryType]
      /\ rxWindowMoved \in BOOLEAN
  BY EmptyType DEF Init, RxInit
<1>2. /\ phase \in [Messages -> Transfer!Phases]
      /\ arrived \in [Messages -> 0 .. 2]
  BY DEF Init, Transfer!Phases
<1>3. InUse = {}
  BY DEF Init, InUse
<1> QED
  BY <1>1, <1>2, <1>3 DEF Init, TypeOK

\* The frames of a message are finitely many, and so are those of a window;
\* as many as the window has frames take all of them.
LEMMA FramesFinite ==
  ASSUME NEW m \in Messages
  PROVE  IsFiniteSet({m} \X Fragments(m))
<1>1. 0 \in Int /\ Count(m) - 1 \in Int
  BY CountType
<1>3. IsFiniteSet(Fragments(m))
  BY <1>1, FS_Interval, Zenon DEF Fragments
<1>2. IsFiniteSet({m})
  BY FS_Singleton
<1> QED
  BY <1>2, <1>3, FS_Product

LEMMA WindowFinite ==
  ASSUME window \in WindowSizes, NEW m \in Messages, NEW b \in Nat
  PROVE  /\ IsFiniteSet(WindowFrames(m, b))
         /\ Cardinality(WindowFrames(m, b)) \in Nat
         /\ WindowFrames(m, b) # {} =>
              /\ Cardinality(WindowFrames(m, b)) # 0
              /\ \A f \in WindowFrames(m, b) :
                   f[2] < b + Cardinality(WindowFrames(m, b))
<1> DEFINE all == WindowFrames(m, b)
<1>1. IsFiniteSet(all) /\ Cardinality(all) \in Nat
  BY FramesFinite, FS_Subset, FS_CardinalityType DEF WindowFrames
<1>2. SUFFICES ASSUME all # {}
               PROVE  /\ Cardinality(all) # 0
                      /\ \A f \in all : f[2] < b + Cardinality(all)
  BY <1>1
<1>3. window \in 1 .. 8 /\ Count(m) \in 1 .. 255
  BY CountType, ReceiverAssumption
<1> DEFINE hi == IF b + window < Count(m) THEN b + window - 1 ELSE Count(m) - 1
<1>4. /\ hi \in Int /\ hi <= b + window - 1 /\ hi <= Count(m) - 1
      /\ hi = b + window - 1 \/ hi = Count(m) - 1
  BY <1>3
<1> HIDE DEF hi
<1>5. \A i \in Int : i \in Fragments(m) /\ i \in b .. b + window - 1 <=> i \in b .. hi
  BY <1>3, <1>4 DEF Fragments
<1>6. \A f \in all : f[1] = m /\ f[2] \in Fragments(m) /\ f[2] \in b .. b + window - 1
  BY DEF WindowFrames
<1>7. all = {m} \X (b .. hi)
  <2>1. ASSUME NEW i \in b .. hi
        PROVE  <<m, i>> \in all
    BY <1>5 DEF WindowFrames
  <2>2. ASSUME NEW f \in all
        PROVE  f \in {m} \X (b .. hi)
    BY <1>5, <1>6 DEF WindowFrames, Fragments
  <2> QED
    BY <2>1, <2>2
<1>8. b <= hi
  BY <1>2, <1>4, <1>7
<1>9. IsFiniteSet({m}) /\ Cardinality({m}) = 1
  BY FS_Singleton, Zenon
<1>10. Cardinality(all) = hi - b + 1
  <2> DEFINE S == b .. hi
  <2>1. b \in Int /\ hi \in Int
    BY <1>4
  <2>2. /\ IsFiniteSet(S)
        /\ Cardinality(S) = IF b > hi THEN 0 ELSE hi - b + 1
    BY <2>1, FS_Interval, Zenon
  <2> HIDE DEF S
  <2>3. Cardinality({m} \X S) = Cardinality({m}) * Cardinality(S)
    BY <1>9, <2>2, FS_Product, Zenon
  <2>4. Cardinality(all) = 1 * Cardinality(S)
    BY <1>7, <1>9, <2>3 DEF S
  <2>5. Cardinality(S) = hi - b + 1
    BY <1>4, <1>8, <2>2
  <2> QED
    BY <1>4, <2>4, <2>5
<1>11. \A f \in all : f[2] \in b .. hi
  BY <1>7
<1> HIDE DEF all
<1> QED
  BY <1>4, <1>8, <1>10, <1>11

\* The sender's part of TypeOK, when fragments are sent.
LEMMA SendTypes ==
  ASSUME TypeOK, NEW m \in Messages, NEW b \in Nat, NEW n \in Nat,
         NEW rest \in SUBSET transit, NEW error \in Transfer!Phases,
         sendNextFragments(m, b, n, rest, error)
  PROVE  /\ phase' \in [Messages -> Transfer!Phases]
         /\ DOMAIN txPackets' \subseteq Messages
         /\ \A x \in DOMAIN txPackets' : txPackets'[x] \in [base : Nat, inTransit : Nat \ {0}]
         /\ transit' \subseteq Frames /\ rest \subseteq transit'
<1>1. WindowFrames(m, b) \subseteq Frames
  BY DEF WindowFrames, Frames
<1>2. transit' \subseteq Frames /\ rest \subseteq transit'
  BY <1>1 DEF sendNextFragments, TypeOK
<1>3. "success" \in Transfer!Phases /\ "sending" \in Transfer!Phases
  BY DEF Transfer!Phases
<1>4. phase' \in [Messages -> Transfer!Phases]
  BY <1>3 DEF sendNextFragments, TypeOK
<1>5. \/ txPackets' = WithoutEntry(m)
      \/ txPackets' = Entry(m, b, n) /\ n # 0
  BY WindowFinite DEF sendNextFragments, TypeOK
<1>6. /\ DOMAIN txPackets' \subseteq Messages
      /\ \A x \in DOMAIN txPackets' : txPackets'[x] \in [base : Nat, inTransit : Nat \ {0}]
  BY <1>5 DEF Entry, WithoutEntry, TypeOK
<1> QED
  BY <1>2, <1>4, <1>6

\* The entry that a search finds first is one of those it looks for.
LEMMA FirstFound ==
  ASSUME NEW rs \in SUBSET Nat, rs # {}
  PROVE  First(rs) \in rs
<1> DEFINE R == OpToRel(<, Nat)
<1>1. \A x, y \in Nat : x < y => <<x, y>> \in R
  BY DEF OpToRel
<1>2. IsWellFoundedOn(R, Nat)
  BY NatLessThanWellFounded
<1> HIDE DEF R
<1>3. \E x \in rs : \A y \in rs : ~(<<y, x>> \in R)
  BY <1>2, WFMin
<1>4. PICK x \in rs : \A y \in rs : ~(<<y, x>> \in R)
  BY <1>3
<1>5. ASSUME NEW y \in rs PROVE x <= y
  <2>1. x \in Nat /\ y \in Nat /\ ~(y < x)
    BY <1>1, <1>4
  <2> QED
    BY <2>1
<1> QED
  BY <1>5 DEF First

\* The entry of a fragment, whether it is found or taken anew.
LEMMA EntryFound ==
  ASSUME TypeOK, NEW m \in Messages
  PROVE  /\ rxPacketLookUp(m) # {} =>
              First(rxPacketLookUp(m)) \in rxPacketLookUp(m)
         /\ getFreeRxPacketEntry # {} =>
              First(getFreeRxPacketEntry) \in getFreeRxPacketEntry
         /\ rxPacketLookUp(m) \subseteq Entries
         /\ getFreeRxPacketEntry \subseteq Entries
<1>1. Entries \subseteq Nat
  BY ReceiverAssumption DEF Entries
<1>2. /\ rxPacketLookUp(m) \subseteq Entries
      /\ getFreeRxPacketEntry \subseteq Entries
  BY DEF rxPacketLookUp, getFreeRxPacketEntry, Available, Acked
<1> QED
  BY <1>1, <1>2, FirstFound

\* The receiver's part of TypeOK, for a fragment inside of the window.
LEMMA InsideTypes ==
  ASSUME TypeOK, NEW r \in Entries, NEW e \in EntryType, NEW m \in Messages,
         NEW i \in Fragments(m), NEW moved \in BOOLEAN,
         InsideWindow(r, e, m, i, moved)
  PROVE  /\ rxPackets' \in [Entries -> EntryType]
         /\ rxWindowMoved' \in BOOLEAN
         /\ acks' \subseteq transit
         /\ arrived' \in [Messages -> 0 .. 2]
         /\ broken' \subseteq Messages
<1> DEFINE takes == moved /\ i < e.expected - 1
           x == IF takes THEN [e EXCEPT !.len = LenOf(m, i)] ELSE e
           n == Noted(x, m, i)
<1>1. x \in EntryType
  BY LenOfType DEF EntryType
<1> HIDE DEF x
<1>2. n \in EntryType
  BY <1>1, NotedType DEF TypeOK
<1> HIDE DEF n
<1>3. Older \in [Entries -> EntryType]
  <2> SUFFICES ASSUME NEW q \in Entries
               PROVE  Older[q] \in EntryType
    BY DEF Older
  <2>1. \A a \in Ages : (a + 1) % AgeModulus \in Ages
    BY ReceiverAssumption DEF Ages
  <2>2. rxPackets[q] \in EntryType
    BY DEF TypeOK
  <2>3. [rxPackets[q] EXCEPT !.age = (@ + 1) % AgeModulus] \in EntryType
    BY <2>1, <2>2 DEF EntryType
  <2> QED
    BY <2>2, <2>3 DEF Older
<1>4. Kept(n) \in EntryType
  <2>1. "ACKED" \in Statuses /\ 0 \in Ages
    BY ReceiverAssumption DEF Statuses, Ages
  <2> QED
    BY <1>2, <2>1 DEF Kept, EntryType
<1>5. Aborted(e) \in EntryType
  BY EmptyType
<1>6. rxPackets' \in [Entries -> EntryType]
  <2>1. \E y \in {n, Aborted(e)} : \/ rxPackets' = [Older EXCEPT ![r] = Kept(n)]
                                  \/ rxPackets' = [rxPackets EXCEPT ![r] = y]
    BY DEF InsideWindow, n, x
  <2> QED
    BY <1>2, <1>3, <1>4, <1>5, <2>1 DEF TypeOK
<1>7. rxWindowMoved' \in BOOLEAN
  BY Zenon DEF InsideWindow
<1>8. acks' \subseteq transit
  BY DEF InsideWindow, TypeOK
<1>9. arrived' \in [Messages -> 0 .. 2] /\ broken' \subseteq Messages
  BY DEF InsideWindow, Again, TypeOK
<1> QED
  BY <1>6, <1>7, <1>8, <1>9

\* The receiver's part of TypeOK, when a fragment comes.
LEMMA IncomingTypes ==
  ASSUME TypeOK, NEW m \in Messages, NEW i \in Fragments(m), IncomingMessage(m, i)
  PROVE  /\ rxPackets' \in [Entries -> EntryType]
         /\ rxWindowMoved' \in BOOLEAN
         /\ acks' \subseteq transit
         /\ arrived' \in [Messages -> 0 .. 2]
         /\ broken' \subseteq Messages /\ forgotten' \subseteq Messages \union {Nobody}
<1> DEFINE Types ==
      /\ rxPackets' \in [Entries -> EntryType]
      /\ rxWindowMoved' \in BOOLEAN
      /\ acks' \subseteq transit
      /\ arrived' \in [Messages -> 0 .. 2]
      /\ broken' \subseteq Messages
<1>1. ASSUME NEW r \in Entries, NEW e \in EntryType, Process(r, e, m, i)
      PROVE  Types
  <2> DEFINE moves == WindowMoves(e, i)
             x == IF moves THEN moveRxWindow(e) ELSE e
             moved == rxWindowMoved \/ moves
  <2>1. x \in EntryType
    BY WindowTypes DEF TypeOK
  <2>2. moved \in BOOLEAN
    BY Zenon
  <2>3. CASE InsideWindow(r, x, m, i, moved)
    BY <2>1, <2>2, <2>3, InsideTypes
  <2>4. CASE /\ rxPackets' = [rxPackets EXCEPT ![r] = x]
             /\ rxWindowMoved' = moved
             /\ UNCHANGED <<acks, arrived, broken>>
    BY <2>1, <2>2, <2>4 DEF TypeOK
  <2> QED
    BY <1>1, <2>3, <2>4 DEF Process
<1>2. ASSUME NEW r \in Entries, Forgets(r)
      PROVE  forgotten' \subseteq Messages \union {Nobody}
  BY <1>2 DEF Forgets, Acked, TypeOK, EntryType
<1> DEFINE found == rxPacketLookUp(m)
           free == getFreeRxPacketEntry
           old == rxPackets[First(found)]
           new == NewEntry(rxPackets[First(free)], m, LenOf(m, i))
<1>3. CASE found # {} /\ Process(First(found), old, m, i) /\ UNCHANGED forgotten
  <2>1. First(found) \in Entries /\ old \in EntryType
    BY <1>3, EntryFound DEF TypeOK
  <2> HIDE DEF found, old
  <2>2. Types
    BY <1>1, <1>3, <2>1
  <2> QED
    BY <1>3, <2>2 DEF TypeOK
<1>4. CASE /\ found = {} /\ free # {} /\ i < window
           /\ Process(First(free), new, m, i)
           /\ Forgets(First(free))
  <2>1. First(free) \in Entries /\ new \in EntryType
    BY <1>4, EntryFound, WindowTypes, LenOfType DEF TypeOK
  <2> HIDE DEF found, free, new
  <2>2. Types
    BY <1>1, <1>4, <2>1
  <2> QED
    BY <1>2, <1>4, <2>1, <2>2
<1>5. CASE UNCHANGED <<rxPackets, rxWindowMoved, acks, arrived, broken, forgotten>>
  BY <1>5 DEF TypeOK
<1> QED
  BY <1>3, <1>4, <1>5 DEF IncomingMessage

\* The sender's part of TypeOK, when the stack reports on a fragment.
LEMMA ReportTypes ==
  ASSUME TypeOK, NEW m \in Messages, NEW rest \in SUBSET transit, NEW ok \in BOOLEAN,
         Reported(m, rest, ok)
  PROVE  /\ phase' \in [Messages -> Transfer!Phases]
         /\ DOMAIN txPackets' \subseteq Messages
         /\ \A x \in DOMAIN txPackets' : txPackets'[x] \in [base : Nat, inTransit : Nat \ {0}]
         /\ transit' \subseteq Frames /\ rest \subseteq transit'
<1> DEFINE e == txPackets[m]
<1>1. "failure" \in Transfer!Phases /\ window \in Nat
  BY ReceiverAssumption DEF Transfer!Phases, TypeOK
<1>2. CASE m \notin InUse
  BY <1>2 DEF Reported, TypeOK, txVars, InUse
<1>3. CASE m \in InUse
  <2>1. e.base \in Nat /\ e.inTransit \in Nat \ {0}
    BY <1>3 DEF TypeOK
  <2>2. CASE \E n \in 0 .. window :
               sendNextFragments(m, e.base + window, n, rest, "failure")
    <3>1. e.base + window \in Nat /\ 0 .. window \subseteq Nat
      BY <1>1, <2>1
    <3> HIDE DEF e
    <3> QED
      BY <1>1, <2>2, <3>1, SendTypes
  <2>3. CASE /\ ok /\ e.inTransit # 1
             /\ txPackets' = Entry(m, e.base, e.inTransit - 1)
             /\ transit' = rest
             /\ UNCHANGED phase
    <3>1. e.inTransit - 1 \in Nat \ {0}
      BY <2>1, <2>3
    <3> HIDE DEF e
    <3> QED
      BY <2>1, <2>3, <3>1 DEF Entry, TypeOK
  <2>4. CASE abortTransmission(m) /\ transit' = rest
    BY <1>1, <2>4 DEF abortTransmission, WithoutEntry, TypeOK, InUse
  <2> QED
    BY <1>3, <2>2, <2>3, <2>4 DEF Reported
<1> QED
  BY <1>2, <1>3

LEMMA TypeStep ==
  TypeOK /\ [Next]_vars => TypeOK'
<1> SUFFICES ASSUME TypeOK, [Next]_vars PROVE TypeOK'
  OBVIOUS
<1>1. ASSUME NEW m \in Messages, SendUnicast(m)
      PROVE  TypeOK'
  <2>1. window \in Nat /\ "refused" \in Transfer!Phases
    BY ReceiverAssumption DEF TypeOK, Transfer!Phases
  <2>2. CASE UNCHANGED <<txPackets, transit>> /\ phase' = [phase EXCEPT ![m] = "refused"]
    BY <1>1, <2>1, <2>2
    DEF SendUnicast, TypeOK, rxVars, historyVars, InUse, Entries
  <2>3. CASE \E n \in 0 .. window : sendNextFragments(m, 0, n, transit, "refused")
    <3>1. PICK n \in 0 .. window : sendNextFragments(m, 0, n, transit, "refused")
      BY <2>3
    <3>2. n \in Nat /\ transit \in SUBSET transit
      BY <2>1
    <3>3. /\ phase' \in [Messages -> Transfer!Phases]
          /\ InUse' \subseteq Messages
          /\ \A x \in InUse' : txPackets'[x] \in [base : Nat, inTransit : Nat \ {0}]
          /\ transit' \subseteq Frames /\ transit \subseteq transit'
      BY <2>1, <3>1, <3>2, SendTypes DEF InUse
    <3> QED
      BY <1>1, <3>3 DEF SendUnicast, TypeOK, rxVars, historyVars, Entries
  <2> QED
    BY <1>1, <2>2, <2>3 DEF SendUnicast
<1>2. ASSUME NEW f \in Frames, NEW ok \in BOOLEAN, MessageSent(f, ok)
      PROVE  TypeOK'
  <2>1. f[1] \in Messages /\ transit \ {f} \in SUBSET transit
    BY DEF Frames
  <2>2. /\ phase' \in [Messages -> Transfer!Phases]
        /\ InUse' \subseteq Messages
        /\ \A x \in InUse' : txPackets'[x] \in [base : Nat, inTransit : Nat \ {0}]
        /\ transit' \subseteq Frames /\ transit \ {f} \subseteq transit'
    BY <1>2, <2>1, ReportTypes DEF MessageSent, InUse
  <2>3. late' \subseteq Frames /\ acks' \subseteq transit'
    BY <1>2, <2>2 DEF MessageSent, TypeOK
  <2> QED
    BY <1>2, <2>2, <2>3 DEF MessageSent, TypeOK, rxVars, historyVars, Entries
<1>3. ASSUME NEW f \in Frames, Receive(f)
      PROVE  TypeOK'
  <2>0. PICK m \in Messages : f \in {m} \X Fragments(m)
    BY DEF Frames
  <2>1. PICK i \in Fragments(m) : f = <<m, i>>
    BY <2>0
  <2>2. /\ rxPackets' \in [Entries -> EntryType]
        /\ rxWindowMoved' \in BOOLEAN
        /\ acks' \subseteq transit
        /\ arrived' \in [Messages -> 0 .. 2]
        /\ broken' \subseteq Messages /\ forgotten' \subseteq Messages \union {Nobody}
    BY <1>3, <2>1, IncomingTypes DEF Receive
  <2>3. late' \subseteq Frames
    BY <1>3 DEF Receive, TypeOK
  <2> QED
    BY <1>3, <2>2, <2>3 DEF Receive, TypeOK, txVars, InUse, Entries
<1>4. ASSUME NEW f \in Frames, CopyIsLost(f)
      PROVE  TypeOK'
  BY <1>4 DEF CopyIsLost, TypeOK, txVars, rxVars, historyVars, InUse, Entries
<1>5. ASSUME NEW r \in Entries, AbortReception(r)
      PROVE  TypeOK'
  <2>1. /\ Aborted(rxPackets[r]) \in EntryType
        /\ rxPackets[r].msg \in Messages \union {Nobody}
    BY EmptyType DEF TypeOK, EntryType
  <2>2. /\ rxPackets' \in [Entries -> EntryType]
        /\ forgotten' \subseteq Messages \union {Nobody}
    BY <1>5, <2>1 DEF AbortReception, Forgets, TypeOK
  <2> QED
    BY <1>5, <2>2 DEF AbortReception, TypeOK, txVars, airVars, InUse, Entries
<1>6. CASE UNCHANGED vars
  BY <1>6 DEF vars, TypeOK, txVars, rxVars, airVars, historyVars, InUse, Entries
<1> QED
  BY <1>1, <1>2, <1>3, <1>4, <1>5, <1>6 DEF Next

\* Every state of the two plugins has its types, whatever the window, the
\* lengths and the numbers of entries.
THEOREM TypeCorrect == Spec => []TypeOK
<1> QED
  BY TypeInit, TypeStep, PTL DEF Spec

-----------------------------------------------------------------------------
(* The sender: EntriesHold, with any window *)

\* The frames of a message, and those that the stack transmits.
Of(m) == {m} \X Fragments(m)
Own(m) == transit \intersect Of(m)

\* Nothing of a message is in the air before it is sent.
SendInv ==
  /\ EntriesHold
  /\ IsFiniteSet(InUse)
  /\ \A m \in Messages : phase[m] = "unsent" => Own(m) = {}

\* What a sending leaves alone, and what it makes of its message.
LEMMA SendKeeps ==
  ASSUME TypeOK, NEW m \in Messages, NEW b \in Nat, NEW n \in Nat,
         NEW rest \in SUBSET Frames, rest \intersect Of(m) = {},
         NEW error \in {"refused", "failure"},
         sendNextFragments(m, b, n, rest, error)
  PROVE  /\ \A x \in Messages \ {m} :
              /\ phase'[x] = phase[x]
              /\ x \in DOMAIN txPackets' <=> x \in InUse
              /\ x \in InUse => txPackets'[x] = txPackets[x]
              /\ transit' \intersect Of(x) = rest \intersect Of(x)
         /\ phase'[m] # "unsent"
         /\ m \in DOMAIN txPackets' <=> phase'[m] = "sending"
         /\ m \in DOMAIN txPackets' =>
              txPackets'[m].inTransit = Cardinality(transit' \intersect Of(m))
         /\ DOMAIN txPackets' \in {InUse \union {m}, InUse \ {m}}
<1> DEFINE all == WindowFrames(m, b)
           sent == {f \in all : f[2] < b + n}
<1>1. /\ n <= Cardinality(all)
      /\ transit' = rest \union sent
      /\ \/ /\ n < Cardinality(all) \/ all = {}
            /\ txPackets' = WithoutEntry(m)
            /\ phase' = [phase EXCEPT ![m] = IF all = {} THEN "success" ELSE error]
         \/ /\ ~(n < Cardinality(all) \/ all = {})
            /\ txPackets' = Entry(m, b, n)
            /\ phase' = [phase EXCEPT ![m] = "sending"]
  BY DEF sendNextFragments
<1>2. all \subseteq Of(m) /\ sent \subseteq all
  BY DEF WindowFrames, Of
<1>3. Cardinality(all) \in Nat /\ (all # {} => \A f \in all : f[2] < b + Cardinality(all))
  BY WindowFinite DEF TypeOK
<1> HIDE DEF all
<1>4. ASSUME NEW x \in Messages \ {m}
      PROVE  transit' \intersect Of(x) = rest \intersect Of(x)
  <2>1. Of(x) \intersect Of(m) = {}
    BY DEF Of
  <2> QED
    BY <1>1, <1>2, <2>1
<1>5. transit' \intersect Of(m) = sent
  BY <1>1, <1>2
<1>6. CASE txPackets' = WithoutEntry(m)
  <2>1. /\ DOMAIN txPackets' = InUse \ {m}
        /\ \A x \in InUse \ {m} : txPackets'[x] = txPackets[x]
    BY <1>6 DEF WithoutEntry
  <2>2. phase' \in {[phase EXCEPT ![m] = s] : s \in {"success", "refused", "failure"}}
    BY <1>1, <1>6, <2>1 DEF Entry
  <2> QED
    BY <1>4, <2>1, <2>2 DEF TypeOK
<1>7. CASE /\ ~(n < Cardinality(all) \/ all = {})
           /\ txPackets' = Entry(m, b, n)
           /\ phase' = [phase EXCEPT ![m] = "sending"]
  <2>1. /\ DOMAIN txPackets' = InUse \union {m}
        /\ \A x \in InUse \ {m} : txPackets'[x] = txPackets[x]
        /\ txPackets'[m].inTransit = n
    BY <1>7 DEF Entry
  <2>2. n = Cardinality(all)
    BY <1>1, <1>3, <1>7
  <2>3. sent = all
    BY <1>3, <1>7, <2>2
  <2> QED
    BY <1>4, <1>5, <1>7, <2>1, <2>2, <2>3 DEF TypeOK
<1> QED
  BY <1>1, <1>6, <1>7

\* The same for the report on a fragment of the message.
LEMMA ReportKeeps ==
  ASSUME TypeOK, SendInv, NEW m \in Messages, NEW f \in Own(m), NEW ok \in BOOLEAN,
         Reported(m, transit \ {f}, ok)
  PROVE  /\ \A x \in Messages \ {m} :
              /\ phase'[x] = phase[x]
              /\ x \in DOMAIN txPackets' <=> x \in InUse
              /\ x \in InUse => txPackets'[x] = txPackets[x]
              /\ transit' \intersect Of(x) = Own(x)
         /\ phase'[m] # "unsent"
         /\ m \in DOMAIN txPackets' <=> phase'[m] = "sending"
         /\ m \in DOMAIN txPackets' =>
              txPackets'[m].inTransit = Cardinality(transit' \intersect Of(m))
         /\ DOMAIN txPackets' \in {InUse, InUse \ {m}}
<1> DEFINE e == txPackets[m]
           rest == transit \ {f}
<1>1. \A x \in Messages \ {m} : rest \intersect Of(x) = Own(x)
  BY DEF Own, Of
<1>2. IsFiniteSet(Own(m)) /\ f \in transit
  BY FramesFinite, FS_Subset DEF Own, Of
<1>3. phase[m] # "unsent" /\ (m \in InUse <=> phase[m] = "sending")
  BY DEF SendInv, EntriesHold
<1>4. CASE m \notin InUse
  BY <1>1, <1>3, <1>4 DEF Reported, txVars, TypeOK, InUse
<1>5. CASE m \in InUse
  <2>1. /\ e.base \in Nat /\ e.inTransit \in Nat /\ window \in Nat
        /\ e.inTransit = Cardinality(Own(m))
    BY <1>5, ReceiverAssumption DEF TypeOK, SendInv, EntriesHold, Own, Of
  <2>2. ASSUME e.inTransit = 1, NEW n \in 0 .. window,
               sendNextFragments(m, e.base + window, n, rest, "failure")
        PROVE  /\ rest \intersect Of(m) = {}
               /\ e.base + window \in Nat /\ n \in Nat
               /\ rest \in SUBSET Frames
    <3>1. PICK x : Own(m) = {x}
      BY <1>2, <2>1, <2>2, FS_Singleton, Zenon
    <3> QED
      BY <2>1, <3>1 DEF Own, TypeOK
  <2>3. CASE /\ e.inTransit = 1
             /\ \E n \in 0 .. window :
                  sendNextFragments(m, e.base + window, n, rest, "failure")
    <3>1. PICK n \in 0 .. window :
                 sendNextFragments(m, e.base + window, n, rest, "failure")
      BY <2>3
    <3>2. /\ rest \intersect Of(m) = {}
          /\ e.base + window \in Nat /\ n \in Nat
          /\ rest \in SUBSET Frames
      BY <2>2, <2>3, <3>1
    <3> DEFINE b == e.base + window
    <3> HIDE DEF rest, b, e
    <3>3. sendNextFragments(m, b, n, rest, "failure") /\ b \in Nat
      BY <3>1, <3>2 DEF b
    <3>4. InUse \union {m} = InUse
      BY <1>5
    <3>5. /\ \A x \in Messages \ {m} :
               /\ phase'[x] = phase[x]
               /\ x \in DOMAIN txPackets' <=> x \in InUse
               /\ x \in InUse => txPackets'[x] = txPackets[x]
               /\ transit' \intersect Of(x) = rest \intersect Of(x)
          /\ phase'[m] # "unsent"
          /\ m \in DOMAIN txPackets' <=> phase'[m] = "sending"
          /\ m \in DOMAIN txPackets' =>
               txPackets'[m].inTransit = Cardinality(transit' \intersect Of(m))
          /\ DOMAIN txPackets' \in {InUse \union {m}, InUse \ {m}}
      BY <3>2, <3>3, SendKeeps
    <3> HIDE DEF InUse
    <3> QED
      BY <1>1, <3>4, <3>5
  <2>4. CASE /\ e.inTransit # 1
             /\ txPackets' = Entry(m, e.base, e.inTransit - 1)
             /\ transit' = rest
             /\ UNCHANGED phase
    <3>1. Cardinality(Own(m) \ {f}) = e.inTransit - 1
      BY <1>2, <2>1, FS_RemoveElement
    <3>2. transit' \intersect Of(m) = Own(m) \ {f}
      BY <2>4 DEF Own
    <3> HIDE DEF e, rest
    <3>3. /\ DOMAIN txPackets' = InUse
          /\ \A x \in InUse \ {m} : txPackets'[x] = txPackets[x]
          /\ txPackets'[m].inTransit = e.inTransit - 1
      BY <1>5, <2>4 DEF Entry
    <3> QED
      BY <1>1, <1>3, <1>5, <2>4, <3>1, <3>2, <3>3
  <2>5. CASE abortTransmission(m) /\ transit' = rest
    <3>1. /\ DOMAIN txPackets' = InUse \ {m}
          /\ \A x \in InUse \ {m} : txPackets'[x] = txPackets[x]
          /\ phase' = [phase EXCEPT ![m] = "failure"]
      BY <2>5 DEF abortTransmission, WithoutEntry
    <3> QED
      BY <1>1, <2>5, <3>1 DEF TypeOK
  <2> QED
    BY <1>5, <2>3, <2>4, <2>5 DEF Reported
<1> QED
  BY <1>4, <1>5

LEMMA SendStep ==
  TypeOK /\ SendInv /\ [Next]_vars => SendInv'
<1> SUFFICES ASSUME TypeOK, SendInv, [Next]_vars PROVE SendInv'
  OBVIOUS
<1> USE DEF Own, Of
<1>1. ASSUME UNCHANGED <<txPackets, phase, transit>>
      PROVE  SendInv'
  BY <1>1 DEF SendInv, EntriesHold, InUse
<1>2. ASSUME NEW m \in Messages, IsFiniteSet(InUse'), Cardinality(InUse') <= MaxOutgoing,
             InUse' \subseteq Messages,
             \A x \in Messages \ {m} :
               /\ phase'[x] = phase[x]
               /\ x \in InUse' <=> x \in InUse
               /\ x \in InUse => txPackets'[x] = txPackets[x]
               /\ Own(x)' = Own(x),
             phase'[m] # "unsent",
             m \in InUse' <=> phase'[m] = "sending",
             m \in InUse' => txPackets'[m].inTransit = Cardinality(Own(m)')
      PROVE  SendInv'
  BY <1>2 DEF SendInv, EntriesHold
<1>3. ASSUME NEW m \in Messages, SendUnicast(m)
      PROVE  SendInv'
  <2>1. phase[m] = "unsent" /\ Own(m) = {} /\ m \notin InUse
    BY <1>3 DEF SendUnicast, SendInv, EntriesHold
  <2>2. CASE UNCHANGED <<txPackets, transit>> /\ phase' = [phase EXCEPT ![m] = "refused"]
    BY <1>3, <2>1, <2>2 DEF SendInv, EntriesHold, InUse, TypeOK
  <2>3. CASE /\ Cardinality(InUse) # MaxOutgoing
             /\ \E n \in 0 .. window : sendNextFragments(m, 0, n, transit, "refused")
    <3>1. PICK n \in 0 .. window : sendNextFragments(m, 0, n, transit, "refused")
      BY <2>3
    <3>2. n \in Nat /\ transit \in SUBSET Frames /\ transit \intersect Of(m) = {}
      BY <2>1, <3>1, ReceiverAssumption DEF TypeOK
    <3>3. /\ \A x \in Messages \ {m} :
               /\ phase'[x] = phase[x]
               /\ x \in InUse' <=> x \in InUse
               /\ x \in InUse => txPackets'[x] = txPackets[x]
               /\ Own(x)' = Own(x)
          /\ phase'[m] # "unsent"
          /\ m \in InUse' <=> phase'[m] = "sending"
          /\ m \in InUse' => txPackets'[m].inTransit = Cardinality(Own(m)')
          /\ InUse' \in {InUse \union {m}, InUse \ {m}}
      BY <3>1, <3>2, SendKeeps DEF InUse
    <3>4. /\ IsFiniteSet(InUse') /\ Cardinality(InUse') <= MaxOutgoing
          /\ InUse' \subseteq Messages
      <4>1. /\ IsFiniteSet(InUse) /\ Cardinality(InUse) <= MaxOutgoing
            /\ Cardinality(InUse) \in Nat /\ MaxOutgoing \in Nat
            /\ InUse \subseteq Messages
        BY FS_CardinalityType, SenderAssumption DEF SendInv, EntriesHold, TypeOK
      <4>2. CASE InUse' = InUse \union {m}
        <5>1. /\ IsFiniteSet(InUse \union {m})
              /\ Cardinality(InUse \union {m}) = Cardinality(InUse) + 1
          BY <2>1, <4>1, FS_AddElement, Zenon
        <5>2. Cardinality(InUse) + 1 <= MaxOutgoing
          BY <2>3, <4>1
        <5> QED
          BY <4>1, <4>2, <5>1, <5>2
      <4>3. CASE InUse' = InUse \ {m}
        <5>1. InUse' = InUse
          BY <2>1, <4>3
        <5> QED
          BY <4>1, <5>1
      <4> QED
        BY <3>3, <4>2, <4>3
    <3> QED
      BY <1>2, <3>3, <3>4
  <2> QED
    BY <1>3, <2>2, <2>3 DEF SendUnicast
<1>4. ASSUME NEW f \in Frames, NEW ok \in BOOLEAN, MessageSent(f, ok)
      PROVE  SendInv'
  <2>1. PICK m \in Messages : f \in {m} \X Fragments(m)
    BY DEF Frames
  <2>2. f \in Own(m) /\ Reported(m, transit \ {f}, ok)
    BY <1>4, <2>1 DEF MessageSent
  <2>3. /\ \A x \in Messages \ {m} :
             /\ phase'[x] = phase[x]
             /\ x \in InUse' <=> x \in InUse
             /\ x \in InUse => txPackets'[x] = txPackets[x]
             /\ Own(x)' = Own(x)
        /\ phase'[m] # "unsent"
        /\ m \in InUse' <=> phase'[m] = "sending"
        /\ m \in InUse' => txPackets'[m].inTransit = Cardinality(Own(m)')
        /\ InUse' \in {InUse, InUse \ {m}}
    BY <2>2, ReportKeeps DEF InUse
  <2>4. /\ IsFiniteSet(InUse') /\ Cardinality(InUse') <= MaxOutgoing
        /\ InUse' \subseteq Messages
    <3>1. /\ IsFiniteSet(InUse) /\ Cardinality(InUse) <= MaxOutgoing
          /\ Cardinality(InUse) \in Nat /\ MaxOutgoing \in Nat
          /\ InUse \subseteq Messages /\ InUse' \in SUBSET InUse
      BY <2>3, FS_CardinalityType, SenderAssumption DEF SendInv, EntriesHold, TypeOK
    <3>2. /\ IsFiniteSet(InUse') /\ Cardinality(InUse') <= Cardinality(InUse)
          /\ Cardinality(InUse') \in Nat
      BY <3>1, FS_Subset, FS_CardinalityType
    <3> QED
      BY <3>1, <3>2
  <2> QED
    BY <1>2, <2>3, <2>4
<1>5. ASSUME NEW f \in Frames, Receive(f)
      PROVE  SendInv'
  BY <1>1, <1>5 DEF Receive, txVars
<1>6. ASSUME NEW f \in Frames, CopyIsLost(f)
      PROVE  SendInv'
  BY <1>1, <1>6 DEF CopyIsLost, txVars
<1>7. ASSUME NEW r \in Entries, AbortReception(r)
      PROVE  SendInv'
  BY <1>1, <1>7 DEF AbortReception, txVars, airVars
<1>8. CASE UNCHANGED vars
  BY <1>1, <1>8 DEF vars, txVars, airVars
<1> QED
  BY <1>3, <1>4, <1>5, <1>6, <1>7, <1>8 DEF Next

LEMMA SendInit ==
  Init => SendInv
<1> SUFFICES ASSUME Init PROVE SendInv
  OBVIOUS
<1>1. InUse = {} /\ \A m \in Messages : phase[m] = "unsent" /\ Own(m) = {}
  BY DEF Init, InUse, Own
<1>2. IsFiniteSet({}) /\ Cardinality({}) = 0 /\ MaxOutgoing >= 0
  BY FS_EmptySet, SenderAssumption
<1> QED
  BY <1>1, <1>2 DEF SendInv, EntriesHold

\* The sender never loses an entry and never counts its fragments wrong: one
\* is taken exactly while the application waits for the end of its message.
THEOREM EntriesCorrect == Spec => []EntriesHold
<1>1. SendInv => EntriesHold
  BY DEF SendInv
<1> QED
  BY TypeInit, TypeStep, SendInit, SendStep, <1>1, PTL DEF Spec

-----------------------------------------------------------------------------
(* Fragments and windows *)

\* Where the fragments of a message lie.
LEMMA Places ==
  ASSUME NEW m \in Messages, NEW i \in Fragments(m)
  PROVE  /\ i < Count(m) - 1 => LenOf(m, i) = FragmentLen
         /\ i * FragmentLen + LenOf(m, i) <= Length[m]
         /\ (Count(m) - 1) * FragmentLen + LenOf(m, Count(m) - 1) = Length[m]
         /\ Length[m] <= BufferSize
<1>1. /\ Count(m) \in Nat /\ FragmentLen \in Nat \ {0} /\ BufferSize \in Nat
      /\ Length[m] \in Nat /\ Length[m] <= BufferSize
      /\ i \in Nat /\ i <= Count(m) - 1
  BY CountType, ReceiverAssumption DEF Fragments
<1> DEFINE a == (Count(m) - 1) * FragmentLen
<1>2. a \in Nat /\ i * FragmentLen \in Nat
  BY <1>1
<1>3. (i + 1) * FragmentLen = i * FragmentLen + FragmentLen
  BY <1>1
<1>4. i < Count(m) - 1 => (i + 1) * FragmentLen <= a
  <2> SUFFICES ASSUME i + 1 <= Count(m) - 1 PROVE (i + 1) * FragmentLen <= a
    BY <1>1
  <2> DEFINE p == i + 1
             q == Count(m) - 1
  <2>1. p \in Nat /\ q \in Nat /\ p <= q
    BY <1>1
  <2> HIDE DEF p, q
  <2>2. p * FragmentLen <= q * FragmentLen
    BY <1>1, <2>1
  <2> QED
    BY <2>2 DEF p, q
<1>5. LenOf(m, Count(m) - 1) = Length[m] - a /\ LenOf(m, Count(m) - 1) \in Nat
  <2>1. Count(m) - 1 \in Fragments(m)
    BY CountType DEF Fragments
  <2> QED
    BY <2>1, LenOfType DEF LenOf
<1> HIDE DEF a
<1>6. i < Count(m) - 1 => LenOf(m, i) = FragmentLen
  BY <1>1 DEF LenOf
<1>7. a + LenOf(m, Count(m) - 1) = Length[m]
  BY <1>1, <1>2, <1>5
<1>8. i * FragmentLen + LenOf(m, i) <= Length[m]
  <2>1. CASE i = Count(m) - 1
    BY <1>7, <2>1, <1>1 DEF a
  <2>2. CASE i < Count(m) - 1
    BY <1>1, <1>2, <1>3, <1>4, <1>5, <1>6, <1>7, <2>2
  <2> QED
    BY <1>1, <2>1, <2>2
<1> QED
  BY <1>1, <1>6, <1>7, <1>8 DEF a

\* The window of one fragment.
LEMMA OneFragmentWindow ==
  ASSUME window = 1
  PROVE  /\ AllBits = {0}
         /\ \A i \in Nat : Bit(i) = 0
         /\ \A b, x \in Nat : x >= b + 1 => Mask(b, x) = {}
         /\ \A e \in EntryType, i \in Nat : InWindow(e, i) <=> i = e.base
<1>1. AllBits = {0} /\ \A i \in Nat : Bit(i) = 0
  BY DEF AllBits, Bit
<1>2. ASSUME NEW b \in Nat, NEW x \in Nat, x >= b + 1
      PROVE  Mask(b, x) = {}
  BY <1>2 DEF Mask
<1>3. ASSUME NEW e \in EntryType, NEW i \in Nat
      PROVE  InWindow(e, i) <=> i = e.base
  <2>1. e.base \in Nat
    BY DEF EntryType
  <2> QED
    BY <2>1 DEF InWindow
<1> QED
  BY <1>1, <1>2, <1>3

\* The bits of a window.
LEMMA WindowBits ==
  ASSUME window \in WindowSizes
  PROVE  /\ window \in 1 .. 8 /\ 0 \in AllBits
         /\ \A i \in Nat : i < window => Bit(i) = i
         /\ Mask(0, Unknown) = {}
<1>1. window \in 1 .. 8
  BY ReceiverAssumption
<1>2. \A i \in Nat : i < window => i % window = i
  BY <1>1
<1>3. 255 >= 0 + window /\ window .. window - 1 = {}
  BY <1>1
<1> QED
  BY <1>1, <1>2, <1>3 DEF AllBits, Bit, Mask, Unknown

\* The bits of an entry are few.
LEMMA MaskCounts ==
  ASSUME NEW s \in Masks
  PROVE  /\ IsFiniteSet(s) /\ Cardinality(s) \in 0 .. 8
         /\ \A x : x \notin s => Cardinality(s \union {x}) = Cardinality(s) + 1
<1>1. IsFiniteSet(0 .. 7) /\ Cardinality(0 .. 7) = 8
  <2>1. 0 \in Int /\ 7 \in Int
    OBVIOUS
  <2>2. /\ IsFiniteSet(0 .. 7)
        /\ Cardinality(0 .. 7) = IF 0 > 7 THEN 0 ELSE 7 - 0 + 1
    BY <2>1, FS_Interval, Zenon
  <2> QED
    BY <2>2
<1>2. s \subseteq 0 .. 7
  BY DEF Masks
<1>3. IsFiniteSet(s) /\ Cardinality(s) <= Cardinality(0 .. 7)
  BY <1>1, <1>2, FS_Subset
<1>4. Cardinality(s) \in Nat
  BY <1>3, FS_CardinalityType
<1> QED
  BY <1>1, <1>3, <1>4, FS_AddElement

\* A product with a sum.
LEMMA Distributes ==
  ASSUME NEW a \in Nat, NEW b \in Nat, NEW c \in Nat
  PROVE  (a + b) * c = a * c + b * c
OBVIOUS

-----------------------------------------------------------------------------
(* The receiver, with any window *)

\* What any window leaves of an entry: its place in the message is known once
\* the first fragment has come, and until then nothing is complete.
Shape(e) ==
  /\ e.msg \in Messages /\ e.base \in Fragments(e.msg)
  /\ e.finger = e.base * FragmentLen
  /\ e.base = 0 /\ 0 \notin e.mask
       => /\ e.expected = Unknown /\ e.status = "IN_USE"
          /\ e.received = Cardinality(e.mask)
  /\ e.base > 0 \/ 0 \in e.mask
       => /\ e.expected = Count(e.msg)
          /\ Count(e.msg) > 1 => e.len = FragmentLen

\* What noting a fragment makes of an entry.
LEMMA NotedFields ==
  ASSUME window \in WindowSizes, NEW e \in EntryType, NEW m \in Messages,
         NEW i \in Fragments(m), NEW n, n = Noted(e, m, i)
  PROVE  /\ n \in EntryType
         /\ n.status = e.status /\ n.msg = e.msg /\ n.base = e.base
         /\ n.finger = e.finger /\ n.len = e.len
         /\ n.expected = IF i = 0 THEN Count(m) ELSE e.expected
         /\ n.mask = {Bit(i)} \union (IF i = 0 /\ Count(m) < window
                                      THEN Mask(e.base, Count(m)) ELSE e.mask)
         /\ n.received = IF Bit(i) \in e.mask THEN e.received ELSE e.received + 1
<1> DEFINE c == Counted(e, m, i)
           mask == IF i = 0 /\ Count(m) < window
                   THEN Mask(e.base, Count(m)) ELSE e.mask
           d == [c EXCEPT !.mask = @ \union {Bit(i)}]
<1>1. n \in EntryType
  BY NotedType
<1>2. /\ c.status = e.status /\ c.msg = e.msg /\ c.base = e.base
      /\ c.finger = e.finger /\ c.len = e.len /\ c.received = e.received
      /\ c.expected = IF i = 0 THEN Count(m) ELSE e.expected
      /\ c.mask = mask
      /\ DOMAIN c = DOMAIN e
  <2> DEFINE x == IF Count(m) < window THEN Mask(e.base, Count(m)) ELSE e.mask
  <2>1. c = IF i = 0 THEN [e EXCEPT !.expected = Count(m), !.mask = x] ELSE e
    BY DEF Counted, EntryType
  <2>2. i = 0 => x = mask
    OBVIOUS
  <2>3. i # 0 => mask = e.mask
    OBVIOUS
  <2> HIDE DEF x, mask, c
  <2>4. CASE i = 0
    BY <2>1, <2>2, <2>4 DEF EntryType
  <2>5. CASE i # 0
    BY <2>1, <2>3, <2>5
  <2> QED
    BY <2>4, <2>5
<1> HIDE DEF c, mask
<1>3. /\ d.status = e.status /\ d.msg = e.msg /\ d.base = e.base
      /\ d.finger = e.finger /\ d.len = e.len /\ d.received = e.received
      /\ d.expected = IF i = 0 THEN Count(m) ELSE e.expected
      /\ d.mask = mask \union {Bit(i)}
      /\ DOMAIN d = DOMAIN e
  BY <1>2 DEF EntryType
<1> HIDE DEF d
<1>4. CASE Bit(i) \in e.mask
  <2>1. n = d
    BY <1>4 DEF Noted, c, d
  <2> QED
    BY <1>1, <1>3, <1>4, <2>1 DEF mask
<1>5. CASE Bit(i) \notin e.mask
  <2> DEFINE x == [d EXCEPT !.received = @ + 1]
  <2>1. n = storeRxFragment(x, m, i)
    BY <1>5 DEF Noted, c, d
  <2>2. /\ x.status = e.status /\ x.msg = e.msg /\ x.base = e.base
        /\ x.finger = e.finger /\ x.len = e.len /\ x.received = e.received + 1
        /\ x.expected = IF i = 0 THEN Count(m) ELSE e.expected
        /\ x.mask = mask \union {Bit(i)}
        /\ DOMAIN x = DOMAIN e
    BY <1>3 DEF EntryType
  <2> HIDE DEF x
  <2>3. ASSUME NEW z
        PROVE  LET q == [x EXCEPT !.buffer = z[1], !.lastLen = z[2]]
               IN /\ q.status = x.status /\ q.msg = x.msg /\ q.base = x.base
                  /\ q.finger = x.finger /\ q.len = x.len
                  /\ q.received = x.received /\ q.expected = x.expected
                  /\ q.mask = x.mask
    BY <2>2 DEF EntryType
  <2>4. \E z : n = [x EXCEPT !.buffer = z[1], !.lastLen = z[2]]
    <3> DEFINE index == x.finger + (i - x.base) * x.len
               stored == [k \in DOMAIN x.buffer |->
                            IF k \in index .. index + LenOf(m, i) - 1
                            THEN <<m, i * FragmentLen + k - index>>
                            ELSE x.buffer[k]]
               last == IF i = x.expected - 1 THEN LenOf(m, i) ELSE x.lastLen
    <3>1. n = [x EXCEPT !.buffer = stored, !.lastLen = last]
      BY <2>1, <2>2 DEF storeRxFragment, EntryType
    <3> HIDE DEF stored, last
    <3>2. <<stored, last>>[1] = stored /\ <<stored, last>>[2] = last
      OBVIOUS
    <3> QED
      BY <3>1, <3>2
  <2> QED
    BY <1>1, <1>5, <2>2, <2>3, <2>4 DEF mask
<1> QED
  BY <1>4, <1>5

\* A window that moves is full, and its message goes on after it.
LEMMA MoveShape ==
  ASSUME window \in WindowSizes, NEW e \in EntryType, Shape(e),
         NEW i \in Fragments(e.msg), WindowMoves(e, i)
  PROVE  LET x == moveRxWindow(e)
         IN /\ Shape(x)
            /\ x.status = e.status /\ x.msg = e.msg
            /\ x.base = e.base + window /\ x.base <= i /\ x.base > 0
            /\ x.received = e.received
            /\ x.mask = Mask(e.base + window, Count(e.msg))
            /\ Count(e.msg) > 1 /\ Count(e.msg) \in 1 .. 255
            /\ e.mask = AllBits /\ e.base \in Nat
<1> DEFINE x == moveRxWindow(e)
           c == Count(e.msg)
<1>1. /\ e.msg \in Messages /\ e.base \in Nat /\ i \in Nat /\ c \in 1 .. 255
      /\ i <= c - 1 /\ FragmentLen \in Nat /\ window \in 1 .. 8
  <2>1. e.msg \in Messages /\ e.base \in Nat
    BY DEF Shape, EntryType
  <2>2. c \in 1 .. 255 /\ FragmentLen \in Nat /\ window \in 1 .. 8
    BY <2>1, CountType, ReceiverAssumption
  <2> QED
    BY <2>1, <2>2 DEF Fragments
<1>2. e.mask = AllBits /\ e.base + window <= i /\ 0 \in e.mask
  BY WindowBits DEF WindowMoves
<1>3. c > 1 /\ e.expected = c /\ e.len = FragmentLen
  BY <1>1, <1>2 DEF Shape
<1>4. (e.base + window) * FragmentLen = e.base * FragmentLen + window * FragmentLen
  <2>1. window \in Nat
    BY <1>1
  <2> QED
    BY <1>1, <2>1, Distributes
<1>5. /\ x.status = e.status /\ x.msg = e.msg /\ x.base = e.base + window
      /\ x.finger = (e.base + window) * FragmentLen
      /\ x.expected = c /\ x.received = e.received /\ x.len = FragmentLen
      /\ x.mask = Mask(e.base + window, c)
  <2>1. e.finger = e.base * FragmentLen
    BY DEF Shape
  <2> QED
    BY <1>3, <1>4, <2>1 DEF moveRxWindow, EntryType
<1> HIDE DEF x, c
<1>6. x.base > 0 /\ x.base <= i /\ x.base <= c - 1 /\ x.base \in Nat
  BY <1>1, <1>2, <1>5
<1>7. x.base \in Fragments(x.msg)
  BY <1>5, <1>6 DEF Fragments, c
<1>8. Shape(x)
  BY <1>1, <1>5, <1>6, <1>7 DEF Shape, c
<1> QED
  BY <1>1, <1>2, <1>3, <1>5, <1>6, <1>8 DEF x, c

\* How many fragments an entry has noted, with a window of one or two: those
\* before its base, and those whose bits are set.
Tally(e) ==
  /\ e.base % window = 0 /\ e.mask \subseteq AllBits
  /\ e.received = e.base + (IF 0 \in e.mask THEN 1 ELSE 0)
                  + (IF 1 \in e.mask /\ e.base + 1 < Count(e.msg) THEN 1 ELSE 0)

\* The windows of which an entry has a tally.
SmallWindow == window \in {1, 2}

\* A window that moves leaves the tally right.
LEMMA MoveTally ==
  ASSUME SmallWindow, window \in WindowSizes, NEW e \in EntryType, Shape(e), Tally(e),
         NEW i \in Fragments(e.msg), WindowMoves(e, i)
  PROVE  Tally(moveRxWindow(e))
<1> DEFINE x == moveRxWindow(e)
           c == Count(e.msg)
<1>1. /\ x.msg = e.msg /\ x.base = e.base + window /\ x.base <= i
      /\ x.received = e.received /\ x.mask = Mask(e.base + window, c)
      /\ e.mask = AllBits /\ e.base \in Nat /\ c \in 1 .. 255
  BY MoveShape
<1>2. i \in Nat /\ i <= c - 1
  BY <1>1 DEF Fragments
<1>3. e.base % window = 0
  BY DEF Tally
<1>4. CASE window = 1
  <2>1. x.mask = {} /\ x.base % 1 = 0 /\ e.mask = {0}
    <3>1. x.mask = {}
      <4>1. ~(c < e.base + 1 + 1) /\ 1 .. 1 - 1 = {}
        BY <1>1, <1>2, <1>4
      <4> QED
        BY <1>1, <1>4, <4>1 DEF Mask
    <3>2. x.base % 1 = 0
      BY <1>1, <1>4
    <3>3. 0 .. 1 - 1 = {0}
      OBVIOUS
    <3> QED
      BY <1>1, <1>4, <3>1, <3>2, <3>3 DEF AllBits
  <2>2. e.received = e.base + 1
    BY <1>1, <2>1 DEF Tally
  <2> QED
    BY <1>1, <1>4, <2>1, <2>2 DEF Tally
<1>5. CASE window = 2
  <2>1. x.base % 2 = 0 /\ e.mask = {0, 1}
    <3>1. 0 .. 2 - 1 = {0, 1}
      OBVIOUS
    <3> QED
      BY <1>1, <1>3, <1>5, <3>1 DEF AllBits
  <2>2. e.received = e.base + 2
    BY <1>1, <1>2, <1>5, <2>1 DEF Tally
  <2>3. x.mask = {} \/ (x.mask = {1} /\ x.base + 1 = c)
    <3>1. CASE c < e.base + 2 + 2
      <4>1. c = e.base + 3 /\ c % 2 = 1
        BY <1>1, <1>2, <1>3, <1>5, <3>1
      <4> QED
        BY <1>1, <1>5, <3>1, <4>1 DEF Mask
    <3>2. CASE ~(c < e.base + 2 + 2)
      BY <1>1, <1>5, <3>2 DEF Mask
    <3> QED
      BY <3>1, <3>2
  <2>4. x.mask \subseteq AllBits
    BY <1>5, <2>3 DEF AllBits
  <2> QED
    BY <1>1, <1>5, <2>1, <2>2, <2>3, <2>4 DEF Tally
<1> QED
  BY <1>4, <1>5 DEF SmallWindow

\* An entry that has noted a fragment of its window; if it is the first one,
\* its length is that of the others.
LEMMA NotedShape ==
  ASSUME window \in WindowSizes, NEW e \in EntryType, Shape(e),
         NEW m, e.msg = m, NEW i \in Fragments(m), InWindow(e, i),
         i = 0 /\ Count(m) > 1 => e.len = FragmentLen,
         NEW n, n = Noted(e, m, i)
  PROVE  Shape(n) /\ (Complete(n) => n.base > 0 \/ 0 \in n.mask)
<1>1. /\ m \in Messages /\ e.base \in Fragments(m) /\ e.finger = e.base * FragmentLen
      /\ Count(m) \in 1 .. 255 /\ i \in Nat /\ e.base \in Nat /\ window \in 1 .. 8
      /\ e.mask \in Masks
  <2>1. m \in Messages
    BY DEF Shape
  <2>2. Count(m) \in 1 .. 255
    BY <2>1, CountType
  <2> QED
    BY <2>1, <2>2, WindowBits DEF Shape, Fragments, EntryType
<1>2. e.base <= i /\ i < e.base + window
  BY <1>1 DEF InWindow
<1>3. /\ n \in EntryType
      /\ n.status = e.status /\ n.msg = m /\ n.base = e.base
      /\ n.finger = e.finger /\ n.len = e.len
      /\ n.expected = IF i = 0 THEN Count(m) ELSE e.expected
      /\ n.mask = {Bit(i)} \union (IF i = 0 /\ Count(m) < window
                                   THEN Mask(e.base, Count(m)) ELSE e.mask)
      /\ n.received = IF Bit(i) \in e.mask THEN e.received ELSE e.received + 1
  BY <1>1, NotedFields
<1>4. CASE e.base > 0
  <2>1. i # 0 /\ e.expected = Count(m) /\ (Count(m) > 1 => e.len = FragmentLen)
    BY <1>1, <1>2, <1>4 DEF Shape
  <2> QED
    BY <1>1, <1>3, <1>4, <2>1 DEF Shape
<1>5. CASE e.base = 0 /\ i = 0
  <2>1. 0 \in n.mask /\ n.expected = Count(m)
    <3>1. Bit(0) = 0
      BY <1>1, WindowBits
    <3> QED
      BY <1>3, <1>5, <3>1
  <2> QED
    BY <1>1, <1>3, <1>5, <2>1 DEF Shape
<1>6. CASE e.base = 0 /\ i # 0 /\ 0 \in e.mask
  <2>1. e.expected = Count(m) /\ (Count(m) > 1 => e.len = FragmentLen)
    BY <1>6 DEF Shape
  <2> QED
    BY <1>1, <1>3, <1>6, <2>1 DEF Shape
<1>7. CASE e.base = 0 /\ i # 0 /\ 0 \notin e.mask
  <2>1. e.expected = Unknown /\ e.status = "IN_USE" /\ e.received = Cardinality(e.mask)
    BY <1>7 DEF Shape
  <2>2. Bit(i) = i
    BY <1>1, <1>2, <1>7, WindowBits
  <2>3. n.mask = e.mask \union {i} /\ 0 \notin n.mask /\ n.expected = Unknown
    BY <1>3, <1>7, <2>1, <2>2
  <2>4. n.received = Cardinality(n.mask)
    <3>1. CASE i \in e.mask
      <4>1. n.mask = e.mask
        BY <2>3, <3>1
      <4> QED
        BY <1>3, <2>1, <2>2, <3>1, <4>1
    <3>2. CASE i \notin e.mask
      <4>1. Cardinality(e.mask \union {i}) = Cardinality(e.mask) + 1
        BY <1>1, <3>2, MaskCounts
      <4> QED
        BY <1>3, <2>1, <2>2, <2>3, <3>2, <4>1
    <3> QED
      BY <3>1, <3>2
  <2>5. ~Complete(n)
    <3>1. n.mask \in Masks
      BY <1>3 DEF EntryType
    <3>2. Cardinality(n.mask) \in 0 .. 8
      BY <3>1, MaskCounts
    <3> QED
      BY <2>3, <2>4, <3>2 DEF Complete, Unknown
  <2> QED
    BY <1>1, <1>3, <1>7, <2>1, <2>3, <2>4, <2>5 DEF Shape
<1> QED
  BY <1>1, <1>4, <1>5, <1>6, <1>7

\* With a small window, noting a fragment counts it once.
LEMMA NotedTally ==
  ASSUME SmallWindow, window \in WindowSizes, NEW e \in EntryType, Shape(e), Tally(e),
         NEW m, e.msg = m, NEW i \in Fragments(m), InWindow(e, i),
         NEW n, n = Noted(e, m, i)
  PROVE  Tally(n)
<1>1. /\ m \in Messages /\ e.base \in Fragments(m)
      /\ Count(m) \in 1 .. 255 /\ i \in Nat /\ e.base \in Nat /\ i <= Count(m) - 1
  <2>1. m \in Messages
    BY DEF Shape
  <2>2. Count(m) \in 1 .. 255
    BY <2>1, CountType
  <2> QED
    BY <2>1, <2>2 DEF Shape, Fragments, EntryType
<1>2. e.base <= i /\ i < e.base + window
  BY <1>1 DEF InWindow, SmallWindow
<1>3. /\ n.msg = m /\ n.base = e.base
      /\ n.mask = {Bit(i)} \union (IF i = 0 /\ Count(m) < window
                                   THEN Mask(e.base, Count(m)) ELSE e.mask)
      /\ n.received = IF Bit(i) \in e.mask THEN e.received ELSE e.received + 1
  BY <1>1, NotedFields
<1>4. /\ e.base % window = 0 /\ e.mask \subseteq AllBits
      /\ e.received = e.base + (IF 0 \in e.mask THEN 1 ELSE 0)
                      + (IF 1 \in e.mask /\ e.base + 1 < Count(m) THEN 1 ELSE 0)
  BY DEF Tally
<1>5. CASE window = 1
  <2>1. AllBits = {0} /\ Bit(i) = 0 /\ ~(Count(m) < window)
    <3>1. AllBits = {0} /\ Bit(i) = 0
      BY <1>1, <1>5, OneFragmentWindow, Zenon
    <3> QED
      BY <1>1, <1>5, <3>1
  <2> QED
    BY <1>1, <1>3, <1>4, <2>1 DEF Tally
<1>6. CASE window = 2
  <2>1. AllBits = {0, 1}
    <3>1. 0 .. 2 - 1 = {0, 1}
      OBVIOUS
    <3> QED
      BY <1>6, <3>1 DEF AllBits
  <2>2. CASE i = 0 /\ Count(m) < 2
    <3>1. e.base = 0 /\ Count(m) = 1
      BY <1>1, <1>2, <2>2
    <3>2. Mask(0, 1) = {1} /\ Bit(0) = 0
      <4>1. 1 % 2 = 1 /\ 1 .. 2 - 1 = {1} /\ 0 % 2 = 0 /\ 1 < 0 + 2
        OBVIOUS
      <4> QED
        BY <1>6, <4>1 DEF Mask, Bit
    <3>3. n.mask = {0, 1}
      BY <1>3, <1>6, <2>2, <3>1, <3>2
    <3>4. n.received = 1
      BY <1>3, <1>4, <2>2, <3>1, <3>2
    <3> QED
      BY <1>3, <1>4, <2>1, <3>1, <3>3, <3>4 DEF Tally
  <2>3. CASE ~(i = 0 /\ Count(m) < 2)
    <3>1. n.mask = e.mask \union {Bit(i)}
      BY <1>3, <1>6, <2>3
    <3>2. (i = e.base /\ Bit(i) = 0) \/ (i = e.base + 1 /\ Bit(i) = 1)
      <4>1. e.base % 2 = 0 /\ (i = e.base \/ i = e.base + 1)
        BY <1>1, <1>2, <1>4, <1>6
      <4>2. (i = e.base => i % 2 = 0) /\ (i = e.base + 1 => i % 2 = 1)
        BY <1>1, <4>1
      <4>3. Bit(i) = i % 2
        BY <1>6 DEF Bit
      <4> QED
        BY <4>1, <4>2, <4>3
    <3>3. CASE i = e.base /\ Bit(i) = 0
      <4>1. n.received = e.base + 1 + (IF 1 \in e.mask /\ e.base + 1 < Count(m) THEN 1 ELSE 0)
        BY <1>1, <1>3, <1>4, <3>3
      <4> QED
        BY <1>1, <1>3, <1>4, <2>1, <3>1, <3>3, <4>1 DEF Tally
    <3>4. CASE i = e.base + 1 /\ Bit(i) = 1
      <4>1. n.received = e.base + (IF 0 \in e.mask THEN 1 ELSE 0) + 1
        BY <1>1, <1>3, <1>4, <3>4
      <4> QED
        BY <1>1, <1>3, <1>4, <2>1, <3>1, <3>4, <4>1 DEF Tally
    <3> QED
      BY <3>2, <3>3, <3>4
  <2> QED
    BY <2>2, <2>3
<1> QED
  BY <1>5, <1>6 DEF SmallWindow

\* The reply of an entry that holds y afterwards.
Answers(y, m, i) ==
  /\ Bit(i) \in y.mask /\ Replies(y, i) /\ (Complete(y) => y.status = "ACKED")
  /\ acks' = acks \union (transit \intersect ({m} \X Acknowledged(y)))

\* What the handler does to entry r with fragment i of message m, when it goes
\* on with the value e: y is what becomes of it.
Leaves(r, e, m, i, y) ==
  /\ y \in EntryType
  /\ rxPackets' \in {[Older EXCEPT ![r] = y], [rxPackets EXCEPT ![r] = y]}
  /\ \/ /\ y.status = "AVAILABLE" /\ e.status = "IN_USE"
        /\ UNCHANGED <<acks, arrived>>
     \/ /\ y.msg = m /\ Shape(y)
        /\ \/ y.status = e.status /\ arrived' = arrived
           \/ /\ e.status = "IN_USE" /\ y.status = "ACKED" /\ Complete(y)
              /\ arrived' = [arrived EXCEPT ![m] = Again(@)]
        /\ acks' = acks \/ Answers(y, m, i)
        /\ SmallWindow /\ Tally(e) => Tally(y)
        /\ i = 0 /\ window <= Count(m)
             => y.base = e.base /\ y.mask \subseteq e.mask \union {0}

\* The handler, with a fragment inside of the window.
LEMMA InsideLeaves ==
  ASSUME TypeOK, NEW r \in Entries, NEW e \in EntryType, Shape(e),
         NEW m, e.msg = m, e.status # "AVAILABLE",
         NEW i \in Fragments(m), InWindow(e, i), NEW moved \in BOOLEAN,
         InsideWindow(r, e, m, i, moved)
  PROVE  \E y : Leaves(r, e, m, i, y)
<1> DEFINE takes == moved /\ i < e.expected - 1
           x == IF takes THEN [e EXCEPT !.len = LenOf(m, i)] ELSE e
           n == Noted(x, m, i)
           fits == (moved \/ LengthFits(e, m, i)) /\ FitsBuffer(e, m, i)
           whole == fits /\ Complete(n) /\ n.status = "IN_USE"
<1>1. /\ m \in Messages /\ Count(m) \in 1 .. 255 /\ i \in Nat /\ i <= Count(m) - 1
      /\ e.base \in Nat /\ window \in 1 .. 8 /\ window \in WindowSizes
      /\ e.status \in {"IN_USE", "ACKED"} /\ LenOf(m, i) \in Nat
      /\ FragmentLen \in Nat /\ e.base <= i
  <2>1. m \in Messages
    BY DEF Shape
  <2>2. Count(m) \in 1 .. 255 /\ LenOf(m, i) \in Nat
    BY <2>1, CountType, LenOfType
  <2>3. window \in 1 .. 8 /\ window \in WindowSizes /\ FragmentLen \in Nat
    BY WindowBits, ReceiverAssumption DEF TypeOK
  <2> QED
    BY <2>1, <2>2, <2>3 DEF InWindow, Fragments, EntryType, Statuses
<1>2. e.base > 0 \/ 0 \in e.mask
        => /\ e.expected = Count(m)
           /\ Count(m) > 1 => e.len = FragmentLen
  BY DEF Shape
<1>3. e.base = 0 /\ 0 \notin e.mask => e.expected = Unknown /\ e.status = "IN_USE"
  BY DEF Shape
<1>4. i < Count(m) - 1 => LenOf(m, i) = FragmentLen
  BY <1>1, Places
\* The length that the entry goes on with.
<1>5. /\ x \in EntryType /\ Shape(x) /\ x.msg = m /\ x.status = e.status
      /\ x.base = e.base /\ x.mask = e.mask
      /\ x.received = e.received
      /\ x.len = IF takes THEN LenOf(m, i) ELSE e.len
  <2>1. CASE ~takes
    BY <2>1
  <2>2. CASE takes
    <3> DEFINE w == [e EXCEPT !.len = LenOf(m, i)]
    <3>1. /\ w \in EntryType /\ w.status = e.status /\ w.msg = m
          /\ w.base = e.base /\ w.mask = e.mask /\ w.received = e.received
          /\ w.finger = e.finger /\ w.len = LenOf(m, i) /\ w.expected = e.expected
      BY <1>1 DEF EntryType
    <3> HIDE DEF w
    <3>2. Shape(w)
      BY <1>1, <1>2, <1>4, <2>2, <3>1 DEF Shape
    <3> QED
      BY <2>2, <3>1, <3>2 DEF w
  <2> QED
    BY <2>1, <2>2
<1>6. FitsBuffer(e, m, i)
  <2>1. e.base * FragmentLen <= i * FragmentLen /\ e.base * FragmentLen \in Nat
          /\ i * FragmentLen \in Nat
    <3>1. i - e.base \in Nat /\ (i - e.base) + e.base = i
      BY <1>1
    <3> DEFINE d == i - e.base
    <3> HIDE DEF d
    <3>2. (d + e.base) * FragmentLen = d * FragmentLen + e.base * FragmentLen
          /\ d * FragmentLen \in Nat /\ e.base * FragmentLen \in Nat
      <4>1. d \in Nat
        BY <3>1 DEF d
      <4> QED
        BY <1>1, <4>1, Distributes
    <3> QED
      BY <1>1, <3>1, <3>2 DEF d
  <2>2. i * FragmentLen + LenOf(m, i) <= Length[m] /\ Length[m] <= BufferSize
    BY <1>1, Places
  <2>3. Length[m] \in Nat /\ BufferSize \in Nat /\ e.finger = e.base * FragmentLen
    BY <1>1, ReceiverAssumption DEF Shape
  <2> QED
    BY <1>1, <2>1, <2>2, <2>3 DEF FitsBuffer
<1>7. fits => (i = 0 /\ Count(m) > 1 => x.len = FragmentLen)
  <2> SUFFICES ASSUME fits, i = 0, Count(m) > 1 PROVE x.len = FragmentLen
    OBVIOUS
  <2>1. LenOf(m, i) = FragmentLen /\ e.base = 0
    BY <1>1, <1>4
  <2>2. CASE 0 \in e.mask
    BY <1>2, <1>5, <2>1, <2>2
  <2>3. CASE 0 \notin e.mask
    <3>1. i < e.expected - 1
      BY <1>3, <2>1, <2>3 DEF Unknown
    <3> QED
      BY <1>5, <2>1, <3>1 DEF LengthFits
  <2> QED
    BY <2>2, <2>3
<1>8. e.status = "ACKED" => fits
  <2> SUFFICES ASSUME e.status = "ACKED" PROVE LengthFits(e, m, i)
    BY <1>6
  <2>1. e.expected = Count(m) /\ (Count(m) > 1 => e.len = FragmentLen)
    BY <1>1, <1>2, <1>3
  <2> QED
    BY <1>1, <1>4, <2>1 DEF LengthFits
<1> HIDE DEF x
<1>9. /\ n \in EntryType
      /\ n.status = x.status /\ n.msg = x.msg /\ n.base = x.base
      /\ n.mask = {Bit(i)} \union (IF i = 0 /\ Count(m) < window
                                   THEN Mask(x.base, Count(m)) ELSE x.mask)
  BY <1>1, <1>5, NotedFields
<1>10. /\ rxPackets' = IF whole THEN [Older EXCEPT ![r] = Kept(n)]
                       ELSE [rxPackets EXCEPT ![r] = IF fits THEN n ELSE Aborted(e)]
       /\ acks' = IF fits /\ Replies(n, i)
                  THEN acks \union (transit \intersect ({m} \X Acknowledged(n)))
                  ELSE acks
       /\ arrived' = IF whole THEN [arrived EXCEPT ![m] = Again(@)] ELSE arrived
  BY DEF InsideWindow, n, x
<1>11. fits => Shape(n) /\ (Complete(n) => n.base > 0 \/ 0 \in n.mask)
  <2>1. InWindow(x, i)
    BY <1>5 DEF InWindow
  <2> QED
    BY <1>1, <1>5, <1>7, <2>1, NotedShape
<1>12. SmallWindow /\ Tally(e) => Tally(n)
  <2> SUFFICES ASSUME SmallWindow, Tally(e) PROVE Tally(n)
    OBVIOUS
  <2>1. InWindow(x, i) /\ Tally(x)
    BY <1>5 DEF InWindow, Tally
  <2> QED
    BY <1>1, <1>5, <2>1, NotedTally
<1>13. i = 0 /\ window <= Count(m)
         => n.base = e.base /\ n.mask \subseteq e.mask \union {0}
  <2> SUFFICES ASSUME i = 0, window <= Count(m)
               PROVE  n.base = e.base /\ n.mask \subseteq e.mask \union {0}
    OBVIOUS
  <2>1. Bit(i) = 0 /\ ~(Count(m) < window)
    <3>1. Bit(0) = 0
      BY <1>1, WindowBits
    <3> QED
      BY <1>1, <3>1
  <2> QED
    BY <1>5, <1>9, <2>1
<1> HIDE DEF n, fits
<1>14. CASE whole
  <2> DEFINE y == Kept(n)
  <2>1. /\ y \in EntryType /\ y.status = "ACKED" /\ y.msg = n.msg /\ y.base = n.base
        /\ y.mask = n.mask /\ y.received = n.received /\ y.expected = n.expected
        /\ y.finger = n.finger /\ y.len = n.len
    <3>1. "ACKED" \in Statuses /\ 0 \in Ages
      BY ReceiverAssumption DEF Statuses, Ages
    <3> QED
      BY <1>9, <3>1 DEF Kept, EntryType
  <2> HIDE DEF y
  <2>2. /\ Complete(y) /\ (Replies(y, i) <=> Replies(n, i))
        /\ Acknowledged(y) = Acknowledged(n) /\ (Tally(n) => Tally(y))
    BY <1>14, <2>1 DEF Complete, Replies, Acknowledged, Tally
  <2>3. Shape(y)
    BY <1>11, <1>14, <2>1 DEF Shape
  <2>4. rxPackets' = [Older EXCEPT ![r] = y]
    BY <1>10, <1>14 DEF y
  <2>5. acks' = acks \/ Answers(y, m, i)
    BY <1>9, <1>10, <2>1, <2>2 DEF Answers
  <2>6. e.status = "IN_USE" /\ arrived' = [arrived EXCEPT ![m] = Again(@)] /\ y.msg = m
    BY <1>5, <1>9, <1>10, <1>14, <2>1
  <2>7. Leaves(r, e, m, i, y)
    BY <1>12, <1>13, <2>1, <2>2, <2>3, <2>4, <2>5, <2>6 DEF Leaves
  <2> QED
    BY <2>7
<1>15. CASE fits /\ ~whole
  <2>1. rxPackets' = [rxPackets EXCEPT ![r] = n] /\ arrived' = arrived
    BY <1>10, <1>15
  <2>2. n.status = e.status /\ n.msg = m /\ (Complete(n) => n.status = "ACKED")
    BY <1>1, <1>5, <1>9, <1>15
  <2>3. acks' = acks \/ Answers(n, m, i)
    BY <1>9, <1>10, <2>2 DEF Answers
  <2>4. Leaves(r, e, m, i, n)
    BY <1>9, <1>11, <1>12, <1>13, <1>15, <2>1, <2>2, <2>3 DEF Leaves
  <2> QED
    BY <2>4
<1>16. CASE ~fits
  <2> DEFINE y == Aborted(e)
  <2>1. y \in EntryType /\ y.status = "AVAILABLE" /\ e.status = "IN_USE"
    BY <1>1, <1>8, <1>16, EmptyType DEF Aborted, EmptyEntry
  <2>2. rxPackets' = [rxPackets EXCEPT ![r] = y] /\ UNCHANGED <<acks, arrived>>
    BY <1>10, <1>16
  <2>3. Leaves(r, e, m, i, y)
    BY <2>1, <2>2 DEF Leaves
  <2> QED
    BY <2>3
<1> QED
  BY <1>14, <1>15, <1>16

\* The same with the window moved first, or not.
LEMMA ProcessLeaves ==
  ASSUME TypeOK, NEW r \in Entries, NEW e \in EntryType, Shape(e),
         NEW m, e.msg = m, e.status # "AVAILABLE", NEW i \in Fragments(m),
         Process(r, e, m, i)
  PROVE  \E y : Leaves(r, e, m, i, y)
<1> DEFINE moves == WindowMoves(e, i)
           x == IF moves THEN moveRxWindow(e) ELSE e
           moved == rxWindowMoved \/ moves
<1>1. x \in EntryType /\ moved \in BOOLEAN /\ window \in WindowSizes
  <2>1. x \in EntryType
    BY WindowTypes DEF TypeOK
  <2>2. moved \in BOOLEAN
    BY Zenon
  <2> QED
    BY <2>1, <2>2 DEF TypeOK
<1>2. /\ Shape(x) /\ x.msg = m /\ x.status = e.status
      /\ SmallWindow /\ Tally(e) => Tally(x)
      /\ i = 0 => x = e
  <2>1. CASE moves
    <3>1. Shape(x) /\ x.msg = m /\ x.status = e.status /\ x.base > 0 /\ x.base <= i
      BY <1>1, <2>1, MoveShape
    <3>2. SmallWindow /\ Tally(e) => Tally(x)
      BY <1>1, <2>1, MoveTally
    <3>3. i # 0
      BY <1>1, <3>1 DEF EntryType
    <3> QED
      BY <3>1, <3>2, <3>3
  <2>2. CASE ~moves
    BY <2>2
  <2> QED
    BY <2>1, <2>2
<1>3. \/ InWindow(x, i) /\ InsideWindow(r, x, m, i, moved)
      \/ /\ rxPackets' = [rxPackets EXCEPT ![r] = x]
         /\ UNCHANGED <<acks, arrived>>
  BY DEF Process
<1> HIDE DEF x, moved
<1>4. CASE InWindow(x, i) /\ InsideWindow(r, x, m, i, moved)
  <2>1. PICK y : Leaves(r, x, m, i, y)
    BY <1>1, <1>2, <1>4, InsideLeaves
  <2>2. Leaves(r, e, m, i, y)
    BY <1>2, <2>1 DEF Leaves
  <2> QED
    BY <2>2
<1>5. CASE /\ rxPackets' = [rxPackets EXCEPT ![r] = x]
           /\ UNCHANGED <<acks, arrived>>
  <2>1. Leaves(r, e, m, i, x)
    BY <1>1, <1>2, <1>5 DEF Leaves
  <2> QED
    BY <2>1
<1> QED
  BY <1>3, <1>4, <1>5

\* An entry that is opened for the first fragment that comes.
LEMMA NewShape ==
  ASSUME window \in WindowSizes, NEW e, NEW m \in Messages, NEW k,
         NEW x, x = NewEntry(e, m, k)
  PROVE  /\ x.status = "IN_USE" /\ x.msg = m /\ x.base = 0 /\ x.mask = {}
         /\ Shape(x) /\ (SmallWindow => Tally(x))
<1>1. /\ x.status = "IN_USE" /\ x.msg = m /\ x.base = 0 /\ x.finger = 0
      /\ x.expected = Unknown /\ x.received = 0 /\ x.mask = Mask(0, Unknown)
  BY DEF NewEntry, EmptyEntry
<1>2. x.mask = {} /\ window \in 1 .. 8
  BY <1>1, WindowBits
<1>3. 0 \in Fragments(m) /\ 0 * FragmentLen = 0 /\ 0 % window = 0
  <2>1. 0 \in Fragments(m)
    BY CountType DEF Fragments
  <2>2. 0 * FragmentLen = 0
    BY ReceiverAssumption
  <2>3. 0 % window = 0
    BY <1>2
  <2> QED
    BY <2>1, <2>2, <2>3
<1>4. Cardinality({}) = 0
  BY FS_EmptySet
<1>5. Shape(x)
  BY <1>1, <1>2, <1>3, <1>4 DEF Shape
<1>6. Tally(x)
  <2>1. x.base % window = 0
    BY <1>1, <1>3
  <2>2. x.received = 0 /\ 0 + 0 + 0 = 0
    BY <1>1
  <2> QED
    BY <1>1, <1>2, <2>1, <2>2 DEF Tally
<1> QED
  BY <1>1, <1>2, <1>5, <1>6

\* A message has one entry of the receiver, and as long as one is kept it was
\* passed on once.
OnceInv ==
  /\ OneEntry
  /\ \A r \in Entries \ Available : Shape(rxPackets[r])
  /\ \A r \in Acked : arrived[rxPackets[r].msg] > 0
  /\ \A m \in Messages \ forgotten :
       arrived[m] > 0 =>
         arrived[m] = 1 /\ \E r \in Acked : rxPackets[r].msg = m

LEMMA OnceInitial ==
  Init => OnceInv
<1> SUFFICES ASSUME Init PROVE OnceInv
  OBVIOUS
<1>1. \A r \in Entries : rxPackets[r].status = "AVAILABLE"
  BY DEF Init, RxInit, EmptyEntry
<1> QED
  BY <1>1 DEF Init, OnceInv, OneEntry, Available, Acked

\* The entry that the handler goes on with: that of the message, or a new one
\* in the place of one that is free.
Taken(r, e, m) ==
  /\ e \in EntryType /\ Shape(e) /\ e.status # "AVAILABLE" /\ e.msg = m
  /\ \/ e = rxPackets[r] /\ UNCHANGED forgotten
     \/ /\ rxPacketLookUp(m) = {} /\ e.status = "IN_USE"
        /\ rxPackets[r].status \in {"AVAILABLE", "ACKED"}
        /\ Forgets(r) /\ e.base = 0 /\ e.mask = {} /\ (SmallWindow => Tally(e))

\* The handler goes on with an entry of the message, or does nothing.
LEMMA Handler ==
  ASSUME TypeOK, OnceInv, NEW m \in Messages, NEW i \in Fragments(m),
         IncomingMessage(m, i)
  PROVE  \/ UNCHANGED <<rxPackets, acks, arrived, forgotten>>
         \/ \E r \in Entries : \E e, y : Taken(r, e, m) /\ Leaves(r, e, m, i, y)
<1> DEFINE found == rxPacketLookUp(m)
           free == getFreeRxPacketEntry
           new == NewEntry(rxPackets[First(free)], m, LenOf(m, i))
<1>1. CASE /\ found # {} /\ UNCHANGED forgotten
           /\ Process(First(found), rxPackets[First(found)], m, i)
  <2> DEFINE r == First(found)
             e == rxPackets[r]
  <2>1. r \in found /\ r \in Entries
    BY <1>1, EntryFound
  <2>2. e \in EntryType /\ e.status # "AVAILABLE" /\ e.msg = m /\ Shape(e)
    BY <2>1 DEF rxPacketLookUp, Available, TypeOK, OnceInv
  <2>3. Process(r, e, m, i) /\ UNCHANGED forgotten /\ e = rxPackets[r]
    BY <1>1
  <2> HIDE DEF r, e, found
  <2>4. PICK y : Leaves(r, e, m, i, y)
    BY <2>1, <2>2, <2>3, ProcessLeaves
  <2>5. Taken(r, e, m)
    BY <2>2, <2>3 DEF Taken
  <2> QED
    BY <2>1, <2>4, <2>5
<1>2. CASE /\ found = {} /\ free # {} /\ i < window
           /\ Process(First(free), new, m, i) /\ Forgets(First(free))
  <2> DEFINE r == First(free)
  <2>1. r \in free /\ r \in Entries
    BY <1>2, EntryFound
  <2>2. rxPackets[r].status \in {"AVAILABLE", "ACKED"} /\ rxPackets[r] \in EntryType
    BY <2>1 DEF getFreeRxPacketEntry, Available, Acked, TypeOK
  <2>3. new \in EntryType
    BY <2>2, WindowTypes, LenOfType DEF TypeOK
  <2>4. /\ new.status = "IN_USE" /\ new.msg = m /\ new.base = 0 /\ new.mask = {}
        /\ Shape(new) /\ (SmallWindow => Tally(new))
    BY NewShape DEF TypeOK
  <2>5. Process(r, new, m, i) /\ Forgets(r) /\ rxPacketLookUp(m) = {}
    BY <1>2
  <2> HIDE DEF r, found, free, new
  <2>6. PICK y : Leaves(r, new, m, i, y)
    BY <2>1, <2>3, <2>4, <2>5, ProcessLeaves
  <2>7. Taken(r, new, m)
    BY <2>2, <2>3, <2>4, <2>5 DEF Taken
  <2> QED
    BY <2>1, <2>6, <2>7
<1>3. CASE UNCHANGED <<rxPackets, rxWindowMoved, acks, arrived, broken, forgotten>>
  BY <1>3
<1> QED
  BY <1>1, <1>2, <1>3 DEF IncomingMessage

\* What the handler does keeps OnceInv.
LEMMA LeavesOnce ==
  ASSUME TypeOK, OnceInv, NEW r \in Entries, NEW m \in Messages, NEW i, NEW e, NEW y,
         Taken(r, e, m), Leaves(r, e, m, i, y)
  PROVE  /\ OnceInv'
         /\ rxPackets'[r] = y /\ Entries' = Entries
         /\ \A q \in Entries \ {r} :
              /\ rxPackets'[q].status = rxPackets[q].status
              /\ rxPackets'[q].msg = rxPackets[q].msg
              /\ rxPackets'[q].base = rxPackets[q].base
              /\ rxPackets'[q].mask = rxPackets[q].mask
              /\ rxPackets'[q].received = rxPackets[q].received
<1> DEFINE p == rxPackets'
<1>1. ASSUME NEW q \in Entries
      PROVE  /\ Older[q].status = rxPackets[q].status /\ Older[q].msg = rxPackets[q].msg
             /\ Older[q].base = rxPackets[q].base /\ Older[q].mask = rxPackets[q].mask
             /\ Older[q].received = rxPackets[q].received
             /\ Shape(rxPackets[q]) => Shape(Older[q])
  <2>1. rxPackets[q] \in EntryType
    BY DEF TypeOK
  <2> DEFINE z == [rxPackets[q] EXCEPT !.age = (@ + 1) % AgeModulus]
  <2>2. /\ z.status = rxPackets[q].status /\ z.msg = rxPackets[q].msg
        /\ z.base = rxPackets[q].base /\ z.mask = rxPackets[q].mask
        /\ z.received = rxPackets[q].received
        /\ z.finger = rxPackets[q].finger /\ z.len = rxPackets[q].len
        /\ z.expected = rxPackets[q].expected
    BY <2>1 DEF EntryType
  <2>3. Older[q] \in {z, rxPackets[q]}
    BY DEF Older
  <2> HIDE DEF z
  <2>4. Shape(rxPackets[q]) => Shape(z)
    BY <2>2 DEF Shape
  <2> QED
    BY <2>2, <2>3, <2>4
<1>2. /\ y \in EntryType /\ p[r] = y
      /\ \A q \in Entries \ {r} : p[q] = rxPackets[q] \/ p[q] = Older[q]
  <2>1. \/ p = [Older EXCEPT ![r] = y]
        \/ p = [rxPackets EXCEPT ![r] = y]
    BY DEF Leaves
  <2>2. DOMAIN Older = Entries /\ DOMAIN rxPackets = Entries
    BY DEF Older, TypeOK
  <2> QED
    BY <2>1, <2>2 DEF Leaves
<1>3. \A q \in Entries \ {r} : /\ p[q].status = rxPackets[q].status
                               /\ p[q].msg = rxPackets[q].msg
                               /\ p[q].base = rxPackets[q].base
                               /\ p[q].mask = rxPackets[q].mask
                               /\ p[q].received = rxPackets[q].received
                               /\ Shape(rxPackets[q]) => Shape(p[q])
  BY <1>1, <1>2
<1>4. Entries' = Entries /\ p = rxPackets'
  BY DEF Entries, p
<1> HIDE DEF p
<1>5. \A x \in Messages : /\ arrived[x] \in 0 .. 2 /\ arrived'[x] \in 0 .. 2
                          /\ arrived[x] > 0 => arrived'[x] > 0
                          /\ x # m => arrived'[x] = arrived[x]
  BY DEF Leaves, TypeOK, Again
<1>6. /\ \A q \in Entries : q \in Acked <=> rxPackets[q].status = "ACKED"
      /\ \A q \in Entries : q \in Acked' <=> p[q].status = "ACKED"
      /\ \A q \in Entries : q \in Available <=> rxPackets[q].status = "AVAILABLE"
      /\ \A q \in Entries : q \in Available' <=> p[q].status = "AVAILABLE"
      /\ Acked \subseteq Entries /\ Acked' \subseteq Entries
  BY <1>4 DEF Acked, Available
<1>7. \A q \in Entries : q # r => /\ q \in Acked' <=> q \in Acked
                                 /\ q \in Available' <=> q \in Available
  BY <1>3, <1>6
\* The entry of the message, before and after.
<1>8. ASSUME NEW q \in Entries \ Available, rxPackets[q].msg = m
      PROVE  q = r /\ e = rxPackets[r] /\ r \notin Available /\ UNCHANGED forgotten
  <2>1. q \in rxPacketLookUp(m)
    BY <1>8 DEF rxPacketLookUp
  <2>2. e = rxPackets[r] /\ e.status # "AVAILABLE" /\ e.msg = m /\ UNCHANGED forgotten
    BY <2>1 DEF Taken
  <2> QED
    BY <1>6, <1>8, <2>2 DEF OnceInv, OneEntry
<1>9. y.status # "AVAILABLE" => y.msg = m /\ Shape(y)
  BY DEF Leaves, Taken
<1>10. \A q \in Entries \ Available' : Shape(p[q])
  BY <1>2, <1>3, <1>6, <1>7, <1>9 DEF OnceInv
<1>11. OneEntry'
  <2> SUFFICES ASSUME NEW q \in Entries, NEW s \in Entries,
                      q \notin Available', s \notin Available', p[q].msg = p[s].msg
               PROVE  q = s
    BY <1>4 DEF OneEntry
  <2>1. CASE q # r /\ s # r
    BY <1>3, <1>7, <2>1 DEF OnceInv, OneEntry
  <2>2. CASE q # r /\ s = r
    <3>1. q \in Entries \ Available /\ rxPackets[q].msg = m
      BY <1>2, <1>3, <1>6, <1>7, <1>9, <2>2
    <3> QED
      BY <1>8, <2>2, <3>1
  <2>3. CASE q = r /\ s # r
    <3>1. s \in Entries \ Available /\ rxPackets[s].msg = m
      BY <1>2, <1>3, <1>6, <1>7, <1>9, <2>3
    <3> QED
      BY <1>8, <2>3, <3>1
  <2> QED
    BY <2>1, <2>2, <2>3
<1>12. ASSUME NEW q \in Acked'
       PROVE  arrived'[p[q].msg] > 0
  <2>1. CASE q # r
    <3>1. /\ q \in Acked /\ p[q].msg = rxPackets[q].msg /\ q \in Entries
          /\ p[q].status = "ACKED" /\ q \in Entries \ Available
      BY <1>3, <1>6, <1>7, <2>1
    <3>2. p[q].msg \in Messages
      BY <3>1 DEF Shape, OnceInv
    <3> QED
      BY <1>5, <3>1, <3>2 DEF OnceInv
  <2>2. CASE q = r
    <3>1. y.status = "ACKED" /\ y.msg = m
      BY <1>2, <1>6, <1>9, <2>2
    <3>2. CASE arrived' = [arrived EXCEPT ![m] = Again(@)]
      BY <1>2, <2>2, <3>1, <3>2 DEF Again, TypeOK
    <3>3. CASE arrived' = arrived /\ y.status = e.status
      <4>1. e = rxPackets[r] /\ e.msg = m /\ r \in Acked
        BY <1>6, <3>1, <3>3 DEF Taken
      <4> QED
        BY <1>2, <2>2, <3>1, <3>3, <4>1 DEF OnceInv
    <3> QED
      BY <3>1, <3>2, <3>3 DEF Leaves
  <2> QED
    BY <2>1, <2>2
<1>13. /\ forgotten \subseteq forgotten'
       /\ r \in Acked /\ rxPackets[r].msg # m => rxPackets[r].msg \in forgotten'
  BY <1>6 DEF Forgets, Taken
<1>14. ASSUME NEW x \in Messages \ forgotten', arrived'[x] > 0
       PROVE  arrived'[x] = 1 /\ \E q \in Acked' : p[q].msg = x
  <2>0. x \notin forgotten
    BY <1>13
  <2>1. CASE x # m
    <3>1. arrived'[x] = 1 /\ \E q \in Acked : rxPackets[q].msg = x
      BY <1>5, <1>14, <2>0, <2>1 DEF OnceInv
    <3>2. PICK q \in Acked : rxPackets[q].msg = x
      BY <3>1
    <3>3. q # r
      BY <1>13, <2>1, <3>2
    <3>4. q \in Acked' /\ p[q].msg = x
      BY <1>3, <1>6, <1>7, <3>2, <3>3
    <3> QED
      BY <3>1, <3>4
  <2>2. CASE x = m /\ e.status = "IN_USE" /\ y.status = "ACKED" /\ y.msg = m
             /\ arrived' = [arrived EXCEPT ![m] = Again(@)]
    <3>1. arrived[m] = 0
      <4> SUFFICES ASSUME arrived[m] > 0 PROVE FALSE
        BY <1>5
      <4>1. PICK q \in Acked : rxPackets[q].msg = m
        BY <2>0, <2>2 DEF OnceInv
      <4>2. q \in Entries \ Available /\ rxPackets[q].status = "ACKED"
        BY <1>6, <4>1
      <4> QED
        BY <1>8, <2>2, <4>1, <4>2
    <3>2. arrived'[m] = 1
      BY <2>2, <3>1 DEF Again, TypeOK
    <3>3. r \in Acked' /\ p[r].msg = m
      BY <1>2, <1>6, <2>2
    <3> QED
      BY <2>2, <3>2, <3>3
  <2>3. CASE x = m /\ arrived' = arrived
             /\ ((y.status = e.status /\ y.msg = m) \/ e.status = "IN_USE")
    <3>1. arrived[m] = 1 /\ \E q \in Acked : rxPackets[q].msg = m
      BY <1>14, <2>0, <2>3 DEF OnceInv
    <3>2. PICK q \in Acked : rxPackets[q].msg = m
      BY <3>1
    <3>3. q \in Entries \ Available /\ rxPackets[q].status = "ACKED"
      BY <1>6, <3>2
    <3>4. q = r /\ e.status = "ACKED"
      BY <1>8, <3>2, <3>3
    <3>5. r \in Acked' /\ p[r].msg = m
      BY <1>2, <1>6, <2>3, <3>4
    <3> QED
      BY <2>3, <3>1, <3>5
  <2> QED
    BY <2>1, <2>2, <2>3 DEF Leaves
<1> QED
  BY <1>2, <1>3, <1>4, <1>10, <1>11, <1>12, <1>14 DEF OnceInv

\* The timer of an entry frees it.
LEMMA AbortFrees ==
  ASSUME TypeOK, NEW r \in Entries, AbortReception(r)
  PROVE  /\ rxPackets'[r].status = "AVAILABLE"
         /\ \A q \in Entries \ {r} : rxPackets'[q] = rxPackets[q]
         /\ Entries' = Entries /\ Acked' = Acked \ {r}
         /\ Available' = Available \union {r}
<1>1. rxPackets' = [rxPackets EXCEPT ![r] = Aborted(rxPackets[r])]
  BY DEF AbortReception
<1>2. Aborted(rxPackets[r]).status = "AVAILABLE"
  BY DEF Aborted, EmptyEntry
<1>3. /\ rxPackets'[r].status = "AVAILABLE"
      /\ \A q \in Entries \ {r} : rxPackets'[q] = rxPackets[q]
  BY <1>1, <1>2 DEF TypeOK
<1> QED
  BY <1>3 DEF Entries, Acked, Available

\* OnceInv is inductive.
LEMMA OnceStep ==
  TypeOK /\ OnceInv /\ [Next]_vars => OnceInv'
<1> SUFFICES ASSUME TypeOK, OnceInv, [Next]_vars PROVE OnceInv'
  OBVIOUS
<1>1. ASSUME UNCHANGED <<rxPackets, arrived, forgotten>>
      PROVE  OnceInv'
  BY <1>1 DEF OnceInv, OneEntry, Available, Acked, Entries
<1>2. ASSUME NEW m \in Messages, SendUnicast(m)
      PROVE  OnceInv'
  BY <1>1, <1>2 DEF SendUnicast, rxVars, historyVars
<1>3. ASSUME NEW f \in Frames, NEW ok \in BOOLEAN, MessageSent(f, ok)
      PROVE  OnceInv'
  BY <1>1, <1>3 DEF MessageSent, rxVars, historyVars
<1>4. ASSUME NEW f \in Frames, Receive(f)
      PROVE  OnceInv'
  <2>1. PICK m \in Messages : f \in {m} \X Fragments(m)
    BY DEF Frames
  <2>2. PICK i \in Fragments(m) : f = <<m, i>>
    BY <2>1
  <2>3. IncomingMessage(m, i)
    BY <1>4, <2>2 DEF Receive
  <2>4. CASE UNCHANGED <<rxPackets, acks, arrived, forgotten>>
    BY <1>1, <2>4
  <2>5. ASSUME NEW r \in Entries, NEW e, NEW y, Taken(r, e, m), Leaves(r, e, m, i, y)
        PROVE  OnceInv'
    BY <2>5, LeavesOnce
  <2> QED
    BY <2>3, <2>4, <2>5, Handler
<1>5. ASSUME NEW f \in Frames, CopyIsLost(f)
      PROVE  OnceInv'
  BY <1>1, <1>5 DEF CopyIsLost, rxVars, historyVars
<1>6. ASSUME NEW r \in Entries, AbortReception(r)
      PROVE  OnceInv'
  <2> DEFINE p == rxPackets'
  <2>1. Forgets(r) /\ UNCHANGED arrived
    BY <1>6 DEF AbortReception
  <2>2. /\ p[r].status = "AVAILABLE"
        /\ \A q \in Entries \ {r} : p[q] = rxPackets[q]
        /\ Entries' = Entries /\ Acked' = Acked \ {r} /\ Available' = Available \union {r}
    BY <1>6, AbortFrees
  <2>3. p = rxPackets'
    OBVIOUS
  <2> HIDE DEF p
  <2>4. \A q \in Entries \ Available' : Shape(p[q])
    BY <2>2 DEF OnceInv
  <2>5. OneEntry'
    BY <2>2, <2>3 DEF OneEntry, OnceInv
  <2>6. \A q \in Acked' : arrived'[p[q].msg] > 0
    BY <2>1, <2>2 DEF OnceInv, Acked
  <2>7. ASSUME NEW m \in Messages \ forgotten', arrived'[m] > 0
        PROVE  arrived'[m] = 1 /\ \E q \in Acked' : p[q].msg = m
    <3>1. m \notin forgotten /\ (r \in Acked => rxPackets[r].msg # m)
      BY <2>1, <2>7 DEF Forgets
    <3>2. arrived[m] = 1 /\ \E q \in Acked : rxPackets[q].msg = m
      BY <2>1, <2>7, <3>1 DEF OnceInv
    <3>3. PICK q \in Acked : rxPackets[q].msg = m
      BY <3>2
    <3>4. q \in Acked' /\ p[q].msg = m
      BY <2>2, <3>1, <3>3 DEF Acked
    <3> QED
      BY <2>1, <3>2, <3>4
  <2> QED
    BY <2>2, <2>3, <2>4, <2>5, <2>6, <2>7 DEF OnceInv
<1>7. CASE UNCHANGED vars
  BY <1>1, <1>7 DEF vars, rxVars, historyVars
<1> QED
  BY <1>2, <1>3, <1>4, <1>5, <1>6, <1>7 DEF Next

\* Whatever the window, no message is passed on twice while its entry is kept,
\* and none has two entries.
THEOREM OnceCorrect == Spec => [](PassedOnce /\ OneEntry)
<1>1. TypeOK /\ OnceInv => PassedOnce /\ OneEntry
  BY DEF TypeOK, OnceInv, PassedOnce
<1> QED
  BY TypeInit, TypeStep, OnceInitial, OnceStep, <1>1, PTL DEF Spec

-----------------------------------------------------------------------------
(* The two ends together, with a window of one or two fragments *)

\* A reply that acknowledges the first fragment of the last window comes from
\* an entry that has the whole message.
LEMMA LastAcked ==
  ASSUME SmallWindow, NEW y \in EntryType, Shape(y), Tally(y), NEW m, y.msg = m,
         NEW i \in Fragments(m), Answers(y, m, i),
         NEW b \in Fragments(m), b % window = 0, b + window >= Count(m),
         b \in Acknowledged(y)
  PROVE  Complete(y)
<1>1. /\ m \in Messages /\ Count(m) \in 1 .. 255 /\ y.base \in Nat
      /\ b \in Nat /\ b < Count(m) /\ i \in Nat /\ i < Count(m)
  <2>1. m \in Messages
    BY DEF Shape
  <2>2. Count(m) \in 1 .. 255
    BY <2>1, CountType
  <2> QED
    BY <2>1, <2>2 DEF Fragments, EntryType
<1>2. /\ b \in y.base .. y.base + window - 1 /\ Bit(b) \in y.mask
      /\ y.base % window = 0 /\ y.mask \subseteq AllBits
      /\ y.received = y.base + (IF 0 \in y.mask THEN 1 ELSE 0)
                      + (IF 1 \in y.mask /\ y.base + 1 < Count(m) THEN 1 ELSE 0)
  BY DEF Acknowledged, Tally
<1>3. y.base = b /\ Bit(b) = 0
  <2>1. CASE window = 1
    BY <1>1, <1>2, <2>1 DEF Bit
  <2>2. CASE window = 2
    <3>1. b % 2 = 0 /\ y.base % 2 = 0 /\ (b = y.base \/ b = y.base + 1)
      BY <1>1, <1>2, <2>2
    <3>2. b = y.base
      BY <1>1, <3>1
    <3>3. Bit(b) = b % 2
      BY <2>2 DEF Bit
    <3> QED
      BY <3>1, <3>2, <3>3
  <2> QED
    BY <2>1, <2>2 DEF SmallWindow
<1>4. 0 \in y.mask /\ y.expected = Count(m)
  BY <1>2, <1>3 DEF Shape
<1>5. window = 2 /\ b + 1 < Count(m) => 1 \in y.mask
  <2> SUFFICES ASSUME window = 2, b + 1 < Count(m) PROVE 1 \in y.mask
    OBVIOUS
  <2>1. Count(m) = b + 2
    BY <1>1
  <2>2. Bit(i) = i % 2 /\ Bit(i) \in {0, 1} /\ Bit(i) \in y.mask
    <3>1. Bit(i) = i % 2
      BY DEF Bit
    <3>2. i % 2 \in {0, 1}
      BY <1>1
    <3> QED
      BY <3>1, <3>2 DEF Answers
  <2>3. CASE i = y.expected - 1
    <3>1. i = b + 1 /\ b % 2 = 0
      BY <1>1, <1>4, <2>1, <2>3
    <3>2. i % 2 = 1
      BY <1>1, <3>1
    <3> QED
      BY <2>2, <3>2
  <2>4. CASE y.mask \union 0 .. Bit(i) - 1 = AllBits
    <3>1. 1 \in AllBits /\ 1 \notin 0 .. Bit(i) - 1
      BY <2>2 DEF AllBits
    <3> QED
      BY <2>4, <3>1
  <2> QED
    BY <2>3, <2>4 DEF Answers, Replies
<1>6. y.received = Count(m)
  <2>1. CASE window = 1
    <3>1. Count(m) = b + 1
      BY <1>1, <2>1
    <3> QED
      BY <1>1, <1>2, <1>3, <1>4, <3>1
  <2>2. CASE window = 2 /\ b + 1 < Count(m)
    <3>1. Count(m) = b + 2 /\ 1 \in y.mask
      BY <1>1, <1>5, <2>2
    <3> QED
      BY <1>1, <1>2, <1>3, <1>4, <3>1
  <2>3. CASE window = 2 /\ ~(b + 1 < Count(m))
    <3>1. Count(m) = b + 1
      BY <1>1, <2>3
    <3> QED
      BY <1>1, <1>2, <1>3, <1>4, <3>1
  <2> QED
    BY <2>1, <2>2, <2>3 DEF SmallWindow
<1> QED
  BY <1>4, <1>6 DEF Complete

\* The three ends of a sending.
LEMMA SendSmall ==
  ASSUME SmallWindow, window \in WindowSizes, NEW m \in Messages,
         NEW b \in Nat, NEW n \in Nat, NEW rest, NEW error,
         sendNextFragments(m, b, n, rest, error)
  PROVE  \/ /\ b >= Count(m)
            /\ transit' = rest /\ txPackets' = WithoutEntry(m)
            /\ phase' = [phase EXCEPT ![m] = "success"]
         \/ /\ b \in Fragments(m)
            /\ \/ transit' = rest
               \/ /\ window = 2 /\ b + 1 < Count(m)
                  /\ transit' = rest \union {<<m, b>>}
            /\ txPackets' = WithoutEntry(m)
            /\ phase' = [phase EXCEPT ![m] = error]
         \/ /\ b \in Fragments(m)
            /\ rest \subseteq transit' /\ transit' \subseteq rest \union Of(m)
            /\ <<m, b>> \in transit'
            /\ txPackets' = Entry(m, b, n)
            /\ phase' = [phase EXCEPT ![m] = "sending"]
<1> DEFINE all == WindowFrames(m, b)
           sent == {f \in all : f[2] < b + n}
<1>1. /\ n <= Cardinality(all)
      /\ transit' = rest \union sent
      /\ \/ /\ n < Cardinality(all) \/ all = {}
            /\ txPackets' = WithoutEntry(m)
            /\ phase' = [phase EXCEPT ![m] = IF all = {} THEN "success" ELSE error]
         \/ /\ ~(n < Cardinality(all) \/ all = {})
            /\ txPackets' = Entry(m, b, n)
            /\ phase' = [phase EXCEPT ![m] = "sending"]
  BY DEF sendNextFragments
<1>2. Count(m) \in 1 .. 255 /\ window \in {1, 2}
  BY CountType DEF SmallWindow
<1>3. /\ all \subseteq Of(m)
      /\ \A f \in all : f = <<m, f[2]>> /\ f[2] \in Nat /\ f[2] < Count(m)
                         /\ b <= f[2] /\ f[2] < b + window
      /\ \A k \in Nat : k < Count(m) /\ b <= k /\ k < b + window => <<m, k>> \in all
  BY <1>2 DEF WindowFrames, Of, Fragments
<1>4. IsFiniteSet(all) /\ Cardinality(all) \in Nat
  BY WindowFinite
<1> HIDE DEF all
<1>5. CASE all = {}
  <2>1. b >= Count(m)
    <3>1. b < Count(m) => <<m, b>> \in all
      BY <1>2, <1>3
    <3> QED
      BY <1>2, <1>5, <3>1
  <2>2. sent = {}
    BY <1>5
  <2> QED
    BY <1>1, <1>5, <2>1, <2>2
<1>6. CASE all # {}
  <2>1. b < Count(m) /\ b \in Fragments(m) /\ <<m, b>> \in all
    <3>1. PICK f \in all : TRUE
      BY <1>6
    <3>2. b < Count(m)
      BY <1>2, <1>3, <3>1
    <3> QED
      BY <1>2, <1>3, <3>2 DEF Fragments
  <2>2. CASE n < Cardinality(all)
    <3> DEFINE A == {<<m, b>>}
               B == A \union {<<m, b + 1>>}
    <3>1. all \subseteq B
      BY <1>2, <1>3
    <3>2. window = 1 \/ ~(b + 1 < Count(m)) => all \subseteq A
      BY <1>2, <1>3
    <3>3. IsFiniteSet(A) /\ Cardinality(A) = 1
      BY FS_Singleton, Zenon
    <3>4. <<m, b + 1>> \notin A
      OBVIOUS
    <3> HIDE DEF A
    <3>5. IsFiniteSet(B) /\ Cardinality(B) = 2
      <4>1. Cardinality(B) = Cardinality(A) + 1
        BY <3>3, <3>4, FS_AddElement
      <4>2. IsFiniteSet(B)
        BY <3>3, FS_AddElement, Zenon
      <4> HIDE DEF B
      <4> QED
        BY <3>3, <4>1, <4>2
    <3> HIDE DEF B
    <3>6. Cardinality(all) <= 2 /\ (all \subseteq A => Cardinality(all) <= 1)
      BY <3>1, <3>3, <3>5, FS_Subset
    <3>7. n = 0 \/ (n = 1 /\ ~(all \subseteq A))
      BY <1>4, <2>2, <3>6
    <3>8. CASE n = 0
      <4>1. sent = {}
        BY <1>2, <1>3, <3>8
      <4> QED
        BY <1>1, <1>6, <2>1, <2>2, <4>1
    <3>9. CASE n = 1 /\ ~(all \subseteq A)
      <4>1. window = 2 /\ b + 1 < Count(m)
        BY <1>2, <3>2, <3>9
      <4>2. sent = {<<m, b>>}
        <5>1. <<m, b>> \in sent
          BY <2>1, <3>9
        <5>2. \A f \in sent : f = <<m, b>>
          BY <1>2, <1>3, <3>9
        <5> QED
          BY <5>1, <5>2
      <4> QED
        BY <1>1, <1>6, <2>1, <2>2, <4>1, <4>2
    <3> QED
      BY <3>7, <3>8, <3>9
  <2>3. CASE ~(n < Cardinality(all))
    <3>1. n # 0
      <4>1. Cardinality(all) # 0
        BY <1>4, <1>6, FS_EmptySet
      <4> QED
        BY <1>1, <1>4, <2>3, <4>1
    <3>2. <<m, b>> \in sent
      BY <2>1, <3>1
    <3>3. sent \subseteq Of(m)
      BY <1>3
    <3> HIDE DEF sent
    <3> QED
      BY <1>1, <1>6, <2>1, <2>3, <3>2, <3>3
  <2> QED
    BY <2>2, <2>3
<1> QED
  BY <1>5, <1>6

\* The sender is at a window of each of its messages, and has heard of the
\* first fragment of the last window only if the message has arrived.
AtWindow(m, b) ==
  /\ b \in Fragments(m) /\ b % window = 0
  /\ b + window >= Count(m) /\ (<<m, b>> \notin transit \/ <<m, b>> \in acks)
       => arrived[m] > 0

\* A message that was refused after its first fragment was taken.
Stub(m) == window = 2 /\ Count(m) > 1

\* A message that is not sent is not in the air, and one that was refused has
\* left its first fragment there at most.
NothingUnsent ==
  \A f \in transit \union late :
    /\ phase[f[1]] # "unsent"
    /\ phase[f[1]] = "refused" => Stub(f[1]) /\ f[2] = 0

\* No entry is open for a message that is not sent, and that of a message that
\* was refused has its first fragment at most.
NothingOpened ==
  \A r \in Entries \ Available :
    LET e == rxPackets[r]
    IN /\ phase[e.msg] # "unsent"
       /\ phase[e.msg] = "refused"
            => Stub(e.msg) /\ e.base = 0 /\ 1 \notin e.mask /\ e.status = "IN_USE"

\* The invariant of the two ends together.
TransferInv ==
  /\ \A r \in Entries \ Available : Tally(rxPackets[r])
  /\ \A m \in InUse : AtWindow(m, txPackets[m].base)
  /\ \A m \in Messages : phase[m] = "success" => arrived[m] > 0
  /\ NothingUnsent
  /\ NothingOpened

\* The ends of a report on a fragment.
LEMMA ReportSmall ==
  ASSUME SmallWindow, TypeOK, SendInv, TransferInv, NEW m \in Messages,
         NEW f \in Own(m), NEW ok \in BOOLEAN, ok => f \in acks,
         Reported(m, transit \ {f}, ok), acks' = acks \ {f}, UNCHANGED <<window, arrived>>
  PROVE  \/ m \notin InUse /\ transit' = transit \ {f} /\ UNCHANGED txVars
         \/ /\ m \in InUse /\ transit' \subseteq (transit \ {f}) \union Of(m)
            /\ transit \ {f} \subseteq transit'
            /\ \/ /\ txPackets' = WithoutEntry(m)
                  /\ \/ phase' = [phase EXCEPT ![m] = "failure"]
                     \/ arrived[m] > 0 /\ phase' = [phase EXCEPT ![m] = "success"]
               \/ /\ UNCHANGED phase
                  /\ \E b \in Fragments(m), n \in Nat :
                       txPackets' = Entry(m, b, n) /\ AtWindow(m, b)'
<1> DEFINE e == txPackets[m]
           rest == transit \ {f}
<1>1. CASE m \notin InUse
  BY <1>1 DEF Reported
<1>2. CASE m \in InUse
  <2>1. /\ AtWindow(m, e.base) /\ phase[m] = "sending"
        /\ e.inTransit \in Nat /\ e.inTransit = Cardinality(Own(m))
        /\ window \in WindowSizes /\ window \in {1, 2}
    BY <1>2 DEF TransferInv, SendInv, EntriesHold, TypeOK, Own, Of, SmallWindow
  <2>2. /\ e.base \in Nat /\ e.base < Count(m) /\ e.base % window = 0
        /\ Count(m) \in 1 .. 255
    BY <2>1, CountType DEF AtWindow, Fragments
  <2>3. phase = [phase EXCEPT ![m] = "sending"]
    BY <2>1 DEF TypeOK
  <2>4. rest \subseteq rest \union Of(m) /\ rest = transit \ {f}
    OBVIOUS
  <2>5. CASE abortTransmission(m) /\ transit' = rest
    BY <1>2, <2>4, <2>5 DEF abortTransmission
  <2>6. CASE /\ ok /\ e.inTransit = 1
             /\ \E n \in 0 .. window :
                  sendNextFragments(m, e.base + window, n, rest, "failure")
    <3>0. PICK b \in Nat : b = e.base + window
      <4>1. e.base + window \in Nat
        BY <2>1, <2>2
      <4> QED
        BY <4>1
    <3>1. PICK n \in 0 .. window : sendNextFragments(m, b, n, rest, "failure")
      BY <2>6, <3>0
    <3>2. n \in Nat /\ b % window = 0
      <4>1. n \in Nat
        BY <2>1, <3>1
      <4>2. CASE window = 1
        BY <4>2
      <4>3. CASE window = 2
        BY <2>2, <3>0, <4>3
      <4> QED
        BY <2>1, <4>1, <4>2, <4>3
    <3>3. Own(m) = {f}
      <4>1. IsFiniteSet(Own(m))
        BY FramesFinite, FS_Subset DEF Own, Of
      <4>2. Cardinality(Own(m)) = 1
        BY <2>1, <2>6
      <4>3. PICK x : Own(m) = {x}
        BY <4>1, <4>2, FS_Singleton, Zenon
      <4> QED
        BY <4>3
    <3>4. <<m, b>> \in Of(m) => <<m, b>> \notin acks'
      BY <3>3 DEF TypeOK, Own
    <3>5. b >= Count(m) => arrived[m] > 0
      <4> SUFFICES ASSUME b >= Count(m) PROVE arrived[m] > 0
        OBVIOUS
      <4>1. <<m, e.base>> \in Of(m)
        BY <2>1 DEF AtWindow, Of
      <4>2. <<m, e.base>> \in transit => <<m, e.base>> \in acks
        BY <2>6, <3>3, <4>1 DEF Own
      <4> QED
        BY <2>1, <2>2, <3>0, <4>2 DEF AtWindow
    <3> HIDE DEF rest
    <3>6. \/ /\ b >= Count(m)
            /\ transit' = rest /\ txPackets' = WithoutEntry(m)
            /\ phase' = [phase EXCEPT ![m] = "success"]
         \/ /\ b \in Fragments(m)
            /\ \/ transit' = rest
               \/ transit' = rest \union {<<m, b>>}
            /\ txPackets' = WithoutEntry(m)
            /\ phase' = [phase EXCEPT ![m] = "failure"]
         \/ /\ b \in Fragments(m)
            /\ rest \subseteq transit' /\ transit' \subseteq rest \union Of(m)
            /\ <<m, b>> \in transit'
            /\ txPackets' = Entry(m, b, n)
            /\ phase' = [phase EXCEPT ![m] = "sending"]
      BY <2>1, <3>1, <3>2, SendSmall
    <3>7. b \in Fragments(m) => <<m, b>> \in Of(m)
      BY DEF Of
    <3>8. /\ transit' \subseteq rest \union Of(m) /\ rest \subseteq transit'
          /\ \/ /\ txPackets' = WithoutEntry(m)
               /\ \/ phase' = [phase EXCEPT ![m] = "failure"]
                  \/ arrived[m] > 0 /\ phase' = [phase EXCEPT ![m] = "success"]
            \/ /\ UNCHANGED phase /\ b \in Fragments(m)
               /\ txPackets' = Entry(m, b, n) /\ <<m, b>> \in transit'
      BY <2>3, <3>5, <3>6, <3>7
    <3>9. b \in Fragments(m) /\ <<m, b>> \in transit' => AtWindow(m, b)'
      BY <3>2, <3>4, <3>7 DEF AtWindow, Fragments, Count
    <3> QED
      BY <1>2, <2>4, <3>2, <3>8, <3>9
  <2>7. CASE /\ ok /\ e.inTransit # 1
             /\ txPackets' = Entry(m, e.base, e.inTransit - 1)
             /\ transit' = rest
             /\ UNCHANGED phase
    <3>1. e.inTransit - 1 \in Nat
      <4>1. IsFiniteSet(Own(m)) /\ f \in Own(m)
        BY FramesFinite, FS_Subset DEF Own, Of
      <4>2. e.inTransit # 0
        BY <2>1, <4>1, FS_EmptySet
      <4> QED
        BY <2>1, <4>2
    <3>2. \E b : b = e.base /\ AtWindow(m, b)'
      <4>0. PICK b : b = e.base
        OBVIOUS
      <4>1. b \in Fragments(m) /\ b % window = 0
            /\ (b + window >= Count(m) /\ (<<m, b>> \notin transit \/ <<m, b>> \in acks)
                 => arrived[m] > 0)
        BY <2>1, <4>0 DEF AtWindow
      <4>2. <<m, b>> \notin transit' => <<m, b>> \notin transit \/ <<m, b>> \in acks
        BY <2>7
      <4>3. <<m, b>> \in acks' => <<m, b>> \in acks
        OBVIOUS
      <4>4. AtWindow(m, b)'
        BY <4>1, <4>2, <4>3 DEF AtWindow, Fragments, Count
      <4> QED
        BY <4>0, <4>4
    <3> QED
      BY <1>2, <2>1, <2>4, <2>7, <3>1, <3>2 DEF AtWindow
  <2> QED
    BY <1>2, <2>5, <2>6, <2>7 DEF Reported
<1> QED
  BY <1>1, <1>2

\* A sender stays where it is as long as no fragment of it is taken from the
\* stack and none is acknowledged.
LEMMA StaysAtWindow ==
  ASSUME NEW m, NEW b, AtWindow(m, b), UNCHANGED window,
         <<m, b>> \in transit => <<m, b>> \in transit',
         <<m, b>> \in acks' => <<m, b>> \in acks,
         arrived[m] > 0 => arrived'[m] > 0
  PROVE  AtWindow(m, b)'
BY DEF AtWindow, Fragments, Count

\* The messages that arrived, as the abstract specification has them.
Got == {m \in Messages : arrived[m] > 0}

\* A message that is sent, or refused.
LEMMA SendTransfer ==
  ASSUME SmallWindow, TypeOK, SendInv, OnceInv, TransferInv,
         NEW m \in Messages, SendUnicast(m)
  PROVE  TransferInv' /\ Transfer!Next
<1>1. /\ phase[m] = "unsent" /\ m \notin InUse /\ Own(m) = {}
      /\ UNCHANGED <<window, rxPackets, late, acks, arrived>>
      /\ Entries' = Entries /\ Available' = Available
  BY DEF SendUnicast, rxVars, historyVars, SendInv, EntriesHold, Entries, Available
<1>2. \A f \in transit \union late : f[1] \in Messages /\ f[1] # m
  BY <1>1 DEF TransferInv, NothingUnsent, TypeOK, Frames
<1>3. \A r \in Entries \ Available : rxPackets[r].msg \in Messages \ {m}
  BY <1>1 DEF TransferInv, NothingOpened, OnceInv, Shape
<1>4. \/ /\ UNCHANGED <<txPackets, transit>>
         /\ phase' = [phase EXCEPT ![m] = "refused"]
      \/ /\ \/ transit' = transit
            \/ Stub(m) /\ transit' = transit \union {<<m, 0>>}
         /\ txPackets' = WithoutEntry(m)
         /\ phase' = [phase EXCEPT ![m] = "refused"]
      \/ /\ transit \subseteq transit' /\ transit' \subseteq transit \union Of(m)
         /\ <<m, 0>> \in transit' /\ 0 \in Fragments(m)
         /\ \E n \in Nat : txPackets' = Entry(m, 0, n)
         /\ phase' = [phase EXCEPT ![m] = "sending"]
  <2>1. CASE UNCHANGED <<txPackets, transit>> /\ phase' = [phase EXCEPT ![m] = "refused"]
    BY <2>1
  <2>2. CASE \E n \in 0 .. window : sendNextFragments(m, 0, n, transit, "refused")
    <3>1. PICK n \in 0 .. window : sendNextFragments(m, 0, n, transit, "refused")
      BY <2>2
    <3>2. n \in Nat /\ Count(m) \in 1 .. 255 /\ window \in WindowSizes
      BY <3>1, CountType DEF TypeOK, SmallWindow
    <3>3. \/ /\ 0 >= Count(m)
            /\ transit' = transit /\ txPackets' = WithoutEntry(m)
            /\ phase' = [phase EXCEPT ![m] = "success"]
         \/ /\ 0 \in Fragments(m)
            /\ \/ transit' = transit
               \/ /\ window = 2 /\ 0 + 1 < Count(m)
                  /\ transit' = transit \union {<<m, 0>>}
            /\ txPackets' = WithoutEntry(m)
            /\ phase' = [phase EXCEPT ![m] = "refused"]
         \/ /\ 0 \in Fragments(m)
            /\ transit \subseteq transit' /\ transit' \subseteq transit \union Of(m)
            /\ <<m, 0>> \in transit'
            /\ txPackets' = Entry(m, 0, n)
            /\ phase' = [phase EXCEPT ![m] = "sending"]
      BY <3>1, <3>2, SendSmall
    <3> QED
      BY <3>2, <3>3 DEF Stub
  <2> QED
    BY <2>1, <2>2 DEF SendUnicast
<1>5. /\ transit \subseteq transit' /\ transit' \subseteq transit \union Of(m)
      /\ phase'[m] \in {"refused", "sending"}
      /\ \A x \in Messages \ {m} : phase'[x] = phase[x]
      /\ phase' = [phase EXCEPT ![m] = "refused"] \/ phase' = [phase EXCEPT ![m] = "sending"]
      /\ \A f \in transit' \ transit :
           f[1] = m /\ (phase'[m] = "refused" => Stub(m) /\ f[2] = 0)
  <2>1. Stub(m) => <<m, 0>> \in Of(m)
    BY CountType DEF Of, Fragments, Stub
  <2> QED
    BY <1>4, <2>1 DEF TypeOK, Of
<1>6. \A x \in InUse' : AtWindow(x, txPackets[x].base)'
  <2> SUFFICES ASSUME NEW x \in InUse' PROVE AtWindow(x, txPackets[x].base)'
    OBVIOUS
  <2>1. InUse' = DOMAIN txPackets' /\ window \in {1, 2}
    BY DEF InUse, SmallWindow
  <2>2. CASE x # m
    <3>1. x \in InUse /\ txPackets'[x] = txPackets[x]
      BY <1>4, <2>1, <2>2 DEF Entry, WithoutEntry, InUse
    <3>2. PICK b : b = txPackets[x].base /\ AtWindow(x, b)
      BY <3>1 DEF TransferInv
    <3>3. AtWindow(x, b)'
      BY <1>1, <1>5, <3>2, StaysAtWindow
    <3> QED
      BY <3>1, <3>2, <3>3 DEF AtWindow
  <2>3. CASE x = m
    <3>1. /\ txPackets'[m].base = 0 /\ <<m, 0>> \in transit' /\ 0 \in Fragments(m)
      BY <1>1, <1>4, <2>1, <2>3 DEF Entry, WithoutEntry, InUse
    <3>2. <<m, 0>> \notin acks'
      BY <1>1, <3>1 DEF TypeOK, Own, Of
    <3>3. 0 % window = 0
      BY <2>1
    <3>4. AtWindow(m, 0)'
      BY <1>1, <3>1, <3>2, <3>3 DEF AtWindow, Fragments, Count
    <3> QED
      BY <2>3, <3>1, <3>4 DEF AtWindow
  <2> QED
    BY <2>2, <2>3
<1>7. NothingUnsent'
  <2>1. \A f \in transit \union late :
          /\ phase'[f[1]] = phase[f[1]]
          /\ phase[f[1]] # "unsent"
          /\ phase[f[1]] = "refused" => Stub(f[1]) /\ f[2] = 0
    BY <1>2, <1>5 DEF TransferInv, NothingUnsent
  <2>2. \A x : Stub(x)' = Stub(x)
    BY <1>1 DEF Stub, Count
  <2> QED
    BY <1>1, <1>5, <2>1, <2>2 DEF NothingUnsent
<1>8. NothingOpened'
  <2>1. \A x : Stub(x)' = Stub(x)
    BY <1>1 DEF Stub, Count
  <2>2. \A r \in Entries \ Available : phase'[rxPackets[r].msg] = phase[rxPackets[r].msg]
    BY <1>3, <1>5
  <2> QED
    BY <1>1, <2>1, <2>2 DEF TransferInv, NothingOpened
<1>9. \A x \in Messages : phase'[x] = "success" => arrived'[x] > 0
  BY <1>1, <1>5 DEF TransferInv
<1>10. \A r \in Entries' \ Available' : Tally(rxPackets[r])'
  BY <1>1 DEF TransferInv, Tally, AllBits, Count
<1>11. Transfer!Next
  <2>1. Transfer!Refuse(m) \/ Transfer!Send(m)
    BY <1>1, <1>5 DEF Transfer!Refuse, Transfer!Send, Transfer!Becomes
  <2> QED
    BY <2>1 DEF Transfer!Next
<1> QED
  BY <1>6, <1>7, <1>8, <1>9, <1>10, <1>11 DEF TransferInv

\* A report of the stack on a fragment.
LEMMA ReportTransfer ==
  ASSUME SmallWindow, TypeOK, SendInv, OnceInv, TransferInv,
         NEW f \in Frames, NEW ok \in BOOLEAN, MessageSent(f, ok)
  PROVE  TransferInv' /\ [Transfer!Next]_(Transfer!vars)
<1>1. PICK m \in Messages : f \in Of(m)
  BY DEF Frames, Of
<1>2. /\ f \in Own(m) /\ (ok => f \in acks) /\ Reported(m, transit \ {f}, ok)
      /\ late' \in {late, late \union {f}} /\ acks' = acks \ {f}
      /\ UNCHANGED <<window, rxPackets, arrived>>
      /\ Entries' = Entries /\ Available' = Available /\ f[1] = m
  BY <1>1 DEF MessageSent, rxVars, historyVars, Own, Of, Entries, Available
<1>3. /\ f \in transit /\ phase[m] # "unsent"
      /\ phase[m] = "refused" => Stub(m) /\ f[2] = 0
      /\ m \in InUse <=> phase[m] = "sending"
  BY <1>2 DEF TransferInv, NothingUnsent, Own, SendInv, EntriesHold
<1>4. \/ m \notin InUse /\ transit' = transit \ {f} /\ UNCHANGED txVars
      \/ /\ m \in InUse /\ transit' \subseteq (transit \ {f}) \union Of(m)
         /\ transit \ {f} \subseteq transit'
         /\ \/ /\ txPackets' = WithoutEntry(m)
               /\ \/ phase' = [phase EXCEPT ![m] = "failure"]
                  \/ arrived[m] > 0 /\ phase' = [phase EXCEPT ![m] = "success"]
            \/ /\ UNCHANGED phase
               /\ \E b \in Fragments(m), n \in Nat :
                    txPackets' = Entry(m, b, n) /\ AtWindow(m, b)'
  BY <1>2, ReportSmall
<1>5. /\ transit' \subseteq (transit \ {f}) \union Of(m)
      /\ transit \ {f} \subseteq transit'
      /\ \A x \in Messages \ {m} : phase'[x] = phase[x]
      /\ m \notin InUse => UNCHANGED txVars /\ transit' = transit \ {f}
      /\ m \in InUse => phase'[m] \notin {"unsent", "refused"}
      /\ phase'[m] = "success" => phase[m] = "success" \/ arrived[m] > 0
      /\ \/ UNCHANGED phase
         \/ m \in InUse /\ phase' = [phase EXCEPT ![m] = "failure"]
         \/ m \in InUse /\ arrived[m] > 0 /\ phase' = [phase EXCEPT ![m] = "success"]
  BY <1>3, <1>4 DEF TypeOK, txVars
<1>6. \A x \in InUse' : AtWindow(x, txPackets[x].base)'
  <2> SUFFICES ASSUME NEW x \in InUse' PROVE AtWindow(x, txPackets[x].base)'
    OBVIOUS
  <2>1. InUse' = DOMAIN txPackets'
    BY DEF InUse
  <2>2. CASE x # m
    <3>1. x \in InUse /\ txPackets'[x] = txPackets[x]
      BY <1>4, <2>1, <2>2 DEF Entry, WithoutEntry, InUse, txVars
    <3>2. PICK b : b = txPackets[x].base /\ AtWindow(x, b)
      BY <3>1 DEF TransferInv
    <3>3. <<x, b>> # f
      BY <1>2, <2>2
    <3>4. AtWindow(x, b)'
      BY <1>2, <1>5, <3>2, <3>3, StaysAtWindow
    <3> QED
      BY <3>1, <3>2, <3>4 DEF AtWindow
  <2>3. CASE x = m
    <3>1. m \in InUse /\ txPackets' # WithoutEntry(m)
      <4>1. m \notin InUse => txPackets' = txPackets
        BY <1>5 DEF txVars
      <4>2. m \in InUse
        BY <2>1, <2>3, <4>1 DEF InUse
      <4>3. m \notin DOMAIN WithoutEntry(m)
        BY DEF WithoutEntry
      <4> QED
        BY <2>1, <2>3, <4>2, <4>3
    <3>2. PICK b \in Fragments(m), n \in Nat : txPackets' = Entry(m, b, n) /\ AtWindow(m, b)'
      BY <1>4, <3>1
    <3>3. txPackets'[m].base = b
      BY <3>2 DEF Entry
    <3> QED
      BY <2>3, <3>2, <3>3 DEF AtWindow
  <2> QED
    BY <2>2, <2>3
<1>7. NothingUnsent'
  <2> SUFFICES ASSUME NEW g \in transit' \union late'
               PROVE  /\ phase'[g[1]] # "unsent"
                      /\ phase'[g[1]] = "refused" => Stub(g[1]) /\ g[2] = 0
    BY <1>2 DEF NothingUnsent, Stub, Count
  <2>1. \A h \in transit \union late :
          /\ h[1] \in Messages /\ phase[h[1]] # "unsent"
          /\ phase[h[1]] = "refused" => Stub(h[1]) /\ h[2] = 0
    BY DEF TransferInv, NothingUnsent, TypeOK, Frames
  <2>2. g \in transit \union late \/ (m \in InUse /\ g[1] = m)
    BY <1>2, <1>3, <1>5 DEF Of
  <2>3. CASE g[1] # m
    BY <1>5, <2>1, <2>2, <2>3
  <2>4. CASE g[1] = m /\ m \in InUse
    BY <1>5, <2>4
  <2>5. CASE g[1] = m /\ m \notin InUse
    <3>1. phase' = phase
      BY <1>5, <2>5 DEF txVars
    <3> QED
      BY <2>1, <2>2, <2>5, <3>1
  <2> QED
    BY <2>3, <2>4, <2>5
<1>8. NothingOpened'
  <2>1. \A x : Stub(x)' = Stub(x)
    BY <1>2 DEF Stub, Count
  <2>2. \A r \in Entries \ Available : rxPackets[r].msg \in Messages
    BY DEF OnceInv, Shape
  <2>3. m \notin InUse => phase' = phase
    BY <1>5 DEF txVars
  <2>4. \A r \in Entries \ Available :
          \/ phase'[rxPackets[r].msg] = phase[rxPackets[r].msg]
          \/ phase'[rxPackets[r].msg] \notin {"unsent", "refused"}
    BY <1>5, <2>2, <2>3
  <2> QED
    BY <1>2, <2>1, <2>4 DEF TransferInv, NothingOpened
<1>9. \A x \in Messages : phase'[x] = "success" => arrived'[x] > 0
  BY <1>2, <1>5 DEF TransferInv
<1>10. \A r \in Entries' \ Available' : Tally(rxPackets[r])'
  BY <1>2 DEF TransferInv, Tally, AllBits, Count
<1>11. [Transfer!Next]_(Transfer!vars)
  <2>1. CASE UNCHANGED phase
    BY <1>2, <2>1 DEF Transfer!vars
  <2>2. CASE m \in InUse /\ phase' = [phase EXCEPT ![m] = "failure"]
    <3>1. Transfer!Fail(m)
      BY <1>2, <1>3, <2>2 DEF Transfer!Fail, Transfer!Becomes
    <3> QED
      BY <3>1 DEF Transfer!Next
  <2>3. CASE m \in InUse /\ arrived[m] > 0 /\ phase' = [phase EXCEPT ![m] = "success"]
    <3>1. Transfer!Succeed(m)
      BY <1>2, <1>3, <2>3 DEF Transfer!Succeed, Transfer!Becomes
    <3> QED
      BY <3>1 DEF Transfer!Next
  <2> QED
    BY <1>5, <2>1, <2>2, <2>3
<1> QED
  BY <1>6, <1>7, <1>8, <1>9, <1>10, <1>11 DEF TransferInv

\* The acknowledgements that the handler adds are of its message, and that of
\* the first fragment of the last window is given when it has arrived.
LEMMA LeavesAcks ==
  ASSUME SmallWindow, TypeOK, OnceInv, TransferInv, NEW r \in Entries, NEW m \in Messages,
         NEW i \in Fragments(m), NEW e, NEW y, Taken(r, e, m), Leaves(r, e, m, i, y)
  PROVE  /\ y.status # "AVAILABLE" => Tally(y)
         /\ \A x, b : <<x, b>> \in acks' /\ <<x, b>> \notin acks => x = m
         /\ \A b \in Fragments(m) :
              /\ b % window = 0 /\ b + window >= Count(m)
              /\ <<m, b>> \in acks' /\ <<m, b>> \notin acks
              => arrived'[m] > 0
<1>1. Tally(e)
  <2>1. CASE e = rxPackets[r]
    <3>1. r \in Entries \ Available
      BY <2>1 DEF Taken, Available
    <3> QED
      BY <2>1, <3>1 DEF TransferInv
  <2> QED
    BY <2>1 DEF Taken
<1>2. y.status # "AVAILABLE" => Tally(y) /\ Shape(y) /\ y.msg = m
  BY <1>1 DEF Leaves, Taken
<1>3. \/ acks' = acks
      \/ y.status # "AVAILABLE" /\ Answers(y, m, i)
  BY DEF Leaves, Taken
<1>4. OnceInv' /\ rxPackets'[r] = y /\ Entries' = Entries
  BY LeavesOnce
<1>5. ASSUME NEW b \in Fragments(m), b % window = 0, b + window >= Count(m),
             <<m, b>> \in acks', <<m, b>> \notin acks
      PROVE  arrived'[m] > 0
  <2>1. y.status # "AVAILABLE" /\ Answers(y, m, i)
    BY <1>3, <1>5
  <2>2. b \in Acknowledged(y)
    BY <1>5, <2>1 DEF Answers
  <2>3. y \in EntryType
    BY DEF Leaves
  <2>4. Complete(y)
    BY <1>2, <1>5, <2>1, <2>2, <2>3, LastAcked
  <2>5. y.status = "ACKED"
    BY <2>1, <2>4 DEF Answers
  <2>6. r \in Acked'
    BY <1>4, <2>5 DEF Acked
  <2> QED
    BY <1>2, <1>4, <2>5, <2>6 DEF OnceInv
<1>6. \A x, b : <<x, b>> \in acks' /\ <<x, b>> \notin acks => x = m
  BY <1>3 DEF Answers
<1> QED
  BY <1>2, <1>5, <1>6

\* Nothing that TransferInv speaks of changes when nothing comes or goes.
LEMMA QuietTransfer ==
  ASSUME TransferInv, UNCHANGED <<window, rxPackets, txPackets, phase, transit, arrived>>,
         late' \subseteq late, acks' \subseteq acks
  PROVE  TransferInv' /\ [Transfer!Next]_(Transfer!vars)
<1>1. \A m \in InUse' : AtWindow(m, txPackets[m].base)'
  BY DEF TransferInv, AtWindow, InUse, Fragments, Count
<1>2. \A r \in Entries' \ Available' : Tally(rxPackets[r])'
  BY DEF TransferInv, Tally, AllBits, Count, Entries, Available
<1>3. NothingUnsent'
  BY DEF TransferInv, NothingUnsent, Stub, Count
<1>4. NothingOpened'
  BY DEF TransferInv, NothingOpened, Stub, Count, Entries, Available
<1>5. \A m \in Messages : phase'[m] = "success" => arrived'[m] > 0
  BY DEF TransferInv
<1> QED
  BY <1>1, <1>2, <1>3, <1>4, <1>5 DEF TransferInv, Transfer!vars

\* What the handler does keeps TransferInv, and the message that it passes on
\* was sent and was not refused.
LEMMA LeavesTransfer ==
  ASSUME SmallWindow, TypeOK, SendInv, OnceInv, TransferInv,
         NEW m \in Messages, NEW i \in Fragments(m), <<m, i>> \in transit \union late,
         NEW r \in Entries, NEW e, NEW y, Taken(r, e, m), Leaves(r, e, m, i, y),
         late' \subseteq late, UNCHANGED <<txVars, window, transit>>
  PROVE  /\ TransferInv'
         /\ arrived' = arrived \/ phase[m] # "refused"
<1> DEFINE p == rxPackets'
<1>1. /\ p[r] = y /\ Entries' = Entries
      /\ \A q \in Entries \ {r} :
           /\ p[q].status = rxPackets[q].status /\ p[q].msg = rxPackets[q].msg
           /\ p[q].base = rxPackets[q].base /\ p[q].mask = rxPackets[q].mask
           /\ p[q].received = rxPackets[q].received
  BY LeavesOnce
<1>2. /\ y.status # "AVAILABLE" => Tally(y)
      /\ \A x, b : <<x, b>> \in acks' /\ <<x, b>> \notin acks => x = m
      /\ \A b \in Fragments(m) :
           b % window = 0 /\ b + window >= Count(m)
             /\ <<m, b>> \in acks' /\ <<m, b>> \notin acks
           => arrived'[m] > 0
  BY LeavesAcks
<1>3. p = rxPackets' /\ UNCHANGED <<window, transit, phase, txPackets>>
  BY DEF p, txVars
<1> HIDE DEF p
<1>4. \A x \in Messages : /\ arrived[x] > 0 => arrived'[x] > 0
                          /\ x # m => arrived'[x] = arrived[x]
  BY DEF Leaves, TypeOK, Again
<1>5. /\ \A q \in Entries : q \in Available <=> rxPackets[q].status = "AVAILABLE"
      /\ \A q \in Entries : q \in Available' <=> p[q].status = "AVAILABLE"
  BY <1>1, <1>3 DEF Available
<1>6. \A x \in InUse' : AtWindow(x, txPackets[x].base)'
  <2> SUFFICES ASSUME NEW x \in InUse' PROVE AtWindow(x, txPackets[x].base)'
    OBVIOUS
  <2>1. x \in InUse /\ txPackets' = txPackets /\ x \in Messages
    BY <1>3 DEF InUse, TypeOK
  <2>2. PICK b : b = txPackets[x].base /\ AtWindow(x, b)
    BY <2>1 DEF TransferInv
  <2>3. CASE <<x, b>> \in acks' => <<x, b>> \in acks
    <3>1. AtWindow(x, b)'
      BY <1>3, <1>4, <2>1, <2>2, <2>3, StaysAtWindow
    <3> QED
      BY <2>1, <2>2, <3>1 DEF AtWindow
  <2>4. CASE <<x, b>> \in acks' /\ <<x, b>> \notin acks
    <3>1. x = m
      BY <1>2, <2>4
    <3>2. b \in Fragments(m) /\ b % window = 0 /\ (b + window >= Count(m) => arrived'[m] > 0)
      BY <1>2, <2>2, <2>4, <3>1 DEF AtWindow
    <3>3. AtWindow(m, b)'
      BY <1>3, <3>2 DEF AtWindow, Fragments, Count
    <3> QED
      BY <2>1, <2>2, <3>1, <3>3 DEF AtWindow
  <2> QED
    BY <2>3, <2>4
<1>7. \A q \in Entries' \ Available' : Tally(rxPackets[q])'
  <2> SUFFICES ASSUME NEW q \in Entries, q \notin Available'
               PROVE  Tally(rxPackets[q])'
    BY <1>1
  <2>1. CASE q = r
    <3>1. Tally(y) /\ p[q] = y
      BY <1>1, <1>2, <1>5, <2>1
    <3> QED
      BY <1>3, <3>1 DEF Tally, AllBits, Count
  <2>2. CASE q # r
    <3>1. Tally(rxPackets[q])
      BY <1>1, <1>5, <2>2 DEF TransferInv
    <3> QED
      BY <1>1, <1>3, <2>2, <3>1 DEF Tally, AllBits, Count
  <2> QED
    BY <2>1, <2>2
<1>8. /\ phase[m] # "unsent"
      /\ phase[m] = "refused" => Stub(m) /\ i = 0
  BY DEF TransferInv, NothingUnsent
<1>9. NothingUnsent'
  BY <1>3 DEF TransferInv, NothingUnsent, Stub, Count
\* A message that was refused gets no further than its first fragment.
<1>10. ASSUME phase[m] = "refused"
       PROVE  /\ arrived' = arrived
              /\ y.status # "AVAILABLE" =>
                   y.base = 0 /\ 1 \notin y.mask /\ y.status = "IN_USE"
  <2>1. window = 2 /\ Count(m) > 1 /\ i = 0 /\ Count(m) \in 1 .. 255
    BY <1>8, <1>10, CountType DEF Stub
  <2>2. e.base = 0 /\ 1 \notin e.mask /\ e.status = "IN_USE"
    <3>1. CASE e = rxPackets[r]
      <4>1. r \in Entries \ Available /\ e.msg = m
        BY <3>1, <1>5 DEF Taken
      <4> QED
        BY <1>10, <3>1, <4>1 DEF TransferInv, NothingOpened
    <3>2. CASE e.status = "IN_USE" /\ e.base = 0 /\ e.mask = {}
      BY <3>2
    <3> QED
      BY <3>1, <3>2 DEF Taken
  <2>3. CASE y.status = "AVAILABLE" /\ UNCHANGED <<acks, arrived>>
    BY <2>3
  <2>4. CASE /\ y.msg = m /\ Shape(y) /\ y.base = e.base /\ y.mask \subseteq e.mask \union {0}
             /\ \/ y.status = e.status /\ arrived' = arrived
                \/ y.status = "ACKED" /\ Complete(y)
    <3>1. y.base = 0 /\ 1 \notin y.mask
      BY <2>2, <2>4
    <3>2. ~Complete(y) \/ y.status = "AVAILABLE"
      <4> SUFFICES ASSUME y.status # "AVAILABLE" PROVE ~Complete(y)
        OBVIOUS
      <4>1. y.received = IF 0 \in y.mask THEN 1 ELSE 0
        <5>1. Tally(y)
          BY <1>2
        <5> QED
          BY <3>1, <5>1 DEF Tally
      <4>2. y.expected = Count(m) \/ y.expected = Unknown
        BY <2>4, <3>1 DEF Shape
      <4> QED
        BY <2>1, <4>1, <4>2 DEF Complete, Unknown
    <3> QED
      BY <2>2, <2>4, <3>1, <3>2
  <2> QED
    BY <2>1, <2>3, <2>4 DEF Leaves
<1>11. NothingOpened'
  <2> SUFFICES ASSUME NEW q \in Entries, q \notin Available'
               PROVE  /\ phase[p[q].msg] # "unsent"
                      /\ phase[p[q].msg] = "refused"
                           => /\ Stub(p[q].msg) /\ p[q].base = 0
                              /\ 1 \notin p[q].mask /\ p[q].status = "IN_USE"
    BY <1>1, <1>3 DEF NothingOpened, Stub, Count
  <2>1. CASE q = r
    <3>1. y.status # "AVAILABLE" /\ p[q] = y
      BY <1>1, <1>5, <2>1
    <3>2. y.msg = m
      BY <3>1 DEF Leaves, Taken
    <3> QED
      BY <1>8, <1>10, <3>1, <3>2
  <2>2. CASE q # r
    BY <1>1, <1>5, <2>2 DEF TransferInv, NothingOpened
  <2> QED
    BY <2>1, <2>2
<1>12. \A x \in Messages : phase'[x] = "success" => arrived'[x] > 0
  BY <1>3, <1>4 DEF TransferInv
<1> QED
  BY <1>6, <1>7, <1>9, <1>10, <1>11, <1>12 DEF TransferInv

\* A fragment that comes.
LEMMA ReceiveTransfer ==
  ASSUME SmallWindow, TypeOK, SendInv, OnceInv, TransferInv, NEW f \in Frames, Receive(f)
  PROVE  TransferInv' /\ [Transfer!Next]_(Transfer!vars)
<1>1. PICK m \in Messages : \E i \in Fragments(m) : f = <<m, i>>
  BY DEF Frames
<1>2. PICK i \in Fragments(m) : f = <<m, i>>
  BY <1>1
<1>3. /\ <<m, i>> \in transit \union late /\ IncomingMessage(m, i)
      /\ late' \subseteq late /\ UNCHANGED <<txVars, window, transit>>
  BY <1>2 DEF Receive
<1>4. CASE UNCHANGED <<rxPackets, acks, arrived, forgotten>>
  BY <1>3, <1>4, QuietTransfer DEF txVars
<1>5. ASSUME NEW r \in Entries, NEW e, NEW y, Taken(r, e, m), Leaves(r, e, m, i, y)
      PROVE  TransferInv' /\ [Transfer!Next]_(Transfer!vars)
  <2>1. TransferInv' /\ (arrived' = arrived \/ phase[m] # "refused")
    BY <1>3, <1>5, LeavesTransfer
  <2>2. arrived' = arrived \/ arrived' = [arrived EXCEPT ![m] = Again(@)]
    BY <1>5 DEF Leaves
  <2>3. UNCHANGED phase
    BY <1>3 DEF txVars
  <2>4. CASE arrived' = arrived
    BY <2>1, <2>3, <2>4 DEF Transfer!vars
  <2>5. CASE arrived' = [arrived EXCEPT ![m] = Again(@)] /\ phase[m] # "refused"
    <3>1. /\ arrived'[m] > 0
          /\ \A x \in Messages \ {m} : arrived'[x] = arrived[x]
      BY <2>5 DEF TypeOK, Again
    <3>2. Got' = Got \union {m}
      BY <3>1 DEF Got
    <3>3. phase[m] # "unsent"
      BY <1>3 DEF TransferInv, NothingUnsent
    <3>4. phase[m] \in {"sending", "failure", "success"}
      BY <2>5, <3>3 DEF TypeOK, Transfer!Phases
    <3>5. CASE phase[m] = "success"
      <4>1. Got' = Got
        BY <3>2, <3>5 DEF TransferInv, Got
      <4> QED
        BY <2>1, <2>3, <4>1 DEF Got, Transfer!vars
    <3>6. CASE phase[m] \in {"sending", "failure"}
      <4>1. Transfer!Arrive(m)
        BY <2>3, <3>2, <3>6 DEF Transfer!Arrive, Got
      <4> QED
        BY <2>1, <4>1 DEF Transfer!Next
    <3> QED
      BY <3>4, <3>5, <3>6
  <2> QED
    BY <2>1, <2>2, <2>4, <2>5
<1> QED
  BY <1>3, <1>4, <1>5, Handler

\* One step keeps TransferInv, and is a step of MessageTransfer or none.
LEMMA TransferStep ==
  SmallWindow /\ TypeOK /\ SendInv /\ OnceInv /\ TransferInv /\ [Next]_vars
    => TransferInv' /\ [Transfer!Next]_(Transfer!vars)
<1> SUFFICES ASSUME SmallWindow, TypeOK, SendInv, OnceInv, TransferInv, [Next]_vars
             PROVE  TransferInv' /\ [Transfer!Next]_(Transfer!vars)
  OBVIOUS
<1>1. ASSUME NEW m \in Messages, SendUnicast(m)
      PROVE  TransferInv' /\ [Transfer!Next]_(Transfer!vars)
  BY <1>1, SendTransfer
<1>2. ASSUME NEW f \in Frames, NEW ok \in BOOLEAN, MessageSent(f, ok)
      PROVE  TransferInv' /\ [Transfer!Next]_(Transfer!vars)
  BY <1>2, ReportTransfer
<1>3. ASSUME NEW f \in Frames, Receive(f)
      PROVE  TransferInv' /\ [Transfer!Next]_(Transfer!vars)
  BY <1>3, ReceiveTransfer
<1>4. ASSUME NEW f \in Frames, CopyIsLost(f)
      PROVE  TransferInv' /\ [Transfer!Next]_(Transfer!vars)
  BY <1>4, QuietTransfer DEF CopyIsLost, txVars, rxVars, historyVars
<1>5. ASSUME NEW r \in Entries, AbortReception(r)
      PROVE  TransferInv' /\ [Transfer!Next]_(Transfer!vars)
  <2>1. UNCHANGED <<txPackets, phase, window, transit, late, acks, arrived>>
    BY <1>5 DEF AbortReception, txVars, airVars
  <2>2. /\ \A q \in Entries \ {r} : rxPackets'[q] = rxPackets[q]
        /\ Entries' = Entries /\ Available' = Available \union {r}
    BY <1>5, AbortFrees
  <2>3. \A q \in Entries' \ Available' : Tally(rxPackets[q])'
    BY <2>1, <2>2 DEF TransferInv, Tally, AllBits, Count
  <2>4. NothingOpened'
    BY <2>1, <2>2 DEF TransferInv, NothingOpened, Stub, Count
  <2>5. \A m \in InUse' : AtWindow(m, txPackets[m].base)'
    BY <2>1 DEF TransferInv, AtWindow, InUse, Fragments, Count
  <2>6. NothingUnsent' /\ \A m \in Messages : phase'[m] = "success" => arrived'[m] > 0
    BY <2>1 DEF TransferInv, NothingUnsent, Stub, Count
  <2> QED
    BY <2>1, <2>3, <2>4, <2>5, <2>6 DEF TransferInv, Transfer!vars
<1>6. CASE UNCHANGED vars
  BY <1>6, QuietTransfer DEF vars, txVars, rxVars, airVars, historyVars
<1> QED
  BY <1>1, <1>2, <1>3, <1>4, <1>5, <1>6 DEF Next

LEMMA TransferInitial ==
  Init => TransferInv /\ Transfer!Init
<1> SUFFICES ASSUME Init PROVE TransferInv /\ Transfer!Init
  OBVIOUS
<1>1. Entries \ Available = {}
  BY DEF Init, RxInit, EmptyEntry, Available
<1>2. InUse = {} /\ NothingUnsent /\ NothingOpened
  BY <1>1 DEF Init, InUse, NothingUnsent, NothingOpened
<1> QED
  BY <1>1, <1>2 DEF Init, TransferInv, Transfer!Init

LEMMA WindowStep ==
  [Next]_vars => UNCHANGED window
BY DEF Next, SendUnicast, MessageSent, Receive, CopyIsLost, AbortReception,
       vars, rxVars

\* With a window of one or two fragments, the two plugins implement the transfer
\* of whole messages: a success is told only of a message that arrived, and a
\* message that was refused never arrives.
THEOREM TransferCorrect == Spec /\ SmallWindow => ImplementsTransfer
<1> DEFINE I == SmallWindow /\ TypeOK /\ SendInv /\ OnceInv /\ TransferInv
<1>1. Init /\ SmallWindow => I /\ Transfer!Init
  BY TypeInit, SendInit, OnceInitial, TransferInitial
<1>2. I /\ [Next]_vars => I' /\ [Transfer!Next]_(Transfer!vars)
  <2>1. SmallWindow /\ [Next]_vars => SmallWindow'
    BY WindowStep DEF SmallWindow
  <2> QED
    BY <2>1, TypeStep, SendStep, OnceStep, TransferStep
<1> HIDE DEF I
<1> QED
  BY <1>1, <1>2, PTL DEF Spec, ImplementsTransfer, Transfer!Spec

-----------------------------------------------------------------------------
(* The receiver, with the default window of one fragment *)

\* The bytes of its message that an entry has.
Held(e) == e.finger + (IF e.mask = {} THEN 0 ELSE LenOf(e.msg, e.base))

\* An entry has the fragments up to its base, at their places.
Body(e) ==
  /\ e.msg \in Messages
  /\ e.base \in Fragments(e.msg)
  /\ e.mask \in {{}, {0}}
  /\ e.received = e.base + (IF e.mask = {} THEN 0 ELSE 1)
  /\ e.status = "IN_USE" => e.received < Count(e.msg)
  /\ e.status = "ACKED" => e.received = Count(e.msg)
  /\ e.received = Count(e.msg) => e.lastLen = LenOf(e.msg, Count(e.msg) - 1)
  /\ e.finger = e.base * FragmentLen
  /\ Count(e.msg) > 1 => e.len = FragmentLen
  /\ \A k \in 0 .. Held(e) - 1 : e.buffer[k] = <<e.msg, k>>

Sound(e) == e.status # "AVAILABLE" => Body(e) /\ e.expected = Count(e.msg)

\* One that is about to note fragment i of message m: a new entry does not
\* know the count of fragments.
Ready(e, m, i) ==
  /\ Body(e) /\ e.status # "AVAILABLE" /\ e.msg = m /\ e.base = i
  /\ \/ e.expected = Count(m)
     \/ i = 0 /\ e.expected = Unknown /\ e.status = "IN_USE" /\ e.len = LenOf(m, i)

\* An entry that moves its window is as sound as before.
LEMMA MoveSound ==
  ASSUME window = 1, NEW e \in EntryType, Sound(e), e.status # "AVAILABLE",
         NEW i \in Fragments(e.msg), WindowMoves(e, i)
  PROVE  /\ Sound(moveRxWindow(e))
         /\ moveRxWindow(e).msg = e.msg
         /\ moveRxWindow(e).status = e.status /\ e.status # "ACKED"
<1> DEFINE x == moveRxWindow(e)
           c == Count(e.msg)
<1>1. /\ Body(e) /\ e.expected = c /\ e.msg \in Messages
      /\ e.base \in Nat /\ i \in Nat /\ c \in Nat /\ i <= c - 1
      /\ FragmentLen \in Nat
  <2>1. Body(e) /\ e.expected = c
    BY DEF Sound
  <2>2. e.msg \in Messages /\ e.base \in Nat
    BY <2>1 DEF Body, EntryType
  <2>3. c \in 1 .. 255 /\ FragmentLen \in Nat
    BY <2>2, CountType, ReceiverAssumption
  <2> QED
    BY <2>1, <2>2, <2>3 DEF Fragments
<1>2. e.mask = {0} /\ e.base + 1 <= i
  BY <1>1, OneFragmentWindow DEF WindowMoves
<1>3. Mask(e.base + 1, e.expected) = {}
  BY <1>1, <1>2, OneFragmentWindow
<1>4. /\ c > 1 /\ e.len = FragmentLen /\ e.received = e.base + 1
      /\ LenOf(e.msg, e.base) = FragmentLen
  <2>1. c > 1 /\ e.base < c - 1 /\ e.base \in Fragments(e.msg)
    BY <1>1, <1>2 DEF Body
  <2>2. LenOf(e.msg, e.base) = FragmentLen
    BY <1>1, <2>1, Places
  <2> QED
    BY <1>1, <1>2, <2>1, <2>2 DEF Body
<1>5. e.status # "ACKED" /\ e.finger = e.base * FragmentLen
  BY <1>1, <1>2, <1>4 DEF Body
<1>6. (e.base + 1) * FragmentLen = e.base * FragmentLen + 1 * FragmentLen
  BY <1>1
<1>7. /\ x.status = e.status /\ x.msg = e.msg /\ x.base = e.base + 1
      /\ x.finger = (e.base + 1) * FragmentLen /\ x.expected = c
      /\ x.mask = {} /\ x.received = e.received /\ x.len = e.len
      /\ x.lastLen = e.lastLen /\ x.buffer = e.buffer
  BY <1>1, <1>3, <1>4, <1>5, <1>6 DEF moveRxWindow, EntryType
<1> HIDE DEF x
<1>8. \A k \in 0 .. Held(x) - 1 : x.buffer[k] = <<x.msg, k>>
  <2>1. Held(x) = x.finger + 0
    BY <1>7 DEF Held
  <2>2. Held(e) = e.finger + LenOf(e.msg, e.base)
    BY <1>2 DEF Held
  <2>3. e.base * FragmentLen \in Nat
    BY <1>1
  <2>4. Held(x) = Held(e)
    BY <1>1, <1>4, <1>5, <1>6, <1>7, <2>1, <2>2, <2>3
  <2> QED
    BY <1>1, <1>7, <2>4 DEF Body
<1>9. x.base \in Fragments(x.msg) /\ x.received < c
  BY <1>1, <1>2, <1>4, <1>7 DEF Fragments
<1>10. Body(x)
  BY <1>1, <1>4, <1>5, <1>7, <1>8, <1>9 DEF Body
<1> QED
  BY <1>5, <1>7, <1>10 DEF Sound, x

\* What an entry is after it has noted a fragment.
LEMMA NotedSound ==
  ASSUME window = 1, NEW e \in EntryType, NEW m \in Messages, NEW i \in Fragments(m),
         Ready(e, m, i), NEW n, n = Noted(e, m, i)
  PROVE  /\ n.status = e.status /\ n.msg = m /\ n.base = i /\ n.mask = {0}
         /\ n.received = i + 1 /\ n.expected = Count(m)
         /\ n.finger = i * FragmentLen
         /\ Count(m) > 1 => n.len = FragmentLen
         /\ n.received = Count(m) => n.lastLen = LenOf(m, i)
         /\ \A k \in 0 .. Held(n) - 1 : n.buffer[k] = <<m, k>>
<1> DEFINE c == [e EXCEPT !.expected = Count(m)]
           d == [c EXCEPT !.mask = {0}]
           start == i * FragmentLen
           top == start + LenOf(m, i)
<1>1. /\ i \in Nat /\ Count(m) \in 1 .. 255 /\ start \in Nat
      /\ LenOf(m, i) \in Nat /\ i <= Count(m) - 1
  BY CountType, LenOfType, ReceiverAssumption DEF Fragments
<1>2. Bit(i) = 0 /\ Body(e) /\ e.msg = m /\ e.base = i
  BY <1>1, OneFragmentWindow DEF Ready
<1>3. e.finger = start /\ e.mask \in {{}, {0}}
  BY <1>2 DEF Body
<1>4. /\ c \in EntryType /\ c.expected = Count(m) /\ c.mask = e.mask
      /\ c.status = e.status /\ c.msg = m /\ c.base = i /\ c.finger = start
      /\ c.received = e.received /\ c.len = e.len /\ c.lastLen = e.lastLen
      /\ c.buffer = e.buffer
  BY <1>1, <1>2, <1>3 DEF EntryType
<1>5. Counted(e, m, i) = c
  <2>1. CASE i = 0
    <3>1. ~(Count(m) < window) /\ e.mask = e.mask
      BY <1>1
    <3>2. Counted(e, m, i) = [e EXCEPT !.expected = Count(m), !.mask = e.mask]
      BY <2>1, <3>1 DEF Counted
    <3> QED
      BY <3>2 DEF EntryType, c
  <2>2. CASE i # 0
    <3>1. e.expected = Count(m)
      BY <2>2 DEF Ready
    <3> QED
      BY <2>2, <3>1 DEF Counted, EntryType
  <2> QED
    BY <2>1, <2>2
<1> HIDE DEF c
<1>6. [c EXCEPT !.mask = @ \union {Bit(i)}] = d
  <2>1. c.mask \union {Bit(i)} = {0}
    BY <1>2, <1>3, <1>4
  <2> QED
    BY <2>1
<1>7. /\ d.expected = Count(m) /\ d.mask = {0}
      /\ d.status = e.status /\ d.msg = m /\ d.base = i /\ d.finger = start
      /\ d.received = e.received /\ d.len = e.len /\ d.lastLen = e.lastLen
      /\ d.buffer = e.buffer
  BY <1>4 DEF EntryType
<1>8. d \in EntryType
  <2>1. {0} \in Masks
    BY DEF Masks
  <2> QED
    BY <1>4, <2>1 DEF EntryType
<1> HIDE DEF d
<1>9. Count(m) > 1 => e.len = FragmentLen
  BY <1>2 DEF Body
<1>10. CASE e.mask = {0}
  <2>1. n = d
    BY <1>2, <1>5, <1>6, <1>10 DEF Noted
  <2>2. e.received = i + 1 /\ Held(e) = top
    BY <1>1, <1>2, <1>3, <1>10 DEF Body, Held
  <2>3. e.received = Count(m) => e.lastLen = LenOf(m, i)
    BY <1>1, <1>2, <2>2 DEF Body
  <2>4. \A k \in 0 .. Held(e) - 1 : e.buffer[k] = <<m, k>>
    BY <1>2 DEF Body
  <2>5. /\ n.status = e.status /\ n.msg = m /\ n.base = i /\ n.mask = {0}
        /\ n.received = i + 1 /\ n.expected = Count(m)
        /\ n.finger = start
        /\ Count(m) > 1 => n.len = FragmentLen
        /\ n.received = Count(m) => n.lastLen = LenOf(m, i)
    BY <1>7, <1>9, <2>1, <2>2, <2>3
  <2>6. Held(n) = Held(e) /\ n.buffer = e.buffer
    BY <1>2, <1>3, <1>7, <1>10, <2>1 DEF Held
  <2> QED
    BY <2>4, <2>5, <2>6
<1>11. CASE e.mask = {}
  <2> DEFINE x == [d EXCEPT !.received = @ + 1]
  <2>1. n = storeRxFragment(x, m, i)
    BY <1>2, <1>5, <1>6, <1>11 DEF Noted
  <2>2. /\ x.expected = Count(m) /\ x.mask = {0}
        /\ x.status = e.status /\ x.msg = m /\ x.base = i /\ x.finger = start
        /\ x.received = i + 1 /\ x.len = e.len /\ x.lastLen = e.lastLen
        /\ x.buffer = e.buffer /\ x \in EntryType
    <3>1. e.received = i
      BY <1>1, <1>2, <1>11 DEF Body
    <3> QED
      BY <1>1, <1>7, <1>8, <3>1 DEF EntryType
  <2> HIDE DEF x
  <2> DEFINE index == x.finger + (i - x.base) * x.len
             stored == [k \in DOMAIN x.buffer |->
                          IF k \in index .. index + LenOf(m, i) - 1
                          THEN <<m, i * FragmentLen + k - index>>
                          ELSE x.buffer[k]]
             last == IF i = x.expected - 1 THEN LenOf(m, i) ELSE x.lastLen
  <2>3. n = [x EXCEPT !.buffer = stored, !.lastLen = last]
    BY <2>1, <2>2 DEF storeRxFragment, EntryType
  <2>4. index = start /\ x.len \in Nat
    BY <1>1, <2>2 DEF EntryType
  <2>5. /\ n.status = e.status /\ n.msg = m /\ n.base = i /\ n.mask = {0}
        /\ n.received = i + 1 /\ n.expected = Count(m) /\ n.finger = start
        /\ n.len = e.len /\ n.lastLen = last /\ n.buffer = stored
    BY <2>2, <2>3 DEF EntryType
  <2>6. n.received = Count(m) => last = LenOf(m, i)
    BY <1>1, <2>2, <2>5
  <2>7. ASSUME NEW k \in 0 .. top - 1
        PROVE  stored[k] = <<m, k>>
    <3>1. top <= BufferSize /\ BufferSize \in Nat
      <4>1. /\ top <= Length[m] /\ Length[m] <= BufferSize
            /\ Length[m] \in Nat /\ BufferSize \in Nat
        BY Places, ReceiverAssumption
      <4> HIDE DEF top
      <4>2. top \in Int
        BY <1>1 DEF top
      <4> QED
        BY <4>1, <4>2
    <3>2. DOMAIN x.buffer = 0 .. BufferSize - 1
      BY <2>2 DEF EntryType, Buffers
    <3> HIDE DEF index
    <3>3. k \in DOMAIN x.buffer
      BY <1>1, <2>7, <3>1, <3>2
    <3>4. CASE k \in start .. start + LenOf(m, i) - 1
      <4>1. stored[k] = <<m, start + k - start>>
        <5> DEFINE part == index .. index + LenOf(m, i) - 1
        <5>2. k \in part
          BY <2>4, <3>4
        <5> HIDE DEF part
        <5>1. stored[k] = <<m, i * FragmentLen + k - index>>
          BY <3>3, <5>2, Zenon DEF part
        <5> QED
          BY <2>4, <5>1
      <4>2. start \in Nat /\ k \in Int
        BY <1>1, <2>7
      <4> HIDE DEF start, stored
      <4> QED
        BY <4>1, <4>2
    <3>5. CASE k \notin start .. start + LenOf(m, i) - 1
      <4>1. stored[k] = e.buffer[k]
        BY <2>2, <2>4, <3>3, <3>5
      <4>2. Held(e) = start
        BY <1>1, <1>3, <1>11 DEF Held
      <4>3. k \in 0 .. start - 1
        BY <1>1, <2>7, <3>5
      <4> QED
        BY <1>2, <4>1, <4>2, <4>3 DEF Body
    <3> QED
      BY <3>4, <3>5
  <2>8. \A k \in 0 .. top - 1 : n.buffer[k] = <<m, k>>
    BY <2>5, <2>7
  <2> HIDE DEF stored, last, top
  <2>9. /\ n.status = e.status /\ n.msg = m /\ n.base = i /\ n.mask = {0}
        /\ n.received = i + 1 /\ n.expected = Count(m)
        /\ n.finger = start
        /\ Count(m) > 1 => n.len = FragmentLen
        /\ n.received = Count(m) => n.lastLen = LenOf(m, i)
    BY <1>9, <2>5, <2>6
  <2>10. Held(n) = top
    BY <2>9 DEF Held, top
  <2> QED
    BY <2>8, <2>9, <2>10
<1> QED
  BY <1>3, <1>10, <1>11

\* What the handler may do to entry r: y is what becomes of it.
Outcome(r, y) ==
  /\ y \in EntryType /\ Sound(y)
  /\ rxPackets' \in {[Older EXCEPT ![r] = y], [rxPackets EXCEPT ![r] = y]}
  /\ broken' = broken

\* With a fragment inside of the window.
LEMMA InsideSound ==
  ASSUME window = 1, TypeOK, NEW r \in Entries, NEW e \in EntryType,
         NEW m \in Messages, NEW i \in Fragments(m), NEW moved \in BOOLEAN,
         Ready(e, m, i), InsideWindow(r, e, m, i, moved)
  PROVE  \E y : Outcome(r, y)
<1> DEFINE takes == moved /\ i < e.expected - 1
           x == IF takes THEN [e EXCEPT !.len = LenOf(m, i)] ELSE e
           n == Noted(x, m, i)
           fits == (moved \/ LengthFits(e, m, i)) /\ FitsBuffer(e, m, i)
           whole == fits /\ Complete(n) /\ n.status = "IN_USE"
<1>1. /\ i \in Nat /\ Count(m) \in 1 .. 255 /\ i <= Count(m) - 1
      /\ Body(e) /\ e.msg = m /\ e.base = i /\ e.status \in {"IN_USE", "ACKED"}
  BY CountType DEF Fragments, Ready, EntryType, Statuses
<1>2. x \in EntryType /\ Ready(x, m, i) /\ x.status = e.status
  <2>1. CASE ~takes
    BY <2>1
  <2>2. CASE takes
    <3>1. LenOf(m, i) \in Nat
      BY LenOfType
    <3>2. Count(m) > 1 => LenOf(m, i) = FragmentLen
      <4>1. CASE e.expected = Count(m)
        BY <1>1, <2>2, <4>1, Places
      <4>2. CASE i = 0
        BY <1>1, <4>2, Places
      <4> QED
        BY <4>1, <4>2 DEF Ready
    <3> DEFINE w == [e EXCEPT !.len = LenOf(m, i)]
    <3>3. /\ w \in EntryType /\ w.status = e.status /\ w.msg = e.msg
          /\ w.base = e.base /\ w.mask = e.mask /\ w.received = e.received
          /\ w.lastLen = e.lastLen /\ w.finger = e.finger /\ w.buffer = e.buffer
          /\ w.len = LenOf(m, i) /\ w.expected = e.expected
      BY <3>1 DEF EntryType
    <3> HIDE DEF w
    <3>4. Body(w)
      <4>1. Held(w) = Held(e)
        BY <3>3 DEF Held
      <4> QED
        BY <1>1, <3>2, <3>3, <4>1 DEF Body
    <3>5. Ready(w, m, i)
      BY <3>3, <3>4 DEF Ready
    <3> QED
      BY <2>2, <3>3, <3>5 DEF w
  <2> QED
    BY <2>1, <2>2
<1> HIDE DEF x
<1>3. /\ n.status = e.status /\ n.msg = m /\ n.base = i /\ n.mask = {0}
      /\ n.received = i + 1 /\ n.expected = Count(m)
      /\ n.finger = i * FragmentLen
      /\ Count(m) > 1 => n.len = FragmentLen
      /\ n.received = Count(m) => n.lastLen = LenOf(m, i)
      /\ \A k \in 0 .. Held(n) - 1 : n.buffer[k] = <<m, k>>
  BY <1>2, NotedSound
<1>4. n \in EntryType
  BY <1>2, NotedType DEF TypeOK
<1> HIDE DEF n
<1>5. e.status = "ACKED" => fits /\ i = Count(m) - 1
  <2> SUFFICES ASSUME e.status = "ACKED" PROVE fits /\ i = Count(m) - 1
    OBVIOUS
  <2>1. e.received = Count(m) /\ e.expected = Count(m)
    BY <1>1 DEF Body, Ready
  <2>2. i = Count(m) - 1 /\ e.mask = {0}
    BY <1>1, <2>1 DEF Body
  <2>3. LengthFits(e, m, i)
    BY <1>1, <2>1, <2>2 DEF LengthFits
  <2>4. FitsBuffer(e, m, i)
    BY <1>1, <2>2, OneFragmentWindow DEF FitsBuffer
  <2> QED
    BY <2>2, <2>3, <2>4
<1>6. /\ rxPackets' = IF whole THEN [Older EXCEPT ![r] = Kept(n)]
                      ELSE [rxPackets EXCEPT ![r] = IF fits THEN n ELSE Aborted(e)]
      /\ broken' = IF whole /\ ~Whole(n, m) THEN broken \union {m} ELSE broken
  BY DEF InsideWindow, n, x
<1>7. Complete(n) <=> i = Count(m) - 1
  BY <1>1, <1>3 DEF Complete
<1> HIDE DEF fits
<1>8. CASE whole
  <2> DEFINE y == Kept(n)
  <2>1. /\ y.status = "ACKED" /\ y.msg = m /\ y.base = i /\ y.mask = {0}
        /\ y.received = i + 1 /\ y.expected = Count(m) /\ y.finger = n.finger
        /\ y.len = n.len /\ y.lastLen = n.lastLen /\ y.buffer = n.buffer
        /\ y \in EntryType
    <3>1. "ACKED" \in Statuses /\ 0 \in Ages
      BY ReceiverAssumption DEF Statuses, Ages
    <3> QED
      BY <1>3, <1>4, <3>1 DEF Kept, EntryType
  <2> HIDE DEF y
  <2>2. i = Count(m) - 1 /\ e.status = "IN_USE"
    BY <1>3, <1>7, <1>8
  <2>3. Held(y) = Held(n)
    BY <1>3, <2>1 DEF Held
  <2>4. Sound(y)
    BY <1>1, <1>3, <2>1, <2>2, <2>3 DEF Sound, Body
  <2>5. Whole(n, m)
    <3>1. Held(n) = Length[m]
      BY <1>3, <2>2, Places DEF Held
    <3>2. TotalLen(n) = n.finger + n.lastLen
      <4>1. Count(m) % window = 0
        BY <1>1
      <4>2. n.finger \in Nat /\ n.lastLen \in Nat /\ n.len \in Nat
        BY <1>4 DEF EntryType
      <4>3. (1 - 1) * n.len = 0
        BY <4>2
      <4> QED
        BY <1>3, <4>1, <4>2, <4>3 DEF TotalLen
    <3>3. n.finger + n.lastLen = Length[m]
      BY <1>1, <1>3, <2>2, Places
    <3> QED
      BY <1>3, <3>1, <3>2, <3>3 DEF Whole
  <2> QED
    BY <1>6, <1>8, <2>1, <2>4, <2>5 DEF Outcome, y
<1>9. CASE fits /\ ~whole
  <2>1. Sound(n)
    BY <1>1, <1>3, <1>7, <1>5, <1>9 DEF Sound, Body
  <2> QED
    BY <1>4, <1>6, <1>9, <2>1 DEF Outcome
<1>10. CASE ~fits
  <2>1. Aborted(e) \in EntryType /\ Aborted(e).status = "AVAILABLE"
    BY EmptyType DEF Aborted, EmptyEntry
  <2>2. Sound(Aborted(e))
    BY <2>1 DEF Sound
  <2> QED
    BY <1>6, <1>10, <2>1, <2>2 DEF Outcome
<1> QED
  BY <1>8, <1>9, <1>10

\* A packet's own entry, with its window moved or not.
LEMMA ProcessSound ==
  ASSUME window = 1, TypeOK, NEW r \in Entries, NEW e \in EntryType,
         NEW m \in Messages, NEW i \in Fragments(m),
         \/ Sound(e) /\ e.status # "AVAILABLE" /\ e.msg = m
         \/ Ready(e, m, i),
         Process(r, e, m, i)
  PROVE  \E y : Outcome(r, y)
<1> DEFINE moves == WindowMoves(e, i)
           x == IF moves THEN moveRxWindow(e) ELSE e
           moved == rxWindowMoved \/ moves
<1>1. i \in Nat /\ Count(m) \in 1 .. 255
  BY CountType DEF Fragments
<1>2. x \in EntryType /\ moved \in BOOLEAN
  <2>1. x \in EntryType
    BY WindowTypes DEF TypeOK
  <2>2. moved \in BOOLEAN
    BY Zenon
  <2> QED
    BY <2>1, <2>2
<1>3. /\ InWindow(x, i) <=> i = x.base
      /\ \/ InWindow(x, i) /\ InsideWindow(r, x, m, i, moved)
         \/ /\ ~InWindow(x, i)
            /\ rxPackets' = [rxPackets EXCEPT ![r] = x]
            /\ UNCHANGED <<acks, arrived, broken>>
  BY <1>1, <1>2, OneFragmentWindow DEF Process
<1> HIDE DEF moved
<1>4. CASE Sound(e) /\ e.status # "AVAILABLE" /\ e.msg = m
  <2>1. Sound(x) /\ x.msg = m /\ x.status = e.status
    BY <1>4, MoveSound
  <2> HIDE DEF x
  <2>2. CASE InWindow(x, i)
    <3>1. Ready(x, m, i)
      BY <1>3, <1>4, <2>1, <2>2 DEF Ready, Sound
    <3> QED
      BY <1>2, <1>3, <2>2, <3>1, InsideSound
  <2>3. CASE ~InWindow(x, i)
    BY <1>2, <1>3, <2>1, <2>3 DEF Outcome
  <2> QED
    BY <2>2, <2>3
<1>5. CASE Ready(e, m, i) /\ ~moves
  <2>1. x = e /\ e.base = i
    BY <1>5 DEF Ready
  <2> QED
    BY <1>2, <1>3, <1>5, <2>1, InsideSound
<1>6. CASE Ready(e, m, i) /\ moves
  <2>1. e.base = i /\ e.base + window <= i
    BY <1>6 DEF Ready, WindowMoves
  <2> QED
    BY <1>1, <2>1
<1> QED
  BY <1>4, <1>5, <1>6

\* A new entry is ready for its first fragment.
LEMMA NewReady ==
  ASSUME window = 1, NEW e \in EntryType, NEW m \in Messages
  PROVE  LET x == NewEntry(e, m, LenOf(m, 0))
         IN Ready(x, m, 0) /\ x.status = "IN_USE"
<1> DEFINE x == NewEntry(e, m, LenOf(m, 0))
<1>1. /\ x.status = "IN_USE" /\ x.msg = m /\ x.base = 0 /\ x.finger = 0
      /\ x.expected = Unknown /\ x.received = 0 /\ x.len = LenOf(m, 0)
      /\ x.mask = Mask(0, Unknown)
  BY DEF NewEntry, EmptyEntry
<1>2. Mask(0, Unknown) = {}
  BY OneFragmentWindow DEF Unknown
<1>3. /\ Count(m) \in 1 .. 255 /\ 0 \in Fragments(m) /\ 0 * FragmentLen = 0
      /\ Count(m) > 1 => LenOf(m, 0) = FragmentLen
  <2>1. Count(m) \in 1 .. 255 /\ 0 \in Fragments(m)
    BY CountType DEF Fragments
  <2>2. 0 * FragmentLen = 0
    BY ReceiverAssumption
  <2> QED
    BY <2>1, <2>2, Places
<1> HIDE DEF x
<1>4. Held(x) = 0
  BY <1>1, <1>2 DEF Held
<1>5. Body(x)
  BY <1>1, <1>2, <1>3, <1>4 DEF Body
<1>6. Ready(x, m, 0)
  BY <1>1, <1>5 DEF Ready
<1> QED
  BY <1>1, <1>6, Zenon DEF x


\* The invariant of the receiver.
RxInv ==
  /\ \A r \in Entries : Sound(rxPackets[r])
  /\ broken = {}

\* RxInv holds at the beginning.
LEMMA RxInitial ==
  Init => RxInv
<1> SUFFICES ASSUME Init PROVE RxInv
  OBVIOUS
<1>1. \A r \in Entries : rxPackets[r].status = "AVAILABLE"
  BY DEF Init, RxInit, EmptyEntry
<1> QED
  BY <1>1 DEF Init, RxInv, Sound

\* What the handler does keeps RxInv.
LEMMA OutcomeKeeps ==
  ASSUME TypeOK, RxInv, NEW r \in Entries, NEW y, Outcome(r, y)
  PROVE  RxInv'
<1>1. ASSUME NEW q \in Entries
      PROVE  Sound(Older[q])
  <2>1. rxPackets[q] \in EntryType /\ Sound(rxPackets[q])
    BY DEF TypeOK, RxInv
  <2> DEFINE z == [rxPackets[q] EXCEPT !.age = (@ + 1) % AgeModulus]
  <2>2. /\ z.status = rxPackets[q].status /\ z.msg = rxPackets[q].msg
        /\ z.base = rxPackets[q].base /\ z.mask = rxPackets[q].mask
        /\ z.received = rxPackets[q].received /\ z.lastLen = rxPackets[q].lastLen
        /\ z.finger = rxPackets[q].finger /\ z.len = rxPackets[q].len
        /\ z.buffer = rxPackets[q].buffer /\ z.expected = rxPackets[q].expected
    BY <2>1 DEF EntryType
  <2>3. Older[q] \in {z, rxPackets[q]}
    BY DEF Older
  <2> HIDE DEF z
  <2>4. Held(z) = Held(rxPackets[q])
    BY <2>2 DEF Held
  <2>5. Sound(z)
    BY <2>1, <2>2, <2>4 DEF Sound, Body
  <2> QED
    BY <2>1, <2>3, <2>5
<1>2. \A q \in Entries : Sound(rxPackets'[q])
  <2>1. DOMAIN Older = Entries /\ DOMAIN rxPackets = Entries
    BY DEF Older, TypeOK
  <2> QED
    BY <1>1, <2>1 DEF Outcome, RxInv
<1> HIDE DEF Outcome
<1>3. Entries' = Entries /\ broken' = {}
  BY DEF Entries, Outcome, RxInv
<1> QED
  BY <1>2, <1>3 DEF RxInv, Sound, Body, Held, Fragments, Count, LenOf

\* The handler, for any fragment in the air.
LEMMA IncomingSound ==
  ASSUME window = 1, TypeOK, RxInv, NEW m \in Messages, NEW i \in Fragments(m),
         IncomingMessage(m, i)
  PROVE  RxInv'
<1> DEFINE found == rxPacketLookUp(m)
           free == getFreeRxPacketEntry
           new == NewEntry(rxPackets[First(free)], m, LenOf(m, i))
<1>1. CASE found # {} /\ Process(First(found), rxPackets[First(found)], m, i)
  <2> DEFINE r == First(found)
             e == rxPackets[r]
  <2>1. r \in found /\ r \in Entries
    BY <1>1, EntryFound
  <2>2. e \in EntryType /\ e.status # "AVAILABLE" /\ e.msg = m /\ Sound(e)
    BY <2>1 DEF rxPacketLookUp, Available, TypeOK, RxInv
  <2> HIDE DEF r, found
  <2>3. PICK y : Outcome(r, y)
    BY <1>1, <2>1, <2>2, ProcessSound DEF r
  <2> QED
    BY <2>1, <2>3, OutcomeKeeps
<1>2. CASE /\ free # {} /\ i < window /\ Process(First(free), new, m, i)
  <2> DEFINE r == First(free)
  <2>1. r \in Entries /\ rxPackets[r] \in EntryType
    BY <1>2, EntryFound DEF TypeOK
  <2>2. i = 0
    BY <1>2, CountType DEF Fragments
  <2>3. new \in EntryType
    BY <2>1, WindowTypes, LenOfType DEF TypeOK
  <2>4. Ready(new, m, i)
    BY <2>1, <2>2, NewReady
  <2> HIDE DEF r, free, new
  <2>5. PICK y : Outcome(r, y)
    BY <1>2, <2>1, <2>3, <2>4, ProcessSound DEF r
  <2> QED
    BY <2>1, <2>5, OutcomeKeeps
<1>3. CASE UNCHANGED <<rxPackets, rxWindowMoved, acks, arrived, broken, forgotten>>
  BY <1>3 DEF RxInv, Entries
<1> QED
  BY <1>1, <1>2, <1>3 DEF IncomingMessage

\* RxInv is inductive, with the default window.
LEMMA RxStep ==
  window = 1 /\ TypeOK /\ RxInv /\ [Next]_vars => RxInv'
<1> SUFFICES ASSUME window = 1, TypeOK, RxInv, [Next]_vars
             PROVE  RxInv'
  OBVIOUS
<1>1. ASSUME UNCHANGED <<rxPackets, broken>>
      PROVE  RxInv'
  BY <1>1 DEF RxInv, Entries
<1>2. ASSUME NEW m \in Messages, SendUnicast(m)
      PROVE  RxInv'
  BY <1>1, <1>2 DEF SendUnicast, rxVars, historyVars
<1>3. ASSUME NEW f \in Frames, NEW ok \in BOOLEAN, MessageSent(f, ok)
      PROVE  RxInv'
  BY <1>1, <1>3 DEF MessageSent, rxVars, historyVars
<1>4. ASSUME NEW f \in Frames, Receive(f)
      PROVE  RxInv'
  <2>1. PICK m \in Messages : f \in {m} \X Fragments(m)
    BY DEF Frames
  <2>2. PICK i \in Fragments(m) : f = <<m, i>>
    BY <2>1
  <2>3. IncomingMessage(m, i)
    BY <1>4, <2>2 DEF Receive
  <2> QED
    BY <2>3, IncomingSound
<1>5. ASSUME NEW f \in Frames, CopyIsLost(f)
      PROVE  RxInv'
  BY <1>1, <1>5 DEF CopyIsLost, rxVars, historyVars
<1>6. ASSUME NEW r \in Entries, AbortReception(r)
      PROVE  RxInv'
  <2>1. /\ rxPackets'[r].status = "AVAILABLE"
        /\ \A q \in Entries \ {r} : rxPackets'[q] = rxPackets[q]
        /\ Entries' = Entries /\ broken' = broken
    BY <1>6, AbortFrees DEF AbortReception
  <2> QED
    BY <2>1 DEF RxInv, Sound, Body, Held, Fragments, Count, LenOf
<1>7. CASE UNCHANGED vars
  BY <1>1, <1>7 DEF vars, rxVars, historyVars
<1> QED
  BY <1>2, <1>3, <1>4, <1>5, <1>6, <1>7 DEF Next

\* With the default window, the application is handed exactly the message
\* that was sent: every byte is at its place, and the size is right.
THEOREM WholeCorrect == Spec => []PassedWhole
<1> DEFINE I == window = 1 => RxInv
<1>1. Init => I
  BY RxInitial
<1>2. TypeOK /\ I /\ [Next]_vars => I'
  BY RxStep, WindowStep
<1>3. I => PassedWhole
  BY DEF RxInv, PassedWhole
<1> HIDE DEF I
<1> QED
  BY TypeInit, TypeStep, <1>1, <1>2, <1>3, PTL DEF Spec
=============================================================================
