--------------------------- MODULE Fragmentation ---------------------------
(***************************************************************************)
(* The fragmentation plugin on both ends of a link, and between them the   *)
(* two stacks and the air: a fragment is transmitted again and again until *)
(* the stack of the sender has its acknowledgement or gives up, copies of  *)
(* it may arrive late or never, and so may the acknowledgements.           *)
(***************************************************************************)
EXTENDS FragmentReceiver

CONSTANTS
  MaxOutgoing,   \* EMBER_AF_PLUGIN_FRAGMENTATION_MAX_OUTGOING_PACKETS
  LateCopies     \* bound: copies in the air whose sender has gone on

ASSUME SenderAssumption ==
  /\ MaxOutgoing \in Nat \ {0}
  /\ LateCopies \in Nat

VARIABLES
  txPackets,   \* the entries in use, by message: fragmentBase and
               \* fragmentsInTransit
  phase,       \* history: what the application was told of each message
  transit,     \* fragments that the stack transmits: pairs of message, number
  late,        \* copies of others that are still in the air
  acks,        \* fragments in transit that the receiver has acknowledged
  arrived,     \* history: how often each message was passed on, up to twice
  broken,      \* history: messages that were passed on other than they are
  forgotten    \* history: messages whose entry was given up after that

txVars == <<txPackets, phase>>
rxVars == <<window, rxPackets, rxWindowMoved>>
airVars == <<transit, late, acks>>
historyVars == <<arrived, broken, forgotten>>
vars == <<txVars, rxVars, airVars, historyVars>>

Frames == UNION {{m} \X Fragments(m) : m \in Messages}
InUse == DOMAIN txPackets

Init ==
  /\ RxInit
  /\ txPackets = <<>>
  /\ phase = [m \in Messages |-> "unsent"]
  /\ transit = {} /\ late = {} /\ acks = {}
  /\ arrived = [m \in Messages |-> 0]
  /\ broken = {} /\ forgotten = {}

-----------------------------------------------------------------------------
(* The sender *)

Entry(m, base, n) ==
  [x \in InUse \union {m} |-> IF x = m THEN [base |-> base, inTransit |-> n]
                              ELSE txPackets[x]]
WithoutEntry(m) == [x \in InUse \ {m} |-> txPackets[x]]

\* Mutant of WindowFrames: the last fragment is never sent.
LastFragmentSkipped(m, base) ==
  {f \in {m} \X Fragments(m) : f[2] \in base .. base + window - 1
                                 /\ f[2] < Count(m) - 1}

WindowFrames(m, base) ==
  {f \in {m} \X Fragments(m) : f[2] \in base .. base + window - 1}

\* sendNextFragments: the stack takes the first n fragments of the window at
\* base, all of them unless it runs out of buffers; then the application
\* hears of the error.  rest is what is in transit already.
sendNextFragments(m, base, n, rest, error) ==
  LET all == WindowFrames(m, base)
  IN /\ n <= Cardinality(all)
     /\ transit' = rest \union {f \in all : f[2] < base + n}
     /\ IF n < Cardinality(all) \/ all = {}
        THEN /\ txPackets' = WithoutEntry(m)
             /\ phase' = [phase EXCEPT ![m] = IF all = {} THEN "success" ELSE error]
        ELSE /\ txPackets' = Entry(m, base, n)
             /\ phase' = [phase EXCEPT ![m] = "sending"]

\* Mutant of abortTransmission: the entry stays in use.
EntryStaysInUse(m) ==
  /\ phase' = [phase EXCEPT ![m] = "failure"]
  /\ UNCHANGED txPackets

abortTransmission(m) ==
  /\ txPackets' = WithoutEntry(m)
  /\ phase' = [phase EXCEPT ![m] = "failure"]

\* emAfFragmentationSendUnicast
SendUnicast(m) ==
  /\ phase[m] = "unsent"
  /\ IF Cardinality(InUse) = MaxOutgoing
     THEN /\ phase' = [phase EXCEPT ![m] = "refused"]
          /\ UNCHANGED <<txPackets, transit>>
     ELSE \E n \in 0 .. window : sendNextFragments(m, 0, n, transit, "refused")
  /\ UNCHANGED <<rxVars, late, acks, historyVars>>

\* emAfFragmentationMessageSent, when the stack reports on one fragment.
Reported(m, rest, ok) ==
  IF m \notin InUse
  THEN /\ transit' = rest
       /\ UNCHANGED txVars
  ELSE LET e == txPackets[m]
       IN \/ /\ ok /\ e.inTransit = 1
             /\ \E n \in 0 .. window :
                  sendNextFragments(m, e.base + window, n, rest, "failure")
          \/ /\ ok /\ e.inTransit # 1
             /\ txPackets' = Entry(m, e.base, e.inTransit - 1)
             /\ transit' = rest
             /\ UNCHANGED phase
          \/ /\ ~ok
             /\ abortTransmission(m)
             /\ transit' = rest

\* The stack has the acknowledgement of a fragment or gives up; a copy may
\* still be on its way.
MessageSent(f, ok) ==
  /\ f \in transit
  /\ ok => f \in acks
  /\ Reported(f[1], transit \ {f}, ok)
  /\ acks' = acks \ {f}
  /\ late' \in {late, late \union {f}} /\ Cardinality(late') <= LateCopies
  /\ UNCHANGED <<rxVars, historyVars>>

-----------------------------------------------------------------------------
(* The receiver *)

\* A message is passed on once, or more than once.
Again(n) == IF n = 2 THEN 2 ELSE n + 1

\* The entry goes on with a fragment inside of its window.
InsideWindow(r, e, m, i, moved) ==
  LET takes == moved /\ i < e.expected - 1
      fits  == (moved \/ LengthFits(e, m, i)) /\ FitsBuffer(e, m, i)
      n     == Noted(IF takes THEN [e EXCEPT !.len = LenOf(m, i)] ELSE e, m, i)
      whole == fits /\ Complete(n) /\ n.status = "IN_USE"
  IN /\ rxWindowMoved' = (moved /\ ~takes)
     /\ rxPackets' =
          IF whole THEN [Older EXCEPT ![r] = Kept(n)]
          ELSE [rxPackets EXCEPT ![r] = IF fits THEN n ELSE Aborted(e)]
     /\ acks' = IF fits /\ Replies(n, i)
                THEN acks \union (transit \intersect ({m} \X Acknowledged(n)))
                ELSE acks
     /\ arrived' = IF whole THEN [arrived EXCEPT ![m] = Again(@)] ELSE arrived
     /\ broken' = IF whole /\ ~Whole(n, m) THEN broken \union {m} ELSE broken

\* What the handler does with the entry e: move its window, and look whether
\* the fragment is inside.
Process(r, e, m, i) ==
  LET moves == WindowMoves(e, i)
      x == IF moves THEN moveRxWindow(e) ELSE e
  IN IF InWindow(x, i)
     THEN InsideWindow(r, x, m, i, rxWindowMoved \/ moves)
     ELSE /\ rxPackets' = [rxPackets EXCEPT ![r] = x]
          /\ rxWindowMoved' = (rxWindowMoved \/ moves)
          /\ UNCHANGED <<acks, arrived, broken>>

\* The message of an entry that was kept for its duplicates is forgotten.
Forgets(r) ==
  forgotten' = IF r \in Acked THEN forgotten \union {rxPackets[r].msg} ELSE forgotten

\* emAfFragmentationIncomingMessage
IncomingMessage(m, i) ==
  LET found == rxPacketLookUp(m)
      free  == getFreeRxPacketEntry
  IN \/ /\ found # {}
        /\ Process(First(found), rxPackets[First(found)], m, i)
        /\ UNCHANGED forgotten
     \/ /\ found = {} /\ free # {} /\ i < window
        /\ Process(First(free), NewEntry(rxPackets[First(free)], m, LenOf(m, i)), m, i)
        /\ Forgets(First(free))
     \/ /\ found = {} /\ (free = {} \/ i >= window)
        /\ UNCHANGED <<rxPackets, rxWindowMoved, acks, arrived, broken, forgotten>>

\* A fragment in transit may come more than once, a late copy does not.
Receive(f) ==
  /\ f \in transit \union late
  /\ IncomingMessage(f[1], f[2])
  /\ late' = IF f \in transit THEN late ELSE late \ {f}
  /\ UNCHANGED <<txVars, window, transit>>

CopyIsLost(f) ==
  /\ f \in late
  /\ late' = late \ {f}
  /\ UNCHANGED <<txVars, rxVars, transit, acks, historyVars>>

\* The timer of an entry: emAfFragmentationAbortReception.
AbortReception(r) ==
  /\ r \notin Available
  /\ rxPackets' = [rxPackets EXCEPT ![r] = Aborted(@)]
  /\ Forgets(r)
  /\ UNCHANGED <<txVars, window, rxWindowMoved, airVars, arrived, broken>>

-----------------------------------------------------------------------------
Next ==
  \/ \E m \in Messages : SendUnicast(m)
  \/ \E f \in Frames : \/ \E ok \in BOOLEAN : MessageSent(f, ok)
                       \/ Receive(f)
                       \/ CopyIsLost(f)
  \/ \E r \in Entries : AbortReception(r)

Spec == Init /\ [][Next]_vars

-----------------------------------------------------------------------------
(* Properties *)

Transfer == INSTANCE MessageTransfer
              WITH arrived <- {m \in Messages : arrived[m] > 0}

TypeOK ==
  /\ window \in WindowSizes
  /\ rxPackets \in [Entries -> EntryType]
  /\ rxWindowMoved \in BOOLEAN
  /\ phase \in [Messages -> Transfer!Phases]
  /\ InUse \subseteq Messages
  /\ \A m \in InUse : txPackets[m] \in [base : Nat, inTransit : Nat \ {0}]
  /\ transit \subseteq Frames /\ late \subseteq Frames /\ acks \subseteq transit
  /\ arrived \in [Messages -> 0 .. 2]
  /\ broken \subseteq Messages /\ forgotten \subseteq Messages \union {Nobody}

\* An entry of the sender is taken exactly while the application waits for
\* its report, and it counts the fragments that the stack has not reported
\* on: no entry is lost, and none is free while its message is under way.
EntriesHold ==
  /\ InUse = {m \in Messages : phase[m] = "sending"}
  /\ Cardinality(InUse) <= MaxOutgoing
  /\ \A m \in InUse :
       txPackets[m].inTransit = Cardinality(transit \intersect ({m} \X Fragments(m)))

\* A message has one entry of the receiver at most: the pair of sender and
\* sequence number finds it.
OneEntry ==
  \A r, q \in Entries \ Available :
    rxPackets[r].msg = rxPackets[q].msg => r = q

\* "Pass the reassembled packet only once to the application", as long as
\* the entry remembers it.
PassedOnce == \A m \in Messages \ forgotten : arrived[m] <= 1

\* With the default window of one fragment, what is passed on is the message
\* that was sent.
PassedWhole == window = 1 => broken = {}

\* fragmentation.c 4: "reassembles received fragments into full messages",
\* with every window.
FullMessages == broken = {}

\* The sender is told a success only of a message that the receiver got; a
\* message that was refused never arrives.
ImplementsTransfer == Transfer!Spec
=============================================================================
