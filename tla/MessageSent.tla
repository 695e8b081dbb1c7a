---------------------------- MODULE MessageSent ----------------------------
(***************************************************************************)
(* The table of the framework that remembers which function to call when   *)
(* the stack tells what became of a message.  A message is known by its    *)
(* tag, which on this processor is the buffer that it was sent from; the   *)
(* buffer is free for another message as soon as the stack has told.  The  *)
(* one function in the table is retrySendReport of the reporting plugin.   *)
(***************************************************************************)
EXTENDS Naturals, FiniteSets

CONSTANTS
  Buffers,         \* the message buffers
  CallbackSlots,   \* EMBER_AF_MESSAGE_SENT_CALLBACK_TABLE_SIZE
  NoTag            \* INVALID_MESSAGE_TAG

ASSUME MessageAssumption == CallbackSlots \in Nat /\ NoTag \notin Buffers

VARIABLES
  messageSentCallbacks,   \* the tag in each slot of the table
  inFlight,               \* the messages that the stack has not told of
  firstTries              \* those of them that were sent with the callback

messageVars == <<messageSentCallbacks, inFlight, firstTries>>

Slots == 1 .. CallbackSlots

FreeSlots == {i \in Slots : messageSentCallbacks[i] = NoTag}

FreeBuffers == Buffers \ inFlight

\* emAfInitializeMessageSentCallbackArray, with a stack that has just started.
MessageInit ==
  /\ messageSentCallbacks = [i \in Slots |-> NoTag]
  /\ inFlight = {}
  /\ firstTries = {}

MessageReset ==
  /\ messageSentCallbacks' = [i \in Slots |-> NoTag]
  /\ inFlight' = {}
  /\ firstTries' = {}

\* getMessageSentCallbackIndex, as often as messages are sent: the first free
\* slots.
NextSlots(used) ==
  used \subseteq FreeSlots /\ \A i \in used, j \in FreeSlots \ used : i < j

\* At most n messages are sent with the callback: fewer when no slot is free
\* (EMBER_TABLE_FULL), no buffer, or the stack refuses one.
SendWithCallback(n) ==
  \E used \in SUBSET Slots :
    /\ NextSlots(used)
    /\ Cardinality(used) <= n
    /\ \E tag \in [used -> FreeBuffers] :
         /\ \A i, j \in used : tag[i] = tag[j] => i = j
         /\ messageSentCallbacks' =
              [i \in Slots |-> IF i \in used THEN tag[i]
                               ELSE messageSentCallbacks[i]]
         /\ inFlight' = inFlight \union {tag[i] : i \in used}
         /\ firstTries' = firstTries \union {tag[i] : i \in used}

\* Any other part of the application sends without a callback.
SendPlain ==
  /\ \E b \in FreeBuffers : inFlight' = inFlight \union {b}
  /\ UNCHANGED <<messageSentCallbacks, firstTries>>

getMessageSentCallback(tag) == \E i \in Slots : messageSentCallbacks[i] = tag

\* Mutant: the slot is not given back.
NotInvalidated(tag) == messageSentCallbacks

\* The table after invalidateMessageSentCallbackEntry: the first slot that
\* matches is given back.
Invalidated(tag) ==
  [i \in Slots |->
     IF /\ messageSentCallbacks[i] = tag
        /\ \A j \in Slots : messageSentCallbacks[j] = tag => j >= i
     THEN NoTag ELSE messageSentCallbacks[i]]

\* The callback sends the message of a failed report again, in another buffer
\* and without the callback, unless no buffer is left or the stack refuses.
retrySendReport(tag, delivered) ==
  IF ~delivered /\ getMessageSentCallback(tag)
  THEN {{}} \union {{b} : b \in FreeBuffers}
  ELSE {{}}

emAfMessageSentHandler(tag, delivered) ==
  /\ tag \in inFlight
  /\ \E again \in retrySendReport(tag, delivered) :
       inFlight' = (inFlight \ {tag}) \union again
  /\ messageSentCallbacks' = Invalidated(tag)
  /\ firstTries' = firstTries \ {tag}

MessageTypeOK ==
  /\ messageSentCallbacks \in [Slots -> Buffers \union {NoTag}]
  /\ inFlight \subseteq Buffers

\* The table holds the tags of exactly the first tries that are under way, each
\* of them once: none is called back twice, and no slot is lost
\* (af-main-common.c:104-147, 235-238, 682-683).
CallbacksMatch ==
  /\ {messageSentCallbacks[i] : i \in Slots} \ {NoTag} = firstTries
  /\ \A i, j \in Slots :
       messageSentCallbacks[i] = messageSentCallbacks[j] =>
         i = j \/ messageSentCallbacks[i] = NoTag
  /\ firstTries \subseteq inFlight
=============================================================================
