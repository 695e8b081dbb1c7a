-------------------------- MODULE ReportingProofs --------------------------
(***************************************************************************)
(* Theorems about Reporting, for any attributes, table, intervals, limits  *)
(* and message buffers.  ReportInv ties what the code keeps of the last    *)
(* report of an entry to what was really reported.                         *)
(***************************************************************************)
EXTENDS Reporting, WellFoundedInduction, TLAPS

\* Remainders, as far as the delays need them.
LEMMA Modulo ==
  ASSUME NEW a \in Int, NEW b \in Nat \ {0}
  PROVE  /\ a % b \in 0 .. b - 1
         /\ a \in 0 .. b - 1 => a % b = a
         /\ a >= 0 => a % b <= a
  OBVIOUS

\* A set of naturals has a smallest element, which Min finds.
LEMMA MinSmallest ==
  ASSUME NEW S \in SUBSET Nat, S # {}
  PROVE  Min(S) \in S /\ \A y \in S : Min(S) <= y
<1> DEFINE R == OpToRel(<, Nat)
<1>1. \A x, y \in Nat : x < y => <<x, y>> \in R
  BY DEF OpToRel
<1>2. IsWellFoundedOn(R, Nat)
  BY NatLessThanWellFounded
<1> HIDE DEF R
<1>3. \E x \in S : \A y \in S : ~(<<y, x>> \in R)
  BY <1>2, WFMin
<1>4. PICK x \in S : \A y \in S : ~(<<y, x>> \in R)
  BY <1>3
<1>5. ASSUME NEW y \in S PROVE x <= y
  <2>1. x \in Nat /\ y \in Nat /\ ~(y < x)
    BY <1>1, <1>4
  <2> QED
    BY <2>1
<1> QED
  BY <1>5 DEF Min

\* The smaller of two naturals, and of one.
LEMMA MinPair ==
  ASSUME NEW x \in Nat, NEW y \in Nat
  PROVE  Min({x, y}) = IF x <= y THEN x ELSE y
<1>1. Min({x, y}) \in {x, y} /\ Min({x, y}) <= x /\ Min({x, y}) <= y
  BY MinSmallest
<1> QED
  BY <1>1

LEMMA MinOne ==
  ASSUME NEW x \in Nat
  PROVE  Min({x}) = x
  BY MinSmallest

-----------------------------------------------------------------------------
(* The tick *)

\* What remains for an entry is a time of the processor.
LEMMA RemainingType ==
  ASSUME NEW e \in Entry, NEW b \in BOOLEAN, NEW time \in 0 .. Horizon
  PROVE  /\ Remaining(e, b, time) \in 0 .. Width - 1
         /\ b => Remaining(e, b, time) < DelayLimit
         /\ b /\ time <= e.min => Remaining(e, b, time) = e.min - time
         /\ b /\ time > e.min => Remaining(e, b, time) = 0
         /\ ~b /\ e.max # 0 /\ time <= e.max =>
              /\ Remaining(e, b, time) < DelayLimit
              /\ Remaining(e, b, time) = e.max - time
<1>1. /\ e.min \in 0 .. Horizon - 1
      /\ e.max \in 0 .. Horizon - 1
      /\ Horizon < DelayLimit /\ DelayLimit < Width - 1
      /\ Width \in Nat \ {0} /\ Horizon \in Nat /\ DelayLimit \in Nat
  BY ReportAssumption DEF Entry
<1>2. /\ (e.max - time) % Width \in 0 .. Width - 1
      /\ (e.max - time) \in 0 .. Width - 1 => (e.max - time) % Width = e.max - time
  <2>1. e.max - time \in Int
    BY <1>1
  <2> QED
    BY <1>1, <2>1, Modulo
<1> QED
  BY <1>1, <1>2 DEF Remaining

\* An event holds no more than the delay that it is given.
LEMMA SetDelayBounds ==
  ASSUME NEW d \in Nat
  PROVE  /\ d < DelayLimit => SetDelay(d) \in 0 .. d
         /\ d >= DelayLimit => SetDelay(d) = tick
<1>1. d % Quarter \in 0 .. d
  BY Modulo, ReportAssumption
<1>2. d % Minute \in 0 .. d
  BY Modulo, ReportAssumption
<1>3. /\ MsLimit \in Nat /\ QuarterLimit \in Nat /\ DelayLimit \in Nat
      /\ MsLimit <= QuarterLimit /\ QuarterLimit <= DelayLimit
  BY ReportAssumption
<1> QED
  BY <1>1, <1>2, <1>3 DEF SetDelay

\* The tick that scheduleTick sets comes in time for every entry.
LEMMA ScheduleCovers ==
  ASSUME NEW t \in [Entries -> Entry \union {Unused, Received}],
         NEW m \in [Entries -> BOOLEAN],
         NEW time \in [Entries -> 0 .. Horizon],
         tick \in Off .. DelayLimit,
         NEW k, k = scheduleTick(t, m, time)
  PROVE  /\ k \in Off .. DelayLimit
         /\ \A i \in Entries : t[i] \notin {Unused, Received} =>
              /\ m[i] => k # Off /\ (k <= 0 \/ k <= t[i].min - time[i])
              /\ ~m[i] /\ time[i] <= t[i].max /\ t[i].max # 0 =>
                   k # Off /\ k <= t[i].max - time[i]
<1> DEFINE In == {i \in Entries : t[i] \notin {Unused, Received}}
           Rest(i) == Remaining(t[i], m[i], time[i])
           Delays == {Rest(i) : i \in In} \union {Width - 1}
           delay == Min(Delays)
<1>1. \A i \in In : t[i] \in Entry /\ m[i] \in BOOLEAN /\ time[i] \in 0 .. Horizon
  OBVIOUS
<1>2. /\ Horizon < DelayLimit /\ DelayLimit < Width - 1
      /\ Width \in Nat \ {0} /\ Horizon \in Nat /\ DelayLimit \in Nat
      /\ Late \in Nat
  BY ReportAssumption
<1>3. \A i \in In : Rest(i) \in 0 .. Width - 1
  BY <1>1, RemainingType
<1>4. Delays \subseteq 0 .. Width - 1 /\ Delays # {}
  BY <1>2, <1>3
<1>5. delay \in Nat /\ delay <= Width - 1 /\ \A i \in In : delay <= Rest(i)
  <2>1. Delays \in SUBSET Nat
    BY <1>2, <1>4
  <2>2. /\ Width - 1 \in Delays
        /\ \A i \in In : Rest(i) \in Delays
    OBVIOUS
  <2> HIDE DEF Delays, Rest, In
  <2>3. delay \in Delays /\ \A y \in Delays : delay <= y
    BY <1>4, <2>1, MinSmallest
  <2> HIDE DEF delay
  <2> QED
    BY <2>1, <2>2, <2>3
<1>6. k = IF delay = Width - 1 THEN Off ELSE SetDelay(delay)
  BY DEF scheduleTick
<1> HIDE DEF delay, Delays
<1>7. delay < DelayLimit => k \in 0 .. delay
  BY <1>2, <1>5, <1>6, SetDelayBounds
<1>8. k \in Off .. DelayLimit
  BY <1>2, <1>5, <1>6, <1>7, SetDelayBounds DEF Off
<1>9. ASSUME NEW i \in In, m[i]
      PROVE  k # Off /\ (k <= 0 \/ k <= t[i].min - time[i])
  <2>1. /\ Rest(i) < DelayLimit
        /\ time[i] <= t[i].min => Rest(i) = t[i].min - time[i]
        /\ time[i] > t[i].min => Rest(i) = 0
    BY <1>1, <1>9, RemainingType
  <2>2. Rest(i) \in Nat /\ time[i] \in Nat /\ t[i].min \in Nat
    BY <1>1, <1>2, <1>3 DEF Entry
  <2> HIDE DEF Rest
  <2> QED
    BY <1>2, <1>5, <1>7, <2>1, <2>2 DEF Off
<1>10. ASSUME NEW i \in In, ~m[i], time[i] <= t[i].max, t[i].max # 0
       PROVE  k # Off /\ k <= t[i].max - time[i]
  <2>1. Rest(i) < DelayLimit /\ Rest(i) = t[i].max - time[i]
    BY <1>1, <1>10, RemainingType
  <2>2. Rest(i) \in Nat /\ time[i] \in Nat /\ t[i].max \in Nat
    BY <1>1, <1>2, <1>3 DEF Entry
  <2> HIDE DEF Rest
  <2> QED
    BY <1>2, <1>5, <1>7, <2>1, <2>2 DEF Off
<1> QED
  BY <1>8, <1>9, <1>10

-----------------------------------------------------------------------------
(* Types *)

\* The messages keep their types.
LEMMA MessageTypes ==
  ASSUME MessageTypeOK
  PROVE  /\ UNCHANGED messageVars => MessageTypeOK'
         /\ MessageReset => MessageTypeOK'
         /\ \A n : SendWithCallback(n) => MessageTypeOK'
         /\ SendPlain => MessageTypeOK'
         /\ \A b \in Buffers, delivered \in BOOLEAN :
              emAfMessageSentHandler(b, delivered) => MessageTypeOK'
<1> USE DEF MessageTypeOK
<1>1. UNCHANGED messageVars => MessageTypeOK'
  BY DEF messageVars
<1>2. MessageReset => MessageTypeOK'
  BY DEF MessageReset
<1>3. ASSUME NEW n, SendWithCallback(n) PROVE MessageTypeOK'
  <2>1. PICK used \in SUBSET Slots :
          \E tag \in [used -> FreeBuffers] :
            /\ messageSentCallbacks' =
                 [i \in Slots |-> IF i \in used THEN tag[i]
                                  ELSE messageSentCallbacks[i]]
            /\ inFlight' = inFlight \union {tag[i] : i \in used}
    BY <1>3 DEF SendWithCallback
  <2> QED
    BY <2>1 DEF FreeBuffers
<1>4. SendPlain => MessageTypeOK'
  BY DEF SendPlain, FreeBuffers
<1>5. ASSUME NEW b \in Buffers, NEW delivered \in BOOLEAN,
             emAfMessageSentHandler(b, delivered)
      PROVE  MessageTypeOK'
  <2>1. messageSentCallbacks' \in [Slots -> Buffers \union {NoTag}]
    BY <1>5 DEF emAfMessageSentHandler, Invalidated
  <2>2. inFlight' \subseteq Buffers
    BY <1>5 DEF emAfMessageSentHandler, retrySendReport, FreeBuffers
  <2> QED
    BY <2>1, <2>2
<1> QED
  BY <1>1, <1>2, <1>3, <1>4, <1>5

\* The entry that a configuration is written to: the one that has the
\* attribute, or one that is not in use, of which none has it.
LEMMA IndexForOne ==
  ASSUME NEW a, NEW i \in IndexFor(a)
  PROVE  /\ i \in Entries
         /\ \/ Active(i) /\ table[i].attribute = a
            \/ /\ table[i] = Unused
               /\ \A j \in Entries : Active(j) => table[j].attribute # a
  BY DEF IndexFor

\* What the table becomes is a table.
LEMMA EntryType ==
  ASSUME NEW a \in Attributes, NEW c \in Configs, c.max # Never
  PROVE  [attribute |-> a, min |-> c.min, max |-> c.max, change |-> c.change]
           \in Entry
  BY ReportAssumption DEF Entry

\* A second more, up to the horizon.
LEMMA Aged ==
  ASSUME NEW x \in 0 .. Horizon
  PROVE  /\ Min({x + 1, Horizon}) \in 0 .. Horizon
         /\ Min({x + 1, Horizon}) <= x + 1
         /\ Min({x + 1, Horizon}) < Horizon => Min({x + 1, Horizon}) = x + 1
<1>1. x + 1 \in Nat /\ Horizon \in Nat
  BY ReportAssumption
<1> QED
  BY <1>1, MinPair

\* The initial values have their types.
LEMMA InitType == Init => TypeOK
<1> SUFFICES ASSUME Init PROVE TypeOK
  OBVIOUS
<1>1. MessageTypeOK
  BY DEF Init, MessageInit, MessageTypeOK
<1>2. /\ Late \in Nat /\ Horizon \in Nat /\ DelayLimit \in Nat
      /\ \A a \in Attributes : 0 \in ValuesOf[a]
  BY ReportAssumption
<1> QED
  BY <1>1, <1>2 DEF Init, TypeOK, Off

\* The tick that an operation sets is one.
LEMMA TickType ==
  ASSUME TypeOK,
         NEW t \in [Entries -> Entry \union {Unused, Received}],
         NEW m \in [Entries -> BOOLEAN],
         NEW time \in [Entries -> 0 .. Horizon]
  PROVE  scheduleTick(t, m, time) \in Off .. DelayLimit
  BY ScheduleCovers DEF TypeOK

\* Every step keeps the types.
LEMMA NextType == TypeOK /\ [Next]_vars => TypeOK'
<1> SUFFICES ASSUME TypeOK, [Next]_vars
             PROVE  TypeOK'
  OBVIOUS
<1> USE DEF TypeOK
<1>0. /\ Late \in Nat /\ Horizon \in Nat /\ DelayLimit \in Nat
      /\ \A a \in Attributes : 0 \in ValuesOf[a] /\ ValuesOf[a] \subseteq Nat
  BY ReportAssumption
<1>1. CASE TickEventHandler
  <2> DEFINE due == DueEntries
  <2> HIDE DEF due
  <2>1. elapsed' \in [Entries -> 0 .. Horizon]
    BY <1>0, <1>1 DEF TickEventHandler
  <2>2. marked' \in [Entries -> BOOLEAN]
    BY <1>1, Zenon DEF TickEventHandler
  <2>3. \A i \in DueEntries : table[i].attribute \in Attributes
    BY DEF DueEntries, Due, Active, Entry
  <2>4. lastValue' \in [Entries -> Nat]
    <3>1. \A i \in Entries : lastValue'[i] \in Nat
      BY <1>1, <2>3 DEF TickEventHandler
    <3> QED
      BY <1>1, <3>1 DEF TickEventHandler
  <2>5. told' \in [Attributes ->
                    {Nothing} \union [value : Nat, age : 0 .. Horizon]]
    BY <1>0, <1>1 DEF TickEventHandler
  <2>6. tick' \in Off .. DelayLimit
    BY <1>1, <2>1, <2>2, TickType DEF TickEventHandler
  <2>7. MessageTypeOK'
    BY <1>1, MessageTypes DEF TickEventHandler
  <2> QED
    BY <1>1, <2>1, <2>2, <2>4, <2>5, <2>6, <2>7 DEF TickEventHandler
<1>2. ASSUME NEW a \in Attributes, NEW v \in ValuesOf[a], AttributeChange(a, v)
      PROVE  TypeOK'
  <2>1. marked' \in [Entries -> BOOLEAN]
    BY <1>2, Zenon DEF AttributeChange
  <2>2. /\ value' \in [Attributes -> Nat]
        /\ \A b \in Attributes : value'[b] \in ValuesOf[b]
    BY <1>0, <1>2 DEF AttributeChange
  <2>3. tick' = tick \/ tick' = scheduleTick(table, marked', elapsed)
    BY <1>2 DEF AttributeChange
  <2>4. tick' \in Off .. DelayLimit
    BY <2>1, <2>3, TickType
  <2>5. MessageTypeOK'
    BY <1>2, MessageTypes DEF AttributeChange
  <2> QED
    BY <1>2, <2>1, <2>2, <2>4, <2>5 DEF AttributeChange
<1>3. ASSUME NEW i \in Entries, removeConfigurationAndScheduleTick(i)
      PROVE  TypeOK'
  <2>1. table' \in [Entries -> Entry \union {Unused, Received}]
    BY <1>3 DEF removeConfigurationAndScheduleTick, Remove
  <2>2. tick' \in Off .. DelayLimit
    BY <1>3, <2>1, TickType DEF removeConfigurationAndScheduleTick
  <2>3. MessageTypeOK'
    BY <1>3, MessageTypes DEF removeConfigurationAndScheduleTick, Remove
  <2> QED
    BY <1>3, <2>1, <2>2, <2>3 DEF removeConfigurationAndScheduleTick, Remove
<1>4. ASSUME NEW a \in Attributes, NEW c \in Configs,
             ConfigureReportedAttribute(a, c)
      PROVE  TypeOK'
  <2>1. PICK i \in IndexFor(a) :
          \/ c.max # Never /\ Configure(a, c, i)
          \/ c.max = Never /\ Active(i) /\ removeConfigurationAndScheduleTick(i)
    BY <1>4 DEF ConfigureReportedAttribute
  <2>2. i \in Entries
    BY IndexForOne
  <2>3. CASE c.max # Never /\ Configure(a, c, i)
    <3>1. elapsed' \in [Entries -> 0 .. Horizon] /\ lastValue' \in [Entries -> Nat]
      <4>1. \/ elapsed' = elapsed /\ lastValue' = lastValue
            \/ /\ elapsed' = [elapsed EXCEPT ![i] = 0]
               /\ lastValue' = [lastValue EXCEPT ![i] = 0]
        BY <2>3 DEF Configure
      <4> QED
        BY <1>0, <4>1
    <3>2. MessageTypeOK'
      BY <2>3, MessageTypes DEF Configure
    <3>3. table' \in [Entries -> Entry \union {Unused, Received}]
      BY <2>3, EntryType DEF Configure
    <3>4. tick' = tick \/ tick' = scheduleTick(table', marked, elapsed')
      BY <2>3 DEF Configure
    <3>5. tick' \in Off .. DelayLimit
      BY <3>1, <3>3, <3>4, TickType
    <3> QED
      BY <2>3, <3>1, <3>2, <3>3, <3>5 DEF Configure
  <2> QED
    BY <1>3, <2>1, <2>2, <2>3
<1>5. CASE configureReceivedAttribute
  <2>1. MessageTypeOK'
    BY <1>5, MessageTypes DEF configureReceivedAttribute
  <2> QED
    BY <1>5, <2>1 DEF configureReceivedAttribute
<1>6. CASE ClearReportTable
  <2>1. MessageTypeOK'
    BY <1>6, MessageTypes DEF ClearReportTable
  <2> QED
    BY <1>0, <1>6, <2>1 DEF ClearReportTable, Off
<1>7. CASE Pass
  <2>1. MessageTypeOK'
    BY <1>7, MessageTypes DEF Pass
  <2>2. elapsed' \in [Entries -> 0 .. Horizon]
    BY <1>7, Aged DEF Pass
  <2>3. told' \in [Attributes ->
                    {Nothing} \union [value : Nat, age : 0 .. Horizon]]
    <3>1. ASSUME NEW a \in Attributes, told[a] # Nothing
          PROVE  [told[a] EXCEPT !.age = Min({@ + 1, Horizon})]
                   \in [value : Nat, age : 0 .. Horizon]
      <4>1. told[a].age \in 0 .. Horizon
        BY <3>1
      <4>2. Min({told[a].age + 1, Horizon}) \in 0 .. Horizon
        BY <4>1, Aged
      <4> QED
        BY <3>1, <4>2
    <3> QED
      BY <1>7, <3>1 DEF Pass
  <2>4. tick' \in Off .. DelayLimit
    BY <1>0, <1>7 DEF Pass, Off
  <2> QED
    BY <1>7, <2>1, <2>2, <2>3, <2>4 DEF Pass
<1>8. CASE MessageSentOrPlain
  <2>1. MessageTypeOK'
    BY <1>8, MessageTypes DEF MessageSentOrPlain
  <2> QED
    BY <1>8, <2>1 DEF MessageSentOrPlain, reportVars
<1>9. CASE Reset
  <2>1. MessageTypeOK'
    BY <1>9, MessageTypes DEF Reset
  <2>2. elapsed' \in [Entries -> 0 .. Horizon] /\ marked' \in [Entries -> BOOLEAN]
    BY <1>0, <1>9 DEF Reset
  <2>3. tick' \in Off .. DelayLimit
    BY <1>9, <2>2, TickType DEF Reset
  <2> QED
    BY <1>0, <1>9, <2>1, <2>2, <2>3 DEF Reset
<1>10. CASE UNCHANGED vars
  BY <1>10, MessageTypes DEF vars, reportVars
<1> QED
  BY <1>1, <1>2, <1>3, <1>4, <1>5, <1>6, <1>7, <1>8, <1>9, <1>10
     DEF Next, RemoveEntry

\* The variables keep their types: no operation sets the tick to a delay that
\* its event refuses (af-event.c:112-128), and no message has a tag that is none.
THEOREM TypeCorrect == Spec => []TypeOK
<1>1. TypeOK /\ [Next]_vars => TypeOK'
  BY NextType
<1> QED
  BY <1>1, InitType, PTL DEF Spec

-----------------------------------------------------------------------------
(* One entry of each attribute *)

\* Every step keeps OneEntry: only a configuration adds an attribute, and it
\* does so when no entry has it.
LEMMA NextOneEntry == TypeOK /\ OneEntry /\ [Next]_vars => OneEntry'
<1> SUFFICES ASSUME TypeOK, OneEntry, [Next]_vars
             PROVE  OneEntry'
  OBVIOUS
<1> USE DEF OneEntry, Active
<1>1. ASSUME NEW i \in Entries, removeConfigurationAndScheduleTick(i)
      PROVE  OneEntry'
  <2>1. table' = [table EXCEPT ![i] = Unused] /\ table \in [Entries -> Entry \union {Unused, Received}]
    BY <1>1 DEF removeConfigurationAndScheduleTick, Remove, TypeOK
  <2> QED
    BY <2>1
<1>2. ASSUME NEW a \in Attributes, NEW c \in Configs,
             ConfigureReportedAttribute(a, c)
      PROVE  OneEntry'
  <2>1. PICK i \in IndexFor(a) :
          \/ c.max # Never /\ Configure(a, c, i)
          \/ c.max = Never /\ Active(i) /\ removeConfigurationAndScheduleTick(i)
    BY <1>2 DEF ConfigureReportedAttribute
  <2>2. i \in Entries /\ \A j \in Entries : Active(j) /\ table[j].attribute = a => j = i
    BY IndexForOne
  <2>3. CASE c.max # Never /\ Configure(a, c, i)
    <3> DEFINE e == [attribute |-> a, min |-> c.min, max |-> c.max,
                     change |-> c.change]
    <3>1. table' = [table EXCEPT ![i] = e] \/ table' = table
      BY <2>3 DEF Configure
    <3>2. e.attribute = a
      OBVIOUS
    <3> HIDE DEF e
    <3> QED
      BY <2>2, <3>1, <3>2 DEF TypeOK
  <2> QED
    BY <1>1, <2>1, <2>2, <2>3
<1>3. CASE configureReceivedAttribute
  <2>1. PICK i \in Entries : table' = [table EXCEPT ![i] = Received]
    BY <1>3 DEF configureReceivedAttribute
  <2> QED
    BY <2>1 DEF TypeOK
<1>4. CASE ClearReportTable
  BY <1>4 DEF ClearReportTable
<1>5. CASE table' = table
  BY <1>5
<1>6. ASSUME NEW a \in Attributes, NEW v \in ValuesOf[a], AttributeChange(a, v)
      PROVE  table' = table
  BY <1>6 DEF AttributeChange
<1>7. TickEventHandler \/ Pass \/ MessageSentOrPlain \/ Reset \/ UNCHANGED vars =>
        table' = table
  BY DEF TickEventHandler, Pass, MessageSentOrPlain, Reset, vars, reportVars
<1> QED
  BY <1>1, <1>2, <1>3, <1>4, <1>5, <1>6, <1>7 DEF Next, RemoveEntry

LEMMA InitOneEntry == Init => OneEntry
  BY DEF Init, OneEntry, Active

\* No attribute has two entries, in whatever order they are made and removed
\* (reporting.c:637-654).
THEOREM OneEntryCorrect == Spec => []OneEntry
<1>1. TypeOK /\ OneEntry /\ [Next]_vars => OneEntry'
  BY NextOneEntry
<1> QED
  BY <1>1, InitOneEntry, TypeCorrect, PTL DEF Spec

-----------------------------------------------------------------------------
(* What the tick covers *)

\* No entry that is active after a step was touched by it.
Untouched ==
  \A j \in Entries :
    Active(j)' => table'[j] = table[j] /\ elapsed'[j] = elapsed[j]

\* Every step keeps TickCovers: one that changes what remains for an entry sets
\* the tick, or only makes it longer.
LEMMA NextTickCovers == TypeOK /\ TypeOK' /\ TickCovers /\ [Next]_vars => TickCovers'
<1> SUFFICES ASSUME TypeOK, TypeOK', TickCovers, [Next]_vars
             PROVE  TickCovers'
  OBVIOUS
<1>1. ASSUME tick' = scheduleTick(table', marked', elapsed')
      PROVE  TickCovers'
  <2>1. /\ table' \in [Entries -> Entry \union {Unused, Received}]
        /\ marked' \in [Entries -> BOOLEAN]
        /\ elapsed' \in [Entries -> 0 .. Horizon]
        /\ tick \in Off .. DelayLimit
    BY Zenon DEF TypeOK
  <2> QED
    BY <1>1, <2>1, ScheduleCovers DEF TickCovers, Active
<1>2. ASSUME tick' = tick, marked' = marked,
             Untouched
      PROVE  TickCovers'
  BY <1>2 DEF TickCovers, Active, Untouched
<1>3. CASE TickEventHandler
  BY <1>1, <1>3 DEF TickEventHandler
<1>4. ASSUME NEW a \in Attributes, NEW v \in ValuesOf[a], AttributeChange(a, v)
      PROVE  TickCovers'
  <2>1. \/ tick' = scheduleTick(table', marked', elapsed')
        \/ tick' = tick /\ table' = table /\ elapsed' = elapsed
           /\ marked' = [i \in Entries |-> marked[i] \/ i \in {}]
    BY <1>4, Zenon DEF AttributeChange
  <2>2. marked' = [i \in Entries |-> marked[i] \/ i \in {}] => marked' = marked
    BY Zenon DEF TypeOK
  <2> QED
    BY <1>1, <2>1, <2>2 DEF TickCovers, Active
<1>5. ASSUME NEW i \in Entries, removeConfigurationAndScheduleTick(i)
      PROVE  TickCovers'
  BY <1>1, <1>5 DEF removeConfigurationAndScheduleTick, Remove
<1>6. ASSUME NEW a \in Attributes, NEW c \in Configs,
             ConfigureReportedAttribute(a, c)
      PROVE  TickCovers'
  <2>1. PICK i \in IndexFor(a) :
          \/ c.max # Never /\ Configure(a, c, i)
          \/ c.max = Never /\ Active(i) /\ removeConfigurationAndScheduleTick(i)
    BY <1>6 DEF ConfigureReportedAttribute
  <2>2. i \in Entries /\ (Active(i) \/ table[i] = Unused)
    BY IndexForOne
  <2>3. CASE Configure(a, c, i)
    <3>1. \/ tick' = scheduleTick(table', marked', elapsed')
          \/ tick' = tick /\ table' = table
      BY <2>3 DEF Configure
    <3>2. marked' = marked
      BY <2>3 DEF Configure
    <3>3. CASE tick' = tick /\ table' = table
      <4>1. \/ elapsed' = elapsed
            \/ table[i] = Unused /\ elapsed' = [elapsed EXCEPT ![i] = 0]
        BY <2>3 DEF Configure, TypeOK
      <4>2. CASE elapsed' = elapsed
        BY <3>2, <3>3, <4>2 DEF TickCovers, Active
      <4>3. CASE table[i] = Unused /\ elapsed' = [elapsed EXCEPT ![i] = 0]
        <5>1. Untouched
          BY <3>3, <4>3 DEF TypeOK, Untouched, Active
        <5> QED
          BY <1>2, <3>2, <3>3, <5>1
      <4> QED
        BY <4>1, <4>2, <4>3
    <3> QED
      BY <1>1, <3>1, <3>3
  <2> QED
    BY <1>5, <2>1, <2>2, <2>3
<1>7. CASE configureReceivedAttribute
  <2>1. PICK i \in Entries : table[i] = Unused /\ table' = [table EXCEPT ![i] = Received]
    BY <1>7 DEF configureReceivedAttribute
  <2>2. elapsed' = elapsed /\ marked' = marked /\ tick' = tick
    BY <1>7 DEF configureReceivedAttribute
  <2>3. Untouched
    BY <2>1, <2>2 DEF TypeOK, Untouched, Active
  <2> QED
    BY <1>2, <2>2, <2>3
<1>8. CASE ClearReportTable
  BY <1>8 DEF ClearReportTable, TickCovers, Active
<1>9. CASE Pass
  <2> SUFFICES ASSUME NEW i \in Entries, Active(i)
               PROVE  /\ marked[i] =>
                           /\ tick' # Off
                           /\ tick' <= 0 \/ tick' <= table[i].min - elapsed'[i]
                      /\ ~marked[i] /\ elapsed'[i] <= table[i].max
                           /\ table[i].max # 0 =>
                           tick' # Off /\ tick' <= table[i].max - elapsed'[i]
    BY <1>9 DEF Pass, TickCovers, Active
  <2>1. /\ elapsed[i] \in 0 .. Horizon
        /\ table[i].min \in 0 .. Horizon - 1
        /\ table[i].max \in 0 .. Horizon - 1
        /\ tick \in Off .. DelayLimit
        /\ Late \in Nat /\ Horizon \in Nat /\ DelayLimit \in Nat
    BY ReportAssumption DEF TypeOK, Active, Entry
  <2>2. /\ elapsed'[i] \in 0 .. Horizon
        /\ elapsed'[i] <= elapsed[i] + 1
        /\ elapsed'[i] < Horizon => elapsed'[i] = elapsed[i] + 1
    BY <1>9, <2>1, Aged DEF Pass
  <2>3. /\ tick # -Late
        /\ tick # Off => tick' = tick - 1
    BY <1>9 DEF Pass
  <2>4. /\ marked[i] => tick # Off /\ (tick <= 0 \/ tick <= table[i].min - elapsed[i])
        /\ ~marked[i] /\ elapsed[i] <= table[i].max /\ table[i].max # 0 =>
             tick # Off /\ tick <= table[i].max - elapsed[i]
    BY DEF TickCovers
  <2>5. CASE marked[i]
    BY <2>1, <2>2, <2>3, <2>4, <2>5 DEF Off
  <2>6. CASE ~marked[i]
    BY <2>1, <2>2, <2>3, <2>4, <2>6 DEF Off
  <2> QED
    BY <2>5, <2>6
<1>10. CASE Reset
  BY <1>1, <1>10 DEF Reset
<1>11. CASE MessageSentOrPlain \/ UNCHANGED vars
  BY <1>11 DEF MessageSentOrPlain, vars, reportVars, TickCovers, Active
<1> QED
  BY <1>3, <1>4, <1>5, <1>6, <1>7, <1>8, <1>9, <1>10, <1>11 DEF Next, RemoveEntry

LEMMA InitTickCovers == Init => TickCovers
  BY DEF Init, TickCovers, Active

\* The tick comes no later than any entry may be due: no operation that sets it
\* for one entry puts off another (reporting.c:551-588).
THEOREM TickCoversCorrect == Spec => []TickCovers
<1>1. TypeOK /\ TypeOK' /\ TickCovers /\ [Next]_vars => TickCovers'
  BY NextTickCovers
<1> QED
  BY <1>1, InitTickCovers, TypeCorrect, PTL DEF Spec

-----------------------------------------------------------------------------
(* What was reported *)

\* What an entry keeps of the last report of its attribute a: the time and, of
\* a small one, the value are those of the report, and a value of it that is
\* reportable is marked.
Kept(i, a) ==
  /\ told[a] # Nothing => told[a].age = elapsed[i]
  /\ told[a] # Nothing /\ a \in Small => told[a].value = lastValue[i]
  /\ \/ a \notin Small
     \/ marked[i]
     \/ told[a] = Nothing
     \/ value[a] = lastValue[i]
     \/ ~Reportable(table[i], lastValue[i], value[a])

ReportInv == \A i \in Entries : Active(i) => Kept(i, table[i].attribute)

\* A step that leaves alone an entry, its attribute and what was reported of it
\* keeps what is known of it.
LEMMA KeptStays ==
  ASSUME NEW i \in Entries, Active(i)', ReportInv,
         \/ told'[table'[i].attribute] = Nothing
         \/ /\ Active(i) /\ table'[i] = table[i]
            /\ told'[table[i].attribute] = told[table[i].attribute]
            /\ value'[table[i].attribute] = value[table[i].attribute]
            /\ lastValue'[i] = lastValue[i] /\ elapsed'[i] = elapsed[i]
            /\ (marked'[i] <=> marked[i])
  PROVE  Kept(i, table[i].attribute)'
<1> DEFINE a == table[i].attribute
<1>1. CASE told'[table'[i].attribute] = Nothing
  BY <1>1 DEF Kept
<1>2. CASE /\ Active(i) /\ table'[i] = table[i]
           /\ told'[a] = told[a] /\ value'[a] = value[a]
           /\ lastValue'[i] = lastValue[i] /\ elapsed'[i] = elapsed[i]
           /\ (marked'[i] <=> marked[i])
  <2>1. Kept(i, a)
    BY <1>2 DEF ReportInv
  <2> QED
    BY <1>2, <2>1 DEF Kept, Reportable, Difference
<1> QED
  BY <1>1, <1>2

\* Every step keeps ReportInv: an entry that gets or changes an attribute has
\* no report of it yet, and a report brings value and time up to date.
LEMMA NextReport == TypeOK /\ OneEntry /\ ReportInv /\ [Next]_vars => ReportInv'
<1> SUFFICES ASSUME TypeOK, OneEntry, ReportInv, [Next]_vars,
                    NEW i \in Entries, Active(i)'
             PROVE  Kept(i, table[i].attribute)'
  BY DEF ReportInv
<1>0. Active(i) => table[i] \in Entry /\ table[i].attribute \in Attributes
  BY DEF TypeOK, Active, Entry
<1>1. CASE TickEventHandler
  <2> DEFINE a == table[i].attribute
  <2>1. table' = table /\ value' = value /\ Active(i) /\ a \in Attributes
    BY <1>0, <1>1 DEF TickEventHandler, Active
  <2>2. CASE i \in DueEntries
    <3>1. /\ told'[a] = [value |-> value[a], age |-> 0]
          /\ a \in Small => lastValue'[i] = value[a]
          /\ elapsed'[i] = 0
      BY <1>1, <2>1, <2>2 DEF TickEventHandler
    <3> QED
      BY <2>1, <3>1 DEF Kept
  <2>3. CASE i \notin DueEntries
    <3>1. \A j \in DueEntries : table[j].attribute # a
      BY <2>1, <2>3 DEF OneEntry, DueEntries, Due
    <3>2. told'[a] = told[a] /\ lastValue'[i] = lastValue[i] /\ elapsed'[i] = elapsed[i]
      BY <1>1, <2>1, <2>3, <3>1 DEF TickEventHandler
    <3>3. marked'[i] = (marked[i] /\ i \notin DueEntries)
      BY <1>1, Zenon DEF TickEventHandler
    <3>4. marked'[i] <=> marked[i]
      BY <2>3, <3>3, Zenon
    <3> QED
      BY <2>1, <3>2, <3>4, KeptStays
  <2> QED
    BY <2>2, <2>3
<1>2. ASSUME NEW a \in Attributes, NEW v \in ValuesOf[a], AttributeChange(a, v)
      PROVE  Kept(i, table[i].attribute)'
  <2>1. /\ table' = table /\ told' = told /\ Active(i)
        /\ lastValue' = lastValue /\ elapsed' = elapsed
        /\ value' = [value EXCEPT ![a] = v]
    BY <1>2 DEF AttributeChange, Active
  <2>2. PICK hit : /\ hit = {j \in {j \in Entries : Active(j) /\ table[j].attribute = a} :
                             /\ j = Min({k \in Entries : Active(k) /\ table[k].attribute = a})
                             /\ Reportable(table[j], lastValue[j], v)}
                   /\ marked' = [j \in Entries |-> marked[j] \/ j \in hit]
    BY <1>2, Zenon DEF AttributeChange
  <2>3. marked'[i] = (marked[i] \/ i \in hit)
    BY <2>2, Zenon
  <2>4. CASE table[i].attribute # a
    <3>1. i \notin hit
      BY <2>2, <2>4
    <3>2. marked'[i] <=> marked[i]
      BY <2>3, <3>1, Zenon
    <3> QED
      BY <1>0, <2>1, <2>4, <3>2, KeptStays DEF TypeOK
  <2>5. CASE table[i].attribute = a
    <3>1. {k \in Entries : Active(k) /\ table[k].attribute = a} = {i}
      BY <2>1, <2>5 DEF OneEntry
    <3>2. Min({i}) = i
      BY MinOne, ReportAssumption
    <3>3. i \in hit <=> Reportable(table[i], lastValue[i], v)
      BY <2>1, <2>2, <2>5, <3>1, <3>2
    <3>4. marked'[i] \/ ~Reportable(table[i], lastValue[i], v)
      BY <2>3, <3>3, Zenon
    <3>5. value'[a] = v
      BY <2>1 DEF TypeOK
    <3>6. Kept(i, a)
      BY <2>1, <2>5 DEF ReportInv
    <3>7. \/ marked'[i]
          \/ ~Reportable(table[i], lastValue[i], v)
      BY <3>4
    <3> QED
      BY <2>1, <2>5, <3>5, <3>6, <3>7 DEF Kept, Reportable, Difference
  <2> QED
    BY <2>4, <2>5
<1>3. ASSUME NEW r \in Entries, removeConfigurationAndScheduleTick(r)
      PROVE  Kept(i, table[i].attribute)'
  <2>1. /\ table' = [table EXCEPT ![r] = Unused]
        /\ lastValue' = lastValue /\ elapsed' = elapsed
        /\ marked' = marked /\ value' = value
    BY <1>3 DEF removeConfigurationAndScheduleTick, Remove
  <2>2. i # r /\ table'[i] = table[i] /\ Active(i)
    BY <2>1 DEF TypeOK, Active
  <2>3. \/ told'[table[i].attribute] = told[table[i].attribute]
        \/ told'[table[i].attribute] = Nothing
    BY <1>0, <1>3, <2>2 DEF removeConfigurationAndScheduleTick, Remove
  <2> QED
    BY <2>1, <2>2, <2>3, KeptStays
<1>4. ASSUME NEW a \in Attributes, NEW c \in Configs,
             ConfigureReportedAttribute(a, c)
      PROVE  Kept(i, table[i].attribute)'
  <2>1. PICK r \in IndexFor(a) :
          \/ c.max # Never /\ Configure(a, c, r)
          \/ c.max = Never /\ Active(r) /\ removeConfigurationAndScheduleTick(r)
    BY <1>4 DEF ConfigureReportedAttribute
  <2>2. /\ r \in Entries
        /\ \A j \in Entries : Active(j) /\ table[j].attribute = a => j = r
    BY IndexForOne DEF OneEntry
  <2>3. CASE Configure(a, c, r)
    <3> DEFINE e == [attribute |-> a, min |-> c.min, max |-> c.max,
                     change |-> c.change]
    <3>1. /\ marked' = marked /\ value' = value
          /\ \/ table' = [table EXCEPT ![r] = e] /\ told' = [told EXCEPT ![a] = Nothing]
             \/ table' = table /\ told' = told
      BY <2>3 DEF Configure
    <3>2. e.attribute = a
      OBVIOUS
    <3> HIDE DEF e
    <3>3. \/ elapsed' = elapsed /\ lastValue' = lastValue
          \/ /\ elapsed' = [elapsed EXCEPT ![r] = 0]
             /\ lastValue' = [lastValue EXCEPT ![r] = 0]
             /\ table[r] = Unused
      BY <2>3 DEF Configure, TypeOK
    <3>4. CASE table' = [table EXCEPT ![r] = e] /\ told' = [told EXCEPT ![a] = Nothing]
      <4>1. CASE i = r
        <5>1. table'[i].attribute = a /\ told'[a] = Nothing
          BY <2>2, <3>2, <3>4, <4>1 DEF TypeOK
        <5> QED
          BY <5>1, KeptStays
      <4>2. CASE i # r
        <5>1. table'[i] = table[i] /\ Active(i) /\ table[i].attribute # a
          BY <2>2, <3>4, <4>2 DEF TypeOK, Active
        <5>2. /\ told'[table[i].attribute] = told[table[i].attribute]
              /\ elapsed'[i] = elapsed[i] /\ lastValue'[i] = lastValue[i]
          BY <1>0, <3>3, <3>4, <4>2, <5>1 DEF TypeOK
        <5> QED
          BY <3>1, <5>1, <5>2, KeptStays
      <4> QED
        BY <4>1, <4>2
    <3>5. CASE table' = table /\ told' = told
      <4>1. Active(i) /\ (i # r \/ table[r] # Unused)
        BY <3>5 DEF Active
      <4>2. elapsed'[i] = elapsed[i] /\ lastValue'[i] = lastValue[i]
        BY <3>3, <4>1 DEF TypeOK
      <4> QED
        BY <3>1, <3>5, <4>1, <4>2, KeptStays
    <3> QED
      BY <3>1, <3>4, <3>5
  <2> QED
    BY <1>3, <2>1, <2>2, <2>3
<1>5. CASE configureReceivedAttribute
  <2>1. PICK r \in Entries : table' = [table EXCEPT ![r] = Received]
    BY <1>5 DEF configureReceivedAttribute
  <2>2. table'[i] = table[i] /\ Active(i)
    BY <2>1 DEF TypeOK, Active
  <2> QED
    BY <1>5, <2>2, KeptStays DEF configureReceivedAttribute
<1>6. CASE ClearReportTable
  BY <1>6 DEF ClearReportTable, Active
<1>7. CASE Pass
  <2> DEFINE a == table[i].attribute
  <2>1. /\ table' = table /\ value' = value /\ lastValue' = lastValue
        /\ marked' = marked /\ Active(i) /\ a \in Attributes
    BY <1>0, <1>7 DEF Pass, Active
  <2>2. Kept(i, a)
    BY <2>1 DEF ReportInv
  <2>3. elapsed'[i] = Min({elapsed[i] + 1, Horizon})
    BY <1>7 DEF Pass
  <2>4. CASE told[a] = Nothing
    <3>1. told'[a] = Nothing
      BY <1>7, <2>1, <2>4 DEF Pass
    <3> QED
      BY <2>1, <3>1, KeptStays
  <2>5. CASE told[a] # Nothing
    <3>1. told'[a] = [told[a] EXCEPT !.age = Min({@ + 1, Horizon})]
      BY <1>7, <2>1, <2>5 DEF Pass
    <3>2. told[a] \in [value : Nat, age : 0 .. Horizon]
      BY <2>1, <2>5 DEF TypeOK
    <3>3. told'[a].value = told[a].value /\ told'[a].age = Min({told[a].age + 1, Horizon})
      BY <3>1, <3>2
    <3>4. /\ a \in Small => told'[a].value = lastValue'[i]
          /\ told'[a].age = elapsed'[i]
      BY <2>1, <2>2, <2>3, <2>5, <3>3 DEF Kept
    <3>5. \/ a \notin Small
          \/ marked'[i]
          \/ value'[a] = lastValue'[i]
          \/ ~Reportable(table'[i], lastValue'[i], value'[a])
      BY <2>1, <2>2, <2>5 DEF Kept
    <3> QED
      BY <2>1, <3>4, <3>5 DEF Kept, Reportable, Difference
  <2> QED
    BY <2>4, <2>5
<1>8. CASE MessageSentOrPlain \/ UNCHANGED vars
  BY <1>8, KeptStays DEF MessageSentOrPlain, vars, reportVars, Active
<1>9. CASE Reset
  <2>1. told'[table'[i].attribute] = Nothing
    BY <1>0, <1>9 DEF Reset, Active
  <2> QED
    BY <2>1, KeptStays
<1> QED
  BY <1>1, <1>2, <1>3, <1>4, <1>5, <1>6, <1>7, <1>8, <1>9 DEF Next, RemoveEntry

LEMMA InitReport == Init => ReportInv
  BY DEF Init, ReportInv, Active

LEMMA ReportCorrect == Spec => []ReportInv
<1>1. TypeOK /\ OneEntry /\ ReportInv /\ [Next]_vars => ReportInv'
  BY NextReport
<1> QED
  BY <1>1, InitReport, TypeCorrect, OneEntryCorrect, PTL DEF Spec

\* What ReportInv says of an entry that is not marked is NoCreep.
LEMMA KeptNoCreep == TypeOK /\ ReportInv => NoCreep
<1> SUFFICES ASSUME TypeOK, ReportInv, NEW i \in Entries, Active(i), ~marked[i],
                    table[i].attribute \in Small,
                    told[table[i].attribute] # Nothing,
                    value[table[i].attribute] # told[table[i].attribute].value
             PROVE  LET a == table[i].attribute IN
                      /\ a \in Analog
                      /\ (value[a] - told[a].value) \in
                            -(table[i].change - 1) .. (table[i].change - 1)
  BY DEF NoCreep
<1> DEFINE a == table[i].attribute
           old == lastValue[i]
           new == value[a]
           by == table[i].change
<1>1. told[a].value = old /\ ~Reportable(table[i], old, new)
  BY DEF ReportInv, Kept
<1>2. by \in Nat /\ a \in Attributes
  BY DEF TypeOK, Active, Entry
<1>3. old \in Nat /\ new \in Nat /\ new # old
  BY <1>1, <1>2 DEF TypeOK
<1>4. a \in Analog /\ ~(by <= Gap(old, new))
  <2>1. Difference(a, old, new) = Gap(old, new) /\ table[i].attribute = a
    BY DEF Difference
  <2>2. \A v, w \in Nat : v # w => Gap(v, w) # 0
    BY DEF Gap
  <2> QED
    BY <1>1, <1>3, <2>1, <2>2 DEF Reportable
<1> HIDE DEF old, new, by
<1>5. new - old \in -(by - 1) .. (by - 1)
  BY <1>2, <1>3, <1>4 DEF Gap
<1> QED
  BY <1>1, <1>4, <1>5 DEF old, new, by

\* A value of at most 4 bytes does not move away from the one reported last in
\* steps too small to be reported: what is compared is the last report (reporting.c:189-206,
\* 533-545).
THEOREM NoCreepCorrect == Spec => []NoCreep
  BY TypeCorrect, ReportCorrect, KeptNoCreep, PTL

\* Reports of an attribute are no closer than its minimum interval, whoever
\* set the tick (reporting.c:107-111).
THEOREM MinIntervalCorrect == Spec => MinIntervalKept
<1>1. ReportInv /\ [Next]_vars =>
        [TickEventHandler =>
           \A i \in DueEntries :
             LET a == table[i].attribute IN
             told[a] = Nothing \/ told[a].age >= table[i].min]_vars
  BY DEF ReportInv, Kept, DueEntries, Due
<1> QED
  BY <1>1, ReportCorrect, PTL DEF Spec, MinIntervalKept

-----------------------------------------------------------------------------
(* The callbacks *)

\* Every step keeps CallbacksMatch: a message that is sent with the callback
\* takes a slot of its own, and one that is told of gives it back.
LEMMA NextCallbacks ==
  TypeOK /\ CallbacksMatch /\ [Next]_vars => CallbacksMatch'
<1> SUFFICES ASSUME TypeOK, CallbacksMatch, [Next]_vars
             PROVE  CallbacksMatch'
  OBVIOUS
<1>0. /\ messageSentCallbacks \in [Slots -> Buffers \union {NoTag}]
      /\ inFlight \subseteq Buffers /\ NoTag \notin Buffers
      /\ firstTries \subseteq inFlight
      /\ \A i \in Slots : messageSentCallbacks[i] # NoTag =>
                            messageSentCallbacks[i] \in firstTries
      /\ \A b \in firstTries : \E i \in Slots : messageSentCallbacks[i] = b
      /\ \A i, j \in Slots :
           messageSentCallbacks[i] = messageSentCallbacks[j] =>
             i = j \/ messageSentCallbacks[i] = NoTag
  BY MessageAssumption DEF TypeOK, MessageTypeOK, CallbacksMatch
<1>1. ASSUME NEW n, SendWithCallback(n)
      PROVE  CallbacksMatch'
  <2>1. PICK used \in SUBSET Slots :
          /\ NextSlots(used)
          /\ \E tag \in [used -> FreeBuffers] :
               /\ \A i, j \in used : tag[i] = tag[j] => i = j
               /\ messageSentCallbacks' =
                    [i \in Slots |-> IF i \in used THEN tag[i]
                                     ELSE messageSentCallbacks[i]]
               /\ inFlight' = inFlight \union {tag[i] : i \in used}
               /\ firstTries' = firstTries \union {tag[i] : i \in used}
    BY <1>1 DEF SendWithCallback
  <2>2. PICK tag \in [used -> FreeBuffers] :
          /\ \A i, j \in used : tag[i] = tag[j] => i = j
          /\ messageSentCallbacks' =
               [i \in Slots |-> IF i \in used THEN tag[i]
                                ELSE messageSentCallbacks[i]]
          /\ inFlight' = inFlight \union {tag[i] : i \in used}
          /\ firstTries' = firstTries \union {tag[i] : i \in used}
    BY <2>1
  <2>3. \A i \in used : /\ messageSentCallbacks[i] = NoTag
                        /\ tag[i] \in Buffers /\ tag[i] \notin inFlight
    BY <2>1 DEF NextSlots, FreeSlots, FreeBuffers
  <2>4. /\ \A i \in used : messageSentCallbacks'[i] = tag[i]
        /\ \A i \in Slots \ used : messageSentCallbacks'[i] = messageSentCallbacks[i]
    BY <2>2
  <2>5. \A i, j \in Slots :
          messageSentCallbacks'[i] = messageSentCallbacks'[j] =>
            i = j \/ messageSentCallbacks'[i] = NoTag
    BY <1>0, <2>2, <2>3, <2>4
  <2>6. {messageSentCallbacks'[i] : i \in Slots} \ {NoTag} = firstTries'
    <3>1. \A b \in firstTries' : b # NoTag /\ \E i \in Slots : messageSentCallbacks'[i] = b
      BY <1>0, <2>2, <2>3, <2>4
    <3>2. \A i \in Slots : messageSentCallbacks'[i] # NoTag =>
                              messageSentCallbacks'[i] \in firstTries'
      BY <1>0, <2>2, <2>3, <2>4
    <3> QED
      BY <3>1, <3>2
  <2> QED
    BY <1>0, <2>2, <2>5, <2>6 DEF CallbacksMatch
<1>2. ASSUME NEW b \in Buffers, NEW delivered \in BOOLEAN,
             emAfMessageSentHandler(b, delivered)
      PROVE  CallbacksMatch'
  <2>1. /\ messageSentCallbacks' = Invalidated(b)
        /\ firstTries' = firstTries \ {b}
        /\ inFlight \ {b} \subseteq inFlight'
    BY <1>2 DEF emAfMessageSentHandler
  <2>2. \A i \in Slots : messageSentCallbacks'[i] =
                            IF messageSentCallbacks[i] = b THEN NoTag
                            ELSE messageSentCallbacks[i]
    <3>1. \A i, j \in Slots :
            messageSentCallbacks[i] = b /\ messageSentCallbacks[j] = b => j = i
      BY <1>0
    <3>2. \A i \in Slots : i >= i
      BY MessageAssumption DEF Slots
    <3> QED
      BY <2>1, <3>1, <3>2 DEF Invalidated
  <2>3. {messageSentCallbacks'[i] : i \in Slots} \ {NoTag} = firstTries'
    <3>1. \A c \in firstTries' : c # NoTag /\ \E i \in Slots : messageSentCallbacks'[i] = c
      BY <1>0, <2>1, <2>2
    <3>2. \A i \in Slots : messageSentCallbacks'[i] # NoTag =>
                              messageSentCallbacks'[i] \in firstTries'
      BY <1>0, <2>1, <2>2
    <3> QED
      BY <3>1, <3>2
  <2> QED
    BY <1>0, <2>1, <2>2, <2>3 DEF CallbacksMatch
<1>3. CASE MessageReset
  BY <1>3 DEF MessageReset, CallbacksMatch
<1>4. CASE SendPlain
  BY <1>4 DEF SendPlain, CallbacksMatch
<1>5. CASE UNCHANGED messageVars
  BY <1>5 DEF messageVars, CallbacksMatch
<1>6. ASSUME NEW a \in Attributes, NEW v \in ValuesOf[a], AttributeChange(a, v)
      PROVE  UNCHANGED messageVars
  BY <1>6 DEF AttributeChange
<1>7. ASSUME NEW a \in Attributes, NEW c \in Configs, ConfigureReportedAttribute(a, c)
      PROVE  UNCHANGED messageVars
  BY <1>7 DEF ConfigureReportedAttribute, Configure,
     removeConfigurationAndScheduleTick, Remove
<1>8. ASSUME NEW i \in Entries, RemoveEntry(i)
      PROVE  UNCHANGED messageVars
  BY <1>8 DEF RemoveEntry, removeConfigurationAndScheduleTick, Remove
<1>9. configureReceivedAttribute \/ ClearReportTable \/ Pass \/ UNCHANGED vars =>
        UNCHANGED messageVars
  BY DEF configureReceivedAttribute, ClearReportTable, Pass, vars
<1> QED
  BY <1>1, <1>2, <1>3, <1>4, <1>5, <1>6, <1>7, <1>8, <1>9
     DEF Next, TickEventHandler, MessageSentOrPlain, Reset

LEMMA InitCallbacks == Init => CallbacksMatch
  BY DEF Init, MessageInit, CallbacksMatch

\* A message that is to be retried is called back once, and its slot of the
\* table is free after that (af-main-common.c:104-147, 235-238, 682-683).
THEOREM CallbacksCorrect == Spec => []CallbacksMatch
<1>1. TypeOK /\ CallbacksMatch /\ [Next]_vars => CallbacksMatch'
  BY NextCallbacks
<1> QED
  BY <1>1, InitCallbacks, TypeCorrect, PTL DEF Spec

\* A report that failed is sent again once: a message without a callback, be
\* it a second try or another one in the buffer of a first try that is over,
\* is not sent again whatever becomes of it (reporting.c:47-57;
\* af-main-common.c:104-147, 682-683).
RetriesOnce ==
  [][\A b \in Buffers, delivered \in BOOLEAN :
       emAfMessageSentHandler(b, delivered) /\ b \notin firstTries =>
         inFlight' = inFlight \ {b}]_vars

\* No message is sent a third time.
THEOREM RetryCorrect == Spec => RetriesOnce
<1>1. ASSUME CallbacksMatch, NEW b \in Buffers, NEW delivered \in BOOLEAN,
             emAfMessageSentHandler(b, delivered), b \notin firstTries
      PROVE  inFlight' = inFlight \ {b}
  <2>1. ~getMessageSentCallback(b)
    <3> SUFFICES ASSUME NEW i \in Slots, messageSentCallbacks[i] = b
                 PROVE  FALSE
      BY DEF getMessageSentCallback
    <3>1. b # NoTag
      BY MessageAssumption
    <3>. QED
      BY <1>1, <3>1 DEF CallbacksMatch
  <2>2. retrySendReport(b, delivered) = {{}}
    BY <2>1 DEF retrySendReport
  <2>3. inFlight' = (inFlight \ {b}) \union {}
    BY <1>1, <2>2 DEF emAfMessageSentHandler
  <2>. QED
    BY <2>3
<1>2. CallbacksMatch /\ [Next]_vars =>
        [\A b \in Buffers, delivered \in BOOLEAN :
           emAfMessageSentHandler(b, delivered) /\ b \notin firstTries =>
             inFlight' = inFlight \ {b}]_vars
  BY <1>1
<1> QED
  BY <1>2, CallbacksCorrect, PTL DEF Spec, RetriesOnce
=============================================================================
