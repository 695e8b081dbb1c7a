----------------------------- MODULE Reporting -----------------------------
(***************************************************************************)
(* The reporting plugin: which attributes are reported is configured by    *)
(* commands and kept in tokens; what was reported last, and when, is kept  *)
(* in RAM.  One event, the tick, sends what is due; every other operation  *)
(* sets it to the time at which something will be.  Times are counted in   *)
(* units, of which the tick of the processor has Width; what the code      *)
(* computes with them wraps as it does there.                              *)
(***************************************************************************)
EXTENDS MessageSent, Integers, FiniteSetsExt

CONSTANTS
  Attributes,    \* the attributes that exist
  Analog,        \* those of an analog type
  Small,         \* those whose values fit in the 4 bytes of lastReportValue
  ClusterOf,     \* the cluster of each
  ValuesOf,      \* what each of them may be set to
  Entries,       \* the indices of the report table, 1 .. TABLE_SIZE
  Configs,       \* the [min, max, change] that commands may ask for
  Never,         \* 0xFFFF as a maximum interval
  Bindings,      \* the unicast bindings of a cluster
  Unused,        \* a table entry that is not in use
  Received,      \* one of a report to be received
  Width,         \* 2^32, the width of a time in milliseconds
  MsLimit,       \* MAX_SLEEP_UNITS
  Quarter,       \* MILLISECOND_TICKS_PER_QUARTERSECOND
  QuarterLimit,  \* the first delay that quarter seconds cannot hold
  Minute,        \* MILLISECOND_TICKS_PER_MINUTE
  DelayLimit,    \* the first delay that no unit of an event can hold
  Late,          \* how late the tick may be served
  Horizon        \* a time after which no more of it is counted

Entry ==
  [attribute : Attributes, min : 0 .. Horizon - 1, max : 0 .. Horizon - 1,
   change : Nat]

ASSUME ReportAssumption ==
  /\ Analog \subseteq Attributes /\ Small \subseteq Attributes
  /\ \A a \in Attributes : 0 \in ValuesOf[a] /\ ValuesOf[a] \subseteq Nat
  /\ Entries \subseteq Nat
  /\ Configs \subseteq [min : 0 .. Horizon - 1,
                       max : 0 .. Horizon - 1 \union {Never}, change : Nat]
  /\ Unused # Received /\ Unused \notin Entry /\ Received \notin Entry
  /\ Bindings \in Nat /\ Late \in Nat /\ Horizon \in Nat \ {0}
  /\ Quarter \in Nat \ {0} /\ Minute \in Nat \ {0}
  /\ MsLimit \in Nat /\ QuarterLimit \in MsLimit .. DelayLimit
  /\ DelayLimit \in Nat /\ Horizon + MsLimit < DelayLimit
  /\ Width \in Nat /\ DelayLimit + Horizon < Width

VARIABLES
  table,         \* the report table, in tokens
  elapsed,       \* time since lastReportTimeMs, per entry
  lastValue,     \* lastReportValue, per entry
  marked,        \* reportableChange, per entry
  value,         \* the attributes
  tick,          \* time until the tick event, less than 0 when late, or Off
  told           \* history: per attribute, what was put in a report since the
                 \* entry was last configured, and how long ago

reportVars == <<table, elapsed, lastValue, marked, value, tick, told>>
vars == <<reportVars, messageVars>>

Off == -(Late + 1)

Nothing == [value |-> 0, age |-> -1]

\* Entry i reports something.
Active(i) == table[i] \notin {Unused, Received}

Gap(v, w) == IF v < w THEN w - v ELSE v - w

\* emberAfGetDifference: values are compared as numbers without a sign, and
\* those of more than 4 bytes not at all.
Difference(a, v, w) == IF a \in Small THEN Gap(v, w) ELSE 0

\* Mutant: the change has to exceed the one that was configured.
ReportableBeyond(e, old, new) ==
  LET difference == Difference(e.attribute, old, new) IN
  IF e.attribute \in Analog THEN e.change < difference ELSE difference # 0

\* What emberAfReportingAttributeChangeCallback asks of a new value.
Reportable(e, old, new) ==
  LET difference == Difference(e.attribute, old, new) IN
  IF e.attribute \in Analog THEN e.change <= difference ELSE difference # 0

-----------------------------------------------------------------------------
(* The tick *)

\* Mutant: the minimum interval is counted from now.
RemainingFromNow(e, isMarked, time) ==
  CASE isMarked   -> e.min
    [] ~isMarked /\ e.max # 0 -> (e.max - time) % Width
    [] OTHER      -> Width - 1

\* What scheduleTick finds remaining for entry e; Width - 1 stands for nothing.
\* A maximum interval that is over wraps.
Remaining(e, isMarked, time) ==
  CASE isMarked   -> IF e.min < time THEN 0 ELSE e.min - time
    [] ~isMarked /\ e.max # 0 -> (e.max - time) % Width
    [] OTHER      -> Width - 1

\* Mutant: no delay is too long.
SetDelayUnchecked(delay) ==
  IF delay < MsLimit THEN delay ELSE delay - (delay % Quarter)

\* emberAfEventControlSetDelay: a longer delay is counted in quarter seconds,
\* or in minutes; one that is too long is refused.
SetDelay(delay) ==
  CASE delay < MsLimit -> delay
    [] delay \in MsLimit .. QuarterLimit - 1 -> delay - (delay % Quarter)
    [] delay \in QuarterLimit .. DelayLimit - 1 -> delay - (delay % Minute)
    [] OTHER -> tick

\* Mutant: the last entry that has something to report decides.
ScheduleLast(t, m, time) ==
  LET delays == {<<i, Remaining(t[i], m[i], time[i])>> :
                   i \in {j \in Entries : t[j] \notin {Unused, Received}}}
      known  == {d \in delays : d[2] # Width - 1}
  IN  IF known = {} THEN Off
      ELSE SetDelay((CHOOSE d \in known : \A e \in known : e[1] <= d[1])[2])

\* The tick after scheduleTick, for what table, marks and times have become.
scheduleTick(t, m, time) ==
  LET delays == {Remaining(t[i], m[i], time[i]) :
                   i \in {j \in Entries : t[j] \notin {Unused, Received}}}
      delay  == Min(delays \union {Width - 1})
  IN  IF delay = Width - 1 THEN Off ELSE SetDelay(delay)

\* Mutant: the minimum interval is left to the tick.
DueAtTick(i) ==
  Active(i) /\ (marked[i] \/ elapsed[i] >= table[i].max)

\* Entry i is put in a report by the tick.
Due(i) ==
  /\ Active(i)
  /\ elapsed[i] >= table[i].min
  /\ marked[i] \/ elapsed[i] >= table[i].max

DueEntries == {i \in Entries : Due(i)}

\* Entries of one cluster that follow each other share a report.
Frames(due) ==
  {i \in due : \A j \in due :
     j < i /\ (\A k \in due : k <= j \/ k >= i) =>
       ClusterOf[table[i].attribute] # ClusterOf[table[j].attribute]}

\* The reports go to the bindings of their cluster; the device may be disabled,
\* and the first that cannot be sent ends it.  The entries are taken for
\* reported in any case.
TickEventHandler ==
  LET due == DueEntries IN
  /\ tick \in -Late .. 0
  /\ elapsed' = [i \in Entries |-> IF i \in due THEN 0 ELSE elapsed[i]]
  /\ marked' = [i \in Entries |-> marked[i] /\ i \notin due]
  /\ lastValue' = [i \in Entries |->
       IF i \in due /\ table[i].attribute \in Small
       THEN value[table[i].attribute] ELSE lastValue[i]]
  /\ told' = [a \in Attributes |->
       IF \E i \in due : table[i].attribute = a
       THEN [value |-> value[a], age |-> 0] ELSE told[a]]
  /\ tick' = scheduleTick(table, marked', elapsed')
  /\ SendWithCallback(Cardinality(Frames(due)) * Bindings)
  /\ UNCHANGED <<table, value>>

-----------------------------------------------------------------------------
(* Changes of an attribute *)

\* emAfWriteAttribute, which tells the plugin whether the value is new or not.
AttributeChange(a, v) ==
  /\ value' = [value EXCEPT ![a] = v]
  /\ LET watch == {i \in Entries : Active(i) /\ table[i].attribute = a}
         hit   == {i \in watch : i = Min(watch)
                                 /\ Reportable(table[i], lastValue[i], v)}
     IN  /\ marked' = [i \in Entries |-> marked[i] \/ i \in hit]
         /\ tick' = IF hit = {} THEN tick
                    ELSE scheduleTick(table, marked', elapsed)
  /\ UNCHANGED <<table, elapsed, lastValue, told, messageVars>>

-----------------------------------------------------------------------------
(* The configuration *)

\* Mutant: the search stops at a free entry.
IndexForAny(a) ==
  LET found == {i \in Entries : \/ table[i] = Unused
                                \/ Active(i) /\ table[i].attribute = a}
  IN  {i \in found : i = Min(found)}

\* The entry that a configuration of a is written to: the one that has it, or
\* else the first that is not in use.
IndexFor(a) ==
  LET match == {i \in Entries : Active(i) /\ table[i].attribute = a}
      free  == {i \in Entries : table[i] = Unused}
      found == IF match # {} THEN match ELSE free
  IN  {i \in found : i = Min(found)}

\* removeConfiguration: the data in RAM stay.
Remove(i) ==
  /\ table' = [table EXCEPT ![i] = Unused]
  /\ told' = [a \in Attributes |->
       IF Active(i) /\ table[i].attribute = a THEN Nothing ELSE told[a]]
  /\ UNCHANGED <<elapsed, lastValue, marked, value, messageVars>>

removeConfigurationAndScheduleTick(i) ==
  Remove(i) /\ tick' = scheduleTick(table', marked, elapsed)

\* A new entry starts its time and value; its mark is as the last user of the
\* entry left it.  That is done before the application is asked, which may
\* reject the configuration.
Configure(a, c, i) ==
  LET new == table[i] = Unused IN
  /\ elapsed' = [elapsed EXCEPT ![i] = IF new THEN 0 ELSE @]
  /\ lastValue' = [lastValue EXCEPT ![i] = IF new THEN 0 ELSE @]
  /\ \/ /\ table' = [table EXCEPT ![i] =
                       [attribute |-> a, min |-> c.min, max |-> c.max,
                        change |-> c.change]]
        /\ told' = [told EXCEPT ![a] = Nothing]
        /\ tick' = scheduleTick(table', marked, elapsed')
     \/ UNCHANGED <<table, told, tick>>
  /\ UNCHANGED <<marked, value, messageVars>>

\* A configuration whose intervals make no sense, or for which the table has
\* no space, changes nothing.
ConfigureReportedAttribute(a, c) ==
  /\ c.max # 0 => c.max >= c.min
  /\ \E i \in IndexFor(a) :
       \/ c.max # Never /\ Configure(a, c, i)
       \/ c.max = Never /\ Active(i) /\ removeConfigurationAndScheduleTick(i)

\* A report to be received takes an entry, and nothing else.  A further source
\* takes another one; an update of the timeout changes nothing that counts.
configureReceivedAttribute ==
  /\ \E i \in Entries :
       /\ table[i] = Unused
       /\ \A j \in Entries : table[j] = Unused => j >= i
       /\ table' = [table EXCEPT ![i] = Received]
  /\ UNCHANGED <<elapsed, lastValue, marked, value, tick, told, messageVars>>

RemoveEntry(i) == removeConfigurationAndScheduleTick(i)

ClearReportTable ==
  /\ table' = [i \in Entries |-> Unused]
  /\ told' = [a \in Attributes |-> Nothing]
  /\ tick' = Off
  /\ UNCHANGED <<elapsed, lastValue, marked, value, messageVars>>

-----------------------------------------------------------------------------
(* Time, the messages, and a reset *)

\* The main loop serves the tick at most Late units after it was due.
Pass ==
  /\ tick # -Late
  /\ tick' = IF tick = Off THEN Off ELSE tick - 1
  /\ elapsed' = [i \in Entries |-> Min({elapsed[i] + 1, Horizon})]
  /\ told' = [a \in Attributes |->
       IF told[a] = Nothing THEN Nothing
       ELSE [told[a] EXCEPT !.age = Min({@ + 1, Horizon})]]
  /\ UNCHANGED <<table, lastValue, marked, value, messageVars>>

MessageSentOrPlain ==
  /\ \/ \E b \in Buffers, delivered \in BOOLEAN :
          emAfMessageSentHandler(b, delivered)
     \/ SendPlain
  /\ UNCHANGED reportVars

\* The tokens survive, everything else starts anew; the plugin schedules the
\* tick.  An attribute is 0 again.
Reset ==
  /\ elapsed' = [i \in Entries |-> 0]
  /\ lastValue' = [i \in Entries |-> 0]
  /\ marked' = [i \in Entries |-> FALSE]
  /\ value' = [a \in Attributes |-> 0]
  /\ told' = [a \in Attributes |-> Nothing]
  /\ tick' = scheduleTick(table, marked', elapsed')
  /\ MessageReset
  /\ UNCHANGED table

-----------------------------------------------------------------------------
Init ==
  /\ table = [i \in Entries |-> Unused]
  /\ elapsed = [i \in Entries |-> 0]
  /\ lastValue = [i \in Entries |-> 0]
  /\ marked = [i \in Entries |-> FALSE]
  /\ value = [a \in Attributes |-> 0]
  /\ tick = Off
  /\ told = [a \in Attributes |-> Nothing]
  /\ MessageInit

Next ==
  \/ TickEventHandler
  \/ \E a \in Attributes : \E v \in ValuesOf[a] : AttributeChange(a, v)
  \/ \E a \in Attributes, c \in Configs : ConfigureReportedAttribute(a, c)
  \/ configureReceivedAttribute
  \/ \E i \in Entries : RemoveEntry(i)
  \/ ClearReportTable
  \/ Pass
  \/ MessageSentOrPlain
  \/ Reset

Spec == Init /\ [][Next]_vars

\* Time passes, and the main loop serves the tick.
FairSpec == Spec /\ WF_vars(Pass) /\ WF_vars(TickEventHandler)

-----------------------------------------------------------------------------
(* Properties *)

\* Every variable keeps its type; the tick is set to no delay that its event
\* cannot hold, and is late by no more than Late (reporting.c:39-44, 81-212, 551-588).
TypeOK ==
  /\ table \in [Entries -> Entry \union {Unused, Received}]
  /\ elapsed \in [Entries -> 0 .. Horizon]
  /\ marked \in [Entries -> BOOLEAN]
  /\ lastValue \in [Entries -> Nat]
  /\ value \in [Attributes -> Nat]
  /\ \A a \in Attributes : value[a] \in ValuesOf[a]
  /\ tick \in Off .. DelayLimit
  /\ told \in [Attributes ->
                {Nothing} \union [value : Nat, age : 0 .. Horizon]]
  /\ MessageTypeOK

\* No attribute is reported by two entries, of which changes would mark the
\* first alone, in whatever order entries are made, freed and made anew
\* (reporting.c:637-654).
OneEntry ==
  \A i, j \in Entries :
    Active(i) /\ Active(j) /\ table[i].attribute = table[j].attribute => i = j

\* The tick comes no later than the report of a change is allowed, and no later
\* than a maximum interval that is not over is: no operation that sets the tick
\* for one entry puts off another (reporting.c:551-588).
TickCovers ==
  \A i \in Entries :
    /\ Active(i) /\ marked[i] =>
         tick # Off /\ (tick <= 0 \/ tick <= table[i].min - elapsed[i])
    /\ Active(i) /\ ~marked[i] /\ elapsed[i] <= table[i].max /\ table[i].max # 0 =>
         tick # Off /\ tick <= table[i].max - elapsed[i]

\* An attribute that no report is pending for has not moved away, be it in
\* small steps, by the reportable change from what was reported last: of those
\* that are "small enough for us to compare" (reporting.c:189-206, 533-545).
NoCreep ==
  \A i \in Entries :
    Active(i) /\ ~marked[i] /\ table[i].attribute \in Small =>
      LET a == table[i].attribute IN
      \/ told[a] = Nothing
      \/ a \notin Analog /\ value[a] = told[a].value
      \/ a \in Analog /\ (value[a] - told[a].value) \in
                            -(table[i].change - 1) .. (table[i].change - 1)
      \/ a \in Analog /\ value[a] = told[a].value

\* Two reports of an attribute are apart by the minimum interval at least, in
\* whatever order changes and other entries set the tick (reporting.c:107-111).
MinIntervalKept ==
  [][TickEventHandler =>
       \A i \in DueEntries :
         LET a == table[i].attribute IN
         told[a] = Nothing \/ told[a].age >= table[i].min]_vars

\* Entry i has a change to report.
Pending(i) == Active(i) /\ marked[i]

\* A change that is to be reported is put in a report, unless its entry goes or
\* the device restarts, however often other changes and configurations set the
\* tick anew (reporting.c:533-546, 551-588).
ChangesReported == \A i \in Entries : Pending(i) ~> ~Pending(i)

\* A report is of a change, or of a maximum interval that is set and is over
\* (the comment at reporting.c:102-104).
ReportsForCause ==
  [][TickEventHandler =>
       \A i \in DueEntries :
         marked[i] \/ (table[i].max # 0 /\ elapsed[i] >= table[i].max)]_vars
=============================================================================
