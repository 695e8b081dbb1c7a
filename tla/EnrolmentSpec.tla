--------------------------- MODULE EnrolmentSpec ---------------------------
(***************************************************************************)
(* What the two IAS zone plugins promise of the enrolment of devices: the  *)
(* client permits only a device that it has in its table, which has room   *)
(* for MaxDevices, and a device on the network is enrolled by such a       *)
(* permission alone, each of which enrolls it once.  A permission may come *)
(* late, after the device left and joined again or the table was cleared,  *)
(* and may be lost.  A device that leaves is not enrolled any more; one    *)
(* whose network only goes down stays enrolled.                            *)
(***************************************************************************)
EXTENDS FiniteSets, Naturals

CONSTANTS Devices, MaxDevices

VARIABLES
  joined,      \* the devices on the network
  known,       \* those that the client has in its table
  permitted,   \* those with a permission on its way to them
  enrolled

vars == <<joined, known, permitted, enrolled>>

Init ==
  /\ joined = {} /\ known = {}
  /\ permitted = {} /\ enrolled = {}

Join(d) ==
  /\ d \notin joined
  /\ joined' = joined \union {d}
  /\ UNCHANGED <<known, permitted, enrolled>>

Depart(d) ==
  /\ joined' = joined \ {d}
  /\ enrolled' = enrolled \ {d}
  /\ UNCHANGED <<known, permitted>>

Drop(d) ==
  /\ joined' = joined \ {d}
  /\ UNCHANGED <<known, permitted, enrolled>>

Learn(d) ==
  /\ Cardinality(known) < MaxDevices
  /\ known' = known \union {d}
  /\ UNCHANGED <<joined, permitted, enrolled>>

ForgetAll ==
  /\ known' = {}
  /\ UNCHANGED <<joined, permitted, enrolled>>

Permit(d) ==
  /\ d \in known
  /\ permitted' = permitted \union {d}
  /\ UNCHANGED <<joined, known, enrolled>>

Lose(d) ==
  /\ permitted' = permitted \ {d}
  /\ UNCHANGED <<joined, known, enrolled>>

Enrol(d) ==
  /\ d \in permitted \intersect joined
  /\ permitted' = permitted \ {d}
  /\ enrolled' = enrolled \union {d}
  /\ UNCHANGED <<joined, known>>

\* A refusal arrives or the device is told to leave, which ends an enrolment
\* of before.
Refuse(d) ==
  /\ d \in joined
  /\ enrolled' = enrolled \ {d}
  /\ UNCHANGED <<joined, known, permitted>>

Next ==
  \/ \E d \in Devices :
       \/ Join(d) \/ Depart(d) \/ Drop(d) \/ Learn(d)
       \/ Permit(d) \/ Lose(d) \/ Enrol(d) \/ Refuse(d)
  \/ ForgetAll

Spec == Init /\ [][Next]_vars
=============================================================================
