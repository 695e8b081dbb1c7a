---------------------------- MODULE ContactSpec ----------------------------
(***************************************************************************)
(* What the contact pipeline of the door sensor promises, whatever happens *)
(* between the interrupt line and the zone status: it reports nothing but  *)
(* statuses that the contact really took and that were not yet told, and   *)
(* two reports in a row are never the same.  A status may go unreported: a *)
(* contact that moves on before the debounce time is over.                 *)
(***************************************************************************)
EXTENDS Integers

Statuses == {0, 1}    \* STATUS_NO_ALARM, STATUS_ALARM

VARIABLES
  contact,   \* the status that the contact stands for now
  pending,   \* statuses it took that may still be reported
  reported   \* the status of the last report

vars == <<contact, pending, reported>>

Init ==
  /\ contact \in Statuses
  /\ pending = {}
  /\ reported = 0

\* The contact moves.  Its new status may be reported from now on; older
\* ones may be forgotten at the same time.
Move ==
  /\ contact' = 1 - contact
  /\ contact' \in pending'
  /\ pending' \subseteq pending \union {contact'}
  /\ UNCHANGED reported

Forget ==
  /\ pending' \subseteq pending
  /\ UNCHANGED <<contact, reported>>

Report ==
  /\ reported' = 1 - reported
  /\ reported' \in pending
  /\ pending' \subseteq pending
  /\ UNCHANGED contact

Next == Move \/ Forget \/ Report

Spec == Init /\ [][Next]_vars
=============================================================================
