-------------------------- MODULE MessageTransfer --------------------------
(***************************************************************************)
(* What the fragmentation plugin promises to the two applications that     *)
(* exchange long messages: the sender is told once what became of each     *)
(* message it was allowed to send, a success only of one that the receiver *)
(* has got, and one that was refused never arrives.                        *)
(***************************************************************************)
CONSTANT Messages

VARIABLES
  phase,     \* what the sender knows of each message
  arrived    \* the messages that the receiver has got

vars == <<phase, arrived>>

Phases == {"unsent", "refused", "sending", "success", "failure"}

Init ==
  /\ phase = [m \in Messages |-> "unsent"]
  /\ arrived = {}

Becomes(m, p) ==
  /\ phase' = [phase EXCEPT ![m] = p]
  /\ UNCHANGED arrived

Send(m)   == phase[m] = "unsent" /\ Becomes(m, "sending")
Refuse(m) == phase[m] = "unsent" /\ Becomes(m, "refused")

\* A message may arrive after its sender was told of a failure.
Arrive(m) ==
  /\ phase[m] \in {"sending", "failure"}
  /\ arrived' = arrived \union {m}
  /\ UNCHANGED phase

Succeed(m) == phase[m] = "sending" /\ m \in arrived /\ Becomes(m, "success")
Fail(m)    == phase[m] = "sending" /\ Becomes(m, "failure")

Next ==
  \E m \in Messages : Send(m) \/ Refuse(m) \/ Arrive(m) \/ Succeed(m) \/ Fail(m)

Spec == Init /\ [][Next]_vars
=============================================================================
