----------------------------- MODULE MCIasZone -----------------------------
(* IasZone for TLC: the budgets of the runs, and symmetry of the devices.  *)
EXTENDS IasZone, TLC

Nothing == [k \in Kinds |-> 0]

Faulty == [Nothing EXCEPT !["join"] = 2, !["change"] = 1, !["leave"] = 1,
           !["fault"] = 1, !["clear"] = 1]
Rejoining == [Nothing EXCEPT !["join"] = 3, !["reset"] = 1, !["leave"] = 1,
              !["drop"] = 1, !["other"] = 1]

OneJoin == [Nothing EXCEPT !["join"] = 1, !["change"] = 1]
TwoJoins == [Nothing EXCEPT !["join"] = 2, !["change"] = 1]

DeviceSymmetry == Permutations(Devices)
=============================================================================
