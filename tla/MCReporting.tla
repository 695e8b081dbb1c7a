---------------------------- MODULE MCReporting ----------------------------
EXTENDS Reporting, TLC

CONSTANTS level, state, address, c1, c2, b1, b2, b3

\* An analog attribute and two discrete ones, of two clusters; the address does
\* not fit in 4 bytes.
MCClusterOf == level :> c1 @@ state :> c2 @@ address :> c2

MCValuesOf == level :> {0, 1, 2} @@ state :> {0, 1} @@ address :> {0, 1}

MCTwoValues == level :> {0, 1}

MCConfig(lo, hi, by) == [min |-> lo, max |-> hi, change |-> by]

\* Periodic with a pause, on change only, a request to stop, and intervals
\* that make no sense.
MCConfigs == {MCConfig(1, 3, 2), MCConfig(0, 0, 1), MCConfig(0, 9, 0),
              MCConfig(2, 1, 1)}

\* For the instance with messages: on change, with a pause.
MCPause == {MCConfig(1, 0, 1)}
=============================================================================
