-------------------------- MODULE MCFragmentation --------------------------
EXTENDS Fragmentation, TLC

CONSTANTS m1, m2

\* Two full fragments, and three of which the last is short.
MCLength == m1 :> 4 @@ m2 :> 5

\* One of three full fragments, alone.
MCThreeFragments == m2 :> 6
=============================================================================
