--------------------------- MODULE MCJobRegistry ---------------------------
(* Jobs in a row, each waiting for the ones named by its prerequisites.    *)
EXTENDS JobRegistry

CONSTANTS j1, j2

NoWaits == [j \in Jobs |-> {}]

\* The second job waits for the first one.
SecondWaits == [j \in Jobs |-> IF j = j2 THEN {j1} ELSE {}]
=============================================================================
