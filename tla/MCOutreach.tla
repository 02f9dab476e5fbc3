----------------------------- MODULE MCOutreach -----------------------------
(* Small instances of Outreach for TLC. *)
EXTENDS Outreach

CONSTANTS dueSoon, atRisk

\* One journey that chases on the last two stages, for everybody.
LastTwo == [j \in Journeys |-> {2, 3}]
Everybody == [j \in Journeys |-> Customers]

\* The two journeys the product ships, "Ready for your next visit" and "Drifting away"
\* (defaults.ts 1159-1192).
ShippedStages == [j \in Journeys |-> IF j = dueSoon THEN {2} ELSE {3}]
=============================================================================
