------------------------------- MODULE MCPlanner -------------------------------
(* A small endowment: two VVV of principal, one gift and one reward.           *)
EXTENDS Planner

\* Bound: one outage at a time, of the terminal or of the planning, and the latter
\* only after the announcement: before it nothing is said that depends on it.
OneOutage == attended \/ (windingDown /\ terminalOpen)
==============================================================================
