------------------------------- MODULE Custody -------------------------------
(* What a project's compute endowment promises its backers, whatever the      *)
(* vault, the policy and Venice do in between: VVV is committed only while    *)
(* the project invests and never beyond a lifetime cap, a closure announced   *)
(* once is never taken back, and when the endowment closes, at least          *)
(* everything ever committed has gone back to the project's reserve.          *)
(* ComputeVault and ProjectPolicy are shown to implement this specification.  *)
EXTENDS Integers

CONSTANT Cap            \* the lifetime cap on commitments (maxPrincipal)

VARIABLES
  phase,                \* where the endowment is in its life
  committed,            \* VVV ever committed to compute
  held,                 \* VVV in custody, in whatever form
  delivered             \* VVV returned from custody to the reserve

vars == <<phase, committed, held, delivered>>

Phases == {"investing", "notice", "recovering", "closed"}

Init ==
  /\ phase = "investing"
  /\ committed = 0
  /\ held = 0
  /\ delivered = 0

\* Gifts and rewards may come in at any time, with any step.
Grows == held' >= held /\ UNCHANGED delivered

Receive == Grows /\ UNCHANGED <<phase, committed>>

Commit ==
  /\ phase = "investing"
  /\ committed' > committed
  /\ committed' <= Cap
  /\ held' - held >= committed' - committed
  /\ UNCHANGED <<phase, delivered>>

Announce ==
  /\ phase = "investing"
  /\ phase' = "notice"
  /\ UNCHANGED <<committed, held, delivered>>

Recover ==
  /\ phase \in {"notice", "closed"}
  /\ phase' = "recovering"
  /\ Grows
  /\ UNCHANGED committed

\* Whatever leaves custody arrives in the reserve.
Deliver ==
  /\ delivered' >= delivered
  /\ held' >= 0
  /\ held' + delivered' >= held + delivered
  /\ UNCHANGED committed

Return == Deliver /\ UNCHANGED phase

Close ==
  /\ phase = "recovering"
  /\ phase' = "closed"
  /\ Deliver
  /\ delivered' >= committed

Next == Receive \/ Commit \/ Announce \/ Recover \/ Return \/ Close

Spec == Init /\ [][Next]_vars
==============================================================================
