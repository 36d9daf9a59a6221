-------------------------------- MODULE Planner --------------------------------
(* BaseChain.plan of services/control-worker/chain.mjs: the one operation the  *)
(* keeper submits next for a project, from what the contracts show.  Everybody *)
(* may make the keeper's calls, but only the keeper is there to make them, so  *)
(* the liveness of the endowment hangs on the order of this list, and on the   *)
(* project being planned for at all.                                           *)
EXTENDS ProjectPolicy

VARIABLE
  attended              \* not suspended, and no job of it is quarantined

plannerVars == <<vars, attended>>

RunsOut(deadline) == deadline \in elapsed

\* Mutant: an empty cooldown is never planned for.
LifecycleStepPending ==
  CASE state = "Notice" /\ RunsOut("notice") -> "begin_diem_unstake"
    [] state = "DiemCooldown" /\ diemCooling # 0 /\ RunsOut("diem") ->
         "claim_diem_begin_vvv_unstake"
    [] state = "VVVCooldown" /\ cooling # 0 /\ RunsOut("vvv") ->
         "claim_vvv_return"
    [] state = "Closed" /\ staked - locked > 0 -> "recover_donated_stake"
    [] OTHER -> "none"

LifecycleStep ==
  CASE state = "Notice" /\ RunsOut("notice") -> "begin_diem_unstake"
    [] state = "DiemCooldown" /\ (diemCooling = 0 \/ RunsOut("diem")) ->
         "claim_diem_begin_vvv_unstake"
    [] state = "VVVCooldown" /\ (cooling = 0 \/ RunsOut("vvv")) ->
         "claim_vvv_return"
    [] state = "Closed" /\ staked - locked > 0 -> "recover_donated_stake"
    [] OTHER -> "none"

InvestingStep ==
  IF state # "Active" \/ allocationPaused \/ windingDown \/ Remaining = 0 THEN "none"
  ELSE IF policyVVV > 0 THEN "allocate"
  ELSE IF conversionDue /\ production >= MinBatch THEN "cash_out_production"
  ELSE IF conversionDue /\ pending > 0 THEN "distribute_production"
  ELSE "none"

\* Nothing of what is still issued can be invested any more.
Late == windingDown \/ policyAllocated = MaxPrincipal

\* Mutant: a closed vault is not looked at any more.
HousekeepingStepOpen ==
  IF policyVVV > Remaining THEN "return_unallocated_vvv"
  ELSE IF Late /\ production > 0 THEN "burn_late_production"
  ELSE IF Late /\ pending > 0 THEN "distribute_production"
  ELSE IF liquid > 0 /\ state # "Closed" THEN "return_liquid_vvv"
  ELSE IF state # "Closed" THEN "claim_rewards_return"
  ELSE "none"

HousekeepingStep ==
  IF policyVVV > Remaining THEN "return_unallocated_vvv"
  ELSE IF Late /\ production > 0 THEN "burn_late_production"
  ELSE IF Late /\ pending > 0 THEN "distribute_production"
  ELSE IF liquid > 0 THEN "return_liquid_vvv"
  ELSE IF state # "Closed" THEN "claim_rewards_return"
  ELSE "none"

Plan ==
  IF LifecycleStep # "none" THEN LifecycleStep
  ELSE IF InvestingStep # "none" THEN InvestingStep
  ELSE HousekeepingStep

\* The planned call goes through; a call that reverts changes nothing.
KeeperStep ==
  /\ bound
  /\ attended
  /\ \/ Plan = "begin_diem_unstake" /\ Passing(BeginDiemUnstake)
     \/ /\ Plan = "claim_diem_begin_vvv_unstake"
        /\ Passing(ClaimDiemAndBeginVVVUnstake)
     \/ Plan = "claim_vvv_return" /\ Passing(ClaimVVVAndReturn)
     \/ Plan = "recover_donated_stake" /\ Passing(RecoverDonatedStake)
     \/ /\ Plan = "allocate"
        /\ Allocate(IF policyVVV < Remaining THEN policyVVV ELSE Remaining)
     \/ /\ Plan = "cash_out_production"
        /\ \E received \in 0..MaxProceeds : CashOutProduction(received)
     \/ /\ Plan = "distribute_production"
        /\ \E share \in 0..MaxProduction : DistributeProduction(share)
     \/ Plan = "return_unallocated_vvv" /\ ReturnUnallocatedVVV
     \/ Plan = "burn_late_production" /\ BurnLateProduction
     \/ Plan = "return_liquid_vvv" /\ Passing(ReturnLiquidVVV)
     \/ Plan = "claim_rewards_return" /\ Passing(ClaimRewardsAndReturn)
  /\ UNCHANGED attended

\* The gateway or the operator suspends the project or takes the suspension back;
\* a job of the project is quarantined or repaired (SignerKeys, Activation and
\* Keeper say when).
Attend ==
  /\ attended' = ~ attended
  /\ UNCHANGED vars

PlannerInit == Init /\ attended = TRUE
PlannerNext == (Next /\ UNCHANGED attended) \/ Attend

Anyhow(A) == A /\ UNCHANGED attended

\* The maintenance loop plans and submits again and again for a project it may
\* plan for (worker.mjs tick), so a call that is possible again and again goes
\* through; nothing is assumed of suspensions and repairs.
FairSpec ==
  /\ PlannerInit /\ [][PlannerNext]_plannerVars
  /\ WF_plannerVars(Anyhow(Elapses))
  /\ WF_plannerVars(Anyhow(TerminalToggles /\ terminalOpen'))
  /\ SF_plannerVars(KeeperStep)

(********************************* Properties *********************************)
\* The planned call of a closure meets its guards, if the terminal accepts.
PlanGoesThrough ==
  /\ bound
  /\ \/ Plan = "begin_diem_unstake" /\ CanBeginDiemUnstake
     \/ Plan = "claim_diem_begin_vvv_unstake" /\ CanClaimDiemAndBeginVVVUnstake
     \/ Plan = "claim_vvv_return" /\ CanClaimVVVAndReturn
     \/ Plan = "recover_donated_stake" /\ CanRecoverDonatedStake
     \/ Plan = "return_unallocated_vvv" /\ policyVVV > Remaining
     \/ Plan = "burn_late_production" /\ Late /\ production # 0
     \/ Plan = "distribute_production" /\ pending # 0
     \/ Plan = "return_liquid_vvv" /\ liquid # 0
     \/ Plan = "claim_rewards_return" /\ liquid + rewards # 0

\* The plan never runs dry: from the announcement on, until every VVV that came in
\* is in the reserve, either a deadline is running or the plan's next call is one the
\* contracts accept.  A plan that waits for what cannot happen, or that names a call
\* which reverts for good (chain.mjs 245-294 repeats the contracts' conditions on
\* its own), would leave the principal where it is.
ClosureNeverStuck ==
  windingDown /\ (state # "Closed" \/ reserve # inflow) =>
    PlanGoesThrough \/ \E deadline \in Deadlines : Waiting(deadline)

\* Once a closure is announced, the keeper's plan alone closes the vault,
\* whatever rewards, gifts and terminal failures come in between, provided that the
\* project is planned for from some time on: a suspended project, or one with a
\* quarantined job, is not, and its closure waits for the operator or for others.
ClosureCompletes == <>[]attended => (windingDown ~> state = "Closed")

\* And every VVV that ever came in ends in the reserve.  The plan distributes and
\* burns late production before it returns loose VVV, so this needs the project
\* tokens for the policy to cease.
EverythingComesBack ==
  <>[]attended /\ <>[][~ Issue]_vars
    => (windingDown ~> (state = "Closed" /\ reserve = inflow))
==============================================================================
