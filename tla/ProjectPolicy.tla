----------------------------- MODULE ProjectPolicy -----------------------------
(* ProjectPolicy.sol over ComputeVault: who may move the endowment, and when.  *)
(* The policy receives the project's production tokens, cashes them out in     *)
(* batches, allocates the proceeds to its vault, and adds what comes back to   *)
(* the project's reserve.  Creator and recovery authority may pause, raise the *)
(* floors and announce the closure; anybody may make the remaining calls.      *)
EXTENDS ComputeVault

CONSTANTS
  MinBatch, MaxBatch,   \* minBatchTokens, maxBatchTokens
  MaxProceeds,          \* bound: VVV one batch brings
  MaxInflow,            \* bound: VVV all batches bring
  MaxProduction,        \* bound: project tokens waiting for the policy
  MaxFloor              \* bound: the floors an authority sets

ASSUME PolicyAssumption ==
  /\ {MinBatch, MaxBatch, MaxFloor} \subseteq Nat \ {0}
  /\ {MaxProceeds, MaxInflow, MaxProduction} \subseteq Nat
  /\ MinBatch <= MaxBatch

VARIABLES
  bound,                \* revnetId # 0
  policyVVV,            \* VVV.balanceOf(policy)
  production,           \* project tokens the policy holds
  pending,              \* reserved tokens the controller has not distributed
  conversionDue,        \* block.timestamp >= nextConversionAt
  policyAllocated,      \* the policy's totalAllocated
  minVVVPerProjectToken,
  minDiemPerVVV,
  allocationPaused,
  windingDown,
  reserve,              \* VVV added to the project's terminal balance
  inflow                \* all VVV that ever came in from outside

limitVars  == <<minVVVPerProjectToken, minDiemPerVVV, allocationPaused>>
policyVars == <<bound, policyVVV, production, pending, conversionDue,
                policyAllocated, limitVars, windingDown>>
vars       == <<vaultVars, policyVars, reserve, inflow>>

Init ==
  /\ VaultInit
  /\ bound = FALSE
  /\ policyVVV = 0
  /\ production = 0 /\ pending = 0
  /\ conversionDue = TRUE
  /\ policyAllocated = 0
  /\ minVVVPerProjectToken = 1
  /\ minDiemPerVVV = 1
  /\ allocationPaused = FALSE
  /\ windingDown = FALSE
  /\ reserve = 0
  /\ inflow = 0

\* The factory binds the policy to its revnet and its vault, once.
Bind ==
  /\ ~ bound
  /\ bound' = TRUE
  /\ UNCHANGED <<vaultVars, policyVVV, production, pending, conversionDue,
                 policyAllocated, limitVars, windingDown, reserve, inflow>>

Investing ==
  /\ bound
  /\ ~ allocationPaused
  /\ ~ windingDown
  /\ policyAllocated # MaxPrincipal

Allocate(amount) ==
  /\ Investing
  /\ amount # 0
  /\ amount <= MaxPrincipal - policyAllocated
  /\ amount <= policyVVV
  /\ policyAllocated' = policyAllocated + amount
  /\ policyVVV' = policyVVV - amount
  /\ VaultAllocate(amount, amount * minDiemPerVVV)
  /\ UNCHANGED <<bound, production, pending, conversionDue, limitVars, windingDown,
                 reserve, inflow>>

AnnounceWinddown ==
  /\ bound
  /\ ~ windingDown
  /\ windingDown' = TRUE
  /\ VaultAnnounceWinddown
  /\ UNCHANGED <<bound, policyVVV, production, pending, conversionDue, policyAllocated,
                 limitVars, reserve, inflow>>

\* Late production is burnt once nothing more can be invested.
BurnLateProduction ==
  /\ bound
  /\ windingDown \/ policyAllocated = MaxPrincipal
  /\ production # 0
  /\ production' = 0
  /\ UNCHANGED <<vaultVars, bound, pending, policyVVV, conversionDue, policyAllocated,
                 limitVars, windingDown, reserve, inflow>>

Batch == IF production < MaxBatch THEN production ELSE MaxBatch

\* The terminal, or the buyback hook, pays the policy for one batch.
CashOutProduction(received) ==
  /\ Investing
  /\ conversionDue
  /\ Batch >= MinBatch
  /\ received >= Batch * minVVVPerProjectToken
  /\ inflow + received <= MaxInflow
  /\ conversionDue' = FALSE
  /\ production' = production - Batch
  /\ policyVVV' = policyVVV + received
  /\ inflow' = inflow + received
  /\ UNCHANGED <<vaultVars, bound, pending, policyAllocated, limitVars,
                 windingDown, reserve>>

RaiseMinimumOutputs(vvvFloor, diemFloor) ==
  /\ vvvFloor >= minVVVPerProjectToken
  /\ diemFloor >= minDiemPerVVV
  /\ minVVVPerProjectToken' = vvvFloor
  /\ minDiemPerVVV' = diemFloor
  /\ UNCHANGED <<vaultVars, bound, policyVVV, production, pending, conversionDue,
                 policyAllocated, allocationPaused, windingDown, reserve, inflow>>

SetAllocationPaused(paused) ==
  /\ allocationPaused' = paused
  /\ UNCHANGED <<vaultVars, bound, policyVVV, production, pending, conversionDue,
                 policyAllocated, minVVVPerProjectToken, minDiemPerVVV,
                 windingDown, reserve, inflow>>

SetAuthenticationEnabled(enabled) ==
  /\ bound
  /\ VaultSetAuthenticationEnabled(enabled)
  /\ UNCHANGED <<policyVars, reserve, inflow>>

\* What the policy may keep for later allocations.
Remaining == IF windingDown THEN 0 ELSE MaxPrincipal - policyAllocated

ReturnUnallocatedVVV ==
  /\ bound
  /\ policyVVV > Remaining
  /\ terminalOpen
  /\ policyVVV' = Remaining
  /\ reserve' = reserve + (policyVVV - Remaining)
  /\ UNCHANGED <<vaultVars, bound, production, pending, conversionDue, policyAllocated,
                 limitVars, windingDown, inflow>>

\* returnToRevnet: what the vault returns passes through the policy, whose own
\* balance stays as it is, to the reserve.
Passing(call) ==
  /\ call
  /\ bound
  /\ reserve' = reserve + (totalReturned' - totalReturned)
  /\ UNCHANGED <<policyVars, inflow>>

Recovery ==
  \/ BeginDiemUnstake
  \/ ClaimDiemAndBeginVVVUnstake
  \/ ClaimVVVAndReturn
  \/ RecoverDonatedStake
  \/ ClaimRewardsAndReturn
  \/ ReturnLiquidVVV

(********************************* The outside ********************************)
\* Payments reserve project tokens for the splits, the policy's among them, and
\* anybody may send the policy project tokens.
Issue ==
  /\ production + pending < MaxProduction
  /\ \/ pending' = pending + 1 /\ UNCHANGED production
     \/ production' = production + 1 /\ UNCHANGED pending
  /\ UNCHANGED <<vaultVars, bound, policyVVV, conversionDue, policyAllocated,
                 limitVars, windingDown, reserve, inflow>>

\* sendReservedTokensToSplitsOf, which anybody may call: the policy is one of
\* the splits and gets its share of what was pending.
DistributeProduction(share) ==
  /\ pending # 0
  /\ share <= pending
  /\ production' = production + share
  /\ pending' = 0
  /\ UNCHANGED <<vaultVars, bound, policyVVV, conversionDue, policyAllocated,
                 limitVars, windingDown, reserve, inflow>>

GiveToVault ==
  /\ Give
  /\ inflow' = inflow + (IF diem' = diem THEN 1 ELSE 0)
  /\ UNCHANGED <<policyVars, reserve>>

GiveToPolicy ==
  /\ gifts < MaxGift
  /\ gifts' = gifts + 1
  /\ policyVVV' = policyVVV + 1
  /\ inflow' = inflow + 1
  /\ UNCHANGED <<state, totalAllocated, totalReturned, elapsed, authVars,
                 vvvVars, lockVars, diemVars, terminalOpen, earned, bound,
                 production, pending, conversionDue, policyAllocated, limitVars,
                 windingDown, reserve>>

Rewarded ==
  /\ Reward
  /\ inflow' = inflow + 1
  /\ UNCHANGED <<policyVars, reserve>>

Elapses ==
  /\ \E deadline \in Deadlines : Elapse(deadline)
  /\ UNCHANGED <<policyVars, reserve, inflow>>

CadenceElapses ==
  /\ ~ conversionDue
  /\ conversionDue' = TRUE
  /\ UNCHANGED <<vaultVars, bound, policyVVV, production, pending, policyAllocated,
                 limitVars, windingDown, reserve, inflow>>

TerminalToggles == Terminal /\ UNCHANGED <<policyVars, reserve, inflow>>

Next ==
  \/ Bind
  \/ \E amount \in 1..MaxPrincipal : Allocate(amount)
  \/ AnnounceWinddown
  \/ BurnLateProduction
  \/ \E received \in 0..MaxProceeds : CashOutProduction(received)
  \/ \E vvvFloor, diemFloor \in 1..MaxFloor :
       RaiseMinimumOutputs(vvvFloor, diemFloor)
  \/ \E paused \in BOOLEAN : SetAllocationPaused(paused)
  \/ \E enabled \in BOOLEAN : SetAuthenticationEnabled(enabled)
  \/ ReturnUnallocatedVVV
  \/ Passing(Recovery)
  \/ Issue
  \/ \E share \in 0..MaxProduction : DistributeProduction(share)
  \/ GiveToVault
  \/ GiveToPolicy
  \/ Rewarded
  \/ Elapses
  \/ CadenceElapses
  \/ TerminalToggles

Spec == Init /\ [][Next]_vars

(********************************* Properties *********************************)
PolicyTypeOK ==
  /\ bound \in BOOLEAN /\ conversionDue \in BOOLEAN
  /\ allocationPaused \in BOOLEAN /\ windingDown \in BOOLEAN
  /\ {policyVVV, production, pending, policyAllocated} \subseteq Nat
  /\ {reserve, inflow} \subseteq Nat
  /\ {minVVVPerProjectToken, minDiemPerVVV} \subseteq Nat \ {0}

TypesOK == TypeOK /\ PolicyTypeOK

\* The two contracts each keep their own ledger of the same facts, written in
\* nested calls: they never disagree on what was allocated or on whether the
\* closure was announced.
LedgersAgree ==
  /\ policyAllocated = totalAllocated
  /\ windingDown <=> state # "Active"

\* Every VVV that ever came in, from conversions, rewards or strangers, is with
\* the policy, with the vault, at Venice for the vault, or in the reserve.
NothingLost ==
  policyVVV + liquid + staked + cooling + rewards + reserve = inflow

(******************************** Implementation ******************************)
PhaseOf ==
  CASE state = "Active" -> "investing"
    [] state = "Notice" -> "notice"
    [] state \in {"DiemCooldown", "VVVCooldown"} -> "recovering"
    [] state = "Closed" -> "closed"

Promise == INSTANCE Custody
  WITH Cap <- MaxPrincipal,
       phase <- PhaseOf,
       committed <- totalAllocated,
       held <- liquid + staked + cooling + rewards,
       delivered <- totalReturned

\* Policy and vault implement Custody.
PromiseKept == Promise!Spec
==============================================================================
