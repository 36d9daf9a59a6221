-------------------------- MODULE ProjectPolicyProofs --------------------------
(* For every cap, mint, gift and reward: the endowment's ledgers agree, no VVV *)
(* is lost, the recovery is never blocked, a closed vault has returned its     *)
(* principal, vault and policy together implement Custody, and the keeper's    *)
(* plan for a closure never runs dry.                                          *)
EXTENDS Planner, TLAPS

USE VaultAssumption, PolicyAssumption DEF VaultAssumption, PolicyAssumption

(******************************* The vault alone ******************************)
\* Until its recovery begins the vault keeps all DIEM it owes staked; then the
\* whole debt cools down at once, and is gone before any VVV cools down.
DebtFollows ==
  /\ state \in {"Active", "Notice"} => diemStaked = debt /\ diemCooling = 0
  /\ state = "DiemCooldown" => diemStaked = 0 /\ diemCooling = debt
  /\ state \in {"VVVCooldown", "Closed"} =>
       diemStaked = 0 /\ diemCooling = 0 /\ debt = 0 /\ locked = 0
  /\ debt = 0 => locked = 0

\* The principal: staked until the recovery, then cooling down or returned.
PrincipalFollows ==
  /\ locked <= staked
  /\ state # "VVVCooldown" => cooling = 0
  /\ state \in {"Active", "Notice", "DiemCooldown"} => staked >= totalAllocated
  /\ state = "VVVCooldown" => cooling + totalReturned >= totalAllocated
  /\ state = "Closed" => totalReturned >= totalAllocated

VaultInv == TypeOK /\ DebtFollows /\ PrincipalFollows

\* What the vault's invariant says at once: the safety properties of the vault.
LEMMA VaultInvIsEnough ==
  VaultInv => RecoveryNeverBlocked /\ ServesOnlyWhileBacked /\ ClosedReturnsPrincipal
BY SMT DEF VaultInv, TypeOK, DebtFollows, PrincipalFollows, RecoveryNeverBlocked,
   ServesOnlyWhileBacked, ClosedReturnsPrincipal, Authenticates, States

\* The empty vault satisfies it.
LEMMA VaultStarts == VaultInit => VaultInv
<1> SUFFICES ASSUME VaultInit PROVE VaultInv
  OBVIOUS
<1>1. TypeOK
  <2>1. authEnabled \in BOOLEAN /\ authDead \in BOOLEAN /\ terminalOpen \in BOOLEAN
    BY Zenon DEF VaultInit
  <2>2. state \in States /\ elapsed \subseteq Deadlines /\ totalAllocated \in 0..MaxPrincipal
    BY SMT DEF VaultInit, States, Deadlines
  <2>3. /\ {totalReturned, liquid, staked, cooling, rewards} \subseteq Nat
        /\ {locked, debt, diem, diemStaked, diemCooling} \subseteq Nat
        /\ {gifts, earned} \subseteq Nat
    BY SMT DEF VaultInit
  <2>4. QED BY <2>1, <2>2, <2>3 DEF TypeOK
<1>2. DebtFollows /\ PrincipalFollows
  BY DEF VaultInit, DebtFollows, PrincipalFollows
<1>3. QED BY <1>1, <1>2 DEF VaultInv

\* An allocation keeps the new debt staked and the new principal locked.
LEMMA AllocateKeeps ==
  ASSUME VaultInv, NEW amount \in Nat, NEW minDiemOut \in Nat,
         VaultAllocate(amount, minDiemOut)
  PROVE  VaultInv'
<1>1. PICK minted \in 0..MaxMint :
        Acceptable(minted, minDiemOut) /\ Position(amount, minted)
  BY DEF VaultAllocate
<1>2. minted \in Nat /\ minted > 0
  BY <1>1 DEF Acceptable
<1>3. TypeOK'
  BY <1>1, <1>2 DEF VaultInv, TypeOK, VaultAllocate, Position, States, authVars,
     worldVars
<1>4. DebtFollows'
  BY <1>1, <1>2 DEF VaultInv, TypeOK, DebtFollows, VaultAllocate, Position
<1>5. PrincipalFollows'
  BY <1>1, <1>2 DEF VaultInv, TypeOK, PrincipalFollows, VaultAllocate, Position
<1>6. QED BY <1>3, <1>4, <1>5 DEF VaultInv

\* The calls and events that leave the position as it is.
LEMMA SmallStepsKeep ==
  ASSUME VaultInv,
         \/ VaultAnnounceWinddown
         \/ \E enabled \in BOOLEAN : VaultSetAuthenticationEnabled(enabled)
         \/ Give \/ Reward \/ Terminal
         \/ \E deadline \in Deadlines : Elapse(deadline)
         \/ UNCHANGED vaultVars
  PROVE  VaultInv'
<1> USE DEF VaultInv, TypeOK, DebtFollows, PrincipalFollows, States, Deadlines,
       vvvVars, lockVars, diemVars, authVars, worldVars
<1>1. CASE VaultAnnounceWinddown
  BY <1>1 DEF VaultAnnounceWinddown
<1>2. CASE \E enabled \in BOOLEAN : VaultSetAuthenticationEnabled(enabled)
  BY <1>2 DEF VaultSetAuthenticationEnabled
<1>3. CASE Give
  BY <1>3 DEF Give
<1>4. CASE Reward
  BY <1>4 DEF Reward
<1>5. CASE Terminal
  BY <1>5 DEF Terminal
<1>6. CASE \E deadline \in Deadlines : Elapse(deadline)
  BY <1>6 DEF Elapse
<1>7. CASE UNCHANGED vaultVars
  BY <1>7 DEF vaultVars
<1>8. QED BY <1>1, <1>2, <1>3, <1>4, <1>5, <1>6, <1>7

\* The recovery, call by call.
LEMMA RecoveryKeeps ==
  ASSUME VaultInv, Recovery
  PROVE  VaultInv'
<1> USE DEF VaultInv, TypeOK, DebtFollows, PrincipalFollows, States, Deadlines,
       lockVars, diemVars, authVars, worldVars
<1>1. CASE BeginDiemUnstake
  BY <1>1 DEF BeginDiemUnstake, CanBeginDiemUnstake, vvvVars
<1>2. CASE ClaimDiemAndBeginVVVUnstake
  BY <1>2 DEF ClaimDiemAndBeginVVVUnstake, CanClaimDiemAndBeginVVVUnstake, UnstakeUnlocked
<1>3. CASE ClaimVVVAndReturn
  BY <1>3 DEF ClaimVVVAndReturn, CanClaimVVVAndReturn, Returned
<1>4. CASE RecoverDonatedStake
  BY <1>4 DEF RecoverDonatedStake, CanRecoverDonatedStake, UnstakeUnlocked
<1>5. CASE ClaimRewardsAndReturn
  BY <1>5 DEF ClaimRewardsAndReturn, Returned
<1>6. CASE ReturnLiquidVVV
  BY <1>6 DEF ReturnLiquidVVV, Returned
<1>7. QED BY <1>1, <1>2, <1>3, <1>4, <1>5, <1>6 DEF Recovery

(**************************** Policy and vault together ***********************)
IInv == VaultInv /\ PolicyTypeOK /\ LedgersAgree /\ NothingLost

\* Products of naturals, so that the floors need not be computed.
LEMMA ProductNat == \A a, b \in Nat : a * b \in Nat
BY SMT

LEMMA InitIInv == Init => IInv
<1> SUFFICES ASSUME Init PROVE IInv
  OBVIOUS
<1>1. VaultInv
  BY VaultStarts DEF Init
<1>2. PolicyTypeOK
  <2>1. /\ bound \in BOOLEAN /\ conversionDue \in BOOLEAN
        /\ allocationPaused \in BOOLEAN /\ windingDown \in BOOLEAN
    BY Zenon DEF Init
  <2>2. /\ {policyVVV, production, pending, policyAllocated} \subseteq Nat
        /\ {reserve, inflow} \subseteq Nat
        /\ {minVVVPerProjectToken, minDiemPerVVV} \subseteq Nat \ {0}
    BY SMT DEF Init
  <2>3. QED BY <2>1, <2>2 DEF PolicyTypeOK
<1>3. LedgersAgree /\ NothingLost
  BY SMT DEF Init, VaultInit, LedgersAgree, NothingLost
<1>4. QED BY <1>1, <1>2, <1>3 DEF IInv

\* An allocation: both ledgers grow by the same amount, which moves from the
\* policy's balance to the vault's stake.
LEMMA AllocateStep ==
  ASSUME IInv, NEW amount \in 1..MaxPrincipal, Allocate(amount)
  PROVE  IInv'
<1>1. amount \in Nat /\ amount * minDiemPerVVV \in Nat
  BY ProductNat DEF IInv, PolicyTypeOK
<1>2. VaultAllocate(amount, amount * minDiemPerVVV)
  BY DEF Allocate
<1>3. VaultInv'
  BY <1>1, <1>2, AllocateKeeps DEF IInv
<1>4. /\ totalAllocated' = totalAllocated + amount
      /\ staked' = staked + amount
      /\ liquid' = liquid + rewards
      /\ rewards' = 0
      /\ UNCHANGED <<state, cooling>>
  BY <1>2 DEF VaultAllocate, Position
<1>5. PolicyTypeOK'
  BY <1>1 DEF IInv, PolicyTypeOK, Allocate, limitVars
<1>6. LedgersAgree' /\ NothingLost'
  BY <1>1, <1>4 DEF IInv, VaultInv, TypeOK, PolicyTypeOK, LedgersAgree, NothingLost,
     Allocate
<1>7. QED BY <1>3, <1>5, <1>6 DEF IInv

\* The policy's own calls move VVV only to the reserve.
LEMMA PolicyStep ==
  ASSUME IInv,
         \/ Bind \/ AnnounceWinddown \/ BurnLateProduction \/ ReturnUnallocatedVVV
         \/ \E received \in 0..MaxProceeds : CashOutProduction(received)
         \/ \E vvvFloor, diemFloor \in 1..MaxFloor :
              RaiseMinimumOutputs(vvvFloor, diemFloor)
         \/ \E paused \in BOOLEAN : SetAllocationPaused(paused)
         \/ \E enabled \in BOOLEAN : SetAuthenticationEnabled(enabled)
  PROVE  IInv'
<1> USE DEF PolicyTypeOK, limitVars
<1>1. CASE Bind
  <2>1. UNCHANGED vaultVars
    BY <1>1 DEF Bind
  <2>2. VaultInv'
    BY <2>1, SmallStepsKeep DEF IInv
  <2>3. PolicyTypeOK' /\ LedgersAgree' /\ NothingLost'
    BY <1>1, <2>1 DEF IInv, Bind, LedgersAgree, NothingLost, vaultVars, vvvVars
  <2>4. QED BY <2>2, <2>3 DEF IInv
<1>2. CASE AnnounceWinddown
  <2>1. VaultAnnounceWinddown
    BY <1>2 DEF AnnounceWinddown
  <2>2. VaultInv'
    BY <2>1, SmallStepsKeep DEF IInv
  <2>3. PolicyTypeOK' /\ LedgersAgree' /\ NothingLost'
    BY <1>2, <2>1 DEF IInv, AnnounceWinddown, VaultAnnounceWinddown, LedgersAgree,
       NothingLost, vvvVars
  <2>4. QED BY <2>2, <2>3 DEF IInv
<1>3. CASE BurnLateProduction
  <2>1. UNCHANGED vaultVars
    BY <1>3 DEF BurnLateProduction
  <2>2. VaultInv'
    BY <2>1, SmallStepsKeep DEF IInv
  <2>3. PolicyTypeOK' /\ LedgersAgree' /\ NothingLost'
    BY <1>3, <2>1 DEF IInv, BurnLateProduction, LedgersAgree, NothingLost, vaultVars,
       vvvVars
  <2>4. QED BY <2>2, <2>3 DEF IInv
<1>4. CASE ReturnUnallocatedVVV
  <2>1. UNCHANGED vaultVars
    BY <1>4 DEF ReturnUnallocatedVVV
  <2>2. VaultInv'
    BY <2>1, SmallStepsKeep DEF IInv
  <2>3. Remaining \in Nat
    BY DEF IInv, VaultInv, TypeOK, LedgersAgree, Remaining
  <2>4. PolicyTypeOK' /\ LedgersAgree' /\ NothingLost'
    BY <1>4, <2>1, <2>3 DEF IInv, VaultInv, TypeOK, ReturnUnallocatedVVV,
       LedgersAgree, NothingLost, vaultVars, vvvVars
  <2>5. QED BY <2>2, <2>4 DEF IInv
<1>5. CASE \E received \in 0..MaxProceeds : CashOutProduction(received)
  <2>1. PICK received \in 0..MaxProceeds : CashOutProduction(received)
    BY <1>5
  <2>2. UNCHANGED vaultVars
    BY <2>1 DEF CashOutProduction
  <2>3. VaultInv'
    BY <2>2, SmallStepsKeep DEF IInv
  <2>4. Batch \in Nat /\ Batch <= production
    BY DEF IInv, Batch
  <2>5. /\ production' = production - Batch
        /\ policyVVV' = policyVVV + received
        /\ inflow' = inflow + received
        /\ conversionDue' = FALSE
        /\ UNCHANGED <<bound, pending, policyAllocated, minVVVPerProjectToken, minDiemPerVVV,
                       allocationPaused, windingDown, reserve>>
    BY <2>1 DEF CashOutProduction
  <2>6. PolicyTypeOK'
    <3>1. /\ bound' \in BOOLEAN /\ conversionDue' \in BOOLEAN
          /\ allocationPaused' \in BOOLEAN /\ windingDown' \in BOOLEAN
      BY <2>5, Zenon DEF IInv
    <3>2. /\ {policyVVV', production', pending', policyAllocated'} \subseteq Nat
          /\ {reserve', inflow'} \subseteq Nat
          /\ {minVVVPerProjectToken', minDiemPerVVV'} \subseteq Nat \ {0}
      BY <2>4, <2>5, SMT DEF IInv
    <3>3. QED BY <3>1, <3>2
  <2>7. LedgersAgree' /\ NothingLost'
    BY <2>2, <2>5 DEF IInv, VaultInv, TypeOK, LedgersAgree, NothingLost, vaultVars,
       vvvVars
  <2>8. QED BY <2>3, <2>6, <2>7 DEF IInv
<1>6. CASE \E vvvFloor, diemFloor \in 1..MaxFloor :
             RaiseMinimumOutputs(vvvFloor, diemFloor)
  <2>1. UNCHANGED vaultVars
    BY <1>6 DEF RaiseMinimumOutputs
  <2>2. VaultInv'
    BY <2>1, SmallStepsKeep DEF IInv
  <2>3. PolicyTypeOK' /\ LedgersAgree' /\ NothingLost'
    BY <1>6, <2>1 DEF IInv, RaiseMinimumOutputs, LedgersAgree, NothingLost, vaultVars,
       vvvVars
  <2>4. QED BY <2>2, <2>3 DEF IInv
<1>7. CASE \E paused \in BOOLEAN : SetAllocationPaused(paused)
  <2>1. UNCHANGED vaultVars
    BY <1>7 DEF SetAllocationPaused
  <2>2. VaultInv'
    BY <2>1, SmallStepsKeep DEF IInv
  <2>3. PolicyTypeOK' /\ LedgersAgree' /\ NothingLost'
    BY <1>7, <2>1 DEF IInv, SetAllocationPaused, LedgersAgree, NothingLost, vaultVars,
       vvvVars
  <2>4. QED BY <2>2, <2>3 DEF IInv
<1>8. CASE \E enabled \in BOOLEAN : SetAuthenticationEnabled(enabled)
  <2>1. PICK enabled \in BOOLEAN : SetAuthenticationEnabled(enabled)
    BY <1>8
  <2>2. VaultSetAuthenticationEnabled(enabled) /\ UNCHANGED <<policyVars, reserve, inflow>>
    BY <2>1 DEF SetAuthenticationEnabled
  <2>3. VaultInv'
    BY <2>2, SmallStepsKeep DEF IInv
  <2>4. PolicyTypeOK' /\ LedgersAgree' /\ NothingLost'
    BY <2>2 DEF IInv, VaultSetAuthenticationEnabled, policyVars, LedgersAgree,
       NothingLost, vvvVars
  <2>5. QED BY <2>3, <2>4 DEF IInv
<1>9. QED BY <1>1, <1>2, <1>3, <1>4, <1>5, <1>6, <1>7, <1>8

\* What the recovery takes out of custody is exactly what the reserve gains.
LEMMA RecoveryMoves ==
  ASSUME VaultInv, Recovery
  PROVE  /\ liquid' + staked' + cooling' + rewards' + totalReturned'
              = liquid + staked + cooling + rewards + totalReturned
         /\ totalReturned' >= totalReturned
         /\ totalAllocated' = totalAllocated
         /\ state = "Active" <=> state' = "Active"
<1> USE DEF VaultInv, TypeOK, DebtFollows, PrincipalFollows, States
<1>1. CASE BeginDiemUnstake
  BY <1>1 DEF BeginDiemUnstake, CanBeginDiemUnstake, vvvVars
<1>2. CASE ClaimDiemAndBeginVVVUnstake
  BY <1>2 DEF ClaimDiemAndBeginVVVUnstake, CanClaimDiemAndBeginVVVUnstake, UnstakeUnlocked
<1>3. CASE ClaimVVVAndReturn
  BY <1>3 DEF ClaimVVVAndReturn, CanClaimVVVAndReturn, Returned
<1>4. CASE RecoverDonatedStake
  BY <1>4 DEF RecoverDonatedStake, CanRecoverDonatedStake, UnstakeUnlocked
<1>5. CASE ClaimRewardsAndReturn
  BY <1>5 DEF ClaimRewardsAndReturn, Returned
<1>6. CASE ReturnLiquidVVV
  BY <1>6 DEF ReturnLiquidVVV, Returned
<1>7. QED BY <1>1, <1>2, <1>3, <1>4, <1>5, <1>6 DEF Recovery

LEMMA RecoveryStep ==
  ASSUME IInv, Passing(Recovery)
  PROVE  IInv'
<1>1. Recovery /\ UNCHANGED <<policyVars, inflow>>
      /\ reserve' = reserve + (totalReturned' - totalReturned)
  BY DEF Passing
<1>2. VaultInv'
  BY <1>1, RecoveryKeeps DEF IInv
<1>3. PolicyTypeOK' /\ LedgersAgree' /\ NothingLost'
  BY <1>1, <1>2, RecoveryMoves DEF IInv, VaultInv, TypeOK, PolicyTypeOK, LedgersAgree,
     NothingLost, policyVars, limitVars
<1>4. QED BY <1>2, <1>3 DEF IInv

Distributes == \E share \in 0..MaxProduction : DistributeProduction(share)

\* The outside adds to what is held exactly what it adds to the inflow.
LEMMA OutsideStep ==
  ASSUME IInv,
         \/ Issue \/ GiveToVault \/ GiveToPolicy \/ Rewarded \/ Elapses
         \/ CadenceElapses \/ TerminalToggles \/ Distributes
         \/ UNCHANGED vars
  PROVE  IInv'
<1> USE DEF PolicyTypeOK, limitVars
<1>1. CASE Issue \/ Distributes \/ CadenceElapses \/ UNCHANGED vars
  <2>1. UNCHANGED <<vaultVars, policyVVV, policyAllocated, windingDown, reserve, inflow>>
    BY <1>1 DEF Issue, Distributes, DistributeProduction, CadenceElapses, vars, policyVars
  <2>2. VaultInv'
    BY <2>1, SmallStepsKeep DEF IInv
  <2>3. PolicyTypeOK'
    <3>1. CASE Issue
      BY <3>1 DEF IInv, Issue
    <3>2. CASE CadenceElapses
      BY <3>2 DEF IInv, CadenceElapses
    <3>3. CASE UNCHANGED vars
      BY <3>3 DEF IInv, vars, policyVars
    <3>4. CASE Distributes
      BY <3>4 DEF IInv, Distributes, DistributeProduction
    <3>5. QED BY <1>1, <3>1, <3>2, <3>3, <3>4
  <2>4. LedgersAgree' /\ NothingLost'
    BY <2>1 DEF IInv, LedgersAgree, NothingLost, vaultVars, vvvVars
  <2>5. QED BY <2>2, <2>3, <2>4 DEF IInv
<1>2. CASE GiveToVault
  <2>1. Give /\ UNCHANGED <<policyVars, reserve>>
    BY <1>2 DEF GiveToVault
  <2>2. VaultInv'
    BY <2>1, SmallStepsKeep DEF IInv
  <2>3. PolicyTypeOK' /\ LedgersAgree' /\ NothingLost'
    BY <1>2, <2>1 DEF IInv, VaultInv, TypeOK, GiveToVault, Give, policyVars,
       LedgersAgree, NothingLost
  <2>4. QED BY <2>2, <2>3 DEF IInv
<1>3. CASE GiveToPolicy
  <2>1. TypeOK'
    BY <1>3 DEF IInv, VaultInv, TypeOK, GiveToPolicy, authVars, vvvVars, lockVars,
       diemVars
  <2>2. DebtFollows' /\ PrincipalFollows'
    BY <1>3 DEF IInv, VaultInv, DebtFollows, PrincipalFollows, GiveToPolicy, vvvVars,
       lockVars, diemVars
  <2>3. PolicyTypeOK' /\ LedgersAgree' /\ NothingLost'
    BY <1>3 DEF IInv, VaultInv, TypeOK, GiveToPolicy, LedgersAgree, NothingLost,
       vvvVars
  <2>4. QED BY <2>1, <2>2, <2>3 DEF IInv, VaultInv
<1>4. CASE Rewarded
  <2>1. Reward /\ UNCHANGED <<policyVars, reserve>>
    BY <1>4 DEF Rewarded
  <2>2. VaultInv'
    BY <2>1, SmallStepsKeep DEF IInv
  <2>3. PolicyTypeOK' /\ LedgersAgree' /\ NothingLost'
    BY <1>4, <2>1 DEF IInv, VaultInv, TypeOK, Rewarded, Reward, policyVars,
       LedgersAgree, NothingLost
  <2>4. QED BY <2>2, <2>3 DEF IInv
<1>5. CASE Elapses \/ TerminalToggles
  <2>1. (Terminal \/ \E deadline \in Deadlines : Elapse(deadline))
          /\ UNCHANGED <<policyVars, reserve, inflow>>
    BY <1>5 DEF Elapses, TerminalToggles
  <2>2. VaultInv'
    BY <2>1, SmallStepsKeep DEF IInv
  <2>3. PolicyTypeOK' /\ LedgersAgree' /\ NothingLost'
    BY <2>1 DEF IInv, Terminal, Elapse, policyVars, LedgersAgree, NothingLost, vvvVars
  <2>4. QED BY <2>2, <2>3 DEF IInv
<1>6. QED BY <1>1, <1>2, <1>3, <1>4, <1>5

LEMMA NextKeeps == IInv /\ [Next]_vars => IInv'
<1> SUFFICES ASSUME IInv, [Next]_vars PROVE IInv'
  OBVIOUS
<1>1. CASE \E amount \in 1..MaxPrincipal : Allocate(amount)
  BY <1>1, AllocateStep
<1>2. CASE \/ Bind \/ AnnounceWinddown \/ BurnLateProduction \/ ReturnUnallocatedVVV
           \/ \E received \in 0..MaxProceeds : CashOutProduction(received)
           \/ \E vvvFloor, diemFloor \in 1..MaxFloor :
                RaiseMinimumOutputs(vvvFloor, diemFloor)
           \/ \E paused \in BOOLEAN : SetAllocationPaused(paused)
           \/ \E enabled \in BOOLEAN : SetAuthenticationEnabled(enabled)
  BY <1>2, PolicyStep
<1>3. CASE Passing(Recovery)
  BY <1>3, RecoveryStep
<1>4. CASE \/ Issue \/ GiveToVault \/ GiveToPolicy \/ Rewarded \/ Elapses
           \/ CadenceElapses \/ TerminalToggles \/ Distributes \/ UNCHANGED vars
  BY <1>4, OutsideStep
<1>5. QED BY <1>1, <1>2, <1>3, <1>4 DEF Next, Distributes

\* The invariant holds in every reachable state.
THEOREM Inductive == Spec => []IInv
BY InitIInv, NextKeeps, PTL DEF Spec

(********************************** The results *******************************)
\* Every variable keeps its type, for every bound: no balance is ever negative,
\* and the lifetime cap holds.
THEOREM Typing == Spec => []TypesOK
<1>1. IInv => TypesOK
  BY DEF IInv, VaultInv, TypesOK
<1>2. QED BY <1>1, Inductive, PTL

\* The calls of the recovery cannot be blocked for good.
THEOREM RecoveryIsOpen == Spec => []RecoveryNeverBlocked
<1>1. IInv => RecoveryNeverBlocked
  BY VaultInvIsEnough DEF IInv
<1>2. QED BY <1>1, Inductive, PTL

\* Inference is only ever authenticated on a fully staked position.
THEOREM ServiceIsBacked == Spec => []ServesOnlyWhileBacked
<1>1. IInv => ServesOnlyWhileBacked
  BY VaultInvIsEnough DEF IInv
<1>2. QED BY <1>1, Inductive, PTL

\* A closed vault has returned at least its whole principal.
THEOREM PrincipalReturns == Spec => []ClosedReturnsPrincipal
<1>1. IInv => ClosedReturnsPrincipal
  BY VaultInvIsEnough DEF IInv
<1>2. QED BY <1>1, Inductive, PTL

\* The ledgers of policy and vault agree.
THEOREM LedgersStayEqual == Spec => []LedgersAgree
<1>1. IInv => LedgersAgree
  BY DEF IInv
<1>2. QED BY <1>1, Inductive, PTL

\* Every VVV that came in is somewhere the project can reach.
THEOREM Conservation == Spec => []NothingLost
<1>1. IInv => NothingLost
  BY DEF IInv
<1>2. QED BY <1>1, Inductive, PTL

(********************************* Implementation *****************************)
LEMMA PromiseInit == Init => Promise!Init
BY DEF Init, VaultInit, Promise!Init, PhaseOf

\* An allocation is a commitment.
LEMMA AllocateCommits ==
  ASSUME IInv, NEW amount \in 1..MaxPrincipal, Allocate(amount)
  PROVE  Promise!Commit
<1>1. VaultAllocate(amount, amount * minDiemPerVVV)
  BY DEF Allocate
<1>2. /\ totalAllocated' = totalAllocated + amount
      /\ staked' = staked + amount
      /\ liquid' = liquid + rewards
      /\ rewards' = 0
      /\ UNCHANGED <<state, cooling, totalReturned>>
      /\ state = "Active"
      /\ amount <= MaxPrincipal - totalAllocated
  BY <1>1 DEF VaultAllocate, Position
<1>3. PhaseOf = "investing" /\ PhaseOf' = PhaseOf
  BY <1>2 DEF PhaseOf
<1>4. QED BY <1>2, <1>3 DEF IInv, VaultInv, TypeOK, Promise!Commit

\* Each call of the recovery is a step of the promise or leaves it alone.
LEMMA RecoveryPromised ==
  ASSUME IInv, Recovery
  PROVE  [Promise!Next]_Promise!vars
<1> DEFINE held == liquid + staked + cooling + rewards
<1>1. /\ held' + totalReturned' = held + totalReturned
      /\ totalReturned' >= totalReturned
      /\ totalAllocated' = totalAllocated
      /\ held \in Nat /\ held' \in Nat
  <2>1. VaultInv'
    BY RecoveryKeeps DEF IInv
  <2>2. QED BY <2>1, RecoveryMoves DEF IInv, VaultInv, TypeOK
<1>8. Promise!Deliver
  BY <1>1, SMT DEF Promise!Deliver, IInv, VaultInv, TypeOK
<1>2. CASE BeginDiemUnstake
  <2>1. state = "Notice" /\ state' = "DiemCooldown" /\ held' = held
        /\ totalReturned' = totalReturned
    BY <1>2 DEF BeginDiemUnstake, CanBeginDiemUnstake, vvvVars
  <2>2. Promise!Recover
    BY <1>1, <2>1 DEF Promise!Recover, Promise!Grows, PhaseOf
  <2>3. QED BY <2>2 DEF Promise!Next
<1>3. CASE ClaimDiemAndBeginVVVUnstake
  <2>1. state = "DiemCooldown" /\ state' = "VVVCooldown"
        /\ totalReturned' = totalReturned
    BY <1>3 DEF ClaimDiemAndBeginVVVUnstake, CanClaimDiemAndBeginVVVUnstake, UnstakeUnlocked
  <2>2. Promise!Receive
    BY <1>1, <2>1 DEF Promise!Receive, Promise!Grows, PhaseOf, IInv, VaultInv, TypeOK
  <2>3. QED BY <2>2 DEF Promise!Next
<1>4. CASE ClaimVVVAndReturn
  <2>1. state = "VVVCooldown" /\ state' = "Closed"
    BY <1>4 DEF ClaimVVVAndReturn, CanClaimVVVAndReturn
  <2>2. totalReturned' >= totalAllocated'
    <3>1. VaultInv'
      BY RecoveryKeeps DEF IInv
    <3>2. QED BY <2>1, <3>1 DEF VaultInv, PrincipalFollows
  <2>3. PhaseOf = "recovering" /\ PhaseOf' = "closed"
    BY <2>1 DEF PhaseOf
  <2>4. Promise!Close
    BY <1>1, <1>8, <2>2, <2>3 DEF Promise!Close
  <2>5. QED BY <2>4 DEF Promise!Next
<1>5. CASE RecoverDonatedStake
  <2>1. state = "Closed" /\ state' = "VVVCooldown" /\ totalReturned' = totalReturned
    BY <1>5 DEF RecoverDonatedStake, CanRecoverDonatedStake, UnstakeUnlocked
  <2>2. Promise!Recover
    BY <1>1, <2>1 DEF Promise!Recover, Promise!Grows, PhaseOf, IInv, VaultInv, TypeOK
  <2>3. QED BY <2>2 DEF Promise!Next
<1>6. CASE ClaimRewardsAndReturn \/ ReturnLiquidVVV
  <2>1. state' = state
    BY <1>6 DEF ClaimRewardsAndReturn, ReturnLiquidVVV
  <2>2. Promise!Return
    BY <1>8, <2>1 DEF Promise!Return, PhaseOf
  <2>3. QED BY <2>2 DEF Promise!Next
<1>7. QED BY <1>2, <1>3, <1>4, <1>5, <1>6 DEF Recovery

\* What else happens is a gift, a reward, or of no concern to the promise.
LEMMA OthersPromised ==
  ASSUME IInv,
         \/ GiveToVault \/ Rewarded
         \/ UNCHANGED <<state, totalAllocated, totalReturned, vvvVars>>
  PROVE  [Promise!Next]_Promise!vars
<1>1. /\ UNCHANGED <<state, totalAllocated, totalReturned>>
      /\ (liquid + staked + cooling + rewards)' >= liquid + staked + cooling + rewards
  BY DEF IInv, VaultInv, TypeOK, GiveToVault, Give, Rewarded, Reward, vvvVars
<1>2. Promise!Receive
  BY <1>1 DEF Promise!Receive, Promise!Grows, PhaseOf
<1>3. QED BY <1>2 DEF Promise!Next

LEMMA StepPromised == IInv /\ [Next]_vars => [Promise!Next]_Promise!vars
<1> SUFFICES ASSUME IInv, [Next]_vars PROVE [Promise!Next]_Promise!vars
  OBVIOUS
<1>1. CASE \E amount \in 1..MaxPrincipal : Allocate(amount)
  BY <1>1, AllocateCommits DEF Promise!Next
<1>2. CASE AnnounceWinddown
  <2>1. /\ state = "Active" /\ state' = "Notice"
        /\ UNCHANGED <<totalAllocated, totalReturned, vvvVars>>
    BY <1>2 DEF AnnounceWinddown, VaultAnnounceWinddown
  <2>2. Promise!Announce
    BY <2>1 DEF Promise!Announce, PhaseOf, vvvVars
  <2>3. QED BY <2>2 DEF Promise!Next
<1>3. CASE Passing(Recovery)
  BY <1>3, RecoveryPromised DEF Passing
<1>4. CASE \/ GiveToVault \/ Rewarded
  BY <1>4, OthersPromised
<1>5. CASE \/ Bind \/ BurnLateProduction \/ ReturnUnallocatedVVV
           \/ \E received \in 0..MaxProceeds : CashOutProduction(received)
           \/ \E vvvFloor, diemFloor \in 1..MaxFloor :
                RaiseMinimumOutputs(vvvFloor, diemFloor)
           \/ \E paused \in BOOLEAN : SetAllocationPaused(paused)
           \/ \E enabled \in BOOLEAN : SetAuthenticationEnabled(enabled)
           \/ Issue \/ GiveToPolicy \/ Elapses \/ CadenceElapses \/ TerminalToggles
           \/ Distributes \/ UNCHANGED vars
  <2>1. UNCHANGED <<state, totalAllocated, totalReturned, vvvVars>>
    BY <1>5 DEF Bind, BurnLateProduction, ReturnUnallocatedVVV, CashOutProduction,
       RaiseMinimumOutputs, SetAllocationPaused, SetAuthenticationEnabled,
       VaultSetAuthenticationEnabled, Issue, GiveToPolicy, Elapses, Elapse,
       CadenceElapses, TerminalToggles, Terminal, Distributes, DistributeProduction, vars,
       vaultVars
  <2>2. QED BY <2>1, OthersPromised
<1>6. QED BY <1>1, <1>2, <1>3, <1>4, <1>5 DEF Next, Distributes

\* Policy and vault, with Venice and everybody else around them, implement
\* Custody: commitments end with the announcement and stay under the cap, and
\* a closed endowment has given back at least what was committed.
THEOREM Implements == Spec => PromiseKept
BY Inductive, PromiseInit, StepPromised, PTL DEF Spec, PromiseKept, Promise!Spec

(******************************* The keeper's plan *****************************)
\* Rewards accrue to a stake and are paid out before the last of it leaves; and a
\* closure is announced of a bound policy only.
PaidOut == (staked = 0 => rewards = 0) /\ (windingDown => bound)

LEMMA PaidOutStep ==
  ASSUME IInv, PaidOut, [Next]_vars
  PROVE  PaidOut'
<1>1. IInv'
  BY NextKeeps
<1>2. /\ {staked, rewards, locked, debt, staked', rewards'} \subseteq Nat
      /\ locked <= staked
  BY <1>1 DEF IInv, VaultInv, TypeOK, PrincipalFollows
<1>3. windingDown' => bound'
  BY DEF PaidOut, Next, vars, policyVars, Bind, Allocate, AnnounceWinddown, BurnLateProduction,
     CashOutProduction, RaiseMinimumOutputs, SetAllocationPaused, SetAuthenticationEnabled,
     ReturnUnallocatedVVV, Passing, Issue, GiveToVault, GiveToPolicy, Rewarded, Elapses,
     CadenceElapses, TerminalToggles, DistributeProduction
<1>4. CASE UNCHANGED <<staked, rewards>>
  BY <1>3, <1>4 DEF PaidOut
<1>5. CASE rewards' = 0
  BY <1>3, <1>5 DEF PaidOut
<1>6. CASE staked' > 0
  BY <1>2, <1>3, <1>6 DEF PaidOut
<1>7. CASE Passing(Recovery)
  <2>1. CASE ClaimDiemAndBeginVVVUnstake
    <3>1. rewards' = 0 \/ UNCHANGED <<staked, rewards>>
      BY <1>2, <2>1 DEF ClaimDiemAndBeginVVVUnstake, UnstakeUnlocked
    <3> QED BY <1>4, <1>5, <3>1
  <2>2. CASE RecoverDonatedStake \/ ClaimRewardsAndReturn
    BY <1>5, <2>2 DEF RecoverDonatedStake, ClaimRewardsAndReturn
  <2>3. CASE BeginDiemUnstake \/ ClaimVVVAndReturn \/ ReturnLiquidVVV
    BY <1>4, <2>3 DEF BeginDiemUnstake, ClaimVVVAndReturn, ReturnLiquidVVV, vvvVars
  <2> QED BY <1>7, <2>1, <2>2, <2>3 DEF Passing, Recovery
<1>8. CASE \E amount \in 1..MaxPrincipal : Allocate(amount)
  BY <1>5, <1>8 DEF Allocate, VaultAllocate, Position
<1>9. CASE GiveToVault \/ Rewarded
  BY <1>2, <1>4, <1>5, <1>6, <1>9 DEF GiveToVault, Give, Rewarded, Reward
<1>10. CASE \/ Bind \/ AnnounceWinddown \/ BurnLateProduction \/ ReturnUnallocatedVVV
            \/ Issue \/ Distributes \/ CadenceElapses \/ UNCHANGED vars
            \/ \E received \in 0..MaxProceeds : CashOutProduction(received)
            \/ \E vvvFloor, diemFloor \in 1..MaxFloor : RaiseMinimumOutputs(vvvFloor, diemFloor)
            \/ \E paused \in BOOLEAN : SetAllocationPaused(paused)
  BY <1>4, <1>10 DEF Bind, AnnounceWinddown, VaultAnnounceWinddown, BurnLateProduction,
     ReturnUnallocatedVVV, Issue, CadenceElapses, CashOutProduction, RaiseMinimumOutputs,
     SetAllocationPaused, Distributes, DistributeProduction, vars, vaultVars, vvvVars
<1>11. CASE \/ GiveToPolicy \/ Elapses \/ TerminalToggles
            \/ \E enabled \in BOOLEAN : SetAuthenticationEnabled(enabled)
  BY <1>4, <1>11 DEF GiveToPolicy, Elapses, Elapse, TerminalToggles, Terminal,
     SetAuthenticationEnabled, VaultSetAuthenticationEnabled, vvvVars
<1> QED BY <1>7, <1>8, <1>9, <1>10, <1>11 DEF Next, Distributes

\* The plan and the contracts judge the same balances alike.
LEMMA PlanFits ==
  ASSUME IInv, PaidOut
  PROVE  ClosureNeverStuck
<1> SUFFICES ASSUME windingDown, state # "Closed" \/ reserve # inflow,
                    \A deadline \in Deadlines : ~ Waiting(deadline)
             PROVE  PlanGoesThrough
  BY DEF ClosureNeverStuck
<1>1. bound /\ Remaining = 0 /\ state \in {"Notice", "DiemCooldown", "VVVCooldown", "Closed"}
  BY DEF PaidOut, Remaining, IInv, VaultInv, TypeOK, States, LedgersAgree
<1>2. /\ {policyVVV, production, pending, liquid, staked, cooling, rewards, reserve, inflow} \subseteq Nat
      /\ {diem, diemStaked, diemCooling, debt, locked} \subseteq Nat
  BY DEF IInv, VaultInv, TypeOK, PolicyTypeOK
<1>3. ~ Waiting("notice") /\ ~ Waiting("diem") /\ ~ Waiting("vvv")
  BY DEF Deadlines
<1>4. CASE state = "Notice"
  <2>1. "notice" \in elapsed /\ diemCooling = 0
    BY <1>3, <1>4 DEF Waiting, IInv, VaultInv, DebtFollows
  <2>2. Plan = "begin_diem_unstake"
    BY <1>4, <2>1 DEF Plan, LifecycleStep, RunsOut
  <2> QED BY <1>1, <1>4, <2>1, <2>2 DEF PlanGoesThrough, CanBeginDiemUnstake
<1>5. CASE state = "DiemCooldown"
  <2>1. diemCooling # 0 => "diem" \in elapsed
    BY <1>3, <1>5 DEF Waiting
  <2>2. diemStaked = 0 /\ diemCooling = debt /\ (debt = 0 => locked = 0) /\ cooling = 0
    BY <1>5 DEF IInv, VaultInv, DebtFollows, PrincipalFollows
  <2>3. diem + diemCooling >= debt
    BY <1>2, <2>2
  <2>4. Plan = "claim_diem_begin_vvv_unstake"
    BY <1>5, <2>1 DEF Plan, LifecycleStep, RunsOut
  <2> QED BY <1>1, <1>5, <2>1, <2>2, <2>3, <2>4
          DEF PlanGoesThrough, CanClaimDiemAndBeginVVVUnstake
<1>6. CASE state = "VVVCooldown"
  <2>1. cooling # 0 => "vvv" \in elapsed
    BY <1>3, <1>6 DEF Waiting
  <2>2. Plan = "claim_vvv_return"
    BY <1>6, <2>1 DEF Plan, LifecycleStep, RunsOut
  <2> QED BY <1>1, <1>6, <2>1, <2>2 DEF PlanGoesThrough, CanClaimVVVAndReturn
<1>7. CASE state = "Closed"
  <2>1. locked = 0 /\ cooling = 0 /\ policyVVV + liquid + staked + rewards # 0
    BY <1>2, <1>7 DEF IInv, VaultInv, DebtFollows, PrincipalFollows, NothingLost
  <2>2. CASE staked > 0
    <3>1. staked - locked > 0
      BY <1>2, <2>1, <2>2
    <3>2. Plan = "recover_donated_stake"
      BY <1>7, <3>1 DEF Plan, LifecycleStep
    <3> QED BY <1>1, <1>7, <2>1, <3>1, <3>2 DEF PlanGoesThrough, CanRecoverDonatedStake
  <2>3. CASE staked = 0
    <3>1. LifecycleStep = "none" /\ InvestingStep = "none"
      BY <1>7, <2>1, <2>3 DEF LifecycleStep, InvestingStep
    <3>2. Plan = HousekeepingStep
      BY <3>1 DEF Plan
    <3>3. rewards = 0 /\ (policyVVV > 0 \/ liquid > 0)
      BY <1>2, <2>1, <2>3 DEF PaidOut
    <3> QED BY <1>1, <1>2, <3>2, <3>3 DEF PlanGoesThrough, HousekeepingStep, Late
  <2> QED BY <1>2, <2>2, <2>3
<1> QED BY <1>1, <1>4, <1>5, <1>6, <1>7

\* From the announcement of a closure until everything is home, the keeper has a
\* deadline to wait for or a call the contracts accept: the safety half of
\* ClosureCompletes and EverythingComesBack.
THEOREM ClosureGoesOn == Spec => []ClosureNeverStuck
<1>1. Init => PaidOut
  BY DEF Init, VaultInit, PaidOut
<1>2. IInv /\ PaidOut /\ [Next]_vars => PaidOut'
  BY PaidOutStep
<1>3. IInv /\ PaidOut => ClosureNeverStuck
  BY PlanFits
<1> QED BY <1>1, <1>2, <1>3, Inductive, PTL DEF Spec
==============================================================================
